# A verification model of ArxHub

ArxHub is a local-first knowledge hub: files live on the device, devices keep
one vault in step through a remote that is only asked to store objects and to
swap one pointer, and the vault's key never leaves the devices of its owner.
This directory holds TLA+ modules translated from the code that does this, TLC
configurations that check them on small instances, and proofs that TLAPS checks
for every instance. Paths below are relative to `src/`.

Modelled are the synchronisation of vaults (`packages/sync`, `plugins/sync`),
the pairing of devices (`plugins/protection/src/pairing`), the lock of a device
and its first run (`plugins/keystore`, `plugins/protection/src/entry`), the
search index (`plugins/search`, `packages/sql`) and settings
(`packages/config`, `plugins/settings`).

Contents:

1. [The system](#1-the-system): components, state, interactions, what is hard
2. [The modules](#2-the-modules) and the code they model
3. [The runs](#3-the-runs): what each shows, its bounds, why they are enough
4. [Fairness](#4-fairness)
5. [The proofs](#5-the-proofs)
6. [Disagreements found](#6-disagreements-found)
7. [What is not modelled](#7-what-is-not-modelled)
8. [Plan](#8-plan)

To run it: `tlc -config SyncMerge.cfg MCSyncEngine`, `tlapm SyncEngineProofs.tla`.

## 1. The system

A small core boots plugins (`setup`, `create`, `configure`, `start`, `stop`) which talk
to each other through registered extensions. The logic that carries the
product's promise -- no edit is lost, devices converge, a bad server is noticed,
the phrase is nowhere in the clear -- is in a few packages and the plugins that
drive them.

| Component | Keeps | Operations | What must hold |
|---|---|---|---|
| **Repo** `packages/sync/src/repo.ts`, `checkout.ts` | working tree; `/repo/{head,snapshots,chunks,changes,index,last-synced}`; checkout index in memory | `add`, `status`, `snapshot`, `merge`, `rebase`, `materialize`, `exclusive` | a chain has no holes; a file left in the cloud is not a deleted file; a recorded version is never orphaned |
| **SyncEngine** `packages/sync/src/engine.ts` | nothing of its own beyond a lock | `sync` (= rounds with bounded retry), `fetch`, `push`, `materialize` | what is published is the three-way merge on top of what was published; the anchor only moves after the head it names is published |
| **Snapshot chains** `types/snapshot.ts`, `snapshot-hash.ts` | - | hashing, ancestry, base, replay | the base is the fork; replay keeps every checkpoint |
| **FileHistory** `packages/sync/src/file-history.ts` | - | `save` records checkpoints between rounds | a save is always publishable |
| **Remotes** `remote/vfs-sync-remote.ts`, `server.ts` | objects; one head | `getHead`, `setHead` (compare-and-swap), `get/put` | an object is complete or absent; the head never names what is not there |
| **SyncExtension** `plugins/sync/src/sync-extension.ts` | engine, status, current round, first download and its hooks | `sync`, `downloadVault`, `expectInitialDownload`, `refreshPending` | one round at a time; the download screen neither hangs nor claims a vault that has not arrived |
| **SyncPlugin** `plugins/sync/src/sync-plugin.ts`, `entry-server.ts` | `lastServerUrl`, `bootConfigPending`, timer, bring-up in flight | `startSync`, `applyConfig`, `adoptEntryServer`, `finishJoin`, `stop` | the latest save wins over what the boot read; nothing comes up after `stop` |
| **Pairing relay** `plugins/protection/src/pairing/relay.ts` | invitations by id and by code, expiry | create, view, claim, nonce, reveal, deliver, ack, cancel, sweep | an invitation is used once, by one device; a code finds the open invitation it was given to |
| **Pairing clients** `pairing/pairing-client.ts` | runs of polls, keys, nonces, digits, an abort signal each | `start`, `confirm`, `cancel` of host and joiner | the phrase is opened only on both owners' word; no poll for ever |
| **Device lock** `plugins/keystore/src/device-lock.ts` | one secret, salt, verifier, shape marker; the same staged | enable, change, disable, promote, erase | an interruption leaves a device that opens with one code and has its phrase |
| **Device entry** `plugins/protection/src/entry`, `gate`, `security` | entry record; the flow's fields; the store the app was given | decide at boot, new vault, join, unlock, set a code, security page | no phrase in the clear where locks are required; nobody joins a vault that was not found |
| **IndexQueue** `plugins/search/src/index-queue.ts` | two sets of paths, a timer, the drain | `push`, `flush`, `dispose` | no change of a path is lost to a drain |
| **Indexer** `packages/sql/src/indexer.ts` | rows, a cursor, the walk under way | `indexAll`, `indexPath`, `removePath`, `reindex`, `cancel` | a full walk repairs whatever was left |
| **SearchPlugin** `plugins/search/src/search-plugin.ts` | index, queue, subscription | bring-up, settings, rebuild, `stop` | a stop leaves nothing at work |
| **PluginConfig** `packages/config/src/plugin-config.ts` | a section in a synced and a device's file; a hold | `read`, `write` with its rollback, `hold` | a write moves only what it was told to; a failed one leaves what was there |
| **Settings forms** `plugins/settings/src` | a draft per section, pending changes | edit, commit, `saveAll`, `revertAll` | a change is pending until it is on file |
| **Repository plugin** `plugins/repository` | memoised preparation, materialize policy | `ready`, storage mutations under `Repo.exclusive` | everybody waits for the preparation |
| **Core** `packages/core/src/arxhub.ts` | plugins and their contexts | `start`, `stop` | a failure in one plugin's `start` stops none of the others |
| File systems, request authentication, shell, documents and editors, queries, AI workspace, publish, budget, theme and hotkeys, foundations, instances | see `PROJECT.json` | | |

### How they interact

```
 decide at boot: device lock, entry record --store--> the app --boots--> plugins
 first run, inviting device <--calls--> relay <--calls--> first run, new device

 settings file --notifyWritten--> SyncPlugin.applyConfig --+
 boot: repository.ready -> tryRead -> adoptEntryServer ----+--> SyncExtension.engine
 timer, foreground, user, first download --sync()----------+--> SyncEngine.sync
                                                                   |
  users, FileHistory.save --Repo.exclusive--> Repo <--exclusive----+----> remote
        |                                (journal, tree)         objects, CAS of the head
        +--VFS watcher--> IndexQueue --drain--> Indexer <--walk-- SearchPlugin
```

The journal (`/repo/changes`) is how a write reaches a round: the round only
looks at names the head lists and names in the journal. The head of the last
confirmed round (`/repo/last-synced`) is how a rollback of the remote is
noticed. The compare-and-swap token is the head read at the start of the round.

### What is hard here

- A round awaits the disk or the network dozens of times. Other devices push in
  between, users write before and after its exclusive part, and it can end
  anywhere: tree, index, head, anchor and remote are then of different rounds.
- Deletion is an absence, and absence has other causes: the policy left the file
  in the cloud, a merge did not finish, an index was not flushed.
- The answer of a successful `setHead` can be lost.
- `SyncPlugin` and `SyncExtension` share a status, an engine reference and a
  config across awaits: a boot, a save, the timer, the foreground, a join and a
  stop each read it before an await and act on it after.
- Two devices and a relay that forgets poll one invitation; a call may be
  dropped, or arrive after its sender has given up, and an owner may close a
  screen at any point.
- Web Storage has no transactions: re-encrypting a device is a sequence of
  writes, and the app may be killed between any two of them.
- The walk over the vault and the drain of changed paths work on one table, each
  deciding by what it read some awaits ago.
- One section of settings is two files, written one after the other while a
  plugin or a sync round writes them too.

`PROJECT.json` lists the hazards one by one, with the line where each bites and
the properties that would notice it.

## 2. The modules

| Module | Models | Extends |
|---|---|---|
| `Snapshots` | manifests, snapshots, ancestry, base, replay, building a snapshot: pure operators | |
| `SharedHistory` | the abstract promise: one history that only grows at its end, of which each device has confirmed a beginning | |
| `SyncEngine` | devices with a Repo and a SyncEngine each, and a remote | `Snapshots` |
| `SyncSession` | when rounds run on one device: SyncPlugin, SyncExtension, the first download | |
| `PairingRelay` | the relay's handlers, as operators from a relay to a relay and an answer | |
| `Pairing` | the inviting device, the new ones, the network between them and the relay | `PairingRelay` |
| `DeviceLock` | the key store and the lock over it, as plans of writes | |
| `DeviceEntry` | what runs before the app, the first run, the gates, the security page, and kills | `DeviceLock` |
| `SearchIndex` | queue, walk, drain, rebuilds and the plugin's life over one table | |
| `Settings` | the two files of a section, forms, pending changes, and other writers | |
| `MCSyncEngine`, `MCSyncSession`, `MCPairing`, `MCDeviceEntry`, `MCSearchIndex`, `MCSettings` | instances for TLC | the above |
| `SyncEngineProofs` -> `SyncHistoryProofs` -> `SyncContentProofs` | theorems about `SyncEngine`, one layer on the other | |
| `SyncSessionProofs` | theorems about `SyncSession` | |
| `PairingProofs` | what every handler of the relay keeps; theorems about `Pairing` | |
| `DeviceEntryProofs` | theorems about `DeviceEntry`, its lock included | |
| `SearchIndexProofs` | theorems about `SearchIndex` | |
| `SettingsProofs` | theorems about `Settings` | |

An operator whose comment begins "A form that would ..." or "Mutant for ..." is
not used by the specification. It is a plausible wrong version of the operator
below it, kept to show that the properties tell the two apart: put in its place,
it makes the property named in `PROJECT.json` fail.

### Snapshots

The code addresses a snapshot by a hash over its manifest and its parent's
address. Two snapshots have one address exactly when their manifests agree down
to the empty root, so a snapshot *is* here the sequence of manifests from the
root: parent is `Front`, ancestor is prefix. `findBaseSnapshot` and `isAncestor`
walk through a store and stop at what it lacks. `replay` and the base are given
in closed form; the loops of the code are in `MCSyncEngine` and compared with
them on every pair of chains a rebase meets (`ClosedFormsAgree`). `sameEntry` compares
content and not file id, as the code does; a replayed snapshot therefore has the entry
of the last local one that touched the name (`LastTouch`), id included. File contents are abstracted to model
values: a content is its own hash and its own single chunk.

### SyncEngine

| Variable | In the code |
|---|---|
| `tree` | the working tree, per device and name |
| `head`, `snapshots`, `chunks`, `changes`, `index`, `lastSynced` | the files under `/repo` |
| `checkout` | `Checkout` in memory: names with a known stat, names left in the cloud (`pending`) |
| `pc`, `round` | where `SyncEngine.syncOnce` is, and its locals: the head read, the first snapshot, what is pushed, the names still to merge, the attempt |
| `remoteHead`, `remoteSnapshots`, `remoteChunks` | the remote's objects |
| `edits`, `faults`, `rollbacks` | bounds |
| `deleted` | the names a user has deleted; only properties read it |

A round is `startRound` (prepare, read the remote head and the anchor) ->
`fetchSnapshot`* -> `fetchChunk`* -> `fetched` or `refuseRemote` ->
`snapshotLocal` -> one merge action per name -> `mergeDone` (flush) -> `rebase`
-> `snapshotMerged` -> `pushChunk`* -> `pushSnapshot`* -> `setHead` ->
`writeAnchor`; `syncHeadMoved` starts it over at most `MaxRetries` attempts.
Every step boundary is an await at which another device, a user, a failure or a
crash can get in. Merge is split by name because each file it writes is such an
await; the action's guard says which case of `Repo.merge` it is.

Users write (`Write`), delete (`Delete`), save through `FileHistory` (`save`,
which records one or two checkpoints) and open files left in the cloud
(`materialize`). They do not get in while the round holds `Repo.exclusive`.
`requestFails`, `answerLost`, `crash` and `rollBack` are what goes wrong: a
crash loses the memory (`checkout` falls back to `index`), a lost answer moves
the remote head and ends the round.

Abstractions: one Repo instance per device; a file is one chunk and is written
in one step, its journal entry with it; conflict copies have the name `copyOf[n, c]`;
a content merge may produce any content; a materialize policy is a set of names it
declines.

### SharedHistory and the refinement

`ImplementsSharedHistory` is `History!Spec` with `log <- Tip(remoteHead)` and
`confirmed <- Tip(lastSynced[d])`. It says three things of the system at once:
the published history only grows at its end, a device's anchor is always on it,
and an anchor never goes back. It needs a remote that is not rolled back.

### SyncSession

| Variable | In the code |
|---|---|
| `cfg`, `entry` | `serverUrl` in the settings; the entry record's kind |
| `phase` | `stopping` and whether `stop()` has answered |
| `prepared` | `RepositoryExtension.preparation`, memoised |
| `bringUp` | where `startSync` is, and what it read |
| `bootConfigPending`, `lastServerUrl`, `armed` | the plugin's fields, and its timer |
| `saving` | a save that is in the file and not yet with its watcher |
| `ext` | `SyncExtension`: `engine`, `status`, `round`, hooks, `initialDownload`, where `downloadVault` waits; `rounds` are the promises that have not settled |
| `landed`, `ext.owed`, `ext.overwritten` | only properties read them |

JavaScript runs to the next await, so an action is the code between two awaits.
`sync`, `downloadVault`, `rebuilt`, `settled` are functions of the extension's
state, and the actions compose them as the code calls them. `applyConfig` has no
await: the promise chain it is queued on never holds more than the one applying.
A round is opaque here; what it does is `SyncEngine`'s. A round may bring other
settings (`Brought`), since the settings are part of the vault.

### Pairing

| Variable | In the code |
|---|---|
| `relay` | `PairingRelay`'s two maps: invitations by id, ids by code |
| `host`, `loop[r]`, `sending[r]` | `PairingHost`: its fields and screen; where run `r` of `start` awaits; `confirm`'s own call |
| `joiner[j]` | `PairingJoiner`: its fields, its one loop, its screen, and the entry flow's part (digits confirmed, phrase shown) |
| `adrift` | calls nobody awaits: deletes, and requests whose caller gave up before they arrived |
| `faults` | bound |

A call is three steps -- made, served, answered -- and the others move between
them. `ServeLoop`, `ServeSend`, `ServeJoiner` and `ServeAdrift` let the relay
answer; `Drop*` lets the network lose a call before or after it arrived, or keep
it for later; `Limit` is the answer 429; `Expire`, `Sweep` and `RelayRestarts` are
the relay's clock and its memory. `HostRuns` and `JoinerRuns` are the code between
two awaits of each poll (`Created`, `Viewed`, `NonceSent`, `Sent`; `Claimed`,
`JoinerViewed`, `Revealed`, `Acked`). The owners start, confirm, refuse, cancel
and close. An aborted run goes on where it awaits, as in the code: only `pause`
and the handling of a failure look at the signal.

Keys, nonces and tokens are named after who made them; digits are the set of
keys and nonces they are computed from; a ciphertext names the keys it is sealed
between. Cryptography does what it promises.

### DeviceLock and DeviceEntry

| Variable | In the code |
|---|---|
| `store`, `staged` | Web Storage: the secret, `salt`, `check`, `shape`; the same under `STAGING_PREFIX` |
| `salts` | bound; a salt is the number of its drawing |
| `device`, `record` | the build (lock required, server fixed); the entry record |
| `app`, `flow` | what is on screen and the store the app was given; `EntryFlow`'s fields |
| `job` | the writes under way, and what they lead to |
| `past` | what has happened; only properties read it |

Each operation on the lock is a plan, a set of writes each with its turn: those of
one turn land in the order the storage lists names, hence in any, and a later turn
waits (`Due`). `Write` lands one; `Kill` ends the app between any two and leaves the rest
undone; `Boot` is `resolveDeviceEntry` on what is found. Web Storage answers at
once, so no other tap comes between the writes of one tap. Servers and the
inviting device answer later (`ServerAnswers`, `PayloadArrives`), when the
screen may show something else. A sealed value names its code and its salt:
whether it opens is a comparison.

### SearchIndex

| Variable | In the code |
|---|---|
| `vault`, `row`, `cursor` | what `head` and `read` answer; the document table; the walk's cursor in `index_meta` |
| `saved`, `app` | `exclude` in the file; `SearchPlugin` and `SearchExtension`: bring-up, stop, the captured settings |
| `queue`, `drain` | `IndexQueue`: the two sets and the timer; the pass and the paths taken |
| `walk`, `job` | the walk's variables and waiting rebuilds; where walk and drain are in `indexFile` |
| `past` | what has happened; bounds and properties read it |

`indexFile` is `Head` -> `State` -> `Read` -> `Store`, each an await at which the
vault (`Write`, `Delete`, `Rename`), the other job, a rebuild, a save or a stop
gets in. `Lifecycle` is the plugin's boot (`Start` to `BootEnds`), `stop` (mark,
wait for the boot, tear down, cancel the walk, close) and kills. Every await may
fail. A removed folder removes what is under it. One query runs at a time.

Three parts of `past` are what the properties speak of: `drained`, what the drain
has brought up to date and no walk has touched since; `met`, what walk and drain
have held at one time; `crossed`, what is indexed while the removal of a folder
above it waits for the next pass. `calm` says that vault and saved setting have
been at rest since the walk began, and that it goes by that setting.

### Settings

| Variable | In the code |
|---|---|
| `files`, `arriving` | a section's two files; what a renamed bucket will bring while reads are held |
| `page`, `staged` | the form's base, draft and touched keys; the pending change |
| `run` | `saveAll`: whether it is at work, what is left, what failed |
| `writes` | where the write of a save, and that of a plugin, are |
| `crossed` | sections in which two writers have met; only properties read it |

`write` is `capture` -> read, then write the device's file -> read, then write the
synced one -> `notifyWritten`, with `restore` when the second half fails; each is
a request another writer or a sync round (`RoundBrings`) may get in before. A
merged section is "the owner always wins; the other file answers for a key it
lacks": either file may say any setting of its section, since it may be an earlier
version's, in which a key was on the other side. A section that has no key of the
device reads and writes the synced file alone.

## 3. The runs

| Run | Question | Instance | States |
|---|---|---|---|
| `sync_merge` | Is what a round publishes the three-way merge, on top of what was there, with every recorded version and the anchor kept, and do the closed forms agree with the loops? | two devices, one file, three edits or deletions, or two and one rollback of the remote; both users delete | 676,251 |
| `sync_live` | Do stores stay closed, can every push be finished, is nothing left in the cloud taken for deleted, are rollback alarms real, is the history implemented, and does everything come to rest in step? | from empty devices or from a shared first file, which `b` declines; two edits, one deleting user, one fault, mergeable contents | 190,516 |
| `session` | One round at a time, the latest save wins, stopped stays stopped, the download screen never hangs, every remote gets a round? | set up, connecting or joining; two addresses, three saves, one restart; every operation may fail | 310,917 |
| `pairing` | Is the phrase opened only on both words, is an invitation one device's, do all polls end? | one code, two invitations, two new devices; one mishap of any kind | 193,153 |
| `device_entry` | Is a device never left with a phrase in the clear, unreadable, or unseen, and does it only join what it checked? | one phrase made here and two of other vaults, a code of each length, two servers, two salts; one kill; builds with and without locks and a fixed server; devices that were set up under older rules | 4,126,898 |
| `search_index` | Does a stop leave nothing at work, does a drain lose no change, does a full walk repair all? | two files, a folder with one of them, a checkpoint per file; two changes of the vault, one event | 6,652,513 |
| `settings` | Does a write move only what it lists, and is a change pending until it is on file? | a section over both files and one of one file, two values; files as this version or one with a key on the other side left them; two edits, one other writer, one failing request | 2,790,794 |
| `sync_both_delete`, `session_first_download`, `search_index_twice`, `device_entry_skip`, `settings_migration` | see [section 6](#6-disagreements-found) | | |

### What the properties say

- `MergeOutcome`: whatever lies between -- tree, journal, index, replay, second
  snapshot -- the pushed manifest has for every name what the three-way merge of
  base, local and remote says, and a conflict copy of what both devices edited.
- `VersionsKept`: no step takes a version out of a device's history; `rebase`
  gives the offline checkpoints new addresses and keeps them.
- `PublishesOnTop`: the pushed head descends from the head the round read, so
  the compare-and-swap cannot drop another device's work. (`RemoteOnlyGrows`,
  proved, follows; `ImplementsSharedHistory` contains it.)
- `RemoteClosed`, `LocalClosed`: an interrupted push or fetch leaves neither a
  child without its parent nor a head without its snapshot.
- `Publishable`: a push never owes a chunk that its own device lacks, also for
  files left in the cloud (their chunks are at the remote already).
- `OnlyUsersDelete`: a name leaves the published vault only if a user deleted it.
- `AnchorKept`, `NoFalseAlarm`: a rollback is refused by every device that
  confirmed more, and a remote that was not rolled back is never accused.
- `SettlesInStep`: once users have stopped, every device ends with the remote's
  head and files, up to what it leaves in the cloud -- and, see section 6, up to
  a deletion that a fault has cut off.
- `OneRound`, `LatestConfigApplied`, `StoppedStaysDown`, `DownloadSettles`,
  `EveryRemoteIsSynced`: as their comments in `SyncSession` say. `OneRound` is scoped:
  it excepts the time from a failed bring-up that sets the status to `error` over a
  running round until no round runs any more (`RoundsNeverOverlap`, section 6).
- `CodesConsistent`: a code that is drawn again while the tombstone of its first
  invitation is kept names the new one, and sweeping the old one leaves it so.
- `DigitsAgree`: a nonce that is sent twice, its first call dropped, does not make
  two honest screens show different digits. It is stated of digits that come of
  one run's fields (`OfOneRun`), which with two runs they always do; with three,
  section 6 says how the code can mix them.
- `HandedOnBothWords`, `DoneMeansOpened`, `OneClaimant`: with two devices at one
  invitation, repeated claims and late calls, the phrase is opened by the device
  both owners have confirmed, and "done" on the first device is true.
- `PollsEnd`: with owners that do nothing and calls that vanish, expiry ends
  every loop.
- `ReservedEntriesTrue`, `LockKept`, `PhraseRecoverable`, `PhraseNeverInClear`:
  what the reserved entries say of a store is so between any two writes; an
  operation that ran to its end leaves a readable device; one that did not still
  has the phrase and the salt; where locks are required no write is plain.
- `CheckedWhatIsEntered`, `JoinsWhatItChecked`: a late answer about an earlier
  address is not shown under another, and a device only owes a first download to
  a vault that was found under the phrase it holds, or that was handed to it.
- `PhraseSeen`: a new vault's phrase was on screen before the app runs on it.
- `StopLeavesNothing`: a stop that meets a bring-up, a walk or a drain leaves
  neither a subscription nor work on a closed index.
- `DrainCatchesUp`, `WalkLevels`: a change in the middle of a drain is taken by
  that drain or the next (but for `crossed`, section 6); a full walk, also one
  resumed after a kill, levels whatever failures have left.
- `MovesOnlyWhatItLists`, `PendingUntilWritten`: across the two files, their
  rollback and other writers, a save changes what its list named and a pending
  change is cleared only once it reads back. A setting that has changed sides is
  excepted where a write has no value for it (`MovedKeyIsMigrated`, section 6).

### The bounds, and why they are enough

- *Two devices.* The compare-and-swap, a merge and an anchor relate a device to
  the remote; a third device can only be the other's predecessor, which a second
  round of the other is too. The proofs have no such bound.
- *One file, with its conflict copies.* Merge, status and replay treat names
  independently except for renames (file ids) and for copies, which are names of
  their own in the instance.
- *Two contents, two or three edits.* Enough for a conflict (both edit), an
  edit against a deletion, both deleting, and a third edit that lands while the
  loser of a race retries. With the first edit shared (`SyncedInit`), two edits
  reach all of these but the last.
- *`SyncedInit`* is the state `Init` leads to after one write and one round of
  each device; starting there spends the bounds on what comes after.
  `sync_live` starts from nothing too (`NewInit`).
- *`MaxRetries = 2`*: once to lose a race and start over, once more to give up;
  the third attempt the code allows repeats the first case. The proofs have no
  such bound.
- *One fault* (`sync_live`) *or one rollback* (`sync_merge`), at any step. Behaviours
  with a rollback have one edit less (`EditsOrRollbacks`): devices that go on from an
  older head take its place.
- *Three rounds that have not settled* at one time: one running, and two whose
  `refreshPending` is still under way. Rounds that only have to settle do
  nothing but free what waits for them, so while there are three of them a new
  round waits for one to settle.
- *Three saves, one restart*: a save that overtakes the boot's read, and more
  after it, in the first or the second session, also of a boot that fails.
- *Two invitations, two new devices, one code*: an invitation that follows a
  cancelled or expired one under the same code, a second device at an invitation
  that has been claimed, and nothing else relates parties. Invitations that run
  beside each other only share the rate limits. `OneMishap` (`MCPairing`) allows
  one of: a fault, a screen closed, an owner who cancels, a second device, a
  second invitation -- wherever it hits; expiry comes on top.
- *Two phrases of other vaults, two servers*: a check of one that is answered
  after the other was entered. They are alike (`SYMMETRY Alike`, no liveness in
  that run). A code of each length is what the marker tells apart. Two salts: a
  lock from before, and one change of it; salts are not compared for order. One
  kill, after which the device starts again and goes through everything. The
  proofs have none of these bounds, and a second kill does matter: an erase that
  follows a change cut short, killed itself when it had only dropped the staged
  half, leaves a phrase without its salt. What an erase has touched is therefore
  counted from its first write, staged entries too (`past.torn`).
- *Two files, a folder with one*: the walk, the drain and a folder's removal on
  one path, while the other path is what the checkpoint and the resumption are
  about. Two changes make the history `ReadTwiceIsHarmless` fails on. One event:
  a failure, a save, a rebuild, a stop or a kill, at any await. The proofs have
  none of these bounds, and two of them hid something: three changes take a file
  away from the index (`RewrittenIsFound`, section 6), and four events let a walk be
  resumed under another `exclude` than it began with, which then skips what the
  first one left out. `calm` therefore asks that the setting rests too.
- *A section with a key in each file, and a second section*: rollback needs two
  files, the order and the failure of `saveAll` two sections. What another
  device brings is one write, of either key, at any request. `Versions` lists what
  the files may be: none, a synced file on a new device, both, and, for a key of
  each side, files in which it still is on the other.

`CHECK_DEADLOCK FALSE` stands where the system really may stop: a device that
refuses a rolled back remote (`sync_merge`), an app that has been stopped and is
not started again (`session`, `search_index`), a pairing that is over, a device
that is set up, locked and left alone (its salts are used up), settings that
have been saved. In `sync_live` the devices go on running rounds for ever and deadlock
is checked.

## 4. Fairness

`SyncEngine` asks for weak fairness of a device's round as a whole, and no more:
`SyncExtension` starts rounds from a timer for as long as the program runs
(`sync-extension.ts`, `sync-plugin.ts`), and a round that has started goes on
unless something fails. Nothing is asked of users, of materialising, or of
failures; nothing is asked of a particular step of the round either, since at
most steps there is only one thing a round can do, and where there are several
(which chunk first, which name first) every order ends. `MCSyncEngine` states the
same fairness with the round's ENABLED spelled out (`RoundsGoOn`, `CanGoOn`), which
TLC evaluates a good deal faster.

`SyncSession` asks that what was asked of the disk or the network is answered
(bring-up, round, refresh, finishing a join, telling the watcher of a save, the
end of `stop`) and that the interval fires while it is set. Users, the
foreground, `stop` and restarts owe nothing. `EveryRemoteIsSynced` needs the
interval; without it, it fails (section 6).

`Pairing` asks that a loop goes on once its call is answered (`HostRuns`,
`JoinerRuns`, `StartGoesOn`), that the relay serves what reaches it (`ServeLoop`,
`ServeSend`, `ServeJoiner`, `ServeAdrift`), and that time passes (`Expire`). The
owners owe nothing, nor does the network deliver what it drops: a dropped call
is answered by the caller's own timeout.

`DeviceEntry`, `SearchIndex` and `Settings` state safety only: every step of theirs
may be the last before the app is killed.

## 5. The proofs

Every theorem holds for any number of devices, names, contents, addresses,
edits, faults, kills and restarts. What is assumed of the constants is in
`AbsentAssumption`, `EngineAssumption`, `SessionAssumption`, `RelayAssumption`,
`FaultAssumption`, `NonceAssumption`, `LockAssumption`, `EntryAssumption`,
`IndexAssumption`, `NoneAssumption` and `SettingsAssumption`: that the special values are none of the ordinary ones, that
functions have the right domains, that a device is its own source of file ids and
that the runs of the pairing host are numbered. TLC evaluates them in every run.

### SyncEngine, in layers

No property below is inductive alone; each layer assumes the one before it.

1. The first half of `SyncEngineProofs`: prefixes and histories. A history is a prefix of itself,
   `replay` puts all it writes on top of the remote head, ancestry through a
   store without holes is exactly "is a prefix of", the base is a prefix of
   both sides.
2. The rest of it, invariant `LocalInv` = `TypeOK` /\ `StoresWhole` (each
   store holds all prefixes of what it holds, and what head and round name) /\
   `RoundStored` (what a round works on is in the store, as far as the round has
   got). Gives **TypeCorrect** and **StoresClosed**. `StoresWhole` is needed for
   types already: the merge reads the base, and a base exists because no walk
   ends in a hole.
3. `SyncHistoryProofs`, `HistoryInv` = `LocalInv` /\ `OnTop` (from the rebase on,
   the head contains the remote head that was read) /\ `Anchored` (the anchor is
   in the head, and in the remote head a round works on once it was checked).
   Gives **PushesOnTop** and **AnchorsKept**, the latter with rollbacks, and
   **NoVersionLost**: a version that the local chain records after the base is at
   a name its snapshot touched, so the replay lists it too; any other is in the
   base, which the remote's chain contains.
4. The second half of `SyncHistoryProofs`, `RemoteInv` = `HistoryInv` /\ `RemoteStored` (all that
   the remote names it stores, chunks included) /\ `ReadFromRemote` (the head a
   round read is stored there) /\ `NoRollback` (if nothing was rolled back, the
   head a round read and every anchor are on the remote's chain). Gives
   **RemoteNeverTorn** and **AlarmsAreReal**. Every step moves the abstract
   history as `SharedHistory` allows, or not at all: **RemoteGrows** and, for a
   remote that serves no older head (`MaxRollbacks = 0`), **SyncImplementsHistory**.
5. `SyncContentProofs`, first two invariants on top of `RemoteInv`. `ChunksInv`: every
   chunk of a snapshot that a device stores is there too or at the remote. Gives
   **PushesWhatItHas**. `DeletionInv` = `RemoteInv` /\ `LossesExplained` (a name that
   a chain has dropped, on a device or at the remote, was deleted by a user) /\
   `FilesKept` (a name that the head lists is on disk, or pending, or deleted by
   a user, wherever the round stands). Gives **OnlyUsersRemove**, with faults and
   with rollbacks.
6. The last part of `SyncContentProofs`, `MergeInv` = `DeletionInv` /\ `NamesFit` /\
   `DeviceMerge` of every device. The code spreads one promise over five
   mechanisms, and each part of `DeviceMerge` says what one leaves to the next:
   `SidesStored` and `AtHand` (both sides of the merge, and their content, are in the
   local store), `Journaled` (what is on disk the head says, or the journal names it),
   `MergedSoFar` (names still to do are as in the local snapshot, the others as
   promised, with their copies), `EditsStay` (what merge left alone without telling
   the journal had been edited here, so that `replay` keeps it too) and `AsPromised`
   (the published snapshot says so). `NamesFit` is about conflict copies: a file
   that is not a user's has the content it is named after, wherever it is listed,
   so that no step overwrites a copy with something else. Gives
   **MergesThreeWays**, under two hypotheses. `EverythingWanted`: no device declines
   files. Where one does, the promise is not kept, see `KeptUpToDate` and
   `EditSurvivesDeletion` in section 6. `CopiesApart`: users write no file of a
   conflict copy's name, and the name tells the content (`repo.ts:582-588` names a
   copy after the remote hash). Both hold in `SyncMerge.cfg`.

### SyncSession

- `SessionInv` = `TypeOK` /\ `Down` (what `stop` takes down stays down): gives
  **SessionTypeCorrect** and **StoppedForGood**.
- `ConfigInv` = `JoinHeld` (a device that is joining is held, so nobody saves)
  /\ `ReadIsCurrent` (what the boot has read is current, or a save has told it
  otherwise) /\ `RemoteIsCurrent` (the remote is the one the settings name, or
  the one a join runs on): gives **LatestConfigWins**. It assumes that rounds
  bring no other settings (`Brought = {}`): those are not watched.
- `SoloInv`: the one running round is the one `this.round` names, and the status
  says so, unless a failed bring-up has overwritten it: gives **OneRoundAtATime**,
  without a hypothesis on what fails. `ext.overwritten` is set by that failure alone
  and ends with the last running round, so everything else a bring-up, a save, a timer
  or a join does is covered, before and after it.

### Pairing

- Its first half shows of each handler of the relay that it is `Traced`: the
  maps still fit together (`RelayInv`: a code finds an open invitation that goes
  by it, and no other), no token passes to another device, an id nobody made stays
  unmade, a delivered ciphertext was there or is the call's, only an ack
  completes, and what a device reads was there.
- `PairingInv` says that of every place a message can be in: the relay, the calls
  on their way (`AdriftPart`), the answers not yet read (`LoopPart`, `JoinerPart`)
  and the payload being sent (`SendPart`). A ciphertext anywhere names a device
  that the owner of the first one has confirmed; a completed invitation, read or
  not, means that a device has opened the phrase. `OncePart` says that a run makes
  its invitation at most once: without it a late `create` could replace a claimed
  invitation, and the token's and the code's theorems would fail.
- It gives **CodesFindTheirOwn**, **TokenIsTheFirstClaimants**, **OpenedOnBothWords**
  and **DoneIsOpened**, for any number of invitations, devices, codes and faults.
  None needs a bound on open invitations, and none assumes that anything is fair.
- `TypedInv` = `PairingInv` /\ `TypedPart`, for the types and the digits. An
  invitation moves one way: `Past(r, states)` says that run `r`'s was made, has
  left these states, and no call is left that makes it again; no handler brings a
  past state, nonce or holder back (`Ahead`), so what is past stays past (`Onward`).
  Hence a nonce the relay has taken is the only one anybody reads or has pinned
  (`Agreed`), and a device that was told it has claimed is the only one that can
  think so (`OnlyHolder`): the two facts that the digits of both screens need, and
  each is carried by an answer not yet read as well as by the fields (`LoopKnows`,
  `HostKnows`, `JoinersTyped`).
- `NonceCounted`, a part of it, is what the *types* need: each nonce of a run
  but the last has cost a fault, because a nonce that was answered takes the
  invitation past "claimed", where the loop sends none. So the nonces that are
  ever sent are those of `Nonces`.
- It gives **PairingTyped** and **DigitsTheSame**, again for any number of runs,
  devices, codes and faults.

### DeviceLock and DeviceEntry

- *Steps.* Every step is of one of the kinds of `Kind` (`StepKinds`):
  the screens alone (`Moves`), a gate, a tap that starts writes, the adoption of
  the record by sync, a write, a kill, a close. An invariant is shown once for each
  kind.
- *Plans.* `Follows(plan, writes, from, area, aside)` says where a plan stands: what
  is left of it is closed under later turns, an entry whose write has landed has
  its value, any other is as it was, and the same of the staging area. The next
  write keeps that, for any plan without two writes for one name. So what the
  store holds in the middle of an operation follows from the plan alone, not from
  a list of its points: with a verifier it is the new one and its salt is there
  (enable), the verifier and the phrase are each the old or the new one with
  their salts in one of the areas (change), the phrase is in the clear before the
  verifier goes (disable).
- `Base` = types /\ what the flow's fields owe to each other /\ `JobOK` (the
  writes under way are those of one of six operations, as far as it has got) /\
  `ViewOK` (the view the app was given opens the store, unless the lock is being
  written) /\ what was vouched for. It is inductive; every other invariant
  stands on it. Gives **DeviceEntryTypeOK** and **DeviceEntryCheckedWhatIsEntered**.
- `JoinsInv`: a write of a joining record lands after the phrase's, and by then the
  store reads as that phrase. Gives **DeviceEntryJoinsWhatItChecked**, an action
  property.
- `LockInv`: what holds of the store at every write, and of the store the
  operation found, to which a kill before the first write returns it. Gives
  **DeviceEntryReservedEntriesTrue**, **DeviceEntryLockKept** and
  **DeviceEntryPhraseRecoverable**.
- `ClearFree`, of a build that requires the lock: neither area holds a phrase, no
  write to come would leave one, and the app runs on a locked view. Inductive
  from the first run on (`past.fresh`); gives **DeviceEntryPhraseNeverInClear**.
- `SeenInv`: the record names the screen that is shown, or a write to come will
  (`Screened`); the words on screen are the phrase in play, which during an
  operation on the lock is the one the store held before (`Shown`, `HeldBefore`);
  a phrase made here that has not been seen has a record that resumes at it
  (`Begun`). Gives **DeviceEntryPhraseSeen**.

Two things of the model changed because the proof would not go through: what an
erase has touched (above), and what is re-encrypted of an entry that opens to no
phrase (`inside`), which had been outside `Ciphertext`.

### SearchIndex

`IndexInv` is one inductive invariant; its parts:

- `Places`, `Stages`: what a job has in hand where, and what is open and subscribed
  at each stage of the plugin's life. With `Asked` (no more rebuilds wait than events
  have happened) they give **IndexTyped** and **StopsClean**.
- `Meetings`: a path that both jobs have in hand is in `past.met`, and what the walk
  has in hand does not count as drained. The theorems speak of paths that are not
  there, and only for those is what a job holds of its file still true when it
  writes (`HoldsTruth`), so that a row whose stamp is the file's has the file's
  content (`RowsTrue`).
- `Removals`, `DrainTrue`: whatever the queue or the drain is about to remove is gone
  or named again, and a stamp the drain goes by is the file's or the file is named
  again. With these `DrainCatchesUp` is inductive: **NoChangeForgotten**.
- `Calm`: while vault and setting rest, no drain is at work, every file the walk (or
  the saved cursor) has behind it is level, and what it has visited is there; at
  the end the stale rows are exactly those of files that are not there or left
  out. `Settled`: the rule the indexer goes by is then the saved one. They give
  **WalkEndsLevel**, an action property, for walks cut off and resumed any number
  of times.

The proof changed the model in three places: the two above (`crossed` and `calm`),
and a drain that finds nothing to remove goes on to what it has to index without
an await between.

### Settings

`SettingsInv` is one inductive invariant; its parts:

- `FilesPart`, `FormsPart`: a file says settings of its section only, its own or, from
  another version, the other file's; a form that has seen a
  setting shows one in its place; a pending change is exactly what the form shows
  and differs in from what it measures against.
- `WritesPart`: a write's list names settings of its section that it has values for,
  and any other value it carries is the form's own baseline (`IsWrite`). While no other
  writer of the section has been met (`Undisturbed`), what the write has read is what
  the file says, from the half that is done on the device's file is the one it put
  aside with its own data laid over it, and at the notification the synced file says
  the data. So what `restore` writes back is what was there, and a save that is done is
  on file in both halves.
- `ApartPart`: two writers that are at work in one section are in `crossed`.

It gives **WritesMoveWhatTheyList** and **ChangesStayPending**, two action properties.
Since any file may say any setting of its section, the first is not about files of
this version only: the owner answers first and the other file where it is silent, and
what a write may do to a setting that has changed sides is exactly `Forgets`.
They are theorems of `Spec`, where no form is on screen at first; the run starts from
`SmallInit`, with one form shown, which is `Spec` a few steps later. The proof asked for
one thing of the constants that had been tacit: the value for "nothing there" is
neither a section nor a pending change.

### Only model-checked

`SettlesInStep`, `DownloadSettles`, `EveryRemoteIsSynced` and `PollsEnd` (liveness);
`ClosedFormsAgree` (what a fold computes, by induction over the chain). TLAPS does
not reach these: it has no ENABLED, and its induction theorems take an operator
as a parameter, which the provers used here cannot instantiate. Every other property
of a passing run is a theorem.

## 6. Disagreements found

Each of these has a run whose counterexample shows it.

| Run | The code | What it says of itself |
|---|---|---|
| `sync_both_delete` | `merge` has no case for a name only the base lists (`repo.ts:491`): it throws, in every later round too | `repo.ts:446-448` "must converge, not crash the sync" |
| `session_first_download` | `downloadVault` reads the status after its round, when another round may have set it (`sync-extension.ts:137`): a join can be finished without a vault | `sync-extension.ts:114-116` "only once it landed" |
| `search_index_twice` | walk and drain on one path: an old text is left under the new stamp, and no later walk reads it again (`indexer.ts:322`) | `index-queue.ts:130-132` "only gets read twice, which is idempotent" |
| `device_entry_skip` | the phrase is stored before the entry record is (`entry-flow.ts:552`): killed between, the next start skips the words | `entry-flow.ts:100-103` "resumes at the screen the person had not finished rather than skipping past it" |
| `settings_migration` | a write fills in the defaults of every key its file owns (`write-config.ts:20`), also of one whose value is still in the other file: `config.write(SyncConfigSchema, { serverUrl })` (`sync-plugin.ts:140`, 165) sets such an `autoSyncSeconds` back to the default | `device-local.ts:29-32` "a migration rather than a reset", `plugin-config.test.ts:104-105` "not the schema default, which would silently reset every device" |

The same is not said of the last key of a section that leaves the device: a section
without keys of the device never reads the device's file again (`plugin-config.ts:74-75`).

One deleting user is enough for the first when the other device crashes between
taking a deletion over and the rebase; this is why `SettlesInStep` excepts a
deletion that has met a fault.

Others have a definition and no run of their own. To see one, put its name in a
`.cfg` of its module:

- `CopiesBothModified` (`SyncMerge.cfg`): `merge` has a case for a file that only
  the remote changed (`repo.ts:485`) and none for one that only this device
  changed, so without a content merger every local edit leaves a conflict copy
  with the *old* content beside the file. `repo.ts:84-86` has the copy for "both
  modified", and the settings page for files "both devices edited". Nothing is
  lost. `MergeOutcome` asks for the copies of what both have edited, and neither asks
  for this one nor forbids it.
- `KeptUpToDate` (`SyncLive.cfg` with `Mergeable = {}`): `b` left a file in the cloud, its user puts the
  old content there, and `a` has published a new one. The fetch asks
  `wantsContent` before the snapshot has seen the file (`engine.ts:228`) and skips
  the chunks; the merge finds the local side untouched and marks the name pending
  (`repo.ts:562-565`); the second snapshot takes the old file for a change and
  publishes it over `a`'s edit. `checkout.ts:92-94` says that a file on disk "has to
  be kept up to date whatever the policy says".
- `EditSurvivesDeletion` (`SyncLive.cfg` with `Deleters = {a, b}`): a remote edit of a file that a device
  declines and has deleted is dropped (`repo.ts:564`); `repo.ts:471-477` says "the
  edit wins".
- `RepositoryFirst` (`Session.cfg`): a save is applied before the repository is
  prepared (`sync-plugin.ts:74`); `sync-plugin.ts:146-148` says that "has to be
  done before anything here reads or writes through it".
- `RoundsNeverOverlap` (`Session.cfg`), which follows from that in five states: a save
  starts a round, then the repository's preparation fails, `bringUpFailed` sets the
  status to `error` over the running round (`sync-plugin.ts:116`), and the interval
  starts a second one beside it, because `sync()` looks at the status alone
  (`sync-extension.ts:88`). `sync-plugin.ts:234` says "sync() self-guards against
  overlap", line 246 "sync() no-ops if one is already running". `OneRound` holds
  everywhere else.
- `EveryRemoteIsSynced` with `AutoSync = FALSE`: the first `sync()` on a new remote is
  refused while a round on the old one runs, and nothing repeats it
  (`sync-plugin.ts:237`); lines 233-234 say "Sync once right away".
- `AlwaysReadable` (`DeviceEntry.cfg`): killed in the middle of promoting a changed
  code, values stand ahead of the verifier, and neither code opens them;
  `device-lock.ts:13-17` says that nothing after a promotion's write needs to run
  for the device to still be readable. `PhraseRecoverable` holds: the staging
  area has everything, but no code reads it from there.
- `CancelEnds` (`Pairing.cfg`): a new device that is cancelled while its claim is on
  the way never ends the invitation it then holds (`pairing-client.ts:345-358`,
  440-445), and the first device learns of it at expiry; `entry-flow.ts:379-380`
  says the invitation is ended.
- `OneRunFollowed` (`Pairing.cfg` with `Run <- ThreeRuns`, `Joiner <- OneJoiner`):
  "New code" pressed while the delete of "They don't match" is awaited leaves two
  runs that poll over the same fields (`pairing-client.ts:153`). The third run's
  key pair then takes the place of the second's, which polls on: the first device
  shows digits made of the one's key and the other's nonce, and the new device,
  whose claim was the second run's, shows others. The owners are told to start
  over though nobody interfered. (`DigitsAgree` without its condition
  `OfOneRun`, with `Run <- ThreeRuns`, `MaxFaults = 0`, and for a constraint that
  nothing expires, no device is aborted and the screen stays open.)
- `SavedRuleInForce` (`SearchIndex.cfg`): a setting that is saved between the
  bring-up's read and its subscription reaches neither walk nor queue
  (`search-plugin.ts:140`, 197-200).
- `RewrittenIsFound` (`SearchIndex.cfg` with `MaxWrites = 3` and no events): a folder
  is deleted, and a file in it written again, while a drain's removals are
  under way. The file is taken by that drain, the folder by its next round
  (`index-queue.ts:131-147`), whose removal takes the file's new row with it: the
  file is not found until the next walk. `index-queue.ts:90-92` has "the last
  change on a path decides".
- `SavesOnlyWhatItLists` (`Settings.cfg`): a save writes the form's whole draft
  (`SchemaSettingsPage.vue:63`) and so puts an old value back of a setting that
  changed behind the form and that its list never named (`pending-changes.ts:11`).

Two smaller ones: `search-extension.ts:128-129` says a second rebuild joins the
first, but the code starts another (`indexer.ts:165`); and a cancel that lands
while a rebuild clears the tables is lost, the walk that follows runs on.

## 7. What is not modelled

- *Two Repo instances over one store* (two tabs). The journal's read-extend-write
  (`repo.ts:143`), the checkout index in memory (`checkout.ts:45`), the local
  head's compare-and-swap with its sixteen attempts (`repo.ts:226`) and the
  anchor read before another tab's round ends (`engine.ts:114`) only matter there.
- *Files in pieces*: a snapshot whose chunks and hash are of different moments
  (`repo.ts:261`), a write cut off by a crash (`repo.ts:574`), a conflict copy
  some of whose chunks are missing (`repo.ts:583`).
- *The journal beside a write*: here they are one step. The vault's watcher appends
  the entry after the write, and nobody awaits it (`repository-plugin.ts:96-100`). An
  entry that lands between a snapshot's read of the journal and `repo.ts:217`, which
  empties it, is lost, and with it a new file until something names it again; no run
  sees that.
- *Small parts of the merge*: a content merger that answers null (`repo.ts:525`), after
  which the conflict copy is made; a conflict copy whose name another content has
  already (the suffix of `repo.ts:595-600`; the step is disabled here, and
  `CopiesApart` says when that cannot happen). Writing a copy also clears a pending mark
  of its name, which the code leaves to the next snapshot.
- *Checkpoints*: the branches of `recordCheckpoint` on identity and source
  (`file-history.ts:211-217`).
- *Identity across renames*: that one file id may end under two names.
- *Writers without `Repo.exclusive`*.
- *Pairing*: cryptography is assumed; the two rate limits are an answer 429 that
  may come at any time.
- *Device*: two tabs over one Web Storage, the throttling of wrong codes, key
  stores of an operating system (they do not use the lock), the words' own check. An
  identity that opens but is no phrase, beside the record `new`, is refused here, where
  `entry-decision.ts:47-51` resumes.
- *Search*: renames of folders, size limits, extractors and their versions
  (a change of format is a rebuild), queries and parsing. The two DELETEs of
  `removePath` (`indexer.ts:217-221`) are one step.
- *Settings*: what a watcher re-reads, forms that are unmounted or hold an invalid
  field, sections with pages of their own. A form loads the two files of a section in
  one step, where `plugin-config.ts:77` asks for both at once and a write may land
  between the answers.
- Encryption, frames, HTTP, chunk boundaries, range reads, progress, formatting:
  transport and data, assumed to do what they say.
- The other components of section 1, each with its reason in `PROJECT.json`. Most
  of the repository is of this kind: views, editors and their styles, forms,
  translations, and document formats, whose state is a component's own and is
  driven by one user. They have little that a test could not reach, and the
  modules here are kept to what has.

## 8. Plan

In this order, each with its module, its run, its hazards and its theorems:

1. **Two Repo instances per device**, composing `SyncEngine`'s Repo twice over
   one store, **files in pieces**, and **the journal's entry as a step after the
   write**, as variants of `SyncEngine`.
2. **Core boot**, the document's save queue (`useFileDocument.ts`), boot policy,
   the repository plugin's bring-up.
3. Acceptance of an agent's changes, and the publish manifest.

A new run takes the place of one whose question a theorem has settled, so that
the whole stays small enough to be read.
