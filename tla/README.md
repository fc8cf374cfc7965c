# telecrawl in TLA+

telecrawl copies a Telegram account into a local SQLite archive, keeps a history
of every message, and exchanges encrypted snapshots of the archive through a git
repository. This directory holds TLA+ models of the parts of it whose correctness
depends on the order of things: what a merge does to an archive it knows nothing
about, what a pull may undo, what a push publishes after another one crashed, what
a copy of a live database holds, what an import leaves behind that fails half way, what
an archive looks like whose upgrade was interrupted. Small instances are
model-checked with TLC; their invariants are proved with TLAPS, for all values of
their constants or under the conditions section 4 names.

Line references are to `src/`; `PROJECT.json` maps every definition to its lines.

## 1. The system

| Component | State | Operations | Depends on |
|---|---|---|---|
| **Archive store** `internal/store` | tables chats, topics, messages, folders, folder_chats, groups, group_participants, contacts; `messages_fts`; `sync_state` | `MergeAll`, `ReplaceAll`, `MergeSnapshot`, `RestoreSnapshot`, `ExportAll`, `Open` | SQLite, one connection, one transaction per operation |
| **Revision history** `tombstone.go`, `snapshot_import.go` | `message_revisions`: events with a predecessor, a payload, an event and an observation time | recording at every import, deletion events, baselines, the choice between two versions of a message | the store's transactions |
| **Schema upgrade** `Open`, `migrate` | `user_version`, columns, indexes | idempotent steps, some in transactions | the store |
| **Source identity** `ensureMergeSource` and others | `sync_state.source_identity` | validation before and in a transaction | CLI, store |
| **Backup publication** `internal/backup` | work tree with shards and manifest, local commits, tags, remote | `Push`, `Init` | `ExportAll`, git, crawlkit |
| **Backup pull** | a clone, a pinned commit | `Pull`, `Snapshots`, `Status` | `MergeSnapshot`, `RestoreSnapshot` |
| **Import flow** `cli.runImport` | staging directory, media archive, cache of media references | import, promote media, store | importers, store |
| **Telegram Desktop importer** `tdata.go` | none between runs | dialogs, topics, messages by page | Telegram's API, flood-wait policy |
| **Postbox importer** `importer.go`, `postbox/` | none between runs | find, copy, decrypt and decode Telegram's own database | a running Telegram |
| **Remote media** `postbox_remote.go`, `flood_wait.go` | deadlines, retries, statistics | look a message up, download its file | Telegram's API |
| **Queries, CLI output, probe** | none | read-only | store |

How they interact: an importer returns an `ImportResult`, which the CLI hands to
the store in one call; `backup push` reads the store with `ExportAll` in one
transaction and publishes the result; `backup pull` hands a snapshot to the store
in one call. Several archives of one account meet only through the backup. The
store is never called concurrently by one process, and SQLite serialises
processes. The concurrency is elsewhere: backups are pushed and pulled by several
processes and machines, Telegram writes the database the postbox importer copies,
and the server limits the calls of the importers.

What is hard about it:

* **Scoped repair.** A merge of a few rows into a large archive must leave no live
  row under a deleted parent, no deleted message in the search index and no wrong
  count, while it looks only at what the batch names (`tombstoneScope`,
  `affectedChatJIDs`).
* **History without a common clock.** Archives observe the same message at
  different times, delete it and see it again. A pull decides by causal
  ancestry, then by time, then by a hash.
* **A moving database.** The main file and the log of a live SQLite database are
  two files; no lock is taken.
* **Waiting within deadlines.** Flood waits are long, deadlines shorter, and calls
  share them.
* **Publication without a lock.** A push changes the work tree file by file and may
  end anywhere; the next one starts from what it left. Verification, tag and
  upload are separate git commands.
* **Crashes** between the statements of the upgrade, which is not one transaction,
  and between the files of an import and the rows that refer to them.
* **Accounts that change.** An archive belongs to one account. Commands check that and
  act on it later, while others import, restore and pull.

What makes each part correct is stated by the properties of section 3; the
hazards, each with its line and the properties that watch it, are listed in
`PROJECT.json`.

## 2. The modules

| Module | Models | Lines of code it stands for |
|---|---|---|
| `ArchiveRows` | the tables reduced to *absent / live / dead* rows, and the writing of a batch | schema, `writeImport`, `conflictUpdateWhere`, `updateExistingTombstone` |
| `ArchiveTree` | the store's operations with scope, propagation, counts and index | `MergeAll`, `ReplaceAll`, `importSnapshot`, `propagateTombstones`, `recomputeChatAggregates`, `pruneDeletedMessageFTS` |
| `Archive` | what they promise: write the batch and settle the *whole* archive at once | abstract specification |
| `ArchiveTreeProofs` | proofs about `ArchiveTree`, with the refinement of `Archive` | |
| `MCArchiveTree` | the two kinds of batches of the small instance | |
| `RevisionGraph` | revisions, ancestry, `preferRevisionOrder`, tips and predecessors | `snapshot_import.go`, `tombstone.go` |
| `MessageHistory` | one message in several archives that exchange snapshots | recording, baselines, `mergeableSnapshotMessages`, `importSnapshot` |
| `MessageHistoryProofs` | proofs about `MessageHistory` and the loops of `RevisionGraph` | |
| `MCMessageHistory` | a stand-in for the order of hashes; the two stories of the instances | |
| `SnapshotLog` | what a backup repository promises: a log of whole snapshots that only grows | abstract specification |
| `BackupPublication` | push, pull, restore and status, by several processes, checkouts and a remote | `backup.go`, `git.go`, `history.go`, `git_scope.go`, `push_safety.go` |
| `BackupPublicationProofs` | proofs about `BackupPublication`, with the refinement of `SnapshotLog` | |
| `MCBackupPublication` | exports and texts of the small instances | |
| `WalSnapshot` | `readSQLiteSnapshot` and `ApplySQLCipherV4WAL` against a live Telegram | `postbox/wal.go` |
| `WalSnapshotProofs` | proofs about `WalSnapshot` | |
| `FloodWait` | the fetch of one message's media under deadlines | `flood_wait.go`, `postbox_remote.go`, `tdata.go` |
| `FloodWaitProofs` | proofs about `FloodWait` | |
| `RemoteMedia` | the media of all messages: accounts, sessions, sharing, counts | `downloadPostboxRemoteMedia` and `...ForSession`, `sharePostbox...Media`, the media part of `importPostboxGo` |
| `RemoteMediaProofs` | proofs about `RemoteMedia` | |
| `MCRemoteMedia` | the messages of the small instance | |
| `SchemaUpgrade` | `Open`, statement by statement, by several processes, with the event identifiers it makes | `Open`, `migrate` and what they call, `normalizeLegacyMessageEventIDs`, `reconcileSnapshotMessageEventIDs` |
| `UpgradedArchive` | what it promises: one step from an old archive to a whole one | abstract specification |
| `SchemaUpgradeProofs` | proofs about `SchemaUpgrade`, with the refinement of `UpgradedArchive` | |
| `ImportFlow` | the import command on a shared archive, with backups that are pulled | `runImport`, `promoteImportMedia`, `preserveExistingMediaRefs`, `ensureMergeSource`, `mergeStoredMedia` and others |
| `ImportFlowProofs` | proofs about `ImportFlow` | |
| `MCImportFlow` | the symmetry of the small instance | |

`MCArchiveTree` extends `ArchiveTree`, which extends `ArchiveRows` and instantiates
`Archive` (as `Promise`). `MCMessageHistory` extends `MessageHistory`, which extends
`RevisionGraph`. `MCBackupPublication` extends `BackupPublication`, which instantiates
`SnapshotLog` (as `Log`). `SchemaUpgrade` instantiates `UpgradedArchive` (as
`Upgraded`). A module of proofs extends the module it is about. The other models stand
alone: their component is one process or transaction at its end, and what it shares
with the others is the archive, which each model keeps to what its own properties tell
apart. `ImportFlow` commits with the transaction that `ArchiveTree` details;
`RemoteMedia` is a part of its `Import`, and `FloodWait` of a download of
`RemoteMedia`. The models meet at a snapshot as well: where `ArchiveTree` and
`MessageHistory` export or pull one in a single step, `BackupPublication` shows what
that takes, and that what a pull hands over is an export of some push. Definitions
that are named as slips of another definition (`MessagesBeforeTopics`,
`PreferredByHash`, `MergedBare`, ...) are used by no specification: they are the
plausible errors with which each property has been seen to fail.

### The archive tree

`rows` holds, per table, a status for every key; the payload columns are dropped
except a message's topic and a chat's `message_count`, which the propagation and
the aggregates read. A batch, a snapshot and the archive have the same shape. A
tombstone of a batch overlays the status of an existing row and leaves its payload
alone (`updateExistingTombstone`); a snapshot merge leaves existing rows alone
altogether, except messages, for which the revision graph decides. That decision
is the subject of `MessageHistory`; here every outcome is allowed (`Acceptable`),
so what holds here holds whichever messages the graph lets through.

Every store operation is one transaction on one connection, so it is one action,
and a crash is a transaction that did not happen. `Propagated` is the sequence of
the six UPDATE statements, each reading what the ones before it wrote. A chat that
was never stored (a message may name one) is *absent*, which is neither live nor
dead.

Foreign rows cannot be named out of thin air: `Batches` is a constant set of the
rows a caller may hand over, assumed only to be well-typed; `MergeAll` takes those
without groups, `ReplaceAll` those without tombstones and with counts that match
(`FetchedBatch`, as `importAccount` builds them), `MergeSnapshot` any of them or
the last export.

### The message history

An event is identified by its content and predecessor (`event_id` is a hash of
both), so a revision *is* the chain of events up to it, and ancestry is the prefix
order; `HistoryIsClosed` is what makes that the same, since `revisionDescendsFrom` looks
each predecessor up in the archive. What `preferRevisionOrder` compares, the chain, the
time and the hash, is kept; the hash order is a constant operator, and the instances give
it a fixed total order. The loops of the code over revisions are recursive functions that
give the value of each round (`BestUpTo`, `SortedUpTo`, `InsertedUpTo`).

`messageRevisionPredecessor` (`tombstone.go:301`) has no ORDER BY and gets its rows in
the order of `idx_message_revisions_message`, which serves the query: by `event_at`,
then `event_id`. Since the preference is not transitive, the order matters for what
the loop returns, and `DeletionYieldsOnlyToLater` rests on it. Times are seconds and
advance when something happens that a later time must distinguish. `TelegramEdit`
changes the message and its edit time, `TelegramChange` only the payload (reactions,
views).

### Publication

A checkout has a work tree, a branch and local tags; the remote has a branch and
tags. The variable `proc` holds what a process has read so far, which is what may
be stale when it is used: the manifest a push found, its export, the shards left;
for a pull, the manifest it reads by and the shards read.

| Action | Code |
|---|---|
| `PushStart` | `Push` up to `ExportAll`, with `validateSnapshotInputs` |
| `WriteShard`, `Sweep`, `WriteManifest` | `writeSnapshot`, the steps of crawlkit's writer |
| `CommitPaths` | `commitAndPush` up to the commit |
| `VerifyPendingHistory` | the same, against the head of the remote |
| `CreateImmutableTag`, `PushAtomic` | `tagSnapshot`, the upload of branch and tag |
| `InitUpload` | `Init` on a checkout that exists, with nothing new to commit |
| `Status`, `PullStart`, `ReadShard`, `Import` | `Status`, `Pull` |
| `RestoreAt` | `Pull` with a reference: objects of one commit, which no one changes |
| `Abort` | a crash, a refusal or an error of git, anywhere |
| `UserCommit`, `UserDrop`, `UserReset` | the user's own git commands and files, as in `audit_push_test.go` and `audit_scope_test.go` |

A shard's text stands for its plaintext and so for its hash. Encryption leaves the
size of the ciphertext, because that is what `verifyGitCiphertext` compares; the
hash is compared only by a reader. So a push can tell two texts apart only by
size, and `PublishesItsExport` and `ImplementsLog` are claimed for texts of
different sizes, which the instances have.

crawlkit and git are not part of the repository. What is taken from them:

* the writer writes the shards before it removes others and before it writes the
  manifest; which of the two comes first is left open. A shard whose text the old
  manifest records may be left as it is, without a look into the file;
* `CommitPaths` commits the named paths as they are in the work tree, or nothing
  when they are as in HEAD;
* a pull fast-forwards the checkout in one step, leaves it alone when it is ahead,
  and fails when it has diverged or local changes are in the way;
* a reader compares the hash of every shard with the manifest;
* `PushAtomic` updates branch and tag both or neither, without force.

### The copy of a live database

A page is the number of the commit that wrote it. A frame's cumulative checksum is
the log up to it, as if it never collided. Telegram's actions follow SQLite: a
transaction appends frames and ends with a commit frame, a checkpoint copies
committed pages, the log is started over when all of it has been copied and
nothing is open, quitting removes it. The reader stats, reads frame by frame and
page by page, and stats again.

Modification times are those of a coarse clock: a write in the granule of the
reader's first stat may leave the time as it was. Two kinds of writes are taken to
come in a later granule, because neither size nor header would show them: frames
written over old ones under the very header the first stat saw, and the whole
life of a log that was not there at the first stat. Without either assumption
`SnapshotIsCommitted` is false: the code relies on it and cannot check it.

### Flood waits

One message: up to three lookups (three for a channel, two for other chats, one
without an input peer) under one deadline, then the calls of the download under
another. Each call may be answered, refused, cut off by the deadline, or told to
wait; the policy waits and repeats it, at most three times and only for waits
within the limit. Times are in seconds with the constants of the source.

### Remote media

A file is named after whose session has seen it and under which peer and message id,
because that is what two accounts may disagree about: the ids of private messages are
an account's own. `Start` to `Finish` are the steps of `importPostboxGo` and
`downloadPostboxRemoteMedia`; `Break` is `client.Run` returning an error at any point,
the opening of the session included. A session that follows starts over with all
indexes of the account (`NextSession`), also with those that have a file by now, as in
the code. Messages have at most one resource and files one size, so that the size by
which `sharePostboxResourceMedia` chooses makes no difference. Timeouts and errors,
which are two counters of the code, are one.

### The upgrade of the schema

Each statement of `Open` that commits by itself, and each of its transactions, is a
step: `CREATE TABLE` one by one, the version that is read, the columns that are read
and added table by table, the identifiers, the rebuilt table of messages, the unique
index, the last transaction with its baselines and propagated deletions, the plain
indexes, the version that is written. `Init` has archives of any older version, with
rows, duplicates and a deleted chat, and newer ones; the half-way states are those that
a process leaves behind that ends (`Abort`, which is also a statement that fails).
`Import` is a batch: rows that are there come again, and count among the messages whose
identifiers they may clash with, and several rows are new, duplicates among them.
`OldImport` is the build before, which keeps adding rows without an identifier as long
as the table takes them.

Identifiers are made of a message, and of its row where a message is there twice
(`StableId`, `LegacyId`). They are computed in three places: by the upgrade from what
is stored then, by an import, and by a pull from an old backup alone; `Resolved` is how
the pull finds its rows again.

### The import

One command is `Begin`, (`ReadLastSource`, `ReadBatch` any number of times,
`ReadMediaRefs`,) `Import`, `Check`, (the same reading if it was not done before,) `Fill`,
`Promote` for each file, `Validate`, and `Commit` or `Refuse`; `Fail` is an error or a
crash at any point. `job` holds what it has read, which is what others may make stale.
`MergeSnapshot` and `RestoreSnapshot` are pulls, each a transaction.

The rows are read by their rowid: `unread` has the messages whose rows are still to come.
A row that is inserted during the reading comes last, which is every row after a restore
(`Meanwhile`); so a message may be read twice, before and after one. A batch may hold only
messages that the instance does not have. `overtaken` says that the archive has been
restored for another account since the command began to read; nothing but `crossed`, the
exception of `MediaBelongs`, depends on it.

| Action | Code |
|---|---|
| `ReadLastSource`, `ReadBatch`, `ReadMediaRefs` | `existingMediaRefs`: the source path, batches of rows, the last of them and the look for the files; no two of these reads are one transaction |
| `Import` | `telegramdesktop.Import`, of the account that is logged in when it is reached |
| `Check` | `ValidateMergeSource` |
| `Fill` | `preserveExistingMediaRefs`, from the cache |
| `Promote`, `Validate` | `promoteImportMedia` file by file, `validateImportMediaRefs` |
| `Commit`, `Refuse` | `MergeAll` or `ReplaceAll`, with `ensureMergeSource` inside |

A message is its `source_pk`, which is made of chat and message id and so is the same for
every account that sees such a message, and its media are the content seen under it. A
file is named after its content (`fileSHA256`), so `files[n] = n` says that it is whole.

## 3. What is checked

No run uses a state constraint; the bounds are guards or constants.

| Run | Instance | Shows |
|---|---|---|
| `Tree` | 1 chat, 1 message and either a topic with all one-row batches and pulls of any exported archive, or a folder and its membership | `TypeOK`, `NoLiveOrphan`: no live row under a tombstoned parent; `IndexExact`: search finds exactly the live messages; `CountExact`: a live chat's count is the number of its live messages; `MergeSnapshotKeepsDestination`: a pull leaves destination rows and tombstones alone (README.md:328); `KeepsPromise`: `ArchiveTree` implements `Archive` |
| `History` | 2 archives, time to 3, 4 revisions; either 2 texts and exchange only, or 1 text with replacement, restore and migration | `TypeOK`; `RowIsRecorded`: the row is explained by an event; `HistoryIsClosed`: every predecessor is present and no event is there twice; `ResurrectionIsCausal`: a pull revives a message only by an event that succeeds one the archive knew, the deletion itself where that is recorded with the row; `MergeKeepsNewerEdit`: a pull never goes back to an older Telegram edit; `DeletionYieldsOnlyToLater`: a pull ignores a deletion only for an observation no earlier than it |
| `Publication` | 1 or 2 machines, each with one process and a checkout, the user in one of them, 2 exports of one and of two shards, 1 tag, 3 commits, at most 2 unpublished | `PublishedIsWhole`: every commit of the remote has the shards its manifest lists, in their sizes, and nothing else; `PublishesItsExport`: what is uploaded as an export is that export; `UnownedSurvives`: a push overwrites or removes only files of the snapshot it found; `ImplementsLog`: the remote implements `SnapshotLog`, so no commit is lost, every one yields a whole snapshot and no tag moves; `TypeOK`, with remote tags on the remote branch |
| `PublicationShared` | 2 processes in one checkout, 2 exports, 2 commits | `PulledIsExport`: a store is only ever handed one push's export |
| `WalSnapshot` | 2 pages, 3 frames, 2 commits, 2 resets, 2 attempts | `SnapshotIsCommitted`: what an accepted copy replays to is an image Telegram committed, no older than the attempt; `TypeOK` with the bounded retries |
| `FloodWait` | the source's limits; latencies 0, 1, 44, 200; waits 1, 300, 301; 2 download calls | `TypeOK`: no phase passes its deadline and no call its retries; `TimeoutIsExplained`: a phase that waited no more often than one call may was timed out by the network |
| `Media` | 6 messages of 2 accounts: a message twice, one of them only referring to media, a channel, an old one, a link preview, and the same peer and id in both accounts; any cache, archive and sessions | `TypeOK`; `CountsAreTrue`: each candidate is counted once, whichever sessions were tried; `OwnMedia`: a message has what its own account sees, or a message it shares with, unless the own session is missing or broke; `NothingIsOverlooked`: no file that could be shared is left unshared at the end |
| `Upgrade` | 2 processes, archives of version 2 and 6 and new ones, 2 messages in up to 3 rows, 1 chat deleted, 1 process that ends early | `TypeOK`; `CurrentIsComplete`: the version says current only when the upgrade is whole; `ImplementsUpgrade`: it is one step of `UpgradedArchive`; `OldBackupIsRecognised`: a pull of an old backup finds the rows it was made of; `OpensInTheEnd`: no end, rival or late import makes an archive that can not be opened |
| `Import` | 2 imports, 2 accounts, 1 message, 1 source path, 1 file lost or damaged, 1 pull | `TypeOK`; `OneAccount`: rows are of the stored account or older than it; `FilesAreThere`: the file of a row is there whole unless someone else took it; `MediaBelongs`: and is the row's own; `KeepsMedia`: only a restore takes media away |

Why the bounds are enough to be interesting. In the tree, rows influence each other
only along parent links, which are at most two levels deep (chat, topic, message), and
a scope is a set of single rows; one row of each kind shows every interplay of two
operations along a link, and the theorems cover any number of siblings. Groups and
participants, which only snapshots bring, have the shape of folders and memberships
with one parent less and no run of their own; the theorems of section 4 cover them and
every size. In the history, three revisions are the smallest history in which ancestry
and time disagree, four the smallest in which a deletion is undone and pulled again;
more archives and longer histories are left to the theorems. In the copy, three frames
hold a committed transaction, an open one and a remnant of an earlier log, and two
resets let a header change twice during one attempt. In the publication, two exports
suffice whose shards share a path and differ in its text and in their number, so that
every mixture of them is no export; three commits hold a snapshot, a bad commit on it
and its repair; 2 in place of the source's 128 unpublished commits lets the refusal
happen. In the upgrade, three rows hold a message twice beside another one, and one
fault leaves any half-way state behind, from which a rival or a later process goes on.
In the import, two commands and a pull are the smallest instance in which a check, a
use and a change of the archive between them come from three actors; messages of one
import affect each other only in that one of them ends it, which `Fail` allows anyhow,
and the theorems hold for any number. The sharing of media is a fixed number of
passes: `NothingIsOverlooked` is claimed where records of one message name one resource,
as those of the instance do, and then for any number of messages (section 4).

Three runs show disagreements between the code and what its tests or comments say.

| Run | Property | Says | Code |
|---|---|---|---|
| `HistoryAncestor` | `AncestorDeletionStaysUndone` | `tombstone_test.go:346`, "ancestor backup deletion regressed live descendant" | `snapshot_import.go:381` |
| `PublicationRace` | `PublishedIsVerified` | `backup.go:545`, "Explicit pushes verify unpublished history first." | `git.go:97` to `:100`, `backup.go:160` to `:169` |
| `FloodBudget` | `BudgetIsEnough` | `postbox_remote.go:149`, "a valid flood wait cannot consume the RPC deadline" | `postbox_remote.go:150` |

The first comes from `preferRevisionOrder`, which prefers a descendant whatever
the times, and otherwise the later time, then the greater hash. That relation is
not transitive, so a left-to-right fold over the revisions may end with one that is
an ancestor of another. A concurrent root of the same payload, which a migrated
archive contributes as `message_observed`, is enough. `messageRevisionPredecessor`
(`tombstone.go:301`) folds the same relation, so the next event may be attached to
a revision that has a successor. The second: HEAD is verified, then pushed by name,
and a second process in the same checkout commits in between; with one process at a
time the property is part of `PublishedIsWhole`. The third: one retry budget, three
calls.

Fairness is assumed in one run. `FairSpec` of `SchemaUpgrade` lets a process that has
started take its next step in the end, weakly and each process for itself: `Open` is a
sequence of calls that nothing waits in, and SQLite's locks have a timeout. It does
not assume that a process is started, nor that one gets through: `OpensInTheEnd` is
conditional on commands being started again and again, and ends of processes are
bounded. All other properties are safety properties. The retries of the copy and of
the flood waits are bounded, which is part of `TypeOK`, and nothing else in the
modelled parts waits for another. The tree, the publication and the upgrade are checked
for deadlock. `CHECK_DEADLOCK FALSE` is set where a bound or the end of the operation
stops the system: the histories at their clock, the copy, the fetch, the media and the
imports once done.

Some limits of what the properties say are the code's:

* `MediaBelongs` excepts messages in `crossed`: those to which a merge has given a
  reference that it had read, before the archive was restored for another account. A
  merge of this other account passes both checks and fills its messages with the files
  of the first one; `README.md:165` speaks of the reuse "for the same source". Without the
  exception TLC finds the property violated, by a pull with `--restore` between
  `Validate` and `Commit`. Nothing else is excepted: messages of the same import with
  media of their own, and imports that were not overtaken, must fit. A store that did
  not check the account again in its transaction breaks the property
  (`AcceptsChecked`), because references may be read, and read in batches, after a
  rival has restored the archive.
* `FilesAreThere` excepts names in `lost`: files that someone else took, and those that
  only a backup names, which has no files. An import that is killed leaves its stage
  behind; a damaged file is taken over under a new name by an import with
  `--fetch-media` and ends one without.
* `OwnMedia` excepts messages whose own session is missing or broke: another session may
  see a different message under the same peer and id.
* `NothingIsOverlooked` claims of the number of missing files only that it is not too
  low: it is counted before `importPostboxGo` shares for the last time.

## 4. What is proved

`ArchiveTreeProofs`, for any chats, topics, messages, folders, groups and users, any
batches, under `RowsAssumption` (each topic and message belongs to a chat, the
empty topic is no topic, finitely many messages) and `BatchesAssumption`
(batches are well-typed, topics of messages belong to the message's chat):

* `TypeCorrect`, `OrphanFree`, `SearchIsExact`, `CountsAreExact`: the invariants
  `TypeOK`, `NoLiveOrphan`, `IndexExact`, `CountExact`;
* `PullsKeepDestination`: the action property `MergeSnapshotKeepsDestination`;
* `Refinement`: `ArchiveTree` implements `Archive`, the property `KeepsPromise`.

None of the invariants is inductive alone. A restore makes the backup the archive,
so the backup must be as sound as the archive was when it was exported; exactness
of the pruned index needs that messages which died did so inside the scope, which
needs that there was no live orphan before. `IInv` is the conjunction: archive and
backup are both `Settles` (typed, closed, counted) and the index is the set of live
messages. The step goes along `Archive`: `WrittenFrame` says that a row changed by
writing a batch is named by the batch; from there `MergeSettles` shows that
propagating over the scope equals closing the whole archive (`ClosedIsUnique`: two
closures of the same rows are equal) and that only affected chats changed their
counts. So the merge *is* the abstract step, which gives both the refinement and,
by `SettledIsSound`, the invariant.

`FloodWaitProofs`, for any limits, latencies and waits (`FloodWaitAssumption`: they
are natural numbers):

* `TypeCorrect`: deadlines and retry limits are kept;
* `BudgetCoversOneCall`: the property `TimeoutIsExplained`.

Its invariant adds that the clock is at most the network's time plus `Longest` per
wait, and that a timeout is counted at the deadline. The proof is then that fewer
waits than retries fit in the budget.

`ImportFlowProofs`, for any number of commands, accounts, messages and paths, and any
number of lost files and pulls (`ImportFlowAssumption`: the marks for nothing, unknown
and damaged are no accounts, names or paths):

* `TypeCorrect`, `ArchiveOfOneAccount`, `FilesStay`, `MediaOfOwnAccount`: the
  invariants `TypeOK`, `OneAccount`, `FilesAreThere`, `MediaBelongs`;
* `MediaStay`: the action property `KeepsMedia`.

A commit makes rows of what a command has in hand, so the invariant says of that what
the others say of rows. `IInv` adds that a file holds what its name says unless it is
`lost` (`FilesHold`); that what a command has read is of the account the archive has now,
unless the command has been overtaken by a restore, and that a restore has read nothing
(`RefsFit`); that the media found are of the account of the import or are such
references (`FoundFits`); and that a
command about to commit has verified its files, which are whole still or lost
(`Verified`). Files only ever turn whole or lost, so that a step of one command leaves
what another has in hand as sound as it was (`JobsStillFit`). The account of the archive
changes only by a restore, which overtakes whoever has read something, or from unknown to
known, whose references fit any account (`MeanwhileFits`); and it may change between the
two checks, but the second one is in the transaction (`MergedRow`, `RestoredRow`).

`SchemaUpgradeProofs`, for any processes, messages, rows, old versions and faults
(`SchemaUpgradeAssumption`: the marks for nothing are no messages, rows or identifiers,
and old versions are older):

* `TypeCorrect`, `CurrentArchiveIsComplete`, `OldBackupFindsItsRows`: the invariants
  `TypeOK`, `CurrentIsComplete`, `OldBackupIsRecognised`;
* `Refinement`: the property `ImplementsUpgrade`.

`CurrentIsComplete` is inductive only with what a process that is about to write the
version has seen to. `IInv` says for each step what the archive has when some process is
there (`Reached`): the tables after the first statements, the columns after the second,
identifiers from the unique index on. It holds for every process at once because no step
takes anything away, so a rival that is behind does no harm; a process that reads the columns
and adds them later may find them added, and what it takes to be missing is an upper bound.
`IdsFit` says whose an identifier is: of its message, and without a row only for the
first of its rows, from which a pull finds the rows of an old backup (`RowIsRecognised`).

`RemoteMediaProofs`, for any number of messages and accounts and any relation of messages to
files (`RemoteMediaAssumption`):

* `TypeCorrect`, `CountsOfEveryImport`, `MediaOfOwnSession`: the invariants `TypeOK`,
  `CountsAreTrue`, `OwnMedia`;
* `NothingLeftUnshared`: `NothingIsOverlooked`, where records of one message name the same
  resource if they name any (`SameMedia`).

At the end the counts are those of all candidates; before, `StatsFit` says that they are
those of the candidates whose account has been dealt with, and `SessionFits` that the
tally of the session in progress is that of the messages it has passed. Indexes of
different accounts are disjoint, so the cardinalities add up, and a session that breaks is
dropped with its tally.

`SameMedia` is a hypothesis, not an assumption of the module: the code does not enforce
it. A pass shares files among the records of one message (twins), and then what there is
among those of one resource. If twins named different resources, a file could be handed on
along a chain, from message to resource to another message, longer than there are passes.
With `SameMedia` any pass leaves a record without a file only where no other of its
resource has one, and where twins that have one found it by a resource which the record
does not name (`OnceShared`, shown by `SharedOnce`). The next pass, if no file comes in
between, gives it to these too (`FullyShared`, shown by `SharedTwice`). So it matters that
`Finish` shares after the last pass of `Start` or `Share`, and drops no file. That the
number of missing files is not too low follows, as files only become more and candidates
fewer (`MissingShrinks`).

`WalSnapshotProofs`, for any number of pages, frames, commits, logs and attempts
(`WalAssumption`: they are natural numbers, pages and attempts at least one):

* `TypeCorrect`, `CopiesAreCommitted`: the invariants `TypeOK`, `SnapshotIsCommitted`.

The invariant first says what Telegram's own files hold together at any time. The frames
of committed transactions come first in the log, and the last one of each page has the
page as it was committed (`LogFits`); so the main file, wherever checkpoints have got to,
`Completes` them to the committed image; and the file of the log holds what was written
since its reset, under its salt, before remnants of older salts (`WalFits`). The reader's
part rests on the second stats. A log that is as it was at the first one (`Still`) has been
so all along, so the copy has its frames, and its pages that no frame has are as committed
(`CopiedSoFar`): a checkpoint during the copy may write other pages, but only with what
committed frames hold, and those are replayed over them. So the copied pages are completed
too (`StillCopied`), although they need not be the main file of any one moment. Where there
was no log, a main file that has not moved is an image since the attempt began (`Calm`).
Last, `ValidFramesAreTheLog` shows that salts and checksums accept exactly the log, and
`ReplaysCommitted` that replaying it over such pages gives the committed image. What a step
of Telegram means for the reader is said once (`Onward`), so that the reader's invariant is
shown against that and not against each of its actions. All of it rests on the two
assumptions about clocks and on checksums that do not collide (section 2).

`BackupPublicationProofs`, for any number of processes, checkouts, paths, texts, tags and
commits (`PublicationAssumption`: exports are not empty and well-typed, limits are numbers):

* `TypeCorrect`, `PullsOneExport`: the invariants `TypeOK` and `PulledIsExport`, however
  many processes share a checkout;
* `PublishedWhole`, `UnownedFilesSurvive`: `PublishedIsWhole` and the action property
  `UnownedSurvives`, for processes with a checkout each (`Apart`);
* `PublishedWasVerified`: under the same condition, the property that the run
  `PublicationRace` refutes for two processes in one checkout;
* `PushesItsExport`, `Refinement`: `PublishesItsExport` and `ImplementsLog`, when in
  addition texts of one size are one text (`SizesDiffer`).

`Apart` and `SizesDiffer` are hypotheses of the theorems, not assumptions of the module,
since the code does not enforce either: there is no lock on a checkout, and git's side of
the verification compares sizes. `Fits` needs neither: every manifest there is, in a
commit, a work tree or a process, was exported once, a pull has read what its manifest lists
but for what it has still to read, and a name about to be published stands for a commit of
the branch that is published with it. `IInv` adds what a push finds as it left it in a
checkout of its own (`PushFits`): between two shards the files of the work tree are those of
the manifest it found and those it wrote; from the commit to the upload the tip is its
snapshot, and what is uploaded has been verified on top of what the remote has. That
the remote may have moved in the meantime is harmless, because the upload succeeds
only if the remote is a prefix. `VerifiedIsWhole` finds for each commit the last one
that was verified against its own manifest.

`MessageHistoryProofs`, for any number of archives and texts, histories of any length and
any order of hashes (`HistoryAssumption`: "no text" is no text):

* `TypeCorrect`, `RowsAreRecorded`, `HistoriesAreClosed`: the invariants `TypeOK`,
  `RowIsRecorded`, `HistoryIsClosed`;
* `NewerEditsSurvive`, `ResurrectionHasACause`, `DeletionsYieldOnlyToLater`: the action
  properties `MergeKeepsNewerEdit`, `ResurrectionIsCausal`, `DeletionYieldsOnlyToLater`.

The snapshot is treated as one more archive. `IInv` says of each archive that its row,
times and revisions fit (`ArchiveFits`), that its history is `Closed` and that its row is
`Explained`. It is carried through an operation by the parts every operation is made of:
a loop that inserts revisions, a choice, a propagation, a baseline and a recording
(`LoopRuns` and the lemmas on each). What a loop does is shown without induction
over its input: if some round were wrong there would be a first wrong one, since the
naturals are well-founded, and the round before it was right (`EveryRound`).

`MergeKeepsNewerEdit` needs more, of all revisions there are anywhere (`EditInv`): along
a chain the edit times of live payloads do not decrease, a live payload is observed after
everything its chain tells of, and one without an edit time was observed before any edit.
From there the three cases of `preferRevisionOrder` give the edit times, although each
compares something else: ancestry, the event time, or a corrected time.
`DeletionYieldsOnlyToLater` needs that the tip of an archive that holds a tombstone is no
earlier than the deletion (`LateTips`). The fold that computes a tip is not a maximum; but
in the order of the index the tip is no earlier than any revision it does not descend
from (`BestIsLate`), and nothing descends from a deletion that has just been recorded,
since histories are closed (`AncestorsAreThere`).

An attempted proof refuted an older form of `ResurrectionIsCausal`, "only by a successor
of a deletion the archive knew". TLC finds the counterexample with three archives and six
revisions, more than the run `History` has: three archives hold a message. The second
deletes the chat and pushes, and the first merges that. The third fetches an edit and
pushes, the first merges, pushes, and restores what it pushed. Then the third fetches
one more change and pushes, and the merge of the first revives the message by an event that
has no deletion among its ancestors. The deletion of a chat is recorded with the
message's tombstone, but not the payload of the row itself, so the choice falls to the tip
of all revisions; and the fold, depending on the hashes, ends at a live event. This is
the cause of the finding `HistoryAncestor` again. What the property says now is what
is true of the code: a revival descends from an event the archive knew, and from the
deletion itself where that one was recorded with the row.

Other things the proofs changed: two guards of `AfterCommit` in the publication
overlapped for a push with a tag, so that it was left open whether its commit is verified
before it is tagged; `SchemaUpgrade` relied on "no identifier" being none and did not
assume it.

Only model-checked: `OpensInTheEnd`, which is liveness under fairness and so out of the
prover's reach. The properties of the three runs that expect a violation are false of the
code; `PublicationRace`'s is proved under `Apart`.

## 5. What is left out of the models

* Of the publication: the README file of the backup, recipients and re-encryption, merge
  commits, the configuration of the remote, and the aliases of paths that
  `validateOwnedFiles` and `validateWriteLayout` refuse.
* Of the upgrade: plain indexes one by one, and the columns of chats and folders that no
  step reads. A newer build that upgrades the archive at the same time does not exist yet.
* Of the import: the avatars of contacts, which are staged and promoted like media, the
  `--chat` filter, and what the importers make of Telegram's data.
* Of the forum topics of `tdata.go`: the loop over pages ends by its limits and by
  cursors that repeat; whether what it returns is complete depends on the answers of a
  server that is not part of the repository.
* Of the importers: the conversion of records, the decoders, keys and the page cipher.
* Everywhere: payload columns and their encoding, contacts (no parent, same upsert),
  positions and titles, formatting, flags, and git's and crawlkit's inner workings.

Read-only parts (queries, probe, output) change nothing. Each component that is not
modelled is listed with its reason in `PROJECT.json`.

## 6. Plan

What is left: event identifiers and their normalisation inside the message history, where
a message is its `event_id` so far; and a composition of `RemoteMedia` with `FloodWait`,
which says of a session how long it may take.
