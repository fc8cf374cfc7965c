----------------------------- MODULE ImportFlow -----------------------------
(***************************************************************************)
(* The import command of cli.go, from the reading of the archive's media   *)
(* references to the transaction of MergeAll or ReplaceAll, with any       *)
(* number of commands on one archive.  Each reads the archive several      *)
(* times, moves files into it, and commits last; between its steps others  *)
(* import, restore, or pull a backup, and an account may log out of        *)
(* Telegram and another one in.                                            *)
(*                                                                         *)
(* A message stands for its source_pk and event_id, which are made of chat *)
(* and message id and are the same for every account.  Its media are the   *)
(* content that the account sees under that id; a file of the archive is   *)
(* named after the content it had when it was put there.                   *)
(***************************************************************************)
EXTENDS Naturals, FiniteSets

CONSTANTS
    Command,
    Account,
    Unknown,        \* no stored identity; the account of rows of before
    Message,
    Path,           \* the source paths
    BackupPath,     \* the source path of a restored backup
    NoPath,
    NoMedia,        \* an empty media_path
    Broken,         \* what a damaged file holds
    Gone,           \* a file that is not there
    NoRow,
    Unseen,         \* a message that an import has not read
    MaxLosses,      \* bound on the files that are lost or damaged
    MaxPulls        \* bound on the backups that are pulled

-----------------------------------------------------------------------------
Owner == Account \cup {Unknown}

Content == Owner \X Message

Name == Content \cup {Broken}

Media == Name \cup {NoMedia}

Row == [of : Owner, media : Media]

ASSUME ImportFlowAssumption ==
    /\ Unknown \notin Account
    /\ NoMedia # Unseen /\ {NoMedia, Unseen} \cap Name = {}
    /\ Broken \notin Content /\ Gone \notin Name
    /\ NoRow \notin Row
    /\ BackupPath \notin Path /\ NoPath \notin Path \cup {BackupPath}
    /\ MaxLosses \in Nat /\ MaxPulls \in Nat

VARIABLES
    identity,   \* source_identity of sync_state
    source,     \* source_path of sync_state
    rows,       \* the table of messages
    files,      \* what is in the media directory, by file name
    job,        \* what each command has in hand
    lost,       \* the names of files lost, damaged, or only in a backup
    crossed,    \* messages merged with a reference from before a restore
    losses,     \* the files lost or damaged so far
    pulls       \* the backups pulled so far

store == <<identity, source, rows>>
vars == <<store, files, job, lost, crossed, losses, pulls>>

-----------------------------------------------------------------------------
Stages == {"new", "cache", "refs", "import", "check", "fill", "promote", "commit", "done"}

Job == [pc : Stages, mode : {"merge", "adopt", "restore"}, path : Path \cup {NoPath},
        loaded : BOOLEAN, from : Path \cup {BackupPath, NoPath}, refs : [Message -> Media],
        unread : SUBSET Message, seen : [Message -> SUBSET Name], overtaken : BOOLEAN,
        account : Owner, found : [Message -> Media \cup {Unseen}],
        staged : SUBSET Message, todo : SUBSET Message]

None == [m \in Message |-> NoMedia]

Nothing == [m \in Message |-> {}]

JobAt(stage) ==
    [pc |-> stage, mode |-> "merge", path |-> NoPath,
     loaded |-> FALSE, from |-> NoPath, refs |-> None,
     unread |-> {}, seen |-> Nothing, overtaken |-> FALSE,
     account |-> Unknown, found |-> [m \in Message |-> Unseen],
     staged |-> {}, todo |-> {}]

NewJob == JobAt("new")

Empty == \A m \in Message : rows[m] = NoRow

Whole(n) == files[n] = n

-----------------------------------------------------------------------------
(***************************************************************************)
(* A new archive, or one from before identities were stored.               *)
(***************************************************************************)
Init ==
    /\ identity = Unknown
    /\ \/ source = NoPath /\ rows = [m \in Message |-> NoRow]
       \/ source \in Path /\ rows \in [Message -> [of : {Unknown}, media : Media] \cup {NoRow}]
    /\ \A m \in Message : rows[m] # NoRow => rows[m].media \in {NoMedia, <<Unknown, m>>}
    /\ files = [n \in Name |-> IF \E m \in Message : rows[m] # NoRow /\ rows[m].media = n
                               THEN n ELSE Gone]
    /\ job = [c \in Command |-> NewJob]
    /\ lost = {} /\ crossed = {}
    /\ losses = 0 /\ pulls = 0

-----------------------------------------------------------------------------
At(c, stage) == job[c].pc = stage

Now(c, j) == job' = [job EXCEPT ![c] = j]

Goto(c, stage) == Now(c, [job[c] EXCEPT !.pc = stage])

End(c) == Now(c, JobAt("done"))

\* What only the world outside changes, or is there for a property.
Rest == UNCHANGED <<lost, losses, pulls>>

(***************************************************************************)
(* --restore or not, --adopt-source, --fetch-media.                        *)
(***************************************************************************)
Begin(c) ==
    /\ At(c, "new")
    /\ \E p \in Path, mode \in {"merge", "adopt", "restore"}, fetch \in BOOLEAN :
          Now(c, [job[c] EXCEPT
                    !.path = p,
                    !.mode = mode,
                    !.pc = IF fetch /\ mode # "restore" THEN "cache" ELSE "import"])
    /\ UNCHANGED <<store, files, crossed>> /\ Rest

(***************************************************************************)
(* existingMediaRefs: the source path, then the rows with media, and then  *)
(* which of the files exist.  All is kept for the rest of the import.  The *)
(* rows are read in batches by their rowid; between two batches others may *)
(* change what is read, and a row that they insert comes last.  A batch    *)
(* may hold none of the messages here.                                     *)
(***************************************************************************)
Loaded(j, refs) ==
    [j EXCEPT !.refs = refs, !.loaded = TRUE, !.unread = {}, !.seen = Nothing,
              !.pc = IF j.account = Unknown THEN "import" ELSE "fill"]

ReadLastSource(c) ==
    /\ At(c, "cache")
    /\ Now(c, IF source = NoPath THEN Loaded(job[c], None)
              ELSE [job[c] EXCEPT !.from = source,
                                  !.unread = {m \in Message : rows[m] # NoRow},
                                  !.pc = "refs"])
    /\ UNCHANGED <<store, files, crossed>> /\ Rest

Seen(c, batch) ==
    [m \in Message |->
        job[c].seen[m] \cup (IF m \in batch /\ rows[m] # NoRow
                             THEN {rows[m].media} \ {NoMedia} ELSE {})]

ReadBatch(c) ==
    /\ At(c, "refs")
    /\ \E batch \in SUBSET job[c].unread \ {{}} :
          Now(c, [job[c] EXCEPT !.seen = Seen(c, batch), !.unread = @ \ batch])
    /\ UNCHANGED <<store, files, crossed>> /\ Rest

\* A slip: a reference to what the file holds, without a look whether it is there.
RefToContent(names) ==
    IF names = {} THEN {NoMedia} ELSE {files[n] : n \in names}

\* Of several rows of a message, one before and one after a restore, either
\* file may be there.
Ref(names) ==
    LET there == {n \in names : files[n] # Gone}
    IN  IF there = {} THEN {NoMedia} ELSE there

ReadMediaRefs(c) ==
    /\ At(c, "refs")
    /\ LET seen == Seen(c, job[c].unread)
       IN  \E refs \in [Message -> UNION {Ref(seen[m]) : m \in Message}] :
              /\ \A m \in Message : refs[m] \in Ref(seen[m])
              /\ Now(c, Loaded(job[c], refs))
    /\ UNCHANGED <<store, files, crossed>> /\ Rest

(***************************************************************************)
(* telegramdesktop.Import reads some messages of the account that is       *)
(* logged in by now.  A file that the archive has for the same source path *)
(* is copied to the stage with whatever it holds; another one is found     *)
(* locally, downloaded, or missing.                                        *)
(***************************************************************************)
Reused(c, m) ==
    IF job[c].from # job[c].path \/ job[c].refs[m] = NoMedia THEN {}
    ELSE {files[job[c].refs[m]]} \ {Gone}

Available(c, a, m) ==
    {<<a, m>>} \cup (IF Reused(c, m) = {} THEN {NoMedia} ELSE Reused(c, m))

Import(c) ==
    /\ At(c, "import")
    /\ \E a \in Account, found \in [Message -> Media \cup {Unseen}] :
          LET kept == {m \in Message : found[m] \in Name}
          IN  /\ \A m \in Message : found[m] \in Available(c, a, m) \cup {Unseen}
              /\ Now(c, [job[c] EXCEPT
                           !.account = a,
                           !.found = found,
                           !.staged = kept,
                           !.todo = kept,
                           !.pc = "check"])
    /\ UNCHANGED <<store, files, crossed>> /\ Rest

(***************************************************************************)
(* ensureMergeSource: the account of the archive if that is known, and     *)
(* otherwise an empty archive or one that is adopted.                      *)
(***************************************************************************)
\* A slip: an unchanged source path is taken for the same account.
MayMergeSamePath(c) ==
    IF identity # Unknown THEN identity = job[c].account \/ source = job[c].path
    ELSE Empty \/ job[c].mode = "adopt"

MayMerge(c) ==
    IF identity # Unknown THEN identity = job[c].account
    ELSE Empty \/ job[c].mode = "adopt"

Check(c) ==
    /\ At(c, "check")
    /\ \/ /\ job[c].mode = "restore"
          /\ Goto(c, "promote")
       \/ /\ job[c].mode # "restore" /\ MayMerge(c)
          /\ Goto(c, IF job[c].loaded THEN "fill" ELSE "cache")
       \/ /\ job[c].mode # "restore" /\ ~MayMerge(c)
          /\ End(c)
    /\ UNCHANGED <<store, files, crossed>> /\ Rest

(***************************************************************************)
(* preserveExistingMediaRefs: messages without media take what is cached,  *)
(* whatever source path it is from.                                        *)
(***************************************************************************)
Lacking(c) == {m \in Message : job[c].found[m] = NoMedia /\ job[c].refs[m] # NoMedia}

Fill(c) ==
    /\ At(c, "fill")
    /\ Now(c, [job[c] EXCEPT
                 !.found = [m \in Message |-> IF m \in Lacking(c) THEN job[c].refs[m] ELSE @[m]],
                 !.todo = @ \cup Lacking(c),
                 !.pc = "promote"])
    /\ UNCHANGED <<store, files, crossed>> /\ Rest

(***************************************************************************)
(* promoteImportMedia: a staged file is linked into the archive, or        *)
(* dropped when the archive has it whole; a file of the archive is only    *)
(* verified.  A name that holds something else ends the import.            *)
(***************************************************************************)
Promote(c) ==
    /\ At(c, "promote")
    /\ \E m \in job[c].todo :
          LET n == job[c].found[m]
              rest == [job[c] EXCEPT !.todo = @ \ {m}, !.staged = @ \ {m}]
          IN  \/ /\ m \in job[c].staged /\ files[n] = Gone
                 /\ files' = [files EXCEPT ![n] = n]
                 /\ Now(c, rest)
              \/ /\ Whole(n)
                 /\ Now(c, rest)
                 /\ UNCHANGED files
              \/ /\ ~Whole(n)
                 /\ m \in job[c].staged => files[n] # Gone
                 /\ End(c)
                 /\ UNCHANGED files
    /\ UNCHANGED <<store, crossed>> /\ Rest

(***************************************************************************)
(* storeImportResultCached: the references are filled and verified again;  *)
(* the cache fills none that it has not filled before.                     *)
(***************************************************************************)
Validate(c) ==
    /\ At(c, "promote")
    /\ job[c].todo = {}
    /\ IF \A m \in Message : job[c].found[m] \in Name => Whole(job[c].found[m])
       THEN Goto(c, "commit") ELSE End(c)
    /\ UNCHANGED <<store, files, crossed>> /\ Rest

(***************************************************************************)
(* The rows that an import leaves behind.  A message without media does    *)
(* not take away what the row has.                                         *)
(***************************************************************************)
\* A slip: the row is overwritten, with or without media.
MergedBare(c) ==
    [m \in Message |->
        IF job[c].found[m] = Unseen THEN rows[m]
        ELSE [of |-> job[c].account, media |-> job[c].found[m]]]

Merged(c) ==
    [m \in Message |->
        IF job[c].found[m] = Unseen THEN rows[m]
        ELSE [of |-> job[c].account,
              media |-> IF job[c].found[m] = NoMedia /\ rows[m] # NoRow THEN rows[m].media
                        ELSE job[c].found[m]]]

Restored(c) ==
    [m \in Message |->
        IF job[c].found[m] = Unseen THEN NoRow
        ELSE [of |-> job[c].account, media |-> job[c].found[m]]]

(***************************************************************************)
(* A command that is reading comes to the rows that someone inserts.  It   *)
(* is overtaken when it has read something, and then the archive is        *)
(* restored for another account.                                           *)
(***************************************************************************)
Meanwhile(j, restored) ==
    LET inserted == {m \in Message : rows'[m] # NoRow /\ (restored \/ rows[m] = NoRow)}
    IN  [j EXCEPT !.unread = IF j.pc = "refs" THEN @ \cup inserted ELSE @,
                  !.overtaken = \/ @
                                \/ /\ restored /\ identity \notin {Unknown, identity'}
                                   /\ j.refs # None \/ j.seen # Nothing]

Carried(c) ==
    {m \in Message : job[c].found[m] = job[c].refs[m] /\ job[c].refs[m] # NoMedia}

\* A slip: MergeAll relies on the check that was made before the files were moved.
AcceptsChecked(c) == TRUE

Accepts(c) == job[c].mode = "restore" \/ MayMerge(c)

Commit(c) ==
    /\ At(c, "commit")
    /\ Accepts(c)
    /\ rows' = IF job[c].mode = "restore" THEN Restored(c) ELSE Merged(c)
    /\ identity' = job[c].account
    /\ source' = job[c].path
    /\ crossed' = IF job[c].mode # "restore" /\ job[c].overtaken
                  THEN crossed \cup Carried(c) ELSE crossed
    /\ job' = [d \in Command |-> IF d = c THEN JobAt("done")
                                 ELSE Meanwhile(job[d], job[c].mode = "restore")]
    /\ UNCHANGED files /\ Rest

Refuse(c) ==
    /\ At(c, "commit")
    /\ ~Accepts(c)
    /\ End(c)
    /\ UNCHANGED <<store, files, crossed>> /\ Rest

\* A slip: an import that fails takes the files with it that it has put there.
FailAndUndo(c) ==
    /\ job[c].pc \notin {"new", "done"}
    /\ End(c)
    /\ files' = [n \in Name |->
                   IF \E m \in Message \ job[c].todo : job[c].found[m] = n THEN Gone ELSE files[n]]
    /\ UNCHANGED <<store, crossed>> /\ Rest

(***************************************************************************)
(* An error, a signal or a crash.  Only the stage goes, or stays behind.   *)
(***************************************************************************)
Fail(c) ==
    /\ job[c].pc \notin {"new", "done"}
    /\ End(c)
    /\ UNCHANGED <<store, files, crossed>> /\ Rest

-----------------------------------------------------------------------------
(***************************************************************************)
(* MergeSnapshot and RestoreSnapshot.  A backup says of whom it is, unless *)
(* it is an old one; it has the rows, with the names of media files, but   *)
(* not the files.                                                          *)
(***************************************************************************)
Backup(b) ==
    {r \in [Message -> [of : {b}, media : Media] \cup {NoRow}] :
        \A m \in Message : r[m] # NoRow => r[m].media \in {NoMedia, <<b, m>>}}

MayMergeBackup(b) == IF identity # Unknown THEN b = identity ELSE Empty

WithBackup(backup) ==
    [m \in Message |->
        IF backup[m] = NoRow THEN rows[m]
        ELSE IF rows[m] = NoRow \/ rows[m].media = NoMedia THEN backup[m]
        ELSE [backup[m] EXCEPT !.media = rows[m].media]]

Missing(backup) ==
    {n \in Name : files[n] = Gone /\ \E m \in Message : backup[m] # NoRow /\ backup[m].media = n}

Pulled(backup, restored) ==
    /\ lost' = lost \cup Missing(backup)
    /\ job' = [d \in Command |-> Meanwhile(job[d], restored)]
    /\ pulls' = pulls + 1
    /\ UNCHANGED <<files, crossed, losses>>

MergeSnapshot ==
    /\ pulls < MaxPulls
    /\ \E b \in Owner : \E backup \in Backup(b) :
          /\ MayMergeBackup(b)
          /\ rows' = WithBackup(backup)
          /\ identity' = IF b = Unknown THEN identity ELSE b
          /\ Pulled(backup, FALSE)
    /\ UNCHANGED source

RestoreSnapshot ==
    /\ pulls < MaxPulls
    /\ \E b \in Owner : \E backup \in Backup(b) :
          /\ rows' = backup
          /\ identity' = b
          /\ source' = BackupPath
          /\ Pulled(backup, TRUE)

(***************************************************************************)
(* A file of the archive is removed or damaged by someone else.            *)
(***************************************************************************)
Lose ==
    /\ losses < MaxLosses
    /\ \E n \in Content, what \in {Gone, Broken} :
          /\ Whole(n)
          /\ files' = [files EXCEPT ![n] = what]
          /\ lost' = lost \cup {n}
    /\ losses' = losses + 1
    /\ UNCHANGED <<store, job, crossed, pulls>>

-----------------------------------------------------------------------------
Step(c) ==
    \/ Begin(c) \/ ReadLastSource(c) \/ ReadBatch(c) \/ ReadMediaRefs(c)
    \/ Import(c) \/ Check(c) \/ Fill(c) \/ Promote(c) \/ Validate(c) \/ Commit(c) \/ Refuse(c) \/ Fail(c)

Next ==
    \/ \E c \in Command : Step(c)
    \/ MergeSnapshot \/ RestoreSnapshot \/ Lose

Spec == Init /\ [][Next]_vars

-----------------------------------------------------------------------------
TypeOK ==
    /\ identity \in Owner
    /\ source \in Path \cup {BackupPath, NoPath}
    /\ rows \in [Message -> Row \cup {NoRow}]
    /\ files \in [Name -> Name \cup {Gone}]
    /\ job \in [Command -> Job]
    /\ lost \subseteq Name
    /\ crossed \subseteq Message
    /\ losses \in 0 .. MaxLosses
    /\ pulls \in 0 .. MaxPulls

(***************************************************************************)
(* The archive is of one account, whoever imports, restores and pulls at   *)
(* the same time: every row is of the account that is stored, or from      *)
(* before there was one.                                                   *)
(***************************************************************************)
OneAccount ==
    \A m \in Message : rows[m] # NoRow => rows[m].of \in {identity, Unknown}

(***************************************************************************)
(* The file that a row refers to is in the archive with the content it is  *)
(* named after, however imports end, unless someone else took or damaged   *)
(* it or it never was on this machine.                                     *)
(***************************************************************************)
FilesAreThere ==
    \A m \in Message :
        rows[m] # NoRow /\ rows[m].media # NoMedia
            => Whole(rows[m].media) \/ rows[m].media \in lost

(***************************************************************************)
(* A message has the media of its own account, whoever restores, pulls and *)
(* imports while an import reads references, fills its messages with them  *)
(* and stores them.  The exception is a message that a merge has given a   *)
(* reference which it had read before someone else restored the archive    *)
(* for another account: neither check of the account sees that, and both   *)
(* accounts have the same source_pk.                                       *)
(***************************************************************************)
MediaBelongs ==
    \A m \in Message \ crossed :
        rows[m] # NoRow /\ rows[m].media \in Content
            => rows[m].media \in {rows[m].of, Unknown} \X {m}

HasMedia(table, m) == table[m] # NoRow /\ table[m].media # NoMedia

(***************************************************************************)
(* Only a restore takes the media of a message away: not an import that    *)
(* found none and started before another one had found some.               *)
(***************************************************************************)
KeepsMedia ==
    [][\/ \A m \in Message : HasMedia(rows, m) => HasMedia(rows', m)
       \/ \E c \in Command : job[c].mode = "restore" /\ Commit(c)
       \/ RestoreSnapshot]_vars

=============================================================================
