--------------------------- MODULE SchemaUpgrade ---------------------------
(***************************************************************************)
(* Open of store.go: every command opens the archive, and the first ones   *)
(* of a new build upgrade its schema on the way.  The upgrade is a list of *)
(* statements, most of which commit by themselves, and three transactions; *)
(* the version is written last.  Any number of processes may be at it, a   *)
(* process may end or see a statement fail anywhere, and a process of the  *)
(* build before may still import into a table that is not yet rebuilt.     *)
(*                                                                         *)
(* A row stands for its rowid and its source_pk, which the old schema      *)
(* keeps unique.  Of the columns there is one that identifies messages,    *)
(* one for tombstones and one of the table of revisions.                   *)
(***************************************************************************)
EXTENDS Naturals

CONSTANTS
    Process,
    Message,        \* the messages, as chat and message id
    NoMessage,      \* what a free row holds
    Gone,           \* the messages whose chat an old archive has deleted
    NoRow,          \* in an identifier made of chat and message id only
    NoId,           \* an event_id that is null
    SchemaVersion,  \* schemaVersion
    OldVersions,    \* the versions of the archives to upgrade
    MaxFaults,      \* bound on the processes that end early
    MaxRows         \* bound on the rows of messages

ASSUME SchemaUpgradeAssumption ==
    /\ NoMessage \notin Message /\ Gone \subseteq Message
    /\ NoRow \notin Nat
    /\ NoId \notin [message : Message, row : 1 .. MaxRows \cup {NoRow}]
    /\ SchemaVersion \in Nat \ {0}
    /\ OldVersions \subseteq 1 .. SchemaVersion - 1
    /\ MaxFaults \in Nat /\ MaxRows \in Nat

VARIABLES
    version,    \* user_version
    tables,     \* the tables there are
    columns,    \* the columns of these tables that the upgrade knows
    keyed,      \* whether messages has a unique source_pk, and may miss ids
    message,    \* the message of each row
    eventId,    \* the event_id of each row
    gone,       \* the messages whose chat is deleted
    deleted,    \* the rows with a tombstone
    revisions,  \* what is recorded, as event_id and event_type
    indexed,    \* the rows in messages_fts
    backup,     \* the rows there were when the build before pushed a backup
    pc,         \* the next step of each process
    todo,       \* the tables whose columns a process has not read
    missing,    \* the columns a process has found missing
    faults      \* the processes that have ended early

archive == <<version, tables, columns, keyed, message, eventId, gone, deleted, revisions, indexed>>
vars == <<archive, backup, pc, todo, missing, faults>>

-----------------------------------------------------------------------------
Row == 1 .. MaxRows

ColumnsOf ==
    [messages |-> {"event_id", "deleted_at"},
     message_revisions |-> {"predecessor_event_id"},
     messages_fts |-> {}]

Tables == DOMAIN ColumnsOf
Altered == {"messages", "message_revisions"}
Column == UNION {ColumnsOf[t] : t \in Tables}

StableId(m) == [message |-> m, row |-> NoRow]

\* A slip: the chat and the message id are left out of the digest.
RowId(m, r) == [message |-> NoMessage, row |-> r]

LegacyId(m, r) == [message |-> m, row |-> r]

EventId == [message : Message, row : Row \cup {NoRow}]

Steps == {"closed", "create", "version", "columns", "backfill", "uniqueness",
          "rebuild", "unique", "final", "index", "stamp", "opened"}

Stored == {r \in Row : message[r] # NoMessage}

Family(m) == {r \in Row : message[r] = m}

Identified == \A r \in Stored : eventId[r] # NoId

Distinct ==
    \A r, s \in Stored : eventId[r] = eventId[s] /\ eventId[r] # NoId => r = s

Recorded(id) == \E e \in revisions : e[1] = id

-----------------------------------------------------------------------------
(***************************************************************************)
(* An empty file; an archive of an older build, which has no ids yet and   *)
(* may be from before or after tombstones and revisions; or the archive of *)
(* a newer build.                                                          *)
(***************************************************************************)
Fresh ==
    /\ version = 0
    /\ tables = {} /\ columns = {} /\ keyed = FALSE
    /\ message = [r \in Row |-> NoMessage] /\ backup = 0
    /\ gone = {}

Old ==
    /\ version \in OldVersions
    /\ keyed = TRUE
    /\ message \in [Row -> Message \cup {NoMessage}]
    /\ backup \in 0 .. MaxRows /\ backup < MaxRows
    /\ Stored = 1 .. backup
    /\ \/ tables = {"messages"} /\ columns = {} /\ gone = {}
       \/ tables = Tables /\ columns = {"deleted_at"} /\ gone = Gone

Newer ==
    /\ version = SchemaVersion + 1
    /\ tables = Tables /\ columns = Column /\ keyed = FALSE
    /\ message = [r \in Row |-> NoMessage] /\ backup = 0
    /\ gone = {}

Init ==
    /\ Fresh \/ Old \/ Newer
    /\ eventId = [r \in Row |-> NoId]
    /\ deleted = {}
    /\ revisions = {}
    /\ indexed = {}
    /\ pc = [p \in Process |-> "closed"]
    /\ todo = [p \in Process |-> {}]
    /\ missing = [p \in Process |-> {}]
    /\ faults = 0

-----------------------------------------------------------------------------
At(p, step) == pc[p] = step

Goto(p, step) == pc' = [pc EXCEPT ![p] = step]

Keep == UNCHANGED <<backup, todo, missing, faults>>

Start(p) ==
    /\ At(p, "closed")
    /\ Goto(p, "create")
    /\ UNCHANGED archive /\ Keep

(***************************************************************************)
(* schemaSQL: each table that is missing is created as it is today.        *)
(***************************************************************************)
CreateTable(p) ==
    /\ At(p, "create")
    /\ \E t \in Tables \ tables :
          /\ tables' = tables \cup {t}
          /\ columns' = columns \cup ColumnsOf[t]
    /\ UNCHANGED <<version, keyed, message, eventId, gone, deleted, revisions, indexed, pc>>
    /\ Keep

Created(p) ==
    /\ At(p, "create")
    /\ tables = Tables
    /\ Goto(p, "version")
    /\ UNCHANGED archive /\ Keep

ReadVersion(p) ==
    /\ At(p, "version")
    /\ version <= SchemaVersion
    /\ Goto(p, IF version = SchemaVersion THEN "index" ELSE "columns")
    /\ todo' = [todo EXCEPT ![p] = Altered]
    /\ missing' = [missing EXCEPT ![p] = {}]
    /\ UNCHANGED <<archive, backup, faults>>

RefuseNewer(p) ==
    /\ At(p, "version")
    /\ version > SchemaVersion
    /\ Goto(p, "closed")
    /\ UNCHANGED archive /\ Keep

(***************************************************************************)
(* The columns of one table are read and those that are missing are added  *)
(* one at a time, tables and columns in the order of a Go map.             *)
(***************************************************************************)
\* A slip: a column that is already there is added again.
AllColumns(t) == ColumnsOf[t]

Missing(t) == ColumnsOf[t] \ columns

ReadColumns(p) ==
    /\ At(p, "columns")
    /\ missing[p] = {}
    /\ \E t \in todo[p] :
          /\ todo' = [todo EXCEPT ![p] = @ \ {t}]
          /\ missing' = [missing EXCEPT ![p] = Missing(t)]
    /\ UNCHANGED <<archive, backup, pc, faults>>

AddColumn(p) ==
    /\ At(p, "columns")
    /\ \E c \in missing[p] \ columns :
          /\ columns' = columns \cup {c}
          /\ missing' = [missing EXCEPT ![p] = @ \ {c}]
    /\ UNCHANGED <<version, tables, keyed, message, eventId, gone, deleted, revisions, indexed>>
    /\ UNCHANGED <<backup, pc, todo, faults>>

DuplicateColumn(p) ==
    /\ At(p, "columns")
    /\ missing[p] \cap columns # {}
    /\ Goto(p, "closed")
    /\ UNCHANGED archive /\ Keep

ColumnsAdded(p) ==
    /\ At(p, "columns")
    /\ missing[p] = {} /\ todo[p] = {}
    /\ Goto(p, "backfill")
    /\ UNCHANGED archive /\ Keep

(***************************************************************************)
(* One transaction gives an event_id to every row that has none: a stable  *)
(* one, unless other rows are the same message.                            *)
(***************************************************************************)
Backfilled ==
    [r \in Row |->
        IF r \notin Stored \/ eventId[r] # NoId THEN eventId[r]
        ELSE IF Family(message[r]) = {r} THEN StableId(message[r])
        ELSE LegacyId(message[r], r)]

Backfill(p) ==
    /\ At(p, "backfill")
    /\ eventId' = Backfilled
    /\ Goto(p, "uniqueness")
    /\ UNCHANGED <<version, tables, columns, keyed, message, gone, deleted, revisions, indexed>>
    /\ Keep

(***************************************************************************)
(* The indexes are listed before the transaction that rebuilds the table.  *)
(* The new table takes no row without an event_id, and no event_id twice.  *)
(***************************************************************************)
ReadUniqueness(p) ==
    /\ At(p, "uniqueness")
    /\ Goto(p, IF keyed THEN "rebuild" ELSE "unique")
    /\ UNCHANGED archive /\ Keep

\* A slip: the event_id of the new table may be null.
FitsNullable == Distinct

Fits == Identified /\ Distinct

\* A slip: the version is written together with the new table.
RebuildAndStamp(p) ==
    /\ At(p, "rebuild")
    /\ Fits
    /\ keyed' = FALSE
    /\ version' = SchemaVersion
    /\ Goto(p, "unique")
    /\ UNCHANGED <<tables, columns, message, eventId, gone, deleted, revisions, indexed>>
    /\ Keep

Rebuild(p) ==
    /\ At(p, "rebuild")
    /\ Fits
    /\ keyed' = FALSE
    /\ Goto(p, "unique")
    /\ UNCHANGED <<version, tables, columns, message, eventId, gone, deleted, revisions, indexed>>
    /\ Keep

ConstraintFails(p) ==
    /\ At(p, "rebuild")
    /\ ~Fits
    /\ Goto(p, "closed")
    /\ UNCHANGED archive /\ Keep

CreateUniqueIndex(p) ==
    /\ At(p, "unique")
    /\ Distinct
    /\ Goto(p, "final")
    /\ UNCHANGED archive /\ Keep

(***************************************************************************)
(* The last transaction: a first revision for the messages that have none, *)
(* tombstones for the messages of deleted chats, a revision for each       *)
(* message that is deleted, and a search index of the others.              *)
(***************************************************************************)
Baselines == {<<eventId[r], "observed">> : r \in {s \in Stored : ~Recorded(eventId[s])}}

Propagated == deleted \cup {r \in Stored : message[r] \in gone}

Deletions(dead) == {<<eventId[r], "deleted">> : r \in dead}

FinalTransaction(p) ==
    /\ At(p, "final")
    /\ deleted' = Propagated
    /\ revisions' = revisions \cup Baselines \cup Deletions(Propagated)
    /\ indexed' = Stored \ Propagated
    /\ Goto(p, "index")
    /\ UNCHANGED <<version, tables, columns, keyed, message, eventId, gone>>
    /\ Keep

CreateIndexes(p) ==
    /\ At(p, "index")
    /\ Distinct
    /\ Goto(p, "stamp")
    /\ UNCHANGED archive /\ Keep

StampVersion(p) ==
    /\ At(p, "stamp")
    /\ version' = SchemaVersion
    /\ Goto(p, "opened")
    /\ UNCHANGED <<tables, columns, keyed, message, eventId, gone, deleted, revisions, indexed>>
    /\ Keep

Open(p) ==
    \/ CreateTable(p) \/ Created(p)
    \/ ReadVersion(p) \/ RefuseNewer(p)
    \/ ReadColumns(p) \/ AddColumn(p) \/ DuplicateColumn(p) \/ ColumnsAdded(p)
    \/ Backfill(p)
    \/ ReadUniqueness(p) \/ Rebuild(p) \/ ConstraintFails(p)
    \/ CreateUniqueIndex(p)
    \/ FinalTransaction(p)
    \/ CreateIndexes(p) \/ StampVersion(p)

-----------------------------------------------------------------------------
(***************************************************************************)
(* The process is killed, or a statement fails because the database is     *)
(* busy or the disk is full; a transaction that is open is rolled back.    *)
(***************************************************************************)
Abort(p) ==
    /\ faults < MaxFaults
    /\ pc[p] \notin {"closed", "opened"}
    /\ Goto(p, "closed")
    /\ faults' = faults + 1
    /\ UNCHANGED <<archive, backup, todo, missing>>

Close(p) ==
    /\ At(p, "opened")
    /\ Goto(p, "closed")
    /\ UNCHANGED archive /\ Keep

\* Rows are taken in their order.
Added(record) ==
    /\ \A r \in DOMAIN record, s \in Row : s \in Stored <=> s < r /\ s \notin DOMAIN record
    /\ message' = [r \in Row |-> IF r \in DOMAIN record THEN record[r] ELSE message[r]]
    /\ indexed' = indexed \cup DOMAIN record

(***************************************************************************)
(* An import of this build, of messages whose chats are there: of the rows *)
(* again, which are updated, and of others, which are new.  A message that *)
(* is one row and comes once is that row, whatever its source_pk.  The     *)
(* suffixes of identifiers are for digests that collide.                   *)
(***************************************************************************)
ImportedId(m, r, group) ==
    IF Family(m) = {} /\ group = {r} THEN StableId(m) ELSE LegacyId(m, r)

Import(p) ==
    /\ At(p, "opened")
    /\ \E again \in SUBSET Stored, new \in SUBSET (Row \ Stored) :
       \E record \in [new -> Message \ gone] :
          LET Group(m) == {r \in again : message[r] = m} \cup {r \in new : record[r] = m}
              Id(r) == ImportedId(record[r], r, Group(record[r]))
          IN  /\ new # {} /\ Added(record)
              /\ \A r \in new, s \in Stored :
                    Group(record[r]) = {r} => Family(record[r]) # {s}
              /\ eventId' = [r \in Row |-> IF r \in new THEN Id(r) ELSE eventId[r]]
              /\ revisions' = revisions \cup {<<Id(r), "observed">> : r \in new}
    /\ UNCHANGED <<version, tables, columns, keyed, gone, deleted, pc>>
    /\ Keep

(***************************************************************************)
(* An import of the build before, which knows of no event_id.  The table   *)
(* that was rebuilt refuses it.                                            *)
(***************************************************************************)
OldImport ==
    /\ keyed
    /\ \E r \in Row, m \in Message : Added([s \in {r} |-> m])
    /\ UNCHANGED <<version, tables, columns, keyed, eventId, gone, deleted, revisions>>
    /\ UNCHANGED <<backup, pc, todo, missing, faults>>

-----------------------------------------------------------------------------
(***************************************************************************)
(* What becomes of the backup when an archive that is current pulls it:    *)
(* its messages get an event_id as if they were all there is, and then     *)
(* each of them that the archive does not know is looked up by its chat,   *)
(* message id and source_pk.                                               *)
(***************************************************************************)
Alone(r) == Family(message[r]) \cap 1 .. backup = {r}

Normalized(r) ==
    IF Alone(r) THEN StableId(message[r])
    ELSE LegacyId(message[r], r)

Known(id) == \E s \in Stored : eventId[s] = id

SingleMatch(r) == {s \in Row : Family(message[r]) = {s} /\ Alone(r)}

\* A slip: several rows of one message are not told apart by source_pk.
ResolvedIfSingle(r) ==
    IF ~Known(Normalized(r)) /\ SingleMatch(r) # {}
    THEN eventId[CHOOSE s \in SingleMatch(r) : TRUE]
    ELSE Normalized(r)

Resolved(r) ==
    IF Known(Normalized(r)) THEN Normalized(r)
    ELSE IF SingleMatch(r) # {} THEN eventId[CHOOSE s \in SingleMatch(r) : TRUE]
    ELSE IF r \in Family(message[r]) THEN eventId[r]
    ELSE Normalized(r)

Next ==
    \/ \E p \in Process : Start(p) \/ Open(p) \/ Abort(p) \/ Close(p) \/ Import(p)
    \/ OldImport

(***************************************************************************)
(* A process that has started goes on, unless it ends early.  Nothing says *)
(* that a process is started.                                              *)
(***************************************************************************)
Fairness == \A p \in Process : WF_vars(Open(p))

Spec == Init /\ [][Next]_vars

FairSpec == Spec /\ Fairness

-----------------------------------------------------------------------------
TypeOK ==
    /\ version \in Nat
    /\ tables \subseteq Tables
    /\ columns \subseteq Column
    /\ keyed \in BOOLEAN
    /\ message \in [Row -> Message \cup {NoMessage}]
    /\ eventId \in [Row -> EventId \cup {NoId}]
    /\ gone \subseteq Message
    /\ deleted \subseteq Row
    /\ revisions \subseteq (EventId \cup {NoId}) \X {"observed", "deleted"}
    /\ indexed \subseteq Row
    /\ backup \in 0 .. MaxRows
    /\ pc \in [Process -> Steps]
    /\ todo \in [Process -> SUBSET Altered]
    /\ missing \in [Process -> SUBSET Column]
    /\ faults \in 0 .. MaxFaults

(***************************************************************************)
(* An archive whose version is the current one has been upgraded whole:    *)
(* every table and column is there, every message has an identifier of     *)
(* its own and a history, the messages of deleted chats are deleted and    *)
(* that is recorded, and exactly the other ones can be found.              *)
(***************************************************************************)
Complete ==
    /\ tables = Tables /\ columns = Column /\ ~keyed
    /\ Identified /\ Distinct
    /\ \A r \in Stored : Recorded(eventId[r])
    /\ \A r \in Stored : message[r] \in gone => r \in deleted
    /\ \A r \in deleted : <<eventId[r], "deleted">> \in revisions
    /\ indexed = Stored \ deleted

CurrentIsComplete == version = SchemaVersion => Complete

(***************************************************************************)
(* A backup from before the upgrade has no identifiers.  However the       *)
(* upgrade went, each of its messages is recognised as the row that it is  *)
(* a copy of: to pull it adds no row, and overwrites no other one.         *)
(***************************************************************************)
OldBackupIsRecognised ==
    version = SchemaVersion => \A r \in 1 .. backup : Resolved(r) = eventId[r]

(***************************************************************************)
(* As long as commands are started again and again, one of them opens the  *)
(* archive: no end of a process, rival or import of the build before can   *)
(* leave an archive behind that can not be opened any more.                *)
(***************************************************************************)
OpensInTheEnd ==
    []<><<\E p \in Process : Start(p)>>_vars
        => <>(version > SchemaVersion \/ \E p \in Process : At(p, "opened"))

-----------------------------------------------------------------------------
Published ==
    IF version = SchemaVersion THEN eventId ELSE [r \in Row |-> NoId]

Status ==
    IF version < SchemaVersion THEN "old"
    ELSE IF version = SchemaVersion THEN "current" ELSE "newer"

Upgraded == INSTANCE UpgradedArchive WITH status <- Status, eventId <- Published

(***************************************************************************)
(* Whatever happens on the way, the upgrade is one step that gives every   *)
(* message its identifier, and no later step takes one away.               *)
(***************************************************************************)
ImplementsUpgrade == Upgraded!Spec

=============================================================================
