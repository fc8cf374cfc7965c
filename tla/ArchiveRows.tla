----------------------------- MODULE ArchiveRows -----------------------------
(***************************************************************************)
(* The tables of the telecrawl archive (internal/store), reduced to what   *)
(* the tombstone logic tells apart: whether a row is there, and whether it *)
(* carries a tombstone.  A batch of rows handed to the store, a snapshot   *)
(* read from a backup and the archive itself all have this one shape.      *)
(* Payload columns are left out, except a message's topic and a chat's     *)
(* message_count, which the propagation and the aggregates read.           *)
(***************************************************************************)
EXTENDS Naturals, FiniteSets

CONSTANTS
    Chats,         \* chats.id
    Topics,        \* forum topics, the (chat_jid, topic_id) pairs
    TopicChat,     \* the chat_jid of a topic
    Messages,      \* messages.event_id
    MessageChat,   \* the chat_jid of a message
    NoTopic,       \* an empty messages.topic_id
    Folders,       \* folders.id
    Groups,        \* groups.jid
    Users,         \* group_participants.user_jid
    Batches        \* the row sets a caller may hand to the store

ASSUME RowsAssumption ==
    /\ TopicChat \in [Topics -> Chats]
    /\ MessageChat \in [Messages -> Chats]
    /\ NoTopic \notin Topics
    /\ IsFiniteSet(Messages)

\* A row is missing, live (deleted_at is null) or a tombstone.
Status == {"absent", "live", "dead"}

\* The topics a message of m's chat can name: the join key is (chat_jid, topic_id).
TopicsOf(m) == {t \in Topics : TopicChat[t] = MessageChat[m]} \cup {NoTopic}

Tables ==
    [chats        : [Chats -> Status],
     count        : [Chats -> Nat],
     topics       : [Topics -> Status],
     messages     : [Messages -> Status],
     topic        : [Messages -> Topics \cup {NoTopic}],
     folders      : [Folders -> Status],
     members      : [Folders \X Chats -> Status],
     groups       : [Groups -> Status],
     participants : [Groups \X Users -> Status]]

Rows == {r \in Tables : \A m \in Messages : r.topic[m] \in TopicsOf(m)}

ASSUME BatchesAssumption == Batches \subseteq Rows

NoRows ==
    [chats        |-> [c \in Chats |-> "absent"],
     count        |-> [c \in Chats |-> 0],
     topics       |-> [t \in Topics |-> "absent"],
     messages     |-> [m \in Messages |-> "absent"],
     topic        |-> [m \in Messages |-> NoTopic],
     folders      |-> [f \in Folders |-> "absent"],
     members      |-> [k \in Folders \X Chats |-> "absent"],
     groups       |-> [g \in Groups |-> "absent"],
     participants |-> [k \in Groups \X Users |-> "absent"]]

Present(table) == {k \in DOMAIN table : table[k] # "absent"}

LiveMessages(r) == {m \in Messages : r.messages[m] = "live"}
LiveIn(r, c) == {m \in LiveMessages(r) : MessageChat[m] = c}

-----------------------------------------------------------------------------
(***************************************************************************)
(* Writing a batch (writeImport, insertGroups, insertGroupParticipants).   *)
(***************************************************************************)

\* MergeAll and ReplaceAll take the batch's row.  A tombstone only overlays an
\* existing row (updateExistingTombstone), so its payload stays; a live row
\* clears the tombstone of the row it replaces.
Overwritten(cur, new) ==
    [k \in DOMAIN cur |-> IF new[k] = "absent" THEN cur[k] ELSE new[k]]

\* A snapshot merge keeps the row it finds: updateExistingTombstone returns at
\* once when the row exists, and conflictUpdateWhere keeps tombstones.
Preserved(cur, new) ==
    [k \in DOMAIN cur |-> IF cur[k] = "absent" THEN new[k] ELSE cur[k]]

WrittenTable(cur, new, preserve) ==
    IF preserve THEN Preserved(cur, new) ELSE Overwritten(cur, new)

\* chats.message_count comes with a live row, or with a row that was not there.
WrittenCount(r, b, preserve) ==
    [c \in Chats |->
        IF \/ b.chats[c] = "absent"
           \/ b.chats[c] = "dead" /\ r.chats[c] # "absent"
           \/ preserve /\ r.chats[c] = "dead"
        THEN r.count[c] ELSE b.count[c]]

\* insertMessages on the messages A of the batch: a tombstone keeps the stored
\* payload and with it the stored topic, a live row replaces everything.
WrittenTopic(r, b, A) ==
    [m \in Messages |->
        IF m \in A /\ (r.messages[m] = "absent" \/ b.messages[m] = "live")
        THEN b.topic[m] ELSE r.topic[m]]

Written(r, b, A, preserve) ==
    [chats        |-> WrittenTable(r.chats, b.chats, preserve),
     count        |-> WrittenCount(r, b, preserve),
     topics       |-> WrittenTable(r.topics, b.topics, preserve),
     messages     |-> [m \in Messages |->
                         IF m \in A THEN b.messages[m] ELSE r.messages[m]],
     topic        |-> WrittenTopic(r, b, A),
     folders      |-> WrittenTable(r.folders, b.folders, preserve),
     members      |-> WrittenTable(r.members, b.members, preserve),
     groups       |-> WrittenTable(r.groups, b.groups, preserve),
     participants |-> WrittenTable(r.participants, b.participants, preserve)]

\* Which of a snapshot's messages mergeableSnapshotMessages lets through: every
\* message the archive lacks, and of the others those the revision graph favours.
\* The graph is MessageHistory's subject, so here the favoured ones are any set.
Acceptable(r, b) ==
    {A \in SUBSET Present(b.messages) :
        \A m \in Present(b.messages) : r.messages[m] = "absent" => m \in A}

-----------------------------------------------------------------------------
(***************************************************************************)
(* What the telegramdesktop importers hand over: no groups, no tombstone,  *)
(* and a message_count that counts the messages fetched with the chat.     *)
(***************************************************************************)
ImportBatch(b) ==
    /\ Present(b.groups) = {}
    /\ Present(b.participants) = {}

FetchedBatch(b) ==
    /\ ImportBatch(b)
    /\ \A table \in {b.chats, b.topics, b.messages, b.folders, b.members} :
          \A k \in DOMAIN table : table[k] # "dead"
    /\ \A c \in Chats : b.count[c] = Cardinality(LiveIn(b, c))
=============================================================================
