----------------------------- MODULE ArchiveTree -----------------------------
(***************************************************************************)
(* How internal/store keeps the tree of the archive consistent: MergeAll,  *)
(* ReplaceAll, MergeSnapshot, RestoreSnapshot and ExportAll, each one      *)
(* SQLite transaction on one connection, hence one action.  A merge        *)
(* repairs only what the batch names (tombstoneScope, affectedChatJIDs);   *)
(* a replacement repairs everything.                                       *)
(***************************************************************************)
EXTENDS ArchiveRows

VARIABLES
    rows,      \* the tables
    index,     \* messages_fts: the messages search can find
    backup     \* the last exported snapshot

vars == <<rows, index, backup>>

-----------------------------------------------------------------------------
(***************************************************************************)
(* The part of the archive a batch touches.                                *)
(***************************************************************************)

\* Plausible slip: the form a run's mutant gives the definition below.
ScopeWithoutNamedTopics(b) ==
    [chats   |-> Present(b.chats) \cup {k[2] : k \in Present(b.members)}
                 \cup {TopicChat[t] : t \in Present(b.topics)}
                 \cup {MessageChat[m] : m \in Present(b.messages)},
     folders |-> Present(b.folders) \cup {k[1] : k \in Present(b.members)},
     topics  |-> Present(b.topics),
     groups  |-> Present(b.groups) \cup {k[1] : k \in Present(b.participants)}]

Scope(b) ==
    LET named == {m \in Present(b.messages) : b.topic[m] # NoTopic}
    IN  [chats   |-> Present(b.chats) \cup {k[2] : k \in Present(b.members)}
                     \cup {TopicChat[t] : t \in Present(b.topics)}
                     \cup {MessageChat[m] : m \in Present(b.messages)},
         folders |-> Present(b.folders) \cup {k[1] : k \in Present(b.members)},
         topics  |-> Present(b.topics) \cup {b.topic[m] : m \in named},
         groups  |-> Present(b.groups) \cup {k[1] : k \in Present(b.participants)}]

\* A nil scope: ReplaceAll and RestoreSnapshot propagate over all rows.
Everything ==
    [chats |-> Chats, folders |-> Folders, topics |-> Topics, groups |-> Groups]

AffectedWithoutTopicChats(b) ==
    Present(b.chats) \cup {MessageChat[m] : m \in Present(b.messages)}

AffectedChats(b) ==
    Present(b.chats) \cup {TopicChat[t] : t \in Present(b.topics)}
    \cup {MessageChat[m] : m \in Present(b.messages)}

-----------------------------------------------------------------------------
(***************************************************************************)
(* propagateTombstones: six UPDATE statements, in the order of the source. *)
(* Each reads what the ones before it wrote.                               *)
(***************************************************************************)

\* update ... set deleted_at where deleted_at is null and Hit(row)
Killed(table, Hit(_)) ==
    [k \in DOMAIN table |-> IF table[k] = "live" /\ Hit(k) THEN "dead" ELSE table[k]]

MembersOfDeadFolders(r, s) ==
    [r EXCEPT !.members = Killed(@, LAMBDA k :
        k[1] \in s.folders /\ r.folders[k[1]] = "dead")]

MembersOfDeadChats(r, s) ==
    [r EXCEPT !.members = Killed(@, LAMBDA k :
        k[2] \in s.chats /\ r.chats[k[2]] = "dead")]

TopicsOfDeadChats(r, s) ==
    [r EXCEPT !.topics = Killed(@, LAMBDA t :
        TopicChat[t] \in s.chats /\ r.chats[TopicChat[t]] = "dead")]

MessagesOfDeadChats(r, s) ==
    [r EXCEPT !.messages = Killed(@, LAMBDA m :
        MessageChat[m] \in s.chats /\ r.chats[MessageChat[m]] = "dead")]

MessagesOfDeadTopics(r, s) ==
    [r EXCEPT !.messages = Killed(@, LAMBDA m :
        r.topic[m] \in s.topics /\ r.topics[r.topic[m]] = "dead")]

ParticipantsOfDeadGroups(r, s) ==
    [r EXCEPT !.participants = Killed(@, LAMBDA k :
        k[1] \in s.groups /\ r.groups[k[1]] = "dead")]

MessagesBeforeTopics(r, s) ==
    LET r1 == MembersOfDeadChats(MembersOfDeadFolders(r, s), s)
        r2 == MessagesOfDeadTopics(r1, s)
    IN  ParticipantsOfDeadGroups(TopicsOfDeadChats(r2, s), s)

Propagated(r, s) ==
    LET r1 == MembersOfDeadChats(MembersOfDeadFolders(r, s), s)
        r2 == MessagesOfDeadChats(TopicsOfDeadChats(r1, s), s)
    IN  ParticipantsOfDeadGroups(MessagesOfDeadTopics(r2, s), s)

-----------------------------------------------------------------------------
(***************************************************************************)
(* The chat aggregates and the search index.                               *)
(***************************************************************************)

CountedDown(r, chats) ==
    [r EXCEPT !.count = [c \in Chats |->
        IF c \in chats /\ r.chats[c] = "live"
        THEN @[c] - Cardinality({m \in Messages : MessageChat[m] = c /\ r.messages[m] = "dead"})
        ELSE @[c]]]

\* recomputeChatAggregates: live chats only (last_message_at moves with it).
Recounted(r, chats) ==
    [r EXCEPT !.count = [c \in Chats |->
        IF c \in chats /\ r.chats[c] = "live"
        THEN Cardinality(LiveIn(r, c)) ELSE @[c]]]

\* insertMessages deletes the index row of a message it writes and adds one
\* when the message is live.
Indexed(b, A) == (index \ A) \cup {m \in A : b.messages[m] = "live"}

UnprunedIndex(ix, r, s) == ix

\* pruneDeletedMessageFTS: only messages of the scope's chats and topics.
PrunedIndex(ix, r, s) ==
    ix \ {m \in Messages : /\ r.messages[m] = "dead"
                           /\ \/ MessageChat[m] \in s.chats
                              \/ r.topic[m] \in s.topics}

-----------------------------------------------------------------------------
Init ==
    /\ rows = NoRows
    /\ index = {}
    /\ backup = NoRows

\* writeImport .. pruneDeletedMessageFTS, as MergeAll and a merging
\* importSnapshot run them on the batch b and its accepted messages A.
Merged(b, A, preserve) ==
    LET r == Propagated(Written(rows, b, A, preserve), Scope(b))
    IN  /\ rows' = Recounted(r, AffectedChats(b))
        /\ index' = PrunedIndex(Indexed(b, A), r, Scope(b))
        /\ UNCHANGED backup

\* deletes every table, writes the rows, propagates over all of them and
\* rebuilds the index.  message_count is taken as it comes.
Replaced(b) ==
    /\ rows' = Propagated(Written(NoRows, b, Present(b.messages), FALSE), Everything)
    /\ index' = LiveMessages(rows')
    /\ UNCHANGED backup

MergeAll ==
    \E b \in Batches : ImportBatch(b) /\ Merged(b, Present(b.messages), FALSE)

ReplaceAll ==
    \E b \in Batches : FetchedBatch(b) /\ Replaced(b)

MergeSnapshot ==
    \E b \in Batches \cup {backup} : \E A \in Acceptable(rows, b) : Merged(b, A, TRUE)

RestoreSnapshot == Replaced(backup)

ExportAll ==
    /\ backup' = rows
    /\ UNCHANGED <<rows, index>>

Next ==
    \/ MergeAll
    \/ ReplaceAll
    \/ MergeSnapshot
    \/ RestoreSnapshot
    \/ ExportAll

Spec == Init /\ [][Next]_vars

-----------------------------------------------------------------------------
(***************************************************************************)
(* Properties.                                                             *)
(***************************************************************************)

\* The variables hold rows of their tables, and the index only messages.
TypeOK ==
    /\ rows \in Rows
    /\ index \in SUBSET Messages
    /\ backup \in Rows

NoLiveMember(r) ==
    \A f \in Folders, c \in Chats : r.members[<<f, c>>] = "live" =>
        r.folders[f] # "dead" /\ r.chats[c] # "dead"

NoLiveTopic(r) ==
    \A t \in Topics : r.topics[t] = "live" => r.chats[TopicChat[t]] # "dead"

NoLiveMessage(r) ==
    \A m \in Messages : r.messages[m] = "live" =>
        /\ r.chats[MessageChat[m]] # "dead"
        /\ r.topic[m] \in Topics => r.topics[r.topic[m]] # "dead"

NoLiveParticipant(r) ==
    \A g \in Groups, u \in Users : r.participants[<<g, u>>] = "live" =>
        r.groups[g] # "dead"

\* No row is live under a tombstoned parent, although a merge propagates only
\* inside the scope of its batch (propagateTombstones).
NoLiveOrphan ==
    /\ NoLiveMember(rows)
    /\ NoLiveTopic(rows)
    /\ NoLiveMessage(rows)
    /\ NoLiveParticipant(rows)

\* Search finds exactly the live messages: insertMessages, the scoped prune
\* and the rebuild together never leave a deleted message findable or a live
\* one missing.
IndexExact == index = LiveMessages(rows)

\* message_count of a live chat counts its live messages, although only the
\* chats of a batch are recounted (recomputeChatAggregates).
CountExact ==
    \A c \in Chats : rows.chats[c] = "live" => rows.count[c] = Cardinality(LiveIn(rows, c))

Kept(was, is) == \A k \in DOMAIN was : was[k] # "absent" => is[k] = was[k]
StaysDead(was, is) == \A k \in DOMAIN was : was[k] = "dead" => is[k] = "dead"

\* What a merge leaves of the rows it finds: a chat, folder or group keeps its
\* state, a tombstoned topic, membership or participant stays one, and a live
\* one dies only under a tombstoned chat, folder or group.
DestinationKept ==
    /\ Kept(rows.chats, rows'.chats)
    /\ Kept(rows.folders, rows'.folders)
    /\ Kept(rows.groups, rows'.groups)
    /\ StaysDead(rows.topics, rows'.topics)
    /\ StaysDead(rows.members, rows'.members)
    /\ StaysDead(rows.participants, rows'.participants)
    /\ \A t \in Topics : rows.topics[t] = "live" /\ rows'.topics[t] # "live" =>
          rows'.chats[TopicChat[t]] = "dead"
    /\ \A k \in Folders \X Chats :
          rows.members[k] = "live" /\ rows'.members[k] # "live" =>
             rows'.folders[k[1]] = "dead" \/ rows'.chats[k[2]] = "dead"

\* A default backup pull preserves the destination (README: "Default pulls
\* preserve destination-only rows and tombstones"): a step that fails to is
\* no snapshot merge.
MergeSnapshotKeepsDestination == [][~DestinationKept => ~MergeSnapshot]_vars

\* The scoped, ordered updates keep the promise of module Archive, which
\* settles the whole archive at once.
Promise == INSTANCE Archive
KeepsPromise == Promise!Spec
=============================================================================
