---------------------------- MODULE MCArchiveTree ----------------------------
(***************************************************************************)
(* Small instances of ArchiveTree.  Batches are the row sets of at most    *)
(* MaxRows rows, with each message_count what an importer reports; larger  *)
(* ones reach the store as the backup, which is any earlier archive.       *)
(* A behaviour is about one of two kinds of rows below a chat, which the   *)
(* store never relates: those of a forum, or the memberships of folders.   *)
(***************************************************************************)
EXTENDS ArchiveTree, TLC

CONSTANT MaxRows

VARIABLE kind      \* what the behaviour is about

ForumOnly(r) == Present(r.folders) = {} /\ Present(r.members) = {}
FoldersOnly(r) == Present(r.topics) = {} /\ Present(r.messages) = {}

OfKind(r) == IF kind = "forum" THEN ForumOnly(r) ELSE FoldersOnly(r)

Size(b) ==
    Cardinality(Present(b.chats)) + Cardinality(Present(b.topics))
    + Cardinality(Present(b.messages)) + Cardinality(Present(b.folders))
    + Cardinality(Present(b.members)) + Cardinality(Present(b.groups))
    + Cardinality(Present(b.participants))

MCBatches ==
    LET counted(b) == [b EXCEPT !.count = [c \in Chats |->
                          Cardinality(LiveIn(b, c))]]
        shapes == [chats        : [Chats -> Status],
                   count        : {[c \in Chats |-> 0]},
                   topics       : [Topics -> Status],
                   messages     : [Messages -> Status],
                   topic        : [Messages -> Topics \cup {NoTopic}],
                   folders      : [Folders -> Status],
                   members      : [Folders \X Chats -> Status],
                   groups       : [Groups -> Status],
                   participants : [Groups \X Users -> Status]]
    IN  {counted(b) : b \in {s \in shapes :
            /\ Size(s) \in 1..MaxRows
            /\ ForumOnly(s) \/ FoldersOnly(s)
            /\ \A m \in Messages :
                  /\ s.topic[m] \in TopicsOf(m)
                  /\ s.messages[m] = "absent" => s.topic[m] = NoTopic}}

\* Conversations: the first chat is the forum, and holds every topic.
FirstChat == CHOOSE c \in Chats : TRUE
MCTopicChat == [t \in Topics |-> FirstChat]
MCMessageChat == [m \in Messages |-> FirstChat]

MCInit == Init /\ kind \in {"forum", "folders"}

MCNext == Next /\ OfKind(rows') /\ UNCHANGED kind

MCSpec == MCInit /\ [][MCNext]_<<vars, kind>>
=============================================================================
