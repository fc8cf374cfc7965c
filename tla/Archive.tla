------------------------------- MODULE Archive -------------------------------
(***************************************************************************)
(* What the archive promises its readers, whatever way it is kept: after   *)
(* any import, merge or restore no row is live under a tombstoned parent,  *)
(* the search index holds exactly the live messages, and a live chat's     *)
(* message_count is the number of its live messages.  The promise is       *)
(* stated at once, over the whole archive; ArchiveTree keeps it with       *)
(* updates limited to the rows a batch names.                              *)
(***************************************************************************)
EXTENDS ArchiveRows

VARIABLES
    rows,      \* the tables
    index,     \* messages_fts: the messages search can find
    backup     \* the last exported snapshot

vars == <<rows, index, backup>>

Under(status, dead) == IF status = "live" /\ dead THEN "dead" ELSE status

\* The rows of r with every descendant of a tombstone tombstoned.
Closed(r) ==
    LET topics == [t \in Topics |->
                      Under(r.topics[t], r.chats[TopicChat[t]] = "dead")]
    IN  [r EXCEPT
          !.topics = topics,
          !.messages = [m \in Messages |->
                          Under(r.messages[m],
                                \/ r.chats[MessageChat[m]] = "dead"
                                \/ /\ r.topic[m] \in Topics
                                   /\ topics[r.topic[m]] = "dead")],
          !.members = [k \in Folders \X Chats |->
                          Under(r.members[k], \/ r.folders[k[1]] = "dead"
                                              \/ r.chats[k[2]] = "dead")],
          !.participants = [k \in Groups \X Users |->
                          Under(r.participants[k], r.groups[k[1]] = "dead")]]

\* ... and with the message_count of live chats recounted.
Settled(r) ==
    [Closed(r) EXCEPT !.count = [c \in Chats |->
        IF r.chats[c] = "live" THEN Cardinality(LiveIn(Closed(r), c)) ELSE r.count[c]]]

Becomes(r) ==
    /\ rows' = Settled(r)
    /\ index' = LiveMessages(rows')

Init ==
    /\ rows = NoRows
    /\ index = {}
    /\ backup = NoRows

Import ==
    /\ \E b \in Batches :
          ImportBatch(b) /\ Becomes(Written(rows, b, Present(b.messages), FALSE))
    /\ UNCHANGED backup

Replace ==
    /\ \E b \in Batches :
          FetchedBatch(b) /\ Becomes(Written(NoRows, b, Present(b.messages), FALSE))
    /\ UNCHANGED backup

Merge ==
    /\ \E b \in Batches \cup {backup} : \E A \in Acceptable(rows, b) :
          Becomes(Written(rows, b, A, TRUE))
    /\ UNCHANGED backup

Restore ==
    /\ Becomes(Written(NoRows, backup, Present(backup.messages), FALSE))
    /\ UNCHANGED backup

Export ==
    /\ backup' = rows
    /\ UNCHANGED <<rows, index>>

Next == Import \/ Replace \/ Merge \/ Restore \/ Export

Spec == Init /\ [][Next]_vars
=============================================================================
