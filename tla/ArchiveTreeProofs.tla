-------------------------- MODULE ArchiveTreeProofs --------------------------
(***************************************************************************)
(* Proofs about ArchiveTree, for every set of rows and every batch.  A     *)
(* merge repairs only what its batch names; the argument is that nothing   *)
(* else can need repair.  The inductive invariant IInv says that archive   *)
(* and backup are both settled (no live row under a tombstone, exact       *)
(* message counts) and that the index is exact: a backup must be in it,    *)
(* because RestoreSnapshot makes it the archive.                           *)
(***************************************************************************)
EXTENDS ArchiveTree, FiniteSetTheorems, TLAPS

-----------------------------------------------------------------------------
(***************************************************************************)
(* What each statement of propagateTombstones writes and leaves alone.     *)
(***************************************************************************)

\* The first statement writes memberships of dead folders, and nothing else.
LEMMA MembersOfDeadFoldersFields ==
    ASSUME NEW r \in Tables, NEW s
    PROVE  LET q == MembersOfDeadFolders(r, s) IN
           /\ q \in Tables
           /\ q.members = [k \in Folders \X Chats |->
                 IF r.members[k] = "live" /\ k[1] \in s.folders /\ r.folders[k[1]] = "dead"
                 THEN "dead" ELSE r.members[k]]
           /\ q.chats = r.chats /\ q.count = r.count /\ q.topics = r.topics
           /\ q.messages = r.messages /\ q.topic = r.topic /\ q.folders = r.folders
           /\ q.groups = r.groups /\ q.participants = r.participants
BY DEF MembersOfDeadFolders, Killed, Tables, Status

\* The second one, memberships of dead chats.
LEMMA MembersOfDeadChatsFields ==
    ASSUME NEW r \in Tables, NEW s
    PROVE  LET q == MembersOfDeadChats(r, s) IN
           /\ q \in Tables
           /\ q.members = [k \in Folders \X Chats |->
                 IF r.members[k] = "live" /\ k[2] \in s.chats /\ r.chats[k[2]] = "dead"
                 THEN "dead" ELSE r.members[k]]
           /\ q.chats = r.chats /\ q.count = r.count /\ q.topics = r.topics
           /\ q.messages = r.messages /\ q.topic = r.topic /\ q.folders = r.folders
           /\ q.groups = r.groups /\ q.participants = r.participants
BY DEF MembersOfDeadChats, Killed, Tables, Status

\* The third one, topics of dead chats.
LEMMA TopicsOfDeadChatsFields ==
    ASSUME NEW r \in Tables, NEW s
    PROVE  LET q == TopicsOfDeadChats(r, s) IN
           /\ q \in Tables
           /\ q.topics = [t \in Topics |->
                 IF r.topics[t] = "live" /\ TopicChat[t] \in s.chats /\ r.chats[TopicChat[t]] = "dead"
                 THEN "dead" ELSE r.topics[t]]
           /\ q.chats = r.chats /\ q.count = r.count /\ q.messages = r.messages
           /\ q.topic = r.topic /\ q.folders = r.folders /\ q.members = r.members
           /\ q.groups = r.groups /\ q.participants = r.participants
BY DEF TopicsOfDeadChats, Killed, Tables, Status

\* The fourth one, messages of dead chats.
LEMMA MessagesOfDeadChatsFields ==
    ASSUME NEW r \in Tables, NEW s
    PROVE  LET q == MessagesOfDeadChats(r, s) IN
           /\ q \in Tables
           /\ q.messages = [m \in Messages |->
                 IF r.messages[m] = "live" /\ MessageChat[m] \in s.chats /\ r.chats[MessageChat[m]] = "dead"
                 THEN "dead" ELSE r.messages[m]]
           /\ q.chats = r.chats /\ q.count = r.count /\ q.topics = r.topics
           /\ q.topic = r.topic /\ q.folders = r.folders /\ q.members = r.members
           /\ q.groups = r.groups /\ q.participants = r.participants
BY DEF MessagesOfDeadChats, Killed, Tables, Status

\* The fifth one, messages of dead topics, by then including those of dead chats.
LEMMA MessagesOfDeadTopicsFields ==
    ASSUME NEW r \in Tables, NEW s
    PROVE  LET q == MessagesOfDeadTopics(r, s) IN
           /\ q \in Tables
           /\ q.messages = [m \in Messages |->
                 IF r.messages[m] = "live" /\ r.topic[m] \in s.topics /\ r.topics[r.topic[m]] = "dead"
                 THEN "dead" ELSE r.messages[m]]
           /\ q.chats = r.chats /\ q.count = r.count /\ q.topics = r.topics
           /\ q.topic = r.topic /\ q.folders = r.folders /\ q.members = r.members
           /\ q.groups = r.groups /\ q.participants = r.participants
BY DEF MessagesOfDeadTopics, Killed, Tables, Status

\* The sixth one, participants of dead groups.
LEMMA ParticipantsOfDeadGroupsFields ==
    ASSUME NEW r \in Tables, NEW s
    PROVE  LET q == ParticipantsOfDeadGroups(r, s) IN
           /\ q \in Tables
           /\ q.participants = [k \in Groups \X Users |->
                 IF r.participants[k] = "live" /\ k[1] \in s.groups /\ r.groups[k[1]] = "dead"
                 THEN "dead" ELSE r.participants[k]]
           /\ q.chats = r.chats /\ q.count = r.count /\ q.topics = r.topics
           /\ q.messages = r.messages /\ q.topic = r.topic /\ q.folders = r.folders
           /\ q.members = r.members /\ q.groups = r.groups
BY DEF ParticipantsOfDeadGroups, Killed, Tables, Status

-----------------------------------------------------------------------------
(***************************************************************************)
(* The statements together.                                                *)
(***************************************************************************)

\* The propagation as one simultaneous update: only topics are both written
\* and read again, by the statement on messages.
IsPropagated(q, r, s) ==
    /\ q.chats = r.chats /\ q.count = r.count /\ q.topic = r.topic
    /\ q.folders = r.folders /\ q.groups = r.groups
    /\ q.members = [k \in Folders \X Chats |->
          IF /\ r.members[k] = "live"
             /\ \/ k[1] \in s.folders /\ r.folders[k[1]] = "dead"
                \/ k[2] \in s.chats /\ r.chats[k[2]] = "dead"
          THEN "dead" ELSE r.members[k]]
    /\ q.topics = [t \in Topics |->
          IF r.topics[t] = "live" /\ TopicChat[t] \in s.chats /\ r.chats[TopicChat[t]] = "dead"
          THEN "dead" ELSE r.topics[t]]
    /\ q.messages = [m \in Messages |->
          IF /\ r.messages[m] = "live"
             /\ \/ MessageChat[m] \in s.chats /\ r.chats[MessageChat[m]] = "dead"
                \/ r.topic[m] \in s.topics /\ q.topics[r.topic[m]] = "dead"
          THEN "dead" ELSE r.messages[m]]
    /\ q.participants = [k \in Groups \X Users |->
          IF r.participants[k] = "live" /\ k[1] \in s.groups /\ r.groups[k[1]] = "dead"
          THEN "dead" ELSE r.participants[k]]

\* The six statements in a row: each table is written from parents that are final.
LEMMA PropagatedIsPropagated ==
    ASSUME NEW r \in Rows, NEW s
    PROVE  Propagated(r, s) \in Rows /\ IsPropagated(Propagated(r, s), r, s)
<1> DEFINE r1 == MembersOfDeadFolders(r, s)
           r2 == MembersOfDeadChats(r1, s)
           r3 == TopicsOfDeadChats(r2, s)
           r4 == MessagesOfDeadChats(r3, s)
           r5 == MessagesOfDeadTopics(r4, s)
           q  == ParticipantsOfDeadGroups(r5, s)
<1>1. Propagated(r, s) = q
  BY DEF Propagated
<1>2. r \in Tables
  BY DEF Rows
<1>3. /\ r1 \in Tables
      /\ r1.members = [k \in Folders \X Chats |->
            IF r.members[k] = "live" /\ k[1] \in s.folders /\ r.folders[k[1]] = "dead"
            THEN "dead" ELSE r.members[k]]
      /\ r1.chats = r.chats /\ r1.count = r.count /\ r1.topics = r.topics
      /\ r1.messages = r.messages /\ r1.topic = r.topic /\ r1.folders = r.folders
      /\ r1.groups = r.groups /\ r1.participants = r.participants
  BY <1>2, MembersOfDeadFoldersFields
<1>4. /\ r2 \in Tables
      /\ r2.members = [k \in Folders \X Chats |->
            IF r1.members[k] = "live" /\ k[2] \in s.chats /\ r1.chats[k[2]] = "dead"
            THEN "dead" ELSE r1.members[k]]
      /\ r2.chats = r.chats /\ r2.count = r.count /\ r2.topics = r.topics
      /\ r2.messages = r.messages /\ r2.topic = r.topic /\ r2.folders = r.folders
      /\ r2.groups = r.groups /\ r2.participants = r.participants
  <2> HIDE DEF r1, r3, r4, r5, q
  <2>1. /\ r2 \in Tables
        /\ r2.members = [k \in Folders \X Chats |->
              IF r1.members[k] = "live" /\ k[2] \in s.chats /\ r1.chats[k[2]] = "dead"
              THEN "dead" ELSE r1.members[k]]
        /\ r2.chats = r1.chats /\ r2.count = r1.count /\ r2.topics = r1.topics
        /\ r2.messages = r1.messages /\ r2.topic = r1.topic /\ r2.folders = r1.folders
        /\ r2.groups = r1.groups /\ r2.participants = r1.participants
    BY <1>3, MembersOfDeadChatsFields, Zenon
  <2> QED BY <1>3, <2>1
<1>5. /\ r3 \in Tables
      /\ r3.topics = [t \in Topics |->
            IF r2.topics[t] = "live" /\ TopicChat[t] \in s.chats /\ r2.chats[TopicChat[t]] = "dead"
            THEN "dead" ELSE r2.topics[t]]
      /\ r3.chats = r.chats /\ r3.count = r.count /\ r3.messages = r.messages
      /\ r3.topic = r.topic /\ r3.folders = r.folders /\ r3.members = r2.members
      /\ r3.groups = r.groups /\ r3.participants = r.participants
  <2> HIDE DEF r1, r2, r4, r5, q
  <2> QED BY <1>4, TopicsOfDeadChatsFields
<1>6. /\ r4 \in Tables
      /\ r4.messages = [m \in Messages |->
            IF r3.messages[m] = "live" /\ MessageChat[m] \in s.chats /\ r3.chats[MessageChat[m]] = "dead"
            THEN "dead" ELSE r3.messages[m]]
      /\ r4.chats = r.chats /\ r4.count = r.count /\ r4.topics = r3.topics
      /\ r4.topic = r.topic /\ r4.folders = r.folders /\ r4.members = r2.members
      /\ r4.groups = r.groups /\ r4.participants = r.participants
  <2> HIDE DEF r1, r2, r3, r5, q
  <2> QED BY <1>5, MessagesOfDeadChatsFields
<1>7. /\ r5 \in Tables
      /\ r5.messages = [m \in Messages |->
            IF r4.messages[m] = "live" /\ r4.topic[m] \in s.topics /\ r4.topics[r4.topic[m]] = "dead"
            THEN "dead" ELSE r4.messages[m]]
      /\ r5.chats = r.chats /\ r5.count = r.count /\ r5.topics = r3.topics
      /\ r5.topic = r.topic /\ r5.folders = r.folders /\ r5.members = r2.members
      /\ r5.groups = r.groups /\ r5.participants = r.participants
  <2> HIDE DEF r1, r2, r3, r4, q
  <2> QED BY <1>6, MessagesOfDeadTopicsFields
<1>8. /\ q \in Tables
      /\ q.participants = [k \in Groups \X Users |->
            IF r5.participants[k] = "live" /\ k[1] \in s.groups /\ r5.groups[k[1]] = "dead"
            THEN "dead" ELSE r5.participants[k]]
      /\ q.chats = r.chats /\ q.count = r.count /\ q.topics = r3.topics
      /\ q.messages = r5.messages /\ q.topic = r.topic /\ q.folders = r.folders
      /\ q.members = r2.members /\ q.groups = r.groups
  <2> HIDE DEF r1, r2, r3, r4, r5
  <2>1. /\ q \in Tables
        /\ q.participants = [k \in Groups \X Users |->
              IF r5.participants[k] = "live" /\ k[1] \in s.groups /\ r5.groups[k[1]] = "dead"
              THEN "dead" ELSE r5.participants[k]]
        /\ q.chats = r5.chats /\ q.count = r5.count /\ q.topics = r5.topics
        /\ q.messages = r5.messages /\ q.topic = r5.topic /\ q.folders = r5.folders
        /\ q.members = r5.members /\ q.groups = r5.groups
    BY <1>7, ParticipantsOfDeadGroupsFields, Zenon
  <2> QED BY <1>7, <2>1
<1> HIDE DEF r1, r2, r3, r4, r5, q
<1>9. q \in Rows
  BY <1>8 DEF Rows
<1>10. q.members = [k \in Folders \X Chats |->
          IF /\ r.members[k] = "live"
             /\ \/ k[1] \in s.folders /\ r.folders[k[1]] = "dead"
                \/ k[2] \in s.chats /\ r.chats[k[2]] = "dead"
          THEN "dead" ELSE r.members[k]]
  BY <1>3, <1>4, <1>8
<1>11. q.messages = [m \in Messages |->
          IF /\ r.messages[m] = "live"
             /\ \/ MessageChat[m] \in s.chats /\ r.chats[MessageChat[m]] = "dead"
                \/ r.topic[m] \in s.topics /\ q.topics[r.topic[m]] = "dead"
          THEN "dead" ELSE r.messages[m]]
  <2>1. r4.messages = [m \in Messages |->
            IF r.messages[m] = "live" /\ MessageChat[m] \in s.chats /\ r.chats[MessageChat[m]] = "dead"
            THEN "dead" ELSE r.messages[m]]
    BY <1>5, <1>6
  <2>2. q.messages = [m \in Messages |->
            IF r4.messages[m] = "live" /\ r.topic[m] \in s.topics /\ q.topics[r.topic[m]] = "dead"
            THEN "dead" ELSE r4.messages[m]]
    BY <1>6, <1>7, <1>8
  <2> QED
    BY ONLY <2>1, <2>2
<1>12. q.participants = [k \in Groups \X Users |->
          IF r.participants[k] = "live" /\ k[1] \in s.groups /\ r.groups[k[1]] = "dead"
          THEN "dead" ELSE r.participants[k]]
  BY <1>7, <1>8
<1>13. q.topics = [t \in Topics |->
          IF r.topics[t] = "live" /\ TopicChat[t] \in s.chats /\ r.chats[TopicChat[t]] = "dead"
          THEN "dead" ELSE r.topics[t]]
  BY <1>4, <1>5, <1>8
<1> QED
  BY <1>1, <1>8, <1>9, <1>10, <1>11, <1>12, <1>13 DEF IsPropagated

-----------------------------------------------------------------------------
(***************************************************************************)
(* Writing a batch moves only rows the batch names.                        *)
(***************************************************************************)

Sound(r) == NoLiveMember(r) /\ NoLiveTopic(r) /\ NoLiveMessage(r) /\ NoLiveParticipant(r)

Counted(r) ==
    \A c \in Chats : r.chats[c] = "live" => r.count[c] = Cardinality(LiveIn(r, c))

\* w is r after some write of the batch b.
Frame(w, r, b) ==
    /\ \A c \in Chats : b.chats[c] = "absent" => w.chats[c] = r.chats[c] /\ w.count[c] = r.count[c]
    /\ \A t \in Topics : b.topics[t] = "absent" => w.topics[t] = r.topics[t]
    /\ \A f \in Folders : b.folders[f] = "absent" => w.folders[f] = r.folders[f]
    /\ \A k \in Folders \X Chats : b.members[k] = "absent" => w.members[k] = r.members[k]
    /\ \A g \in Groups : b.groups[g] = "absent" => w.groups[g] = r.groups[g]
    /\ \A k \in Groups \X Users : b.participants[k] = "absent" => w.participants[k] = r.participants[k]
    /\ \A m \in Messages :
          \/ w.messages[m] = r.messages[m] /\ w.topic[m] = r.topic[m]
          \/ /\ b.messages[m] # "absent"
             /\ w.messages[m] = "live" => w.topic[m] = b.topic[m]

\* Writing a batch changes only rows the batch names, and a row it makes live or
\* dead is one of them.
LEMMA WrittenFrame ==
    ASSUME NEW r \in Rows, NEW b \in Rows, NEW p \in BOOLEAN,
           NEW A \in SUBSET Present(b.messages)
    PROVE  Written(r, b, A, p) \in Rows /\ Frame(Written(r, b, A, p), r, b)
<1> DEFINE w == Written(r, b, A, p)
<1>1. /\ r \in Tables /\ b \in Tables
      /\ \A m \in Messages : r.topic[m] \in TopicsOf(m) /\ b.topic[m] \in TopicsOf(m)
  BY DEF Rows
<1>a. \A x \in {r, b} :
         /\ x.chats \in [Chats -> Status]
         /\ x.topics \in [Topics -> Status]
         /\ x.folders \in [Folders -> Status]
         /\ x.members \in [Folders \X Chats -> Status]
         /\ x.groups \in [Groups -> Status]
         /\ x.participants \in [Groups \X Users -> Status]
  BY <1>1 DEF Tables
<1>b. /\ w.chats = WrittenTable(r.chats, b.chats, p)
      /\ w.topics = WrittenTable(r.topics, b.topics, p)
      /\ w.folders = WrittenTable(r.folders, b.folders, p)
      /\ w.members = WrittenTable(r.members, b.members, p)
      /\ w.groups = WrittenTable(r.groups, b.groups, p)
      /\ w.participants = WrittenTable(r.participants, b.participants, p)
  BY DEF Written
<1>2. /\ w.chats \in [Chats -> Status]
      /\ \A c \in Chats : b.chats[c] = "absent" => w.chats[c] = r.chats[c]
  <2> HIDE DEF w
  <2> QED BY <1>a, <1>b DEF WrittenTable, Overwritten, Preserved, Status
<1>3. /\ w.topics \in [Topics -> Status]
      /\ \A t \in Topics : b.topics[t] = "absent" => w.topics[t] = r.topics[t]
  <2> HIDE DEF w
  <2> QED BY <1>a, <1>b DEF WrittenTable, Overwritten, Preserved, Status
<1>4. /\ w.folders \in [Folders -> Status]
      /\ \A f \in Folders : b.folders[f] = "absent" => w.folders[f] = r.folders[f]
  <2> HIDE DEF w
  <2> QED BY <1>a, <1>b DEF WrittenTable, Overwritten, Preserved, Status
<1>5. /\ w.members \in [Folders \X Chats -> Status]
      /\ \A k \in Folders \X Chats : b.members[k] = "absent" => w.members[k] = r.members[k]
  <2> HIDE DEF w
  <2> QED BY <1>a, <1>b DEF WrittenTable, Overwritten, Preserved, Status
<1>6. /\ w.groups \in [Groups -> Status]
      /\ \A g \in Groups : b.groups[g] = "absent" => w.groups[g] = r.groups[g]
  <2> HIDE DEF w
  <2> QED BY <1>a, <1>b DEF WrittenTable, Overwritten, Preserved, Status
<1>7. /\ w.participants \in [Groups \X Users -> Status]
      /\ \A k \in Groups \X Users :
            b.participants[k] = "absent" => w.participants[k] = r.participants[k]
  <2> HIDE DEF w
  <2> QED BY <1>a, <1>b DEF WrittenTable, Overwritten, Preserved, Status
<1>8. /\ w.count \in [Chats -> Nat]
      /\ \A c \in Chats : b.chats[c] = "absent" => w.count[c] = r.count[c]
  BY <1>1 DEF Written, WrittenCount, Tables
<1>9. w.messages \in [Messages -> Status]
  BY <1>1 DEF Written, Tables
<1>10. w.topic \in [Messages -> Topics \cup {NoTopic}] /\ \A m \in Messages : w.topic[m] \in TopicsOf(m)
  BY <1>1 DEF Written, WrittenTopic, Tables
<1>11. ASSUME NEW m \in Messages
       PROVE  \/ w.messages[m] = r.messages[m] /\ w.topic[m] = r.topic[m]
              \/ /\ b.messages[m] # "absent"
                 /\ w.messages[m] = "live" => w.topic[m] = b.topic[m]
  BY <1>1 DEF Written, WrittenTopic, Tables, Present
<1>12. w \in Rows
  <2>1. w = [chats |-> w.chats, count |-> w.count, topics |-> w.topics,
             messages |-> w.messages, topic |-> w.topic, folders |-> w.folders,
             members |-> w.members, groups |-> w.groups, participants |-> w.participants]
    BY DEF Written
  <2> HIDE DEF w
  <2> QED BY <1>2, <1>3, <1>4, <1>5, <1>6, <1>7, <1>8, <1>9, <1>10, <2>1 DEF Rows, Tables
<1>13. Frame(w, r, b)
  <2> HIDE DEF w
  <2> QED BY <1>2, <1>3, <1>4, <1>5, <1>6, <1>7, <1>8, <1>11 DEF Frame
<1> QED BY <1>12, <1>13

-----------------------------------------------------------------------------
(***************************************************************************)
(* Settling: the promise of module Archive, and how the scoped updates     *)
(* come to the same rows.                                                  *)
(***************************************************************************)

\* q is r with the descendants of every tombstone tombstoned.
IsClosed(q, r) ==
    /\ q.chats = r.chats /\ q.topic = r.topic
    /\ q.folders = r.folders /\ q.groups = r.groups
    /\ q.topics = [t \in Topics |->
          IF r.topics[t] = "live" /\ r.chats[TopicChat[t]] = "dead"
          THEN "dead" ELSE r.topics[t]]
    /\ q.messages = [m \in Messages |->
          IF /\ r.messages[m] = "live"
             /\ \/ r.chats[MessageChat[m]] = "dead"
                \/ r.topic[m] \in Topics /\ q.topics[r.topic[m]] = "dead"
          THEN "dead" ELSE r.messages[m]]
    /\ q.members = [k \in Folders \X Chats |->
          IF r.members[k] = "live" /\ (r.folders[k[1]] = "dead" \/ r.chats[k[2]] = "dead")
          THEN "dead" ELSE r.members[k]]
    /\ q.participants = [k \in Groups \X Users |->
          IF r.participants[k] = "live" /\ r.groups[k[1]] = "dead"
          THEN "dead" ELSE r.participants[k]]

\* The closure of the abstract archive is the closure.
LEMMA ClosedIsClosed ==
    ASSUME NEW r \in Rows
    PROVE  /\ Promise!Closed(r) \in Rows
           /\ Promise!Closed(r).count = r.count
           /\ IsClosed(Promise!Closed(r), r)
<1> DEFINE topics == [t \in Topics |-> Promise!Under(r.topics[t], r.chats[TopicChat[t]] = "dead")]
           messages == [m \in Messages |->
              Promise!Under(r.messages[m],
                    \/ r.chats[MessageChat[m]] = "dead"
                    \/ r.topic[m] \in Topics /\ topics[r.topic[m]] = "dead")]
           members == [k \in Folders \X Chats |->
              Promise!Under(r.members[k], r.folders[k[1]] = "dead" \/ r.chats[k[2]] = "dead")]
           participants == [k \in Groups \X Users |->
              Promise!Under(r.participants[k], r.groups[k[1]] = "dead")]
           q == Promise!Closed(r)
<1>1. r \in Tables
  BY DEF Rows
<1>2. IsClosed(q, r) /\ q.count = r.count
  BY <1>1 DEF Promise!Closed, Promise!Under, Tables, IsClosed
<1>3. q = [r EXCEPT !.topics = topics, !.messages = messages,
                    !.members = members, !.participants = participants]
  BY DEF Promise!Closed
<1>4. /\ topics \in [Topics -> Status] /\ messages \in [Messages -> Status]
      /\ members \in [Folders \X Chats -> Status]
      /\ participants \in [Groups \X Users -> Status]
  BY <1>1 DEF Promise!Under, Tables, Status
<1> HIDE DEF topics, messages, members, participants, q
<1>5. q \in Tables
  BY <1>1, <1>3, <1>4 DEF Tables
<1>6. q \in Rows
  BY <1>2, <1>5 DEF IsClosed, Rows
<1> QED BY <1>2, <1>6 DEF q

\* Settling closes the rows and recounts the live chats.
LEMMA SettledIsSettled ==
    ASSUME NEW r \in Rows
    PROVE  LET q == Promise!Settled(r) IN
           /\ q \in Rows
           /\ IsClosed(q, r)
           /\ q.count = [c \in Chats |->
                 IF r.chats[c] = "live" THEN Cardinality(LiveIn(q, c)) ELSE r.count[c]]
<1> DEFINE p == Promise!Closed(r)
           n == [c \in Chats |->
                   IF r.chats[c] = "live" THEN Cardinality(LiveIn(p, c)) ELSE r.count[c]]
           q == Promise!Settled(r)
<1>1. p \in Rows /\ IsClosed(p, r)
  BY ClosedIsClosed
<1>2. q = [p EXCEPT !.count = n]
  <2>1. \A c \in Chats : Promise!LiveIn(p, c) = LiveIn(p, c)
    BY DEF Promise!LiveIn, Promise!LiveMessages, LiveIn, LiveMessages
  <2>2. \A S : Promise!Cardinality(S) = Cardinality(S)
    BY DEF Promise!Cardinality, Promise!IsFiniteSet, Cardinality, IsFiniteSet
  <2>3. q = [p EXCEPT !.count = [c \in Chats |->
               IF r.chats[c] = "live" THEN Cardinality(Promise!LiveIn(p, c)) ELSE r.count[c]]]
    BY <2>2 DEF Promise!Settled
  <2>4. n = [c \in Chats |->
               IF r.chats[c] = "live" THEN Cardinality(Promise!LiveIn(p, c)) ELSE r.count[c]]
    BY <2>1
  <2> QED BY <2>3, <2>4
<1>3. r \in Tables /\ p \in Tables
  BY <1>1 DEF Rows
<1>4. \A c \in Chats : Cardinality(LiveIn(p, c)) \in Nat
  <2> HIDE DEF p
  <2> QED BY FS_Subset, FS_CardinalityType, RowsAssumption DEF LiveIn, LiveMessages
<1>5. n \in [Chats -> Nat]
  BY <1>3, <1>4 DEF Tables
<1> HIDE DEF p, n, q
<1>6. /\ q.count = n /\ q.chats = p.chats /\ q.topics = p.topics
      /\ q.messages = p.messages /\ q.topic = p.topic /\ q.folders = p.folders
      /\ q.members = p.members /\ q.groups = p.groups /\ q.participants = p.participants
      /\ q \in Tables
  BY <1>2, <1>3, <1>5 DEF Tables
<1>7. q \in Rows
  BY <1>1, <1>6 DEF Rows
<1>8. IsClosed(q, r)
  BY <1>1, <1>6 DEF IsClosed
<1>9. \A c \in Chats : LiveIn(q, c) = LiveIn(p, c)
  BY <1>6 DEF LiveIn, LiveMessages
<1>10. q.count = [c \in Chats |->
          IF r.chats[c] = "live" THEN Cardinality(LiveIn(q, c)) ELSE r.count[c]]
  BY <1>6, <1>9 DEF n
<1> QED BY <1>7, <1>8, <1>10 DEF q

\* Settled rows have no live row under a dead parent and exact counts.
LEMMA SettledIsSound ==
    ASSUME NEW r \in Rows
    PROVE  Promise!Settled(r) \in Rows /\ Sound(Promise!Settled(r)) /\ Counted(Promise!Settled(r))
<1> DEFINE q == Promise!Settled(r)
<1>1. r \in Tables /\ \A m \in Messages : r.topic[m] \in TopicsOf(m)
  BY DEF Rows
<1>2. /\ q \in Rows /\ IsClosed(q, r)
      /\ q.count = [c \in Chats |->
            IF r.chats[c] = "live" THEN Cardinality(LiveIn(q, c)) ELSE r.count[c]]
  BY SettledIsSettled
<1> HIDE DEF q
<1>3. NoLiveMember(q)
  BY <1>2 DEF IsClosed, NoLiveMember
<1>4. NoLiveTopic(q)
  BY <1>2 DEF IsClosed, NoLiveTopic
<1>5. NoLiveMessage(q)
  BY <1>2 DEF IsClosed, NoLiveMessage
<1>6. NoLiveParticipant(q)
  BY <1>2 DEF IsClosed, NoLiveParticipant
<1>7. Counted(q)
  BY <1>2 DEF IsClosed, Counted
<1> QED BY <1>2, <1>3, <1>4, <1>5, <1>6, <1>7 DEF Sound, q

\* Outside the scope of a batch nothing needs propagation: a live row under a
\* tombstone that the batch did not name was there before, and r has none.
LEMMA ScopedIsClosed ==
    ASSUME NEW r \in Rows, NEW b \in Rows, NEW w \in Rows,
           Sound(r), Frame(w, r, b)
    PROVE  IsClosed(Propagated(w, Scope(b)), w)
<1> DEFINE s == Scope(b)
           q == Propagated(w, s)
<1>1. IsPropagated(q, w, s)
  BY PropagatedIsPropagated
<1>2. /\ \A x \in {r, b, w} : x \in Tables
      /\ \A m \in Messages : w.topic[m] \in TopicsOf(m)
  BY DEF Rows
<1>3. ASSUME NEW t \in Topics, w.topics[t] = "live", w.chats[TopicChat[t]] = "dead"
      PROVE  TopicChat[t] \in s.chats
  <2>1. TopicChat[t] \in Chats
    BY RowsAssumption
  <2>2. CASE b.topics[t] = "absent" /\ b.chats[TopicChat[t]] = "absent"
    BY <1>3, <2>1, <2>2 DEF Frame, Sound, NoLiveTopic
  <2>3. CASE b.topics[t] # "absent" \/ b.chats[TopicChat[t]] # "absent"
    BY <1>2, <2>1, <2>3 DEF Scope, Present, Tables
  <2> QED BY <2>2, <2>3
<1>4. ASSUME NEW m \in Messages, w.messages[m] = "live", w.chats[MessageChat[m]] = "dead"
      PROVE  MessageChat[m] \in s.chats
  <2>1. MessageChat[m] \in Chats
    BY RowsAssumption
  <2>2. CASE b.messages[m] = "absent" /\ b.chats[MessageChat[m]] = "absent"
    BY <1>4, <2>1, <2>2 DEF Frame, Sound, NoLiveMessage
  <2>3. CASE b.messages[m] # "absent" \/ b.chats[MessageChat[m]] # "absent"
    BY <1>2, <2>1, <2>3 DEF Scope, Present, Tables
  <2> QED BY <2>2, <2>3
<1>5. ASSUME NEW m \in Messages, w.messages[m] = "live", w.topic[m] \in Topics,
             w.topics[w.topic[m]] = "dead"
      PROVE  w.topic[m] \in s.topics
  <2>1. w.topic[m] # NoTopic
    BY <1>5, RowsAssumption
  <2>2. CASE b.topics[w.topic[m]] # "absent"
    BY <1>2, <1>5, <2>2 DEF Scope, Present, Tables
  <2>3. CASE b.topics[w.topic[m]] = "absent"
    <3>1. r.topics[w.topic[m]] = "dead"
      BY <1>5, <2>3 DEF Frame
    <3>2. ~(w.messages[m] = r.messages[m] /\ w.topic[m] = r.topic[m])
      BY <1>5, <3>1 DEF Sound, NoLiveMessage
    <3>3. b.messages[m] # "absent" /\ w.topic[m] = b.topic[m]
      BY <1>5, <3>2 DEF Frame
    <3> QED BY <1>2, <2>1, <3>3 DEF Scope, Present, Tables
  <2> QED BY <2>2, <2>3
<1>6. ASSUME NEW k \in Folders \X Chats, w.members[k] = "live"
      PROVE  /\ w.folders[k[1]] = "dead" => k[1] \in s.folders
             /\ w.chats[k[2]] = "dead" => k[2] \in s.chats
  <2>1. k[1] \in Folders /\ k[2] \in Chats /\ k = <<k[1], k[2]>>
    OBVIOUS
  <2>2. CASE b.members[k] # "absent"
    BY <1>2, <2>2 DEF Scope, Present, Tables
  <2>3. CASE b.members[k] = "absent"
    <3>1. r.members[k] = "live"
      BY <1>6, <2>3 DEF Frame
    <3>2. r.folders[k[1]] # "dead" /\ r.chats[k[2]] # "dead"
      BY <2>1, <3>1 DEF Sound, NoLiveMember
    <3>3. /\ w.folders[k[1]] = "dead" => b.folders[k[1]] # "absent"
          /\ w.chats[k[2]] = "dead" => b.chats[k[2]] # "absent"
      BY <2>1, <3>2 DEF Frame
    <3> QED BY <1>2, <2>1, <3>3 DEF Scope, Present, Tables
  <2> QED BY <2>2, <2>3
<1>7. ASSUME NEW k \in Groups \X Users, w.participants[k] = "live", w.groups[k[1]] = "dead"
      PROVE  k[1] \in s.groups
  <2>1. k[1] \in Groups /\ k[2] \in Users /\ k = <<k[1], k[2]>>
    OBVIOUS
  <2>2. CASE b.participants[k] # "absent"
    BY <1>2, <2>2 DEF Scope, Present, Tables
  <2>3. CASE b.participants[k] = "absent"
    <3>1. r.participants[k] = "live"
      BY <1>7, <2>3 DEF Frame
    <3>2. r.groups[k[1]] # "dead"
      BY <2>1, <3>1 DEF Sound, NoLiveParticipant
    <3>3. b.groups[k[1]] # "absent"
      BY <1>7, <2>1, <3>2 DEF Frame
    <3> QED BY <1>2, <2>1, <3>3 DEF Scope, Present, Tables
  <2> QED BY <2>2, <2>3
<1>8. s.topics \subseteq Topics
  <2>1. \A m \in Messages : b.topic[m] # NoTopic => b.topic[m] \in Topics
    BY <1>2 DEF Tables
  <2> QED BY <1>2, <2>1 DEF Scope, Present, Tables
<1> HIDE DEF s, q
<1>9. q.topics = [t \in Topics |->
          IF w.topics[t] = "live" /\ w.chats[TopicChat[t]] = "dead"
          THEN "dead" ELSE w.topics[t]]
  BY <1>1, <1>3 DEF IsPropagated
<1>10. ASSUME NEW m \in Messages, w.messages[m] = "live"
       PROVE  (\/ MessageChat[m] \in s.chats /\ w.chats[MessageChat[m]] = "dead"
               \/ w.topic[m] \in s.topics /\ q.topics[w.topic[m]] = "dead")
              <=> (\/ w.chats[MessageChat[m]] = "dead"
                   \/ w.topic[m] \in Topics /\ q.topics[w.topic[m]] = "dead")
  <2>1. w.chats[MessageChat[m]] = "dead" => MessageChat[m] \in s.chats
    BY <1>4, <1>10
  <2>2. ASSUME w.topic[m] \in Topics, q.topics[w.topic[m]] = "dead"
        PROVE  w.topic[m] \in s.topics \/ w.chats[MessageChat[m]] = "dead"
    <3>1. TopicChat[w.topic[m]] = MessageChat[m]
      BY <1>2, <2>2, RowsAssumption DEF TopicsOf
    <3>2. w.topics[w.topic[m]] = "dead" \/ w.chats[MessageChat[m]] = "dead"
      BY <1>9, <2>2, <3>1
    <3> QED BY <1>5, <1>10, <2>2, <3>2
  <2> QED BY <1>8, <2>1, <2>2
<1>11. q.messages = [m \in Messages |->
          IF /\ w.messages[m] = "live"
             /\ \/ w.chats[MessageChat[m]] = "dead"
                \/ w.topic[m] \in Topics /\ q.topics[w.topic[m]] = "dead"
          THEN "dead" ELSE w.messages[m]]
  BY <1>1, <1>10 DEF IsPropagated
<1>12. q.members = [k \in Folders \X Chats |->
          IF w.members[k] = "live" /\ (w.folders[k[1]] = "dead" \/ w.chats[k[2]] = "dead")
          THEN "dead" ELSE w.members[k]]
  BY <1>1, <1>6 DEF IsPropagated
<1>13. q.participants = [k \in Groups \X Users |->
          IF w.participants[k] = "live" /\ w.groups[k[1]] = "dead"
          THEN "dead" ELSE w.participants[k]]
  BY <1>1, <1>7 DEF IsPropagated
<1> QED BY <1>1, <1>9, <1>11, <1>12, <1>13 DEF IsClosed, IsPropagated, q, s

\* Two closures of the same rows are the same.
LEMMA ClosedIsUnique ==
    ASSUME NEW w, NEW x \in Rows, NEW y \in Rows,
           IsClosed(x, w), IsClosed(y, w), x.count = y.count
    PROVE  x = y
<1>1. x.topics = y.topics
  BY DEF IsClosed
<1>2. x.messages = y.messages
  BY <1>1 DEF IsClosed
<1>3. /\ x.chats = y.chats /\ x.topic = y.topic /\ x.folders = y.folders
      /\ x.groups = y.groups /\ x.members = y.members /\ x.participants = y.participants
  BY DEF IsClosed
<1>4. x \in Tables /\ y \in Tables
  BY DEF Rows
<1>5. x = [chats |-> x.chats, count |-> x.count, topics |-> x.topics,
           messages |-> x.messages, topic |-> x.topic, folders |-> x.folders,
           members |-> x.members, groups |-> x.groups, participants |-> x.participants]
  BY <1>4 DEF Tables
<1>6. y = [chats |-> y.chats, count |-> y.count, topics |-> y.topics,
           messages |-> y.messages, topic |-> y.topic, folders |-> y.folders,
           members |-> y.members, groups |-> y.groups, participants |-> y.participants]
  BY <1>4 DEF Tables
<1> QED BY ONLY <1>1, <1>2, <1>3, <1>5, <1>6, x.count = y.count

\* A merge of the batch b, from rows that keep the promise, comes to the
\* settled rows: chats it does not recount keep their live messages.
LEMMA MergeSettles ==
    ASSUME NEW r \in Rows, NEW b \in Rows, NEW w \in Rows,
           Sound(r), Counted(r), Frame(w, r, b)
    PROVE  Recounted(Propagated(w, Scope(b)), AffectedChats(b)) = Promise!Settled(w)
<1> DEFINE p == Propagated(w, Scope(b))
           n == [c \in Chats |->
                   IF c \in AffectedChats(b) /\ p.chats[c] = "live"
                   THEN Cardinality(LiveIn(p, c)) ELSE p.count[c]]
           q == Recounted(p, AffectedChats(b))
           z == Promise!Settled(w)
<1>1. p \in Rows /\ p.count = w.count /\ p.chats = w.chats
  BY PropagatedIsPropagated DEF IsPropagated
<1>2. IsClosed(p, w)
  BY ScopedIsClosed
<1>3. /\ z \in Rows /\ IsClosed(z, w)
      /\ z.count = [c \in Chats |->
            IF w.chats[c] = "live" THEN Cardinality(LiveIn(z, c)) ELSE w.count[c]]
  BY SettledIsSettled
<1>4. q = [p EXCEPT !.count = n]
  BY DEF Recounted
<1>5. /\ \A x \in {r, b, w} : x \in Tables
      /\ \A m \in Messages : w.topic[m] \in TopicsOf(m)
  BY DEF Rows
<1> HIDE DEF p, z
<1>6. \A c \in Chats : LiveIn(p, c) = LiveIn(z, c)
  <2>1. p.messages = z.messages
    BY <1>2, <1>3 DEF IsClosed
  <2> QED BY <2>1 DEF LiveIn, LiveMessages
<1>7. ASSUME NEW c \in Chats, c \notin AffectedChats(b), w.chats[c] = "live"
      PROVE  w.count[c] = Cardinality(LiveIn(p, c))
  <2>1. b.chats[c] = "absent"
    BY <1>5, <1>7 DEF AffectedChats, Present, Tables
  <2>2. /\ r.chats[c] = "live" /\ w.count[c] = r.count[c]
    BY <1>7, <2>1 DEF Frame
  <2>3. ASSUME NEW m \in Messages, MessageChat[m] = c
        PROVE  p.messages[m] = "live" <=> r.messages[m] = "live"
    <3>1. b.messages[m] = "absent"
      BY <1>5, <1>7, <2>3 DEF AffectedChats, Present, Tables
    <3>2. w.messages[m] = r.messages[m] /\ w.topic[m] = r.topic[m]
      BY <3>1 DEF Frame
    <3>3. ASSUME w.messages[m] = "live", w.topic[m] \in Topics
          PROVE  p.topics[w.topic[m]] # "dead"
      <4>1. TopicChat[w.topic[m]] = c
        BY <1>5, <2>3, <3>3, RowsAssumption DEF TopicsOf
      <4>2. b.topics[w.topic[m]] = "absent"
        BY <1>5, <1>7, <3>3, <4>1 DEF AffectedChats, Present, Tables
      <4>3. w.topics[w.topic[m]] # "dead"
        BY <3>2, <3>3, <4>2 DEF Frame, Sound, NoLiveMessage
      <4> QED BY <1>2, <1>7, <3>3, <4>1, <4>3 DEF IsClosed
    <3> QED BY <1>2, <1>7, <2>3, <3>2, <3>3 DEF IsClosed
  <2>4. LiveIn(p, c) = LiveIn(r, c)
    BY <2>3 DEF LiveIn, LiveMessages
  <2> QED BY <2>2, <2>4 DEF Counted
<1>8. n = z.count
  BY <1>1, <1>3, <1>5, <1>6, <1>7 DEF Tables
<1>9. p \in Tables /\ z.count \in [Chats -> Nat]
  BY <1>1, <1>3 DEF Rows, Tables
<1> HIDE DEF n, q
<1>10. /\ q \in Tables /\ q.count = z.count
       /\ q.chats = p.chats /\ q.topics = p.topics /\ q.messages = p.messages
       /\ q.topic = p.topic /\ q.folders = p.folders /\ q.members = p.members
       /\ q.groups = p.groups /\ q.participants = p.participants
  BY <1>4, <1>8, <1>9 DEF Tables
<1>11. q \in Rows /\ IsClosed(q, w)
  BY <1>1, <1>2, <1>10 DEF Rows, IsClosed
<1>12. q = z
  BY <1>3, <1>10, <1>11, ClosedIsUnique
<1> QED BY <1>12 DEF q, z, p

\* A replacement propagates over all rows and recounts nothing: it settles
\* rows whose live chats were counted over the messages that stay live.
LEMMA ReplaceSettles ==
    ASSUME NEW w \in Rows,
           \A c \in Chats : w.chats[c] = "live" =>
               w.count[c] = Cardinality(LiveIn(Promise!Settled(w), c))
    PROVE  Propagated(w, Everything) = Promise!Settled(w)
<1> DEFINE p == Propagated(w, Everything)
           z == Promise!Settled(w)
<1>1. p \in Rows /\ IsPropagated(p, w, Everything)
  BY PropagatedIsPropagated
<1>2. /\ z \in Rows /\ IsClosed(z, w)
      /\ z.count = [c \in Chats |->
            IF w.chats[c] = "live" THEN Cardinality(LiveIn(z, c)) ELSE w.count[c]]
  BY SettledIsSettled
<1>3. w \in Tables
  BY DEF Rows
<1>4. /\ Everything.chats = Chats /\ Everything.folders = Folders
      /\ Everything.topics = Topics /\ Everything.groups = Groups
  BY DEF Everything
<1> HIDE DEF p, z
<1>5. IsClosed(p, w)
  BY <1>1, <1>4, RowsAssumption DEF IsClosed, IsPropagated
<1>6. p.count = z.count
  BY <1>1, <1>2, <1>3 DEF IsPropagated, Tables, z
<1>7. p = z
  BY <1>1, <1>2, <1>5, <1>6, ClosedIsUnique
<1> QED BY <1>7 DEF p, z

-----------------------------------------------------------------------------
(***************************************************************************)
(* The invariant and its step.                                             *)
(***************************************************************************)

\* One archive is settled ...
Settles(r) == r \in Rows /\ Sound(r) /\ Counted(r)

\* ... and so are the live one and its backup, with an exact index.
IInv ==
    /\ Settles(rows)
    /\ Settles(backup)
    /\ index = LiveMessages(rows)

\* Settled rows keep the promise.
LEMMA SettledSettles ==
    ASSUME NEW r \in Rows
    PROVE  Settles(Promise!Settled(r))
BY SettledIsSound DEF Settles

\* The empty archive keeps the promise.
LEMMA NoRowsSettles == Settles(NoRows)
<1>1. NoRows \in Tables
  BY DEF NoRows, Tables, Status
<1>2. \A m \in Messages : NoRows.topic[m] = NoTopic
  BY DEF NoRows
<1>3. NoRows \in Rows
  BY <1>1, <1>2 DEF Rows, TopicsOf
<1>4. \A c \in Chats : NoRows.chats[c] # "live"
  BY DEF NoRows
<1>5. NoLiveMember(NoRows) /\ NoLiveParticipant(NoRows)
  BY DEF NoRows, NoLiveMember, NoLiveParticipant
<1>6. NoLiveTopic(NoRows) /\ NoLiveMessage(NoRows)
  BY DEF NoRows, NoLiveTopic, NoLiveMessage
<1> QED BY <1>3, <1>4, <1>5, <1>6 DEF Settles, Sound, Counted

\* One merge of b: the rows are those Archive promises, and the pruned index
\* is exact.
LEMMA MergedStep ==
    ASSUME IInv, NEW b \in Rows, NEW A \in SUBSET Present(b.messages), NEW p \in BOOLEAN,
           Merged(b, A, p)
    PROVE  /\ rows' = Promise!Settled(Written(rows, b, A, p))
           /\ index' = LiveMessages(rows')
           /\ backup' = backup
           /\ Settles(rows')
<1> DEFINE w == Written(rows, b, A, p)
           q == Propagated(w, Scope(b))
<1>1. w \in Rows /\ Frame(w, rows, b)
  BY WrittenFrame DEF IInv, Settles
<1>2. rows' = Recounted(q, AffectedChats(b))
  BY DEF Merged
<1>3. rows' = Promise!Settled(w)
  <2> HIDE DEF w
  <2> QED BY <1>1, <1>2, MergeSettles DEF IInv, Settles
<1>4. Settles(rows')
  <2> HIDE DEF w
  <2> QED BY <1>1, <1>3, SettledSettles
<1>5. index' = LiveMessages(rows')
  <2>1. index' = PrunedIndex(Indexed(b, A), q, Scope(b))
    BY DEF Merged
  <2>2. w.messages = [m \in Messages |-> IF m \in A THEN b.messages[m] ELSE rows.messages[m]]
    BY DEF Written
  <2> HIDE DEF w, q
  <2>3. IsPropagated(q, w, Scope(b)) /\ q \in Rows
    BY <1>1, PropagatedIsPropagated DEF q
  <2>4. rows'.messages = q.messages
    BY <1>2, <2>3 DEF Recounted, Rows, Tables
  <2>5. A \subseteq Messages
    BY DEF Rows, Tables, Present
  <2>6. \A m \in Messages : m \in Indexed(b, A) <=> w.messages[m] = "live"
    BY <2>2, <2>5 DEF IInv, Indexed, LiveMessages
  <2>7. Indexed(b, A) \subseteq Messages
    BY <2>5 DEF IInv, Indexed, LiveMessages
  <2>8. ASSUME NEW m \in Messages
        PROVE  m \in PrunedIndex(Indexed(b, A), q, Scope(b)) <=> q.messages[m] = "live"
    <3>1. q.messages[m] = "live" => w.messages[m] = "live"
      BY <2>3 DEF IsPropagated
    <3>2. ASSUME w.messages[m] = "live", q.messages[m] # "live"
          PROVE  /\ q.messages[m] = "dead"
                 /\ MessageChat[m] \in Scope(b).chats \/ q.topic[m] \in Scope(b).topics
      BY <2>3, <3>2 DEF IsPropagated
    <3> QED BY <2>6, <3>1, <3>2 DEF PrunedIndex
  <2>9. PrunedIndex(Indexed(b, A), q, Scope(b)) \subseteq Messages
    BY <2>7 DEF PrunedIndex
  <2> QED BY <2>1, <2>4, <2>8, <2>9 DEF LiveMessages
<1>6. backup' = backup
  BY DEF Merged
<1> QED BY <1>3, <1>4, <1>5, <1>6

\* Replacing the archive with rows whose counts are right.
LEMMA ReplacedStep ==
    ASSUME NEW b \in Rows, Replaced(b),
           LET w == Written(NoRows, b, Present(b.messages), FALSE) IN
           \A c \in Chats : w.chats[c] = "live" =>
               w.count[c] = Cardinality(LiveIn(Promise!Settled(w), c))
    PROVE  /\ rows' = Promise!Settled(Written(NoRows, b, Present(b.messages), FALSE))
           /\ index' = LiveMessages(rows')
           /\ backup' = backup
           /\ Settles(rows')
<1> DEFINE w == Written(NoRows, b, Present(b.messages), FALSE)
<1>1. w \in Rows
  BY NoRowsSettles, WrittenFrame DEF Settles
<1>2. rows' = Propagated(w, Everything) /\ index' = LiveMessages(rows') /\ backup' = backup
  BY DEF Replaced
<1>3. rows' = Promise!Settled(w)
  <2> HIDE DEF w
  <2>1. \A c \in Chats : w.chats[c] = "live" =>
            w.count[c] = Cardinality(LiveIn(Promise!Settled(w), c))
    BY DEF w
  <2> QED BY <1>1, <1>2, <2>1, ReplaceSettles
<1>4. Settles(rows')
  <2> HIDE DEF w
  <2> QED BY <1>1, <1>3, SettledSettles
<1> QED BY <1>2, <1>3, <1>4

\* Writing rows over nothing keeps their tables as they are.
LEMMA WrittenOverNothing ==
    ASSUME NEW b \in Rows
    PROVE  LET w == Written(NoRows, b, Present(b.messages), FALSE) IN
           /\ w.chats = b.chats /\ w.topics = b.topics /\ w.messages = b.messages
           /\ w.folders = b.folders /\ w.members = b.members
           /\ w.groups = b.groups /\ w.participants = b.participants
           /\ \A c \in Chats : w.chats[c] = "live" => w.count[c] = b.count[c]
           /\ \A m \in Messages : w.messages[m] = "live" => w.topic[m] = b.topic[m]
<1> DEFINE w == Written(NoRows, b, Present(b.messages), FALSE)
<1>1. b \in Tables
  BY DEF Rows
<1>2. w.chats = b.chats /\ w.topics = b.topics /\ w.folders = b.folders
      /\ w.members = b.members /\ w.groups = b.groups /\ w.participants = b.participants
  <2>1. /\ w.chats = Overwritten(NoRows.chats, b.chats)
        /\ w.topics = Overwritten(NoRows.topics, b.topics)
        /\ w.folders = Overwritten(NoRows.folders, b.folders)
        /\ w.members = Overwritten(NoRows.members, b.members)
        /\ w.groups = Overwritten(NoRows.groups, b.groups)
        /\ w.participants = Overwritten(NoRows.participants, b.participants)
    BY DEF Written, WrittenTable
  <2> HIDE DEF w
  <2> QED BY <1>1, <2>1 DEF Overwritten, NoRows, Tables
<1>3. w.messages = b.messages
  BY <1>1 DEF Written, NoRows, Tables, Present
<1>4. \A c \in Chats : w.chats[c] = "live" => w.count[c] = b.count[c]
  <2>1. w.count = [c \in Chats |->
            IF b.chats[c] = "absent" THEN NoRows.count[c] ELSE b.count[c]]
    BY <1>1 DEF Written, WrittenCount, NoRows, Tables, Status
  <2> HIDE DEF w
  <2> QED BY <1>2, <2>1
<1>5. \A m \in Messages : w.messages[m] = "live" => w.topic[m] = b.topic[m]
  <2>1. w.topic = [m \in Messages |-> IF m \in Present(b.messages) THEN b.topic[m] ELSE NoTopic]
    BY <1>1 DEF Written, WrittenTopic, NoRows, Tables, Present
  <2>2. \A m \in Messages : b.messages[m] = "live" => m \in Present(b.messages)
    BY <1>1 DEF Tables, Present
  <2> HIDE DEF w
  <2> QED BY <1>3, <2>1, <2>2
<1> QED BY <1>2, <1>3, <1>4, <1>5

\* An importer's rows hold no tombstone, so nothing it counted is deleted.
LEMMA FetchedCounts ==
    ASSUME NEW b \in Rows, FetchedBatch(b)
    PROVE  LET w == Written(NoRows, b, Present(b.messages), FALSE) IN
           \A c \in Chats : w.chats[c] = "live" =>
               w.count[c] = Cardinality(LiveIn(Promise!Settled(w), c))
<1> DEFINE w == Written(NoRows, b, Present(b.messages), FALSE)
           z == Promise!Settled(w)
<1>1. w \in Rows
  BY NoRowsSettles, WrittenFrame DEF Settles
<1>2. /\ w.chats = b.chats /\ w.topics = b.topics /\ w.messages = b.messages
      /\ \A c \in Chats : w.chats[c] = "live" => w.count[c] = b.count[c]
  BY WrittenOverNothing
<1> HIDE DEF w
<1>3. IsClosed(z, w)
  BY <1>1, SettledIsSettled
<1> HIDE DEF z
<1>4. b \in Tables
  BY DEF Rows
<1>5. /\ \A c \in Chats : b.chats[c] # "dead" /\ b.count[c] = Cardinality(LiveIn(b, c))
      /\ \A t \in Topics : b.topics[t] # "dead"
  BY <1>4 DEF FetchedBatch, Tables
<1>6. \A t \in Topics : z.topics[t] # "dead"
  BY <1>2, <1>3, <1>5, RowsAssumption DEF IsClosed
<1>7. \A m \in Messages : z.messages[m] = b.messages[m]
  BY <1>2, <1>3, <1>5, <1>6, RowsAssumption DEF IsClosed
<1>8. \A c \in Chats : LiveIn(z, c) = LiveIn(b, c)
  BY <1>7 DEF LiveIn, LiveMessages
<1>9. \A c \in Chats : w.chats[c] = "live" => w.count[c] = Cardinality(LiveIn(z, c))
  BY <1>2, <1>5, <1>8
<1> QED BY <1>9 DEF w, z

\* A backup is an archive that was settled when it was exported.
LEMMA RestoredCounts ==
    ASSUME NEW b, Settles(b)
    PROVE  LET w == Written(NoRows, b, Present(b.messages), FALSE) IN
           \A c \in Chats : w.chats[c] = "live" =>
               w.count[c] = Cardinality(LiveIn(Promise!Settled(w), c))
<1> DEFINE w == Written(NoRows, b, Present(b.messages), FALSE)
           z == Promise!Settled(w)
<1>0. b \in Rows /\ Sound(b) /\ Counted(b)
  BY DEF Settles
<1>1. w \in Rows
  BY <1>0, NoRowsSettles, WrittenFrame DEF Settles
<1>2. /\ w.chats = b.chats /\ w.topics = b.topics /\ w.messages = b.messages
      /\ \A c \in Chats : w.chats[c] = "live" => w.count[c] = b.count[c]
      /\ \A m \in Messages : w.messages[m] = "live" => w.topic[m] = b.topic[m]
  BY <1>0, WrittenOverNothing
<1> HIDE DEF w
<1>3. IsClosed(z, w)
  BY <1>1, SettledIsSettled
<1> HIDE DEF z
<1>4. \A t \in Topics : z.topics[t] = b.topics[t]
  BY <1>0, <1>2, <1>3 DEF IsClosed, Sound, NoLiveTopic
<1>5. \A m \in Messages : z.messages[m] = b.messages[m]
  BY <1>0, <1>2, <1>3, <1>4 DEF IsClosed, Sound, NoLiveMessage
<1>6. \A c \in Chats : LiveIn(z, c) = LiveIn(b, c)
  BY <1>5 DEF LiveIn, LiveMessages
<1>7. \A c \in Chats : w.chats[c] = "live" => w.count[c] = Cardinality(LiveIn(z, c))
  BY <1>0, <1>2, <1>6 DEF Counted
<1> QED BY <1>7 DEF w, z

\* Module Archive, reached as an instance, has the same row operators.
LEMMA SameRows ==
    /\ Promise!NoRows = NoRows
    /\ \A r, b, A, p : Promise!Written(r, b, A, p) = Written(r, b, A, p)
    /\ \A r, b : Promise!Acceptable(r, b) = Acceptable(r, b)
    /\ \A table : Promise!Present(table) = Present(table)
    /\ \A b : Promise!ImportBatch(b) <=> ImportBatch(b)
    /\ \A b : Promise!FetchedBatch(b) <=> FetchedBatch(b)
    /\ \A r : Promise!LiveMessages(r) = LiveMessages(r)
<1>1. Promise!NoRows = NoRows
  BY DEF Promise!NoRows, NoRows
<1>2. \A table : Promise!Present(table) = Present(table)
  BY DEF Promise!Present, Present
<1>3. \A r : Promise!LiveMessages(r) = LiveMessages(r)
  BY DEF Promise!LiveMessages, LiveMessages
<1>4. ASSUME NEW r, NEW b, NEW A, NEW p
      PROVE  Promise!Written(r, b, A, p) = Written(r, b, A, p)
  BY DEF Promise!Written, Promise!WrittenTable, Promise!WrittenCount, Promise!WrittenTopic,
         Promise!Overwritten, Promise!Preserved,
         Written, WrittenTable, WrittenCount, WrittenTopic, Overwritten, Preserved
<1>5. \A r, b : Promise!Acceptable(r, b) = Acceptable(r, b)
  BY <1>2 DEF Promise!Acceptable, Acceptable
<1>6. \A b : Promise!ImportBatch(b) <=> ImportBatch(b)
  BY <1>2 DEF Promise!ImportBatch, ImportBatch
<1>7. ASSUME NEW b
      PROVE  Promise!FetchedBatch(b) <=> FetchedBatch(b)
  <2>1. \A S : Promise!Cardinality(S) = Cardinality(S)
    BY DEF Promise!Cardinality, Promise!IsFiniteSet, Cardinality, IsFiniteSet
  <2>2. \A c : Promise!LiveIn(b, c) = LiveIn(b, c)
    BY <1>3 DEF Promise!LiveIn, LiveIn
  <2> QED BY <1>6, <2>1, <2>2 DEF Promise!FetchedBatch, FetchedBatch
<1> QED BY <1>1, <1>2, <1>3, <1>4, <1>5, <1>6, <1>7

\* Every step of the store is a step of the promise, from settled rows to
\* settled rows.
LEMMA StepKeepsPromise ==
    ASSUME IInv, [Next]_vars
    PROVE  IInv' /\ [Promise!Next]_vars
<1> USE DEF IInv
<1>1. CASE MergeAll
  <2>1. PICK b \in Batches : ImportBatch(b) /\ Merged(b, Present(b.messages), FALSE)
    BY <1>1 DEF MergeAll
  <2>2. b \in Rows
    BY BatchesAssumption
  <2>3. /\ rows' = Promise!Settled(Written(rows, b, Present(b.messages), FALSE))
        /\ index' = LiveMessages(rows') /\ backup' = backup /\ Settles(rows')
    BY <2>1, <2>2, MergedStep
  <2>4. Promise!Import
    BY <2>1, <2>3, SameRows DEF Promise!Import, Promise!Becomes
  <2> QED BY <2>3, <2>4 DEF Promise!Next
<1>2. CASE ReplaceAll
  <2>1. PICK b \in Batches : FetchedBatch(b) /\ Replaced(b)
    BY <1>2 DEF ReplaceAll
  <2>2. b \in Rows
    BY BatchesAssumption
  <2>3. /\ rows' = Promise!Settled(Written(NoRows, b, Present(b.messages), FALSE))
        /\ index' = LiveMessages(rows') /\ backup' = backup /\ Settles(rows')
    BY <2>1, <2>2, ReplacedStep, FetchedCounts
  <2>4. Promise!Replace
    BY <2>1, <2>3, SameRows DEF Promise!Replace, Promise!Becomes
  <2> QED BY <2>3, <2>4 DEF Promise!Next
<1>3. CASE MergeSnapshot
  <2>0. PICK b \in Batches \cup {backup} : \E A \in Acceptable(rows, b) : Merged(b, A, TRUE)
    BY <1>3 DEF MergeSnapshot
  <2>1. PICK A \in Acceptable(rows, b) : Merged(b, A, TRUE)
    BY <2>0
  <2>2. b \in Rows /\ A \in SUBSET Present(b.messages)
    BY BatchesAssumption DEF Acceptable, Settles
  <2>3. /\ rows' = Promise!Settled(Written(rows, b, A, TRUE))
        /\ index' = LiveMessages(rows') /\ backup' = backup /\ Settles(rows')
    BY <2>1, <2>2, MergedStep
  <2>4. Promise!Merge
    BY <2>1, <2>3, SameRows DEF Promise!Merge, Promise!Becomes
  <2> QED BY <2>3, <2>4 DEF Promise!Next
<1>4. CASE RestoreSnapshot
  <2>1. Replaced(backup) /\ backup \in Rows
    BY <1>4 DEF RestoreSnapshot, Settles
  <2>2. /\ rows' = Promise!Settled(Written(NoRows, backup, Present(backup.messages), FALSE))
        /\ index' = LiveMessages(rows') /\ backup' = backup /\ Settles(rows')
    BY <2>1, ReplacedStep, RestoredCounts
  <2>3. Promise!Restore
    BY <2>2, SameRows DEF Promise!Restore, Promise!Becomes
  <2> QED BY <2>2, <2>3 DEF Promise!Next
<1>5. CASE ExportAll
  BY <1>5 DEF ExportAll, Promise!Next, Promise!Export
<1>6. CASE UNCHANGED vars
  BY <1>6 DEF vars, Promise!vars
<1> QED BY <1>1, <1>2, <1>3, <1>4, <1>5, <1>6 DEF Next

\* A pull keeps every row it finds, but for the descendants of a tombstone.
LEMMA PullKeepsDestination ==
    ASSUME IInv, MergeSnapshot
    PROVE  DestinationKept
<1>1. PICK b \in Batches \cup {backup} : \E A \in Acceptable(rows, b) : Merged(b, A, TRUE)
  BY DEF MergeSnapshot
<1>2. PICK A \in Acceptable(rows, b) : Merged(b, A, TRUE)
  BY <1>1
<1>3. b \in Rows /\ A \in SUBSET Present(b.messages) /\ rows \in Rows
  BY BatchesAssumption DEF Acceptable, IInv, Settles
<1> DEFINE w == Written(rows, b, A, TRUE)
<1>4. w \in Rows
  BY <1>3, WrittenFrame
<1>5. /\ w.chats = Preserved(rows.chats, b.chats)
      /\ w.folders = Preserved(rows.folders, b.folders)
      /\ w.groups = Preserved(rows.groups, b.groups)
      /\ w.topics = Preserved(rows.topics, b.topics)
      /\ w.members = Preserved(rows.members, b.members)
      /\ w.participants = Preserved(rows.participants, b.participants)
  BY DEF Written, WrittenTable
<1>6. rows' = Promise!Settled(w)
  BY <1>2, <1>3, MergedStep
<1> HIDE DEF w
<1>7. IsClosed(rows', w)
  BY <1>4, <1>6, SettledIsSettled
<1>8. rows \in Tables
  BY <1>3 DEF Rows
<1>9. /\ rows'.chats = w.chats /\ rows'.folders = w.folders /\ rows'.groups = w.groups
      /\ \A t \in Topics : \/ rows'.topics[t] = w.topics[t]
                           \/ /\ w.topics[t] = "live" /\ rows'.topics[t] = "dead"
                              /\ rows'.chats[TopicChat[t]] = "dead"
      /\ \A k \in Folders \X Chats :
            \/ rows'.members[k] = w.members[k]
            \/ /\ w.members[k] = "live" /\ rows'.members[k] = "dead"
               /\ rows'.folders[k[1]] = "dead" \/ rows'.chats[k[2]] = "dead"
      /\ \A k \in Groups \X Users :
            \/ rows'.participants[k] = w.participants[k]
            \/ w.participants[k] = "live" /\ rows'.participants[k] = "dead"
  BY <1>7 DEF IsClosed
<1>10. ASSUME NEW cur, NEW new, NEW k \in DOMAIN cur, cur[k] # "absent"
       PROVE  Preserved(cur, new)[k] = cur[k]
  BY <1>10 DEF Preserved
<1>11. /\ Kept(rows.chats, rows'.chats)
       /\ Kept(rows.folders, rows'.folders)
       /\ Kept(rows.groups, rows'.groups)
  BY <1>5, <1>9, <1>10 DEF Kept
<1>12. /\ DOMAIN rows.topics = Topics
       /\ DOMAIN rows.members = Folders \X Chats
       /\ DOMAIN rows.participants = Groups \X Users
  BY <1>8 DEF Tables
<1>13. /\ \A t \in Topics : rows.topics[t] # "absent" => w.topics[t] = rows.topics[t]
       /\ \A k \in Folders \X Chats : rows.members[k] # "absent" => w.members[k] = rows.members[k]
       /\ \A k \in Groups \X Users :
             rows.participants[k] # "absent" => w.participants[k] = rows.participants[k]
  BY <1>5, <1>10, <1>12
<1>14. /\ StaysDead(rows.topics, rows'.topics)
       /\ StaysDead(rows.members, rows'.members)
       /\ StaysDead(rows.participants, rows'.participants)
  BY <1>9, <1>12, <1>13 DEF StaysDead
<1>15. /\ \A t \in Topics : rows.topics[t] = "live" /\ rows'.topics[t] # "live" =>
             rows'.chats[TopicChat[t]] = "dead"
       /\ \A k \in Folders \X Chats :
             rows.members[k] = "live" /\ rows'.members[k] # "live" =>
                rows'.folders[k[1]] = "dead" \/ rows'.chats[k[2]] = "dead"
  BY <1>9, <1>13
<1> QED BY <1>11, <1>14, <1>15 DEF DestinationKept

-----------------------------------------------------------------------------
(***************************************************************************)
(* The theorems.                                                           *)
(***************************************************************************)

\* The archive and its backup stay settled, and the index exact.
THEOREM Invariance == Spec => []IInv
<1>1. Init => IInv
  <2>1. LiveMessages(NoRows) = {}
    BY DEF LiveMessages, NoRows
  <2> QED BY <2>1, NoRowsSettles DEF Init, IInv
<1>2. IInv /\ [Next]_vars => IInv'
  BY StepKeepsPromise
<1> QED BY <1>1, <1>2, PTL DEF Spec

\* The tables, the index and the backup keep their types through every
\* import, merge, restore and export.
THEOREM TypeCorrect == Spec => []TypeOK
<1>1. IInv => TypeOK
  BY DEF IInv, Settles, TypeOK, LiveMessages
<1> QED BY <1>1, Invariance, PTL

\* No merge, scoped as it is (propagateTombstones over a tombstoneScope),
\* leaves a row live under a tombstoned chat, topic, folder or group.
THEOREM OrphanFree == Spec => []NoLiveOrphan
<1>1. IInv => NoLiveOrphan
  BY DEF IInv, Settles, Sound, NoLiveOrphan
<1> QED BY <1>1, Invariance, PTL

\* Search finds exactly the live messages: the scoped prune of messages_fts
\* never misses a message the propagation deleted.
THEOREM SearchIsExact == Spec => []IndexExact
<1>1. IInv => IndexExact
  BY DEF IInv, IndexExact
<1> QED BY <1>1, Invariance, PTL

\* A live chat's message_count counts its live messages, although only the
\* chats affectedChatJIDs returns are recounted.
THEOREM CountsAreExact == Spec => []CountExact
<1>1. IInv => CountExact
  BY DEF IInv, Settles, Counted, CountExact
<1> QED BY <1>1, Invariance, PTL

\* The store's scoped, ordered updates implement the promise of module
\* Archive, which settles the whole archive in one step.
THEOREM Refinement == Spec => KeepsPromise
<1>1. Init => Promise!Init
  BY SameRows DEF Init, Promise!Init
<1>2. IInv /\ [Next]_vars => [Promise!Next]_vars
  BY StepKeepsPromise
<1> QED BY <1>1, <1>2, Invariance, PTL DEF Spec, KeepsPromise, Promise!Spec, Promise!vars, vars

\* A pull keeps the rows and tombstones it finds (importSnapshot with
\* preserveTombstones): a live row dies only under a tombstoned parent.
THEOREM PullsKeepDestination == Spec => MergeSnapshotKeepsDestination
<1>1. IInv => (~DestinationKept => ~MergeSnapshot)
  BY PullKeepsDestination
<1> QED BY <1>1, Invariance, PTL DEF MergeSnapshotKeepsDestination
=============================================================================
