--------------------------- MODULE MessageHistory ---------------------------
(***************************************************************************)
(* One message of one chat, kept by several archives of the same account   *)
(* that exchange snapshots through a backup: its canonical row and its     *)
(* append-only revisions.  Telegram's copy changes meanwhile.  Every store *)
(* operation is one transaction, hence one action.                         *)
(***************************************************************************)
EXTENDS RevisionGraph

CONSTANTS
    Archives,
    Texts,          \* what the observable payload columns can hold
    NoText,         \* the text of a payload that has none
    MaxTime,        \* bound on the clock
    MaxRevisions    \* bound on the revisions of an archive

ASSUME HistoryAssumption ==
    /\ NoText \notin Texts
    /\ MaxTime \in Nat \ {0}
    /\ MaxRevisions \in Nat

VARIABLES
    clock,      \* seconds; the message was sent at 1
    telegram,   \* Telegram's copy of the message
    row,        \* per archive, the message's row (text = NoText: none)
    chat,       \* per archive, the chat's deleted_at; 0 while live or missing
    history,    \* per archive, the message's revisions in rowid order
    snapshot    \* the backup's current snapshot

vars == <<clock, telegram, row, chat, history, snapshot>>

Sent == 1

\* A row, which is also its payload: del is deleted_at, why deletion_reason.
NoMessage == [text |-> NoText, edit |-> 0, del |-> 0, why |-> "none"]
Message(text, edit) == [text |-> text, edit |-> edit, del |-> 0, why |-> "none"]

\* The payload recordPropagatedMessageDeletions writes holds no content.
Deletion(m) == [m EXCEPT !.text = NoText, !.edit = 0]

Stored(m) == m # NoMessage
Dead(m) == m.del # 0

Event(type, at, payload) == [type |-> type, at |-> at, payload |-> payload]

-----------------------------------------------------------------------------
(***************************************************************************)
(* Recording.                                                              *)
(***************************************************************************)

\* The event pendingMessageRevision makes of the incoming row m.
Observation(m, current, revs) ==
    IF Dead(m) THEN Event("deleted", m.del, m)
    ELSE IF ~Stored(current) /\ revs = <<>> THEN Event("created", Sent, m)
    ELSE Event("edited", IF m.edit # 0 THEN m.edit ELSE Sent, m)

\* insertMessages with recordRevisions: an unchanged payload records nothing.
Observed(revs, current, m, seen) ==
    IF m = current THEN revs
    ELSE Inserted(revs,
            [chain |-> Append(Predecessor(revs, current), Observation(m, current, revs)),
             seen  |-> seen])

\* recordPropagatedMessageDeletions.
Recorded(revs, m, seen) ==
    IF \/ ~Dead(m)
       \/ /\ Tip(revs) # <<>>
          /\ Last(Tip(revs)).type = "deleted"
          /\ Last(Tip(revs)).at = m.del
    THEN revs
    ELSE Inserted(revs, [chain |-> Append(Tip(revs), Event("deleted", m.del, Deletion(m))),
                         seen  |-> seen])

\* seedMissingMessageBaselines.
Seeded(revs, m, seen) ==
    IF revs # <<>> \/ ~Stored(m) THEN revs
    ELSE << [chain |-> << IF Dead(m) THEN Event("deleted", m.del, m)
                          ELSE Event("observed", Sent, m) >>,
             seen  |-> seen] >>

\* propagateTombstones on the message: a tombstoned chat takes it along.
Propagated(m, chatDel) ==
    IF Stored(m) /\ ~Dead(m) /\ chatDel # 0
    THEN [m EXCEPT !.del = chatDel, !.why = "chat"] ELSE m

-----------------------------------------------------------------------------
(***************************************************************************)
(* mergeableSnapshotMessages, for the message, and slips of it.            *)
(***************************************************************************)

HasPayload(revs, m) == WithPayload(revs, m) # {}

\* The order of a row: its payload's best revision, or else the tip.
CurrentOrder(revs, m) ==
    CanonicalOrder(Best(revs, IF HasPayload(revs, m) THEN WithPayload(revs, m) ELSE DOMAIN revs), m)

\* The deletion of a whole chat is recorded with another payload than the row's.
IncomingKnownByPayload(revs, m) == HasPayload(revs, m)

IncomingKnown(revs, m) == HasPayload(revs, m) \/ (Dead(m) /\ revs # <<>>)

ChangedAt(m) == IF m.edit # 0 THEN m.edit ELSE Sent

\* The order alone, as for two live rows.
AcceptsByOrder(revs, current, s) ==
    \/ ~Stored(current)
    \/ s.row = current
    \/ /\ IncomingKnown(s.history, s.row)
       /\ Preferred(CurrentOrder(s.history, s.row), CurrentOrder(revs, current))

Accepts(revs, current, s) ==
    \/ ~Stored(current)
    \/ s.row = current
    \/ /\ Dead(current) /\ ~Dead(s.row)
       /\ revs # <<>> /\ HasPayload(s.history, s.row)
       /\ Descends(CurrentOrder(s.history, s.row).chain, CurrentOrder(revs, current).chain)
    \/ /\ ~(Dead(current) /\ ~Dead(s.row))
       /\ IF IncomingKnown(s.history, s.row)
          THEN IF revs # <<>>
               THEN Preferred(CurrentOrder(s.history, s.row), CurrentOrder(revs, current))
               ELSE CurrentOrder(s.history, s.row).at > ChangedAt(current)
          ELSE ChangedAt(s.row) > ChangedAt(current)

\* The row with the time of the deletion alone.
OverlaidTime(current, m) ==
    IF Stored(current) /\ Dead(m) THEN [current EXCEPT !.del = m.del] ELSE m

\* The row insertMessages leaves: a tombstone keeps the stored content.
Overlaid(current, m) ==
    IF Stored(current) /\ Dead(m) THEN [current EXCEPT !.del = m.del, !.why = m.why] ELSE m

\* The steps of importSnapshot with the deletions recorded too early.
ImportRecordingFirst(c, r, revs, s, restore) ==
    LET taken   == IF restore \/ Accepts(revs, r, s) THEN Overlaid(r, s.row) ELSE r
        chatDel == IF Stored(r) THEN c ELSE s.chat
        all     == Seeded(InsertedAll(revs, s.history), taken, s.at)
    IN  [row |-> Propagated(taken, chatDel), chat |-> chatDel,
         history |-> Recorded(all, taken, s.at)]

\* importSnapshot of s over an archive: the row, the chat and the revisions.
Import(c, r, revs, s, restore) ==
    LET taken   == IF restore \/ Accepts(revs, r, s) THEN Overlaid(r, s.row) ELSE r
        chatDel == IF Stored(r) THEN c ELSE s.chat
        m       == Propagated(taken, chatDel)
        all     == Seeded(InsertedAll(revs, s.history), taken, s.at)
    IN  [row |-> m, chat |-> chatDel, history |-> Recorded(all, m, s.at)]

Merged(a, s) == Import(chat[a], row[a], history[a], s, FALSE)

-----------------------------------------------------------------------------
Init ==
    /\ clock = Sent
    /\ telegram \in {Message(text, 0) : text \in Texts}
    /\ row = [a \in Archives |-> NoMessage]
    /\ chat = [a \in Archives |-> 0]
    /\ history = [a \in Archives |-> <<>>]
    /\ snapshot = [row |-> NoMessage, chat |-> 0, history |-> <<>>, at |-> Sent]

\* A second passes: what the next operation does carries a later time.
Tick == clock < MaxTime /\ clock' = clock + 1

Becomes(a, state) ==
    /\ Len(state.history) <= MaxRevisions
    /\ row' = [row EXCEPT ![a] = state.row]
    /\ chat' = [chat EXCEPT ![a] = state.chat]
    /\ history' = [history EXCEPT ![a] = state.history]

\* The author edits the message: the new text comes with an edit time.
TelegramEdit ==
    /\ Tick
    /\ \E text \in Texts \ {telegram.text} : telegram' = Message(text, clock')
    /\ UNCHANGED <<row, chat, history, snapshot>>

\* Views, reactions or pins change: the payload differs, the edit time does not.
TelegramChange ==
    /\ \E text \in Texts \ {telegram.text} : telegram' = [telegram EXCEPT !.text = text]
    /\ UNCHANGED <<clock, row, chat, history, snapshot>>

\* MergeAll of what an importer fetched: the message and its chat, both live.
Fetch(a) ==
    /\ Becomes(a, [row |-> telegram, chat |-> 0,
                   history |-> Observed(history[a], row[a], telegram, clock)])
    /\ UNCHANGED <<clock, telegram, snapshot>>

\* ReplaceAll of the same.
Replace(a) ==
    /\ Becomes(a, [row |-> telegram, chat |-> 0,
                   history |-> Observed(<<>>, NoMessage, telegram, clock)])
    /\ UNCHANGED <<clock, telegram, snapshot>>

\* MergeAll of a tombstone for the message.
DeleteMessage(a) ==
    /\ Stored(row[a])
    /\ Tick
    /\ LET m == [row[a] EXCEPT !.del = clock', !.why = "message"]
       IN  Becomes(a, [row |-> m, chat |-> chat[a],
                       history |-> Recorded(Observed(history[a], row[a], m, clock'), m, clock')])
    /\ UNCHANGED <<telegram, snapshot>>

\* MergeAll of a tombstone for the chat.
DeleteChat(a) ==
    /\ Stored(row[a])
    /\ Tick
    /\ LET m == Propagated(row[a], clock')
       IN  Becomes(a, [row |-> m, chat |-> clock', history |-> Recorded(history[a], m, clock')])
    /\ UNCHANGED <<telegram, snapshot>>

\* Open migrates an archive that a version without revisions filled.
Migrate(a) ==
    /\ ~Stored(row[a])
    /\ Becomes(a, [row |-> telegram, chat |-> 0, history |-> Seeded(<<>>, telegram, clock)])
    /\ UNCHANGED <<clock, telegram, snapshot>>

\* ExportAll, and the push of its result.
Push(a) ==
    /\ Stored(row[a])
    /\ snapshot' = [row |-> row[a], chat |-> chat[a],
                    history |-> ByEventTime(history[a]), at |-> clock]
    /\ UNCHANGED <<clock, telegram, row, chat, history>>

MergeSnapshot(a) ==
    /\ Stored(snapshot.row)
    /\ Becomes(a, Merged(a, snapshot))
    /\ UNCHANGED <<clock, telegram, snapshot>>

RestoreSnapshot(a) ==
    /\ Stored(snapshot.row)
    /\ Becomes(a, Import(0, NoMessage, <<>>, snapshot, TRUE))
    /\ UNCHANGED <<clock, telegram, snapshot>>

Next ==
    \/ TelegramEdit
    \/ TelegramChange
    \/ \E a \in Archives :
          \/ Fetch(a)
          \/ Replace(a)
          \/ DeleteMessage(a)
          \/ DeleteChat(a)
          \/ Migrate(a)
          \/ Push(a)
          \/ MergeSnapshot(a)
          \/ RestoreSnapshot(a)

Spec == Init /\ [][Next]_vars

-----------------------------------------------------------------------------
(***************************************************************************)
(* Properties.                                                             *)
(***************************************************************************)

\* The columns of a message hold their types; a reason comes with a time and a
\* time with a reason (normalizeTombstone, updateExistingTombstone).
TypeOK ==
    /\ clock \in Sent..MaxTime
    /\ telegram \in {Message(text, edit) : text \in Texts, edit \in 0..MaxTime}
    /\ \A a \in Archives :
          /\ row[a].text \in Texts \cup {NoText}
          /\ row[a].edit \in 0..clock
          /\ row[a].del \in {0} \cup (Sent + 1)..clock
          /\ Dead(row[a]) <=> row[a].why \in {"message", "chat"}
          /\ chat[a] \in 0..clock
          /\ Len(history[a]) <= MaxRevisions
          /\ \A i \in DOMAIN history[a] : EventAt(history[a][i]) \in Sent..clock

\* The revision events README calls append-only explain the row: a live row's
\* payload is one of them, and a tombstone's time is that of a deletion.
RowIsRecorded ==
    \A a \in Archives : Stored(row[a]) =>
        \E i \in DOMAIN history[a] :
            IF Dead(row[a])
            THEN EventType(history[a][i]) = "deleted" /\ EventAt(history[a][i]) = row[a].del
            ELSE Payload(history[a][i]) = row[a]

\* Every predecessor is there, and no event twice, whatever was pulled from
\* whom and how often: revisionDescendsFrom can follow every chain.
HistoryIsClosed ==
    \A a \in Archives : \A i \in DOMAIN history[a] :
        /\ Len(history[a][i].chain) > 1 => Front(history[a][i].chain) \in Chains(history[a])
        /\ \A j \in DOMAIN history[a] : history[a][i].chain = history[a][j].chain => i = j

\* A pull brings a deleted message back only by an event that succeeds one the
\* archive knew: the deletion itself, where that was recorded with the row.
\* (The chat's deletion is not, and then the successor of a live event does.)
ResurrectionIsCausal ==
    [][\A a \in Archives : Dead(row[a]) /\ ~Dead(row'[a]) /\ MergeSnapshot(a) =>
          \E x \in Chains(history'[a]), y \in Chains(history[a]) :
              /\ Last(x).payload = row'[a]
              /\ Descends(x, y)
              /\ HasPayload(history[a], row[a]) =>
                    Last(y).type = "deleted" /\ Last(y).payload = row[a]]_vars

\* A pull never replaces a live message by one with an older Telegram edit.
MergeKeepsNewerEdit ==
    [][\A a \in Archives : row'[a].edit < row[a].edit /\ ~Dead(row[a]) /\ ~Dead(row'[a]) =>
          ~MergeSnapshot(a)]_vars

\* A pull ignores the snapshot's deletion only for a row that the archive has
\* from an observation made no earlier than the deletion.
DeletionYieldsOnlyToLater ==
    [][\A a \in Archives :
          Dead(snapshot.row) /\ Stored(row[a]) /\ ~Dead(row'[a]) /\ MergeSnapshot(a) =>
              \E i \in DOMAIN history[a] :
                  /\ Payload(history[a][i]) = row[a]
                  /\ history[a][i].seen >= snapshot.row.del]_vars

\* A pull never reapplies a deletion whose successor is the live row it meets
\* (tombstone_test.go, TestSnapshotMergeDoesNotReapplyAncestorDeletion...:
\* "ancestor backup deletion regressed live descendant").
AncestorDeletionStaysUndone ==
    \A a \in Archives :
        Stored(row[a]) /\ ~Dead(row[a]) /\ Dead(snapshot.row) /\ Dead(Merged(a, snapshot).row) =>
            ~\E x \in Chains(history[a]), y \in Chains(snapshot.history) :
                /\ Last(x).payload = row[a]
                /\ Last(y).payload = snapshot.row
                /\ Descends(x, y)
=============================================================================
