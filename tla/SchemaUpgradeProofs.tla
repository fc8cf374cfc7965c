------------------------ MODULE SchemaUpgradeProofs ------------------------
(***************************************************************************)
(* Proofs about SchemaUpgrade, for any number of processes, rows and       *)
(* faults: an archive whose version is the current one has been upgraded   *)
(* whole, the backups of before are recognised, and the upgrade is one     *)
(* step.  The invariant says how far each process must have brought the    *)
(* archive to be where it is; because every step leaves a whole archive    *)
(* whole, a rival can be anywhere.                                         *)
(***************************************************************************)
EXTENDS SchemaUpgrade, TLAPS

-----------------------------------------------------------------------------
(***************************************************************************)
(* The inductive invariant.                                                *)
(***************************************************************************)
\* An identifier is that of its row, and only the first of the rows of a
\* message has the identifier without a row.
IdsFit ==
    \A r \in Row : eventId[r] # NoId =>
        /\ r \in Stored
        /\ eventId[r].message = message[r]
        /\ eventId[r].row \in {NoRow, r}
        /\ eventId[r].row = NoRow => \A t \in Family(message[r]) : r <= t

RowsFit ==
    /\ deleted \subseteq Stored
    /\ 1 .. backup \subseteq Stored
    /\ ~keyed => Identified

\* What a process has brought about, or found, to be at its step.
Reached(p) ==
    /\ pc[p] \notin {"closed", "create"} => tables = Tables
    /\ pc[p] = "columns" =>
          \A t \in Altered \ todo[p] : ColumnsOf[t] \subseteq columns \cup missing[p]
    /\ pc[p] \notin {"closed", "create", "version", "columns"} => columns = Column
    /\ pc[p] \in {"unique", "final", "index", "stamp", "opened"} => ~keyed
    /\ pc[p] \in {"index", "stamp", "opened"} => Complete
    /\ pc[p] = "opened" => version = SchemaVersion

VersionFits ==
    /\ version = SchemaVersion => Complete
    /\ version > SchemaVersion =>
          ~keyed /\ \A p \in Process : pc[p] \in {"closed", "create", "version"}

IInv ==
    /\ TypeOK
    /\ IdsFit
    /\ RowsFit
    /\ VersionFits
    /\ \A p \in Process : Reached(p)

-----------------------------------------------------------------------------
\* The columns are those of the tables that are altered.
LEMMA ColumnFacts ==
    /\ Tables = {"messages", "message_revisions", "messages_fts"}
    /\ Altered \subseteq Tables
    /\ \A t \in Tables : ColumnsOf[t] \subseteq Column
    /\ \A S : (\A t \in Altered : ColumnsOf[t] \subseteq S) => Column \subseteq S
<1>1. Tables = {"messages", "message_revisions", "messages_fts"}
  BY DEF Tables, ColumnsOf
<1>2. \A t \in Tables : ColumnsOf[t] \subseteq Column
  BY DEF Column
<1>3. ColumnsOf["messages_fts"] = {}
  BY DEF ColumnsOf
<1>4. ASSUME NEW S, \A t \in Altered : ColumnsOf[t] \subseteq S
      PROVE  Column \subseteq S
  BY <1>1, <1>3, <1>4 DEF Column, Altered
<1> QED
  BY <1>1, <1>2, <1>4 DEF Altered

\* What the identifiers are made of.
LEMMA IdFacts ==
    /\ NoId \notin EventId
    /\ \A m \in Message, r \in Row :
          /\ StableId(m) \in EventId /\ LegacyId(m, r) \in EventId
          /\ StableId(m).message = m /\ StableId(m).row = NoRow
          /\ LegacyId(m, r).message = m /\ LegacyId(m, r).row = r
          /\ r # NoRow
BY SchemaUpgradeAssumption DEF EventId, StableId, LegacyId, Row

LEMMA StoredMessage ==
    ASSUME TypeOK, NEW r \in Stored
    PROVE  r \in Row /\ message[r] \in Message /\ r \in Family(message[r])
BY DEF TypeOK, Stored, Family

\* An import adds rows, with these messages and identifiers.
Brings(new, record, id) ==
    /\ new \in SUBSET (Row \ Stored) /\ new # {}
    /\ record \in [new -> Message \ gone] /\ Added(record)
    /\ id \in [new -> EventId]
    /\ eventId' = [r \in Row |-> IF r \in new THEN id[r] ELSE eventId[r]]
    /\ revisions' = revisions \cup {<<id[r], "observed">> : r \in new}
    /\ \A r \in new :
          /\ id[r].message = record[r] /\ id[r].row \in {NoRow, r}
          /\ id[r].row = NoRow =>
                /\ Family(record[r]) = {}
                /\ \A s \in new : record[s] = record[r] => s = r

LEMMA ImportedRows ==
    ASSUME NEW p \in Process, Import(p)
    PROVE  \E new, record, id : Brings(new, record, id)
<1>1. PICK again \in SUBSET Stored, new \in SUBSET (Row \ Stored) :
      \E record \in [new -> Message \ gone] :
          LET Group(m) == {r \in again : message[r] = m} \cup {r \in new : record[r] = m}
              Id(r) == ImportedId(record[r], r, Group(record[r]))
          IN  /\ new # {} /\ Added(record)
              /\ eventId' = [r \in Row |-> IF r \in new THEN Id(r) ELSE eventId[r]]
              /\ revisions' = revisions \cup {<<Id(r), "observed">> : r \in new}
  BY DEF Import
<1>2. PICK record \in [new -> Message \ gone] :
          LET Group(m) == {r \in again : message[r] = m} \cup {r \in new : record[r] = m}
              Id(r) == ImportedId(record[r], r, Group(record[r]))
          IN  /\ new # {} /\ Added(record)
              /\ eventId' = [r \in Row |-> IF r \in new THEN Id(r) ELSE eventId[r]]
              /\ revisions' = revisions \cup {<<Id(r), "observed">> : r \in new}
  BY <1>1
<1> DEFINE Group(m) == {r \in again : message[r] = m} \cup {r \in new : record[r] = m}
           Id(r) == ImportedId(record[r], r, Group(record[r]))
           id == [r \in new |-> Id(r)]
<1>3. ASSUME NEW r \in new
      PROVE  /\ Id(r) \in EventId /\ Id(r).message = record[r] /\ Id(r).row \in {NoRow, r}
             /\ Id(r).row = NoRow =>
                   /\ Family(record[r]) = {}
                   /\ \A s \in new : record[s] = record[r] => s = r
  <2>1. record[r] \in Message /\ r \in Row
    OBVIOUS
  <2>2. CASE Family(record[r]) = {} /\ Group(record[r]) = {r}
    <3>1. Id(r) = StableId(record[r])
      BY <2>2 DEF ImportedId
    <3>2. \A s \in new : record[s] = record[r] => s = r
      BY <2>2
    <3> QED
      BY <2>1, <2>2, <3>1, <3>2, IdFacts
  <2>3. CASE ~ (Family(record[r]) = {} /\ Group(record[r]) = {r})
    <3>1. Id(r) = LegacyId(record[r], r)
      BY <2>3 DEF ImportedId
    <3> HIDE DEF Id, Group
    <3> QED
      BY <2>1, <3>1, IdFacts
  <2> QED
    BY <2>2, <2>3
<1>4. /\ new # {} /\ Added(record)
      /\ eventId' = [r \in Row |-> IF r \in new THEN Id(r) ELSE eventId[r]]
      /\ revisions' = revisions \cup {<<Id(r), "observed">> : r \in new}
  BY <1>2
<1> HIDE DEF Id, Group
<1>5. id \in [new -> EventId] /\ \A r \in new : id[r] = Id(r)
  BY <1>3
<1>6. [r \in Row |-> IF r \in new THEN Id(r) ELSE eventId[r]]
        = [r \in Row |-> IF r \in new THEN id[r] ELSE eventId[r]]
  BY <1>5
<1>7. {<<Id(r), "observed">> : r \in new} = {<<id[r], "observed">> : r \in new}
  BY <1>5
<1> HIDE DEF id
<1>8. /\ new # {} /\ Added(record)
      /\ eventId' = [r \in Row |-> IF r \in new THEN id[r] ELSE eventId[r]]
      /\ revisions' = revisions \cup {<<id[r], "observed">> : r \in new}
  BY <1>4, <1>6, <1>7
<1>9. \A r \in new :
          /\ id[r].message = record[r] /\ id[r].row \in {NoRow, r}
          /\ id[r].row = NoRow =>
                /\ Family(record[r]) = {}
                /\ \A s \in new : record[s] = record[r] => s = r
  BY <1>3, <1>5
<1>10. Brings(new, record, id)
  BY <1>5, <1>8, <1>9 DEF Brings
<1> QED
  BY <1>10

-----------------------------------------------------------------------------
LEMMA InitTyped == Init => TypeOK
<1> SUFFICES ASSUME Init PROVE TypeOK
  OBVIOUS
<1> USE SchemaUpgradeAssumption
<1>1. {"deleted_at"} \subseteq Column
  <2>1. "deleted_at" \in ColumnsOf["messages"] /\ "messages" \in Tables
    BY ColumnFacts DEF ColumnsOf
  <2> QED
    BY <2>1, ColumnFacts
<1>2. message \in [Row -> Message \cup {NoMessage}] /\ gone \subseteq Message
  BY DEF Init, Fresh, Old, Newer
<1>3. version \in Nat /\ backup \in 0 .. MaxRows
  <2>1. version \in {0, SchemaVersion + 1} \cup OldVersions
    BY DEF Init, Fresh, Old, Newer
  <2>2. backup = 0 \/ backup \in 0 .. MaxRows
    BY DEF Init, Fresh, Old, Newer
  <2> QED
    BY <2>1, <2>2
<1>4. keyed \in BOOLEAN /\ tables \subseteq Tables /\ columns \subseteq Column
  <2>1. {"messages"} \subseteq Tables
    BY ColumnFacts
  <2>2. CASE Fresh
    BY <2>2 DEF Fresh
  <2>3. CASE Old
    BY <1>1, <2>1, <2>3 DEF Old
  <2>4. CASE Newer
    BY <2>4 DEF Newer
  <2> QED
    BY <2>2, <2>3, <2>4 DEF Init
<1>5. pc \in [Process -> Steps] /\ todo \in [Process -> SUBSET Altered]
      /\ missing \in [Process -> SUBSET Column]
  BY DEF Init, Steps
<1>6. eventId \in [Row -> EventId \cup {NoId}] /\ faults \in 0 .. MaxFaults
  BY DEF Init
<1>7. deleted \subseteq Row /\ indexed \subseteq Row
      /\ revisions \subseteq (EventId \cup {NoId}) \X {"observed", "deleted"}
  BY DEF Init
<1> QED
  BY <1>2, <1>3, <1>4, <1>5, <1>6, <1>7 DEF TypeOK

\* Every action leaves a state of the type.
LEMMA TypeStep ==
    ASSUME TypeOK, [Next]_vars
    PROVE  TypeOK'
<1> USE SchemaUpgradeAssumption
<1>1. ASSUME NEW p \in Process, NEW step \in Steps, Goto(p, step)
      PROVE  pc' \in [Process -> Steps]
  BY <1>1 DEF Goto, TypeOK
<1>2. ASSUME NEW p \in Process, Start(p) PROVE TypeOK'
  BY <1>1, <1>2 DEF Start, TypeOK, archive, Keep, Steps
<1>3. ASSUME NEW p \in Process, CreateTable(p) PROVE TypeOK'
  BY <1>3, ColumnFacts DEF CreateTable, TypeOK, Keep
<1>4. ASSUME NEW p \in Process, Created(p) PROVE TypeOK'
  BY <1>1, <1>4 DEF Created, TypeOK, archive, Keep, Steps
<1>5. ASSUME NEW p \in Process, ReadVersion(p) PROVE TypeOK'
  <2>1. pc' \in [Process -> Steps]
    BY <1>1, <1>5 DEF ReadVersion, Steps
  <2> QED
    BY <2>1, <1>5 DEF ReadVersion, TypeOK, archive
<1>6. ASSUME NEW p \in Process, RefuseNewer(p) PROVE TypeOK'
  BY <1>1, <1>6 DEF RefuseNewer, TypeOK, archive, Keep, Steps
<1>7. ASSUME NEW p \in Process, ReadColumns(p) PROVE TypeOK'
  BY <1>7, ColumnFacts DEF ReadColumns, TypeOK, archive, Missing
<1>8. ASSUME NEW p \in Process, AddColumn(p) PROVE TypeOK'
  BY <1>8 DEF AddColumn, TypeOK
<1>9. ASSUME NEW p \in Process, DuplicateColumn(p) PROVE TypeOK'
  BY <1>1, <1>9 DEF DuplicateColumn, TypeOK, archive, Keep, Steps
<1>10. ASSUME NEW p \in Process, ColumnsAdded(p) PROVE TypeOK'
  BY <1>1, <1>10 DEF ColumnsAdded, TypeOK, archive, Keep, Steps
<1>11. ASSUME NEW p \in Process, Backfill(p) PROVE TypeOK'
  <2>1. \A r \in Row : r \notin Stored \/ message[r] \in Message
    BY DEF Stored, TypeOK
  <2>2. Backfilled \in [Row -> EventId \cup {NoId}]
    BY <2>1, IdFacts DEF Backfilled, TypeOK
  <2> QED
    BY <1>1, <1>11, <2>2 DEF Backfill, TypeOK, Keep, Steps
<1>12. ASSUME NEW p \in Process, ReadUniqueness(p) PROVE TypeOK'
  <2>1. pc' \in [Process -> Steps]
    BY <1>1, <1>12 DEF ReadUniqueness, Steps
  <2> QED
    BY <2>1, <1>12 DEF ReadUniqueness, TypeOK, archive, Keep
<1>13. ASSUME NEW p \in Process, Rebuild(p) PROVE TypeOK'
  BY <1>1, <1>13 DEF Rebuild, TypeOK, Keep, Steps
<1>14. ASSUME NEW p \in Process, ConstraintFails(p) PROVE TypeOK'
  BY <1>1, <1>14 DEF ConstraintFails, TypeOK, archive, Keep, Steps
<1>15. ASSUME NEW p \in Process, CreateUniqueIndex(p) PROVE TypeOK'
  BY <1>1, <1>15 DEF CreateUniqueIndex, TypeOK, archive, Keep, Steps
<1>16. ASSUME NEW p \in Process, FinalTransaction(p) PROVE TypeOK'
  <2>1. Propagated \subseteq Row /\ Stored \ Propagated \subseteq Row
    BY DEF Propagated, Stored, TypeOK
  <2>2. Baselines \cup Deletions(Propagated)
          \subseteq (EventId \cup {NoId}) \X {"observed", "deleted"}
    BY <2>1 DEF Baselines, Deletions, Stored, TypeOK
  <2> QED
    BY <1>1, <1>16, <2>1, <2>2 DEF FinalTransaction, TypeOK, Keep, Steps
<1>17. ASSUME NEW p \in Process, CreateIndexes(p) PROVE TypeOK'
  BY <1>1, <1>17 DEF CreateIndexes, TypeOK, archive, Keep, Steps
<1>18. ASSUME NEW p \in Process, StampVersion(p) PROVE TypeOK'
  BY <1>1, <1>18 DEF StampVersion, TypeOK, Keep, Steps
<1>19. ASSUME NEW p \in Process, Abort(p) PROVE TypeOK'
  BY <1>1, <1>19 DEF Abort, TypeOK, archive, Steps
<1>20. ASSUME NEW p \in Process, Close(p) PROVE TypeOK'
  BY <1>1, <1>20 DEF Close, TypeOK, archive, Keep, Steps
<1>21. ASSUME NEW p \in Process, Import(p) PROVE TypeOK'
  <2> PICK new, record, id : Brings(new, record, id)
    BY <1>21, ImportedRows
  <2>1. /\ new \in SUBSET Row /\ record \in [new -> Message] /\ id \in [new -> EventId]
        /\ Added(record)
        /\ eventId' = [r \in Row |-> IF r \in new THEN id[r] ELSE eventId[r]]
        /\ revisions' = revisions \cup {<<id[r], "observed">> : r \in new}
    BY DEF Brings
  <2>2. message' \in [Row -> Message \cup {NoMessage}] /\ indexed' \subseteq Row
    BY <2>1 DEF Added, TypeOK
  <2>3. eventId' \in [Row -> EventId \cup {NoId}]
    BY <2>1 DEF TypeOK
  <2>4. revisions' \subseteq (EventId \cup {NoId}) \X {"observed", "deleted"}
    BY <2>1 DEF TypeOK
  <2> QED
    BY <1>21, <2>2, <2>3, <2>4 DEF Import, TypeOK, Keep
<1>22. ASSUME OldImport PROVE TypeOK'
  <2>1. PICK r \in Row, m \in Message : Added([s \in {r} |-> m])
    BY <1>22 DEF OldImport
  <2>2. message' \in [Row -> Message \cup {NoMessage}] /\ indexed' \subseteq Row
    BY <2>1 DEF Added, TypeOK
  <2> QED
    BY <1>22, <2>2 DEF OldImport, TypeOK
<1>23. CASE UNCHANGED vars
  BY <1>23 DEF vars, archive, TypeOK
<1> QED
  BY <1>2, <1>3, <1>4, <1>5, <1>6, <1>7, <1>8, <1>9, <1>10, <1>11, <1>12, <1>13, <1>14,
     <1>15, <1>16, <1>17, <1>18, <1>19, <1>20, <1>21, <1>22, <1>23 DEF Next, Open

-----------------------------------------------------------------------------
(***************************************************************************)
(* What a step may do to the archive without taking away what any process  *)
(* has reached, and the steps of one process that keep to it.              *)
(***************************************************************************)
Grows ==
    /\ tables \subseteq tables' /\ columns \subseteq columns'
    /\ keyed' => keyed
    /\ Complete => Complete'
    /\ version = SchemaVersion => version' = SchemaVersion

LEMMA Kept ==
    ASSUME TypeOK', Grows, NEW q \in Process, Reached(q),
           pc'[q] = pc[q], todo'[q] = todo[q], missing'[q] = missing[q]
    PROVE  Reached(q)'
<1>1. tables' \subseteq Tables /\ columns' \subseteq Column
  BY DEF TypeOK
<1>2. ASSUME NEW t \in Altered \ todo'[q], pc'[q] = "columns"
      PROVE  ColumnsOf[t] \subseteq columns' \cup missing'[q]
  <2>1. ColumnsOf[t] \subseteq columns \cup missing[q]
    BY <1>2 DEF Reached
  <2> QED
    BY <2>1 DEF Grows
<1> QED
  BY <1>1, <1>2 DEF Grows, Reached

\* Only the process at work can be where it was not.
OnlyOne(p) ==
    \A q \in Process \ {p} :
        pc'[q] = pc[q] /\ todo'[q] = todo[q] /\ missing'[q] = missing[q]

LEMMA StepOf ==
    ASSUME IInv, TypeOK', NEW p \in Process, OnlyOne(p), Grows,
           IdsFit', RowsFit', Reached(p)',
           version' = SchemaVersion => Complete',
           version' > SchemaVersion =>
               version' = version /\ pc'[p] \in {"closed", "create", "version"}
    PROVE  IInv'
<1>1. ASSUME NEW q \in Process PROVE Reached(q)'
  BY Kept DEF IInv, OnlyOne
<1>2. ASSUME version' > SchemaVersion
      PROVE  ~keyed' /\ \A q \in Process : pc'[q] \in {"closed", "create", "version"}
  BY <1>2 DEF IInv, VersionFits, OnlyOne, Grows
<1> QED
  BY <1>1, <1>2 DEF IInv, VersionFits

LEMMA SameArchive ==
    ASSUME IInv, UNCHANGED archive, backup' = backup
    PROVE  /\ Grows /\ Complete' = Complete
           /\ IdsFit' /\ RowsFit' /\ version' = version
<1>1. Complete' = Complete
  BY DEF archive, Complete, Identified, Distinct, Stored, Recorded
<1>2. IdsFit' /\ RowsFit'
  BY DEF archive, IInv, IdsFit, RowsFit, Stored, Family, Identified
<1> QED
  BY <1>1, <1>2 DEF Grows, archive

\* A step of one process that leaves the archive as it is.
LEMMA PlainStep ==
    ASSUME IInv, TypeOK', NEW p \in Process, OnlyOne(p), Reached(p)',
           UNCHANGED archive, backup' = backup,
           version > SchemaVersion => pc'[p] \in {"closed", "create", "version"}
    PROVE  IInv'
<1>1. version = SchemaVersion => Complete
  BY DEF IInv, VersionFits
<1> QED
  BY <1>1, SameArchive, StepOf

-----------------------------------------------------------------------------
(***************************************************************************)
(* The steps that leave the archive as it is.                              *)
(***************************************************************************)
LEMMA OneGoes ==
    ASSUME TypeOK, NEW p \in Process, NEW step, Goto(p, step)
    PROVE  pc'[p] = step /\ \A q \in Process \ {p} : pc'[q] = pc[q]
BY DEF TypeOK, Goto

\* Back to where nothing is reached yet.
LEMMA BackStep ==
    ASSUME IInv, TypeOK', NEW p \in Process, NEW step \in {"closed", "create"},
           Goto(p, step), UNCHANGED <<archive, backup, todo, missing>>
    PROVE  IInv'
<1>1. pc'[p] = step /\ OnlyOne(p)
  BY OneGoes DEF IInv, OnlyOne
<1>2. Reached(p)'
  BY <1>1 DEF Reached
<1> QED
  BY <1>1, <1>2, PlainStep

LEMMA CreatedFits ==
    ASSUME IInv, TypeOK', NEW p \in Process, Created(p)
    PROVE  IInv'
<1>1. pc'[p] = "version" /\ OnlyOne(p)
  BY OneGoes DEF IInv, OnlyOne, Created, Keep
<1>2. Reached(p)'
  BY <1>1 DEF Reached, Created, archive
<1> QED
  BY <1>1, <1>2, PlainStep DEF Created, Keep

LEMMA ReadVersionFits ==
    ASSUME IInv, TypeOK', NEW p \in Process, ReadVersion(p)
    PROVE  IInv'
<1>1. /\ pc'[p] = IF version = SchemaVersion THEN "index" ELSE "columns"
      /\ todo'[p] = Altered
      /\ OnlyOne(p)
  BY OneGoes DEF IInv, TypeOK, OnlyOne, ReadVersion
<1>2. tables = Tables
  BY DEF IInv, Reached, ReadVersion, At
<1>3. CASE version = SchemaVersion
  <2>1. Complete /\ Complete' = Complete
    BY <1>3, SameArchive DEF IInv, VersionFits, ReadVersion
  <2>2. Reached(p)'
    BY <1>1, <1>2, <1>3, <2>1 DEF Reached, Complete, ReadVersion, archive
  <2> QED
    BY <1>1, <1>3, <2>2, PlainStep, SchemaUpgradeAssumption DEF ReadVersion
<1>4. CASE version # SchemaVersion
  <2>1. Reached(p)'
    BY <1>1, <1>2, <1>4 DEF Reached, ReadVersion, archive
  <2>2. ~ (version > SchemaVersion)
    BY SchemaUpgradeAssumption DEF ReadVersion, IInv, TypeOK
  <2> QED
    BY <1>1, <2>1, <2>2, PlainStep DEF ReadVersion
<1> QED
  BY <1>3, <1>4

LEMMA ReadColumnsFits ==
    ASSUME IInv, TypeOK', NEW p \in Process, ReadColumns(p)
    PROVE  IInv'
<1>1. PICK t \in todo[p] : todo'[p] = todo[p] \ {t} /\ missing'[p] = ColumnsOf[t] \ columns
  BY DEF IInv, TypeOK, ReadColumns, Missing
<1>2. OnlyOne(p) /\ pc'[p] = pc[p]
  BY DEF IInv, TypeOK, OnlyOne, ReadColumns
<1>3. missing[p] = {} /\ columns' = columns /\ tables' = tables /\ pc[p] = "columns"
  BY DEF ReadColumns, archive, At
<1>4. \A u \in Altered \ todo'[p] : ColumnsOf[u] \subseteq columns' \cup missing'[p]
  BY <1>1, <1>3 DEF IInv, Reached
<1>5. Reached(p)'
  BY <1>2, <1>3, <1>4 DEF IInv, Reached
<1>6. ~ (version > SchemaVersion)
  BY <1>3 DEF IInv, VersionFits
<1> QED
  BY <1>2, <1>5, <1>6, PlainStep DEF ReadColumns

LEMMA ColumnsAddedFits ==
    ASSUME IInv, TypeOK', NEW p \in Process, ColumnsAdded(p)
    PROVE  IInv'
<1>1. pc'[p] = "backfill" /\ OnlyOne(p)
  BY OneGoes DEF IInv, OnlyOne, ColumnsAdded, Keep
<1>2. columns = Column /\ tables = Tables /\ pc[p] = "columns"
  <2>1. pc[p] = "columns" /\ missing[p] = {} /\ todo[p] = {}
    BY DEF ColumnsAdded, At
  <2>2. \A t \in Altered : ColumnsOf[t] \subseteq columns
    BY <2>1 DEF IInv, Reached
  <2>3. Column \subseteq columns
    BY <2>2, ColumnFacts
  <2> QED
    BY <2>1, <2>3 DEF IInv, TypeOK, Reached
<1>3. Reached(p)'
  BY <1>1, <1>2 DEF Reached, ColumnsAdded, archive
<1>4. ~ (version > SchemaVersion)
  BY <1>2 DEF IInv, VersionFits
<1> QED
  BY <1>1, <1>3, <1>4, PlainStep DEF ColumnsAdded, Keep

LEMMA ReadUniquenessFits ==
    ASSUME IInv, TypeOK', NEW p \in Process, ReadUniqueness(p)
    PROVE  IInv'
<1>1. pc'[p] = (IF keyed THEN "rebuild" ELSE "unique") /\ OnlyOne(p)
  BY OneGoes DEF IInv, OnlyOne, ReadUniqueness, Keep
<1>2. columns = Column /\ tables = Tables /\ pc[p] = "uniqueness"
  BY DEF IInv, Reached, ReadUniqueness, At
<1>3. Reached(p)'
  BY <1>1, <1>2 DEF Reached, ReadUniqueness, archive
<1>4. ~ (version > SchemaVersion)
  BY <1>2 DEF IInv, VersionFits
<1> QED
  BY <1>1, <1>3, <1>4, PlainStep DEF ReadUniqueness, Keep

LEMMA CreateUniqueIndexFits ==
    ASSUME IInv, TypeOK', NEW p \in Process, CreateUniqueIndex(p)
    PROVE  IInv'
<1>1. pc'[p] = "final" /\ OnlyOne(p)
  BY OneGoes DEF IInv, OnlyOne, CreateUniqueIndex, Keep
<1>2. columns = Column /\ tables = Tables /\ ~keyed /\ pc[p] = "unique"
  BY DEF IInv, Reached, CreateUniqueIndex, At
<1>3. Reached(p)'
  BY <1>1, <1>2 DEF Reached, CreateUniqueIndex, archive
<1>4. ~ (version > SchemaVersion)
  BY <1>2 DEF IInv, VersionFits
<1> QED
  BY <1>1, <1>3, <1>4, PlainStep DEF CreateUniqueIndex, Keep

LEMMA CreateIndexesFits ==
    ASSUME IInv, TypeOK', NEW p \in Process, CreateIndexes(p)
    PROVE  IInv'
<1>1. pc'[p] = "stamp" /\ OnlyOne(p)
  BY OneGoes DEF IInv, OnlyOne, CreateIndexes, Keep
<1>2. columns = Column /\ tables = Tables /\ ~keyed /\ Complete /\ pc[p] = "index"
  BY DEF IInv, Reached, CreateIndexes, At
<1>3. Complete'
  BY <1>2, SameArchive DEF CreateIndexes, Keep
<1>4. Reached(p)'
  BY <1>1, <1>2, <1>3 DEF Reached, CreateIndexes, archive
<1>5. ~ (version > SchemaVersion)
  BY <1>2 DEF IInv, VersionFits
<1> QED
  BY <1>1, <1>4, <1>5, PlainStep DEF CreateIndexes, Keep

-----------------------------------------------------------------------------
(***************************************************************************)
(* The steps of the upgrade that change the archive.                       *)
(***************************************************************************)
LEMMA IdsDistinct ==
    ASSUME IInv
    PROVE  Distinct
<1> SUFFICES ASSUME NEW r \in Stored, NEW s \in Stored,
                    eventId[r] = eventId[s], eventId[r] # NoId
             PROVE  r = s
  BY DEF Distinct
<1>1. r \in Row /\ s \in Row /\ r \in Family(message[r]) /\ s \in Family(message[s])
  BY StoredMessage DEF IInv
<1>2. /\ message[r] = message[s]
      /\ eventId[r].row \in {NoRow, r} /\ eventId[r].row \in {NoRow, s}
  BY <1>1 DEF IInv, IdsFit
<1>3. CASE eventId[r].row = NoRow
  <2>1. r <= s /\ s <= r
    BY <1>1, <1>2, <1>3 DEF IInv, IdsFit
  <2> QED
    BY <1>1, <2>1 DEF Row
<1> QED
  BY <1>2, <1>3

LEMMA CreateTableFits ==
    ASSUME IInv, TypeOK', NEW p \in Process, CreateTable(p)
    PROVE  IInv'
<1>1. PICK t \in Tables \ tables :
        tables' = tables \cup {t} /\ columns' = columns \cup ColumnsOf[t]
  BY DEF CreateTable
<1>2. ~Complete
  BY <1>1 DEF Complete
<1>3. Grows /\ OnlyOne(p)
  BY <1>1, <1>2 DEF CreateTable, Keep, Grows, OnlyOne
<1>4. IdsFit' /\ RowsFit'
  BY DEF CreateTable, Keep, IInv, IdsFit, RowsFit, Stored, Family, Identified
<1>5. Reached(p)'
  BY DEF CreateTable, At, Reached
<1>6. version' = version /\ pc'[p] = "create"
  BY DEF CreateTable, At
<1> QED
  BY <1>2, <1>3, <1>4, <1>5, <1>6, StepOf DEF IInv, VersionFits

LEMMA AddColumnFits ==
    ASSUME IInv, TypeOK', NEW p \in Process, AddColumn(p)
    PROVE  IInv'
<1>1. PICK c \in missing[p] \ columns :
        columns' = columns \cup {c} /\ missing' = [missing EXCEPT ![p] = @ \ {c}]
  BY DEF AddColumn
<1>2. ~Complete
  BY <1>1 DEF Complete, IInv, TypeOK
<1>3. Grows /\ OnlyOne(p)
  BY <1>1, <1>2 DEF AddColumn, Grows, OnlyOne, IInv, TypeOK
<1>4. IdsFit' /\ RowsFit'
  BY DEF AddColumn, IInv, IdsFit, RowsFit, Stored, Family, Identified
<1>5. version' = version /\ pc'[p] = "columns" /\ pc[p] = "columns"
  BY DEF AddColumn, At
<1>6. missing'[p] = missing[p] \ {c}
  BY <1>1 DEF IInv, TypeOK
<1>7. \A t \in Altered \ todo'[p] : ColumnsOf[t] \subseteq columns' \cup missing'[p]
  BY <1>1, <1>5, <1>6 DEF IInv, Reached, AddColumn
<1>8. Reached(p)'
  BY <1>5, <1>7 DEF IInv, Reached, AddColumn
<1> QED
  BY <1>2, <1>3, <1>4, <1>5, <1>8, StepOf DEF IInv, VersionFits

\* Where every message has an identifier, there is none to give.
LEMMA NothingToBackfill ==
    ASSUME TypeOK, Identified
    PROVE  Backfilled = eventId
BY DEF TypeOK, Identified, Backfilled

LEMMA BackfillFits ==
    ASSUME IInv, TypeOK', NEW p \in Process, Backfill(p)
    PROVE  IInv'
<1>1. pc'[p] = "uniqueness" /\ OnlyOne(p)
  BY OneGoes DEF IInv, OnlyOne, Backfill, Keep
<1>2. columns = Column /\ tables = Tables /\ pc[p] = "backfill"
  BY DEF IInv, Reached, Backfill, At
<1>3. ASSUME Identified PROVE UNCHANGED archive
  BY <1>3, NothingToBackfill DEF IInv, Backfill, archive
<1>4. Complete => Complete'
  BY <1>3, SameArchive DEF Complete, Backfill, Keep
<1>5. Grows
  BY <1>4 DEF Backfill, Grows
<1>6. \A r \in Row : eventId'[r] = IF r \notin Stored \/ eventId[r] # NoId THEN eventId[r]
        ELSE IF Family(message[r]) = {r} THEN StableId(message[r])
        ELSE LegacyId(message[r], r)
  BY DEF Backfill, Backfilled
<1>7. IdsFit'
  <2>1. Stored' = Stored /\ \A n : Family(n)' = Family(n)
    BY DEF Backfill, Stored, Family
  <2> SUFFICES ASSUME NEW r \in Row, eventId'[r] # NoId
               PROVE  /\ r \in Stored
                      /\ eventId'[r].message = message[r]
                      /\ eventId'[r].row \in {NoRow, r}
                      /\ eventId'[r].row = NoRow => \A t \in Family(message[r]) : r <= t
    BY <2>1 DEF IdsFit, Backfill
  <2>2. CASE eventId[r] # NoId
    BY <1>6, <2>2 DEF IInv, IdsFit
  <2>3. CASE eventId[r] = NoId
    <3>1. r \in Stored /\ message[r] \in Message
      BY <1>6, <2>3, StoredMessage DEF IInv
    <3>2. CASE Family(message[r]) = {r}
      BY <1>6, <2>3, <3>1, <3>2, IdFacts DEF Row
    <3>3. CASE Family(message[r]) # {r}
      BY <1>6, <2>3, <3>1, <3>3, IdFacts
    <3> QED
      BY <3>2, <3>3
  <2> QED
    BY <2>2, <2>3
<1>8. RowsFit'
  <2>1. Identified'
    BY <1>6, StoredMessage, IdFacts DEF IInv, Identified, Stored, Backfill
  <2> QED
    BY <2>1 DEF IInv, RowsFit, Stored, Backfill, Keep
<1>9. Reached(p)'
  BY <1>1, <1>2 DEF Reached, Backfill
<1>10. version' = version /\ ~ (version > SchemaVersion)
  BY <1>2 DEF IInv, VersionFits, Backfill
<1> QED
  BY <1>1, <1>4, <1>5, <1>7, <1>8, <1>9, <1>10, StepOf DEF IInv, VersionFits

LEMMA RebuildFits ==
    ASSUME IInv, TypeOK', NEW p \in Process, Rebuild(p)
    PROVE  IInv'
<1>1. pc'[p] = "unique" /\ OnlyOne(p)
  BY OneGoes DEF IInv, OnlyOne, Rebuild, Keep
<1>2. columns = Column /\ tables = Tables /\ pc[p] = "rebuild"
  BY DEF IInv, Reached, Rebuild, At
<1>3. Complete => Complete'
  BY DEF Rebuild, Complete, Identified, Distinct, Stored, Recorded
<1>4. Grows /\ keyed' = FALSE
  BY <1>3 DEF Rebuild, Grows
<1>5. IdsFit'
  BY DEF Rebuild, IInv, IdsFit, Stored, Family
<1>6. RowsFit'
  BY DEF Rebuild, Fits, Keep, IInv, RowsFit, Stored, Identified
<1>7. Reached(p)'
  BY <1>1, <1>2, <1>4 DEF Reached, Rebuild
<1>8. version' = version /\ ~ (version > SchemaVersion)
  BY <1>2 DEF IInv, VersionFits, Rebuild
<1> QED
  BY <1>1, <1>3, <1>4, <1>5, <1>6, <1>7, <1>8, StepOf DEF IInv, VersionFits

LEMMA FinalTransactionFits ==
    ASSUME IInv, TypeOK', NEW p \in Process, FinalTransaction(p)
    PROVE  IInv'
<1>1. pc'[p] = "index" /\ OnlyOne(p)
  BY OneGoes DEF IInv, OnlyOne, FinalTransaction, Keep
<1>2. columns = Column /\ tables = Tables /\ ~keyed /\ pc[p] = "final"
  BY DEF IInv, Reached, FinalTransaction, At
<1>3. Stored' = Stored /\ \A n : Family(n)' = Family(n)
  BY DEF FinalTransaction, Stored, Family
<1>4. Identified' /\ Distinct'
  BY <1>2, <1>3, IdsDistinct
     DEF IInv, RowsFit, FinalTransaction, Identified, Distinct
<1>5. ASSUME NEW r \in Stored PROVE Recorded(eventId[r])'
  <2>1. eventId' = eventId /\ revisions \cup Baselines \subseteq revisions'
    BY DEF FinalTransaction
  <2>2. CASE Recorded(eventId[r])
    BY <2>1, <2>2 DEF Recorded
  <2>3. CASE ~Recorded(eventId[r])
    <3>1. <<eventId[r], "observed">> \in Baselines
      BY <2>3 DEF Baselines
    <3>2. <<eventId[r], "observed">>[1] = eventId[r]
      OBVIOUS
    <3> QED
      BY <2>1, <3>1, <3>2 DEF Recorded
  <2> QED
    BY <2>2, <2>3
<1>6. \A r \in deleted' : <<eventId'[r], "deleted">> \in revisions'
  BY DEF FinalTransaction, Deletions
<1>7. Complete'
  BY <1>2, <1>3, <1>4, <1>5, <1>6 DEF Complete, FinalTransaction, Propagated
<1>8. Grows
  BY <1>7 DEF Grows, FinalTransaction
<1>9. IdsFit' /\ RowsFit'
  BY <1>3, <1>4 DEF FinalTransaction, Propagated, Keep, IInv, IdsFit, RowsFit
<1>10. Reached(p)'
  BY <1>1, <1>2, <1>7 DEF Reached, FinalTransaction
<1>11. version' = version /\ ~ (version > SchemaVersion)
  BY <1>2 DEF IInv, VersionFits, FinalTransaction
<1> QED
  BY <1>1, <1>7, <1>8, <1>9, <1>10, <1>11, StepOf

LEMMA StampVersionFits ==
    ASSUME IInv, TypeOK', NEW p \in Process, StampVersion(p)
    PROVE  IInv'
<1>1. pc'[p] = "opened" /\ OnlyOne(p)
  BY OneGoes DEF IInv, OnlyOne, StampVersion, Keep
<1>2. columns = Column /\ tables = Tables /\ ~keyed /\ Complete /\ pc[p] = "stamp"
  BY DEF IInv, Reached, StampVersion, At
<1>3. Complete'
  BY <1>2 DEF StampVersion, Complete, Identified, Distinct, Stored, Recorded
<1>4. Grows /\ version' = SchemaVersion
  BY <1>3 DEF StampVersion, Grows
<1>5. IdsFit' /\ RowsFit'
  BY DEF StampVersion, Keep, IInv, IdsFit, RowsFit, Stored, Family, Identified
<1>6. Reached(p)'
  BY <1>1, <1>2, <1>3, <1>4 DEF Reached, StampVersion
<1>7. ~ (version' > SchemaVersion)
  BY <1>4, SchemaUpgradeAssumption
<1> QED
  BY <1>1, <1>3, <1>4, <1>5, <1>6, <1>7, StepOf

-----------------------------------------------------------------------------
(***************************************************************************)
(* The imports, of this build and of the one before.                       *)
(***************************************************************************)
LEMMA AddedRows ==
    ASSUME IInv, NEW new \in SUBSET Row, NEW record \in [new -> Message], Added(record)
    PROVE  /\ \A r \in new : r \notin Stored /\ eventId[r] = NoId
           /\ Stored' = Stored \cup new
           /\ \A r \in new, s \in Stored : s < r
           /\ message' \in [Row -> Message \cup {NoMessage}]
           /\ \A r \in new : message'[r] = record[r]
           /\ \A s \in Row \ new : message'[s] = message[s]
           /\ indexed' = indexed \cup new
<1>1. /\ DOMAIN record = new
      /\ \A r \in new, s \in Row : s \in Stored <=> s < r /\ s \notin new
      /\ message' = [r \in Row |-> IF r \in new THEN record[r] ELSE message[r]]
      /\ indexed' = indexed \cup new
  BY DEF Added
<1>2. \A r \in new : r \notin Stored
  BY <1>1
<1>3. \A r \in new : eventId[r] = NoId
  BY <1>2 DEF IInv, IdsFit
<1>4. \A r \in new, s \in Stored : s < r
  BY <1>1 DEF Stored
<1>5. /\ message' \in [Row -> Message \cup {NoMessage}]
      /\ \A s \in Row : message'[s] = IF s \in new THEN record[s] ELSE message[s]
  BY <1>1 DEF IInv, TypeOK
<1>6. Stored' = Stored \cup new
  BY <1>5, SchemaUpgradeAssumption DEF Stored
<1> QED
  BY <1>1, <1>2, <1>3, <1>4, <1>5, <1>6

\* The identifiers fit with more rows, whatever identifiers these get that are
\* their own.
LEMMA AddedFits ==
    ASSUME IInv, NEW new \in SUBSET Row, NEW record \in [new -> Message], Added(record),
           NEW id, eventId' = [r \in Row |-> IF r \in new THEN id[r] ELSE eventId[r]],
           \A r \in new : id[r] # NoId =>
               /\ id[r].message = record[r] /\ id[r].row \in {NoRow, r}
               /\ id[r].row = NoRow =>
                     /\ Family(record[r]) = {}
                     /\ \A s \in new : record[s] = record[r] => s = r
    PROVE  IdsFit'
<1>1. \A s \in Row : eventId'[s] = IF s \in new THEN id[s] ELSE eventId[s]
  OBVIOUS
<1>2. \A m \in Message : \A t \in Family(m)' :
          \/ t \in new /\ record[t] = m
          \/ t \in Row \ new /\ t \in Family(m)
  <2> SUFFICES ASSUME NEW m \in Message, NEW t \in Family(m)'
               PROVE  \/ t \in new /\ record[t] = m
                      \/ t \in Row \ new /\ t \in Family(m)
    OBVIOUS
  <2>1. t \in Row /\ message'[t] = m
    BY DEF Family
  <2>2. t \in new => message'[t] = record[t]
    BY AddedRows
  <2>3. t \notin new => message'[t] = message[t]
    BY <2>1, AddedRows
  <2> QED
    BY <2>1, <2>2, <2>3 DEF Family
<1> SUFFICES ASSUME NEW s \in Row, eventId'[s] # NoId
             PROVE  /\ s \in Stored'
                    /\ eventId'[s].message = message'[s]
                    /\ eventId'[s].row \in {NoRow, s}
                    /\ eventId'[s].row = NoRow => \A t \in Family(message[s])' : s <= t
  BY DEF IdsFit
<1>3. CASE s \in new
  <2>1. /\ id[s].message = record[s] /\ id[s].row \in {NoRow, s}
        /\ id[s].row = NoRow =>
              /\ Family(record[s]) = {}
              /\ \A t \in new : record[t] = record[s] => t = s
    BY <1>1, <1>3
  <2>2. s \in Stored' /\ message'[s] = record[s] /\ record[s] \in Message
    BY <1>3, AddedRows
  <2>3. s \in Nat
    BY DEF Row
  <2>4. ASSUME id[s].row = NoRow, NEW t \in Family(record[s])' PROVE s <= t
    <3>1. t \in new /\ record[t] = record[s]
      BY <1>2, <2>1, <2>2, <2>4
    <3> QED
      BY <2>1, <2>3, <2>4, <3>1
  <2> QED
    BY <1>1, <1>3, <2>1, <2>2, <2>4 DEF Family
<1>4. CASE s \notin new
  <2>1. /\ s \in Stored
        /\ eventId[s].message = message[s]
        /\ eventId[s].row \in {NoRow, s}
        /\ eventId[s].row = NoRow => \A t \in Family(message[s]) : s <= t
    BY <1>1, <1>4 DEF IInv, IdsFit
  <2>2. message'[s] = message[s] /\ message[s] \in Message /\ s \in Stored'
    BY <1>4, <2>1, AddedRows, StoredMessage DEF IInv
  <2>3. ASSUME NEW t \in new PROVE s <= t
    <3>1. s < t
      BY <2>1, AddedRows
    <3>2. s \in Nat /\ t \in Nat
      BY DEF Row
    <3> QED
      BY <3>1, <3>2
  <2>4. eventId[s].row = NoRow => \A t \in Family(message[s])' : s <= t
    BY <1>2, <2>1, <2>2, <2>3
  <2> QED
    BY <1>1, <1>4, <2>1, <2>2, <2>4 DEF Family
<1> QED
  BY <1>3, <1>4

LEMMA ImportFits ==
    ASSUME IInv, TypeOK', NEW p \in Process, Import(p)
    PROVE  IInv'
<1> PICK new, record, id : Brings(new, record, id)
  BY ImportedRows
<1>1. /\ new \in SUBSET (Row \ Stored)
      /\ record \in [new -> Message \ gone] /\ id \in [new -> EventId]
      /\ Added(record)
      /\ eventId' = [r \in Row |-> IF r \in new THEN id[r] ELSE eventId[r]]
      /\ revisions' = revisions \cup {<<id[r], "observed">> : r \in new}
      /\ \A r \in new :
              /\ id[r].message = record[r] /\ id[r].row \in {NoRow, r}
              /\ id[r].row = NoRow =>
                    /\ Family(record[r]) = {}
                    /\ \A s \in new : record[s] = record[r] => s = r
  BY DEF Brings
<1>2. new \in SUBSET Row /\ record \in [new -> Message] /\ Added(record)
  BY <1>1
<1>3. \A r \in new : id[r] \in EventId /\ id[r] # NoId
  BY <1>1, IdFacts
<1>4. IdsFit'
  BY <1>1, <1>2, AddedFits
<1>5. pc[p] = "opened" /\ Complete /\ version = SchemaVersion /\ Reached(p)
  BY DEF Import, At, IInv, Reached
<1>6. /\ \A r \in new : r \notin Stored /\ r \notin deleted /\ eventId'[r] = id[r]
                          /\ message'[r] = record[r]
      /\ Stored' = Stored \cup new /\ indexed' = indexed \cup new
      /\ \A s \in Stored : s \notin new /\ eventId'[s] = eventId[s] /\ message'[s] = message[s]
  <2>1. \A r \in new : r \notin Stored /\ message'[r] = record[r]
    BY <1>2, AddedRows
  <2>2. Stored' = Stored \cup new /\ indexed' = indexed \cup new
    BY <1>2, AddedRows
  <2>3. \A s \in Stored : s \in Row /\ s \notin new
    BY <2>1 DEF Stored
  <2>4. \A s \in Stored : message'[s] = message[s]
    BY <1>2, <2>3, AddedRows
  <2>5. deleted \subseteq Stored
    BY DEF IInv, RowsFit
  <2> QED
    BY <1>1, <2>1, <2>2, <2>3, <2>4, <2>5
<1>7. Identified'
  BY <1>3, <1>5, <1>6 DEF Complete, Identified
<1>8. RowsFit'
  BY <1>6, <1>7 DEF IInv, RowsFit, Import, Keep
<1>9. Complete'
  <2>1. Distinct'
    <3> SUFFICES ASSUME NEW s \in Stored', NEW t \in Stored', eventId'[s] = eventId'[t],
                        eventId'[s] # NoId
                 PROVE  s = t
      BY DEF Distinct
    <3>1. ASSUME NEW u \in Stored, NEW r \in new PROVE eventId[u] # id[r]
      <4>1. /\ eventId[u] # NoId /\ u \in Row /\ u # r /\ u \in Family(message[u])
            /\ message[u] \in Message
        BY <1>5, <1>6, StoredMessage DEF IInv, Complete, Identified
      <4>2. eventId[u].message = message[u] /\ eventId[u].row \in {NoRow, u}
        BY <4>1 DEF IInv, IdsFit
      <4>3. /\ id[r].message = record[r] /\ id[r].row \in {NoRow, r}
            /\ id[r].row = NoRow => Family(record[r]) = {}
        BY <1>1
      <4>4. u # NoRow
        BY <4>1, IdFacts
      <4> QED
        BY <4>1, <4>2, <4>3, <4>4
    <3>2. ASSUME NEW q \in new, NEW r \in new, id[q] = id[r] PROVE q = r
      <4>1. q # NoRow /\ r # NoRow
        BY <1>2, SchemaUpgradeAssumption DEF Row
      <4>2. /\ id[q].row \in {NoRow, q} /\ id[r].row \in {NoRow, r}
            /\ id[q].message = record[q] /\ id[r].message = record[r]
            /\ id[q].row = NoRow => (record[r] = record[q] => r = q)
        BY <1>1
      <4> QED
        BY <3>2, <4>1, <4>2
    <3>3. s \in Stored /\ t \in Stored => s = t
      BY <1>5, <1>6 DEF Complete, Distinct
    <3> QED
      BY <1>6, <3>1, <3>2, <3>3
  <2>2. \A s \in Stored' : Recorded(eventId[s])'
    <3>1. \A s \in Stored : Recorded(eventId[s])'
      BY <1>1, <1>5, <1>6 DEF Complete, Recorded
    <3>2. \A r \in new : <<id[r], "observed">> \in revisions' /\ <<id[r], "observed">>[1] = id[r]
      BY <1>1
    <3>3. \A r \in new : Recorded(eventId[r])'
      BY <1>6, <3>2 DEF Recorded
    <3> QED
      BY <1>6, <3>1, <3>3
  <2>3. \A s \in Stored' : message'[s] \in gone' => s \in deleted'
    BY <1>1, <1>5, <1>6 DEF Complete, Import
  <2>4. \A s \in deleted' : <<eventId'[s], "deleted">> \in revisions'
    BY <1>1, <1>5, <1>6 DEF Complete, Import, IInv, RowsFit
  <2>5. indexed' = Stored' \ deleted'
    BY <1>5, <1>6 DEF Complete, Import
  <2> QED
    BY <1>5, <1>7, <2>1, <2>2, <2>3, <2>4, <2>5 DEF Complete, Import
<1>10. Grows /\ OnlyOne(p) /\ version' = version
  BY <1>9 DEF Grows, OnlyOne, Import, Keep
<1>11. Reached(p)'
  BY <1>5, <1>10, Kept DEF Import, Keep
<1>12. ~ (version' > SchemaVersion)
  BY <1>5, <1>10, SchemaUpgradeAssumption
<1> QED
  BY <1>4, <1>8, <1>9, <1>10, <1>11, <1>12, StepOf

\* A table with the old key is not of an archive that is current.
LEMMA OldImportFits ==
    ASSUME IInv, TypeOK', OldImport
    PROVE  IInv'
<1>1. PICK r \in Row, m \in Message : Added([s \in {r} |-> m])
  BY DEF OldImport
<1> DEFINE new == {r}
           record == [s \in new |-> m]
<1>0. new \in SUBSET Row /\ record \in [new -> Message] /\ Added(record)
  BY <1>1
<1>2. keyed /\ ~Complete /\ eventId' = eventId
  BY DEF OldImport, Complete
<1>3. Grows
  BY <1>2 DEF Grows, OldImport
<1>4. IdsFit'
  <2> DEFINE id == [s \in new |-> NoId]
  <2>1. eventId \in [Row -> EventId \cup {NoId}] /\ \A s \in new : eventId[s] = NoId
    BY <1>0, AddedRows DEF IInv, TypeOK
  <2>2. eventId' = [s \in Row |-> IF s \in new THEN id[s] ELSE eventId[s]]
    BY <1>2, <2>1
  <2>3. \A s \in new : id[s] = NoId
    OBVIOUS
  <2> HIDE DEF id, new, record
  <2> QED
    BY <1>0, <2>2, <2>3, AddedFits
<1>5. RowsFit'
  <2>1. Stored \subseteq Stored'
    BY <1>0, AddedRows
  <2> QED
    BY <1>2, <2>1 DEF IInv, RowsFit, OldImport
<1>6. \A q \in Process : Reached(q)'
  BY <1>3, Kept DEF IInv, OldImport
<1>7. VersionFits'
  BY <1>2 DEF IInv, VersionFits, OldImport
<1> QED
  BY <1>4, <1>5, <1>6, <1>7 DEF IInv

-----------------------------------------------------------------------------
\* An archive is an older or a newer one at first.
LEMMA InitVersion ==
    ASSUME Init
    PROVE  version # SchemaVersion /\ (version > SchemaVersion => ~keyed)
<1> USE SchemaUpgradeAssumption
<1>1. CASE Fresh
  BY <1>1 DEF Fresh
<1>2. CASE Old
  BY <1>2 DEF Old
<1>3. CASE Newer
  BY <1>3 DEF Newer
<1> QED
  BY <1>1, <1>2, <1>3 DEF Init

LEMMA InitFits == Init => IInv
<1> SUFFICES ASSUME Init PROVE IInv
  OBVIOUS
<1> USE SchemaUpgradeAssumption
<1>1. IdsFit
  BY DEF Init, IdsFit
<1>2. 1 .. backup \subseteq Stored
  BY DEF Init, Fresh, Old, Newer
<1>3. ~keyed => Stored = {}
  BY DEF Init, Fresh, Old, Newer, Stored
<1>4. RowsFit
  BY <1>2, <1>3 DEF Init, RowsFit, Identified
<1>5. version # SchemaVersion /\ (version > SchemaVersion => ~keyed)
  BY InitVersion
<1>6. VersionFits
  BY <1>5 DEF Init, VersionFits
<1>7. \A p \in Process : Reached(p)
  BY DEF Init, Reached
<1> QED
  BY <1>1, <1>4, <1>6, <1>7, InitTyped DEF IInv

LEMMA NextFits ==
    ASSUME IInv, [Next]_vars
    PROVE  IInv'
<1>1. TypeOK'
  BY TypeStep DEF IInv
<1>2. ASSUME NEW p \in Process,
             \/ Start(p) \/ RefuseNewer(p) \/ DuplicateColumn(p) \/ ConstraintFails(p)
             \/ Abort(p) \/ Close(p)
      PROVE  IInv'
  BY <1>1, <1>2, BackStep
     DEF Start, RefuseNewer, DuplicateColumn, ConstraintFails, Abort, Close, Keep
<1>3. ASSUME NEW p \in Process, Open(p) PROVE IInv'
  BY <1>1, <1>2, <1>3, CreateTableFits, CreatedFits, ReadVersionFits, ReadColumnsFits,
     AddColumnFits, ColumnsAddedFits, BackfillFits, ReadUniquenessFits, RebuildFits,
     CreateUniqueIndexFits, FinalTransactionFits, CreateIndexesFits, StampVersionFits
     DEF Open
<1>4. CASE UNCHANGED vars
  <2>1. UNCHANGED archive /\ UNCHANGED <<backup, pc, todo, missing, faults>>
    BY <1>4 DEF vars
  <2>2. Grows /\ Complete' = Complete /\ IdsFit' /\ RowsFit' /\ version' = version
    BY <2>1, SameArchive
  <2>3. \A q \in Process : Reached(q)'
    BY <1>1, <2>1, <2>2, Kept DEF IInv
  <2>4. VersionFits'
    BY <2>1, <2>2 DEF IInv, VersionFits, archive
  <2> QED
    BY <1>1, <2>2, <2>3, <2>4 DEF IInv
<1> QED
  BY <1>1, <1>2, <1>3, <1>4, ImportFits, OldImportFits DEF Next

LEMMA Invariance == Spec => []IInv
<1>1. IInv /\ [Next]_vars => IInv'
  BY NextFits
<1> QED
  BY <1>1, InitFits, PTL DEF Spec

\* A row of the backup is found by the identifier computed for it, or else by what
\* it is a copy of; the short identifier belongs to the first of its rows.
LEMMA RowIsRecognised ==
    ASSUME IInv, Complete, NEW r \in 1 .. backup
    PROVE  Resolved(r) = eventId[r]
<1>1. r \in Stored /\ r \in Row /\ r \in Family(message[r]) /\ message[r] \in Message
  BY StoredMessage DEF IInv, RowsFit
<1>2. ASSUME NEW s \in Stored, eventId[s] = Normalized(r)
      PROVE  s = r
  <2>1. /\ s \in Row /\ s \in Family(message[s]) /\ message[s] \in Message
        /\ eventId[s].message = message[s]
        /\ eventId[s].row \in {NoRow, s}
        /\ eventId[s].row = NoRow => \A t \in Family(message[s]) : s <= t
    BY StoredMessage DEF IInv, IdsFit, Complete, Identified
  <2>2. CASE Alone(r)
    <3>1. eventId[s].message = message[r] /\ eventId[s].row = NoRow
      BY <1>1, <1>2, <2>2, IdFacts DEF Normalized
    <3>2. s <= r /\ s \in Family(message[r])
      BY <1>1, <2>1, <3>1
    <3>3. backup \in Nat /\ s \in Nat /\ s >= 1 /\ r <= backup /\ r \in Nat
      BY <2>1, SchemaUpgradeAssumption DEF IInv, TypeOK, Row
    <3>4. s \in 1 .. backup
      BY <3>2, <3>3
    <3> QED
      BY <2>2, <3>2, <3>4 DEF Alone
  <2>3. CASE ~Alone(r)
    <3>1. eventId[s].row = r
      BY <1>1, <1>2, <2>3, IdFacts DEF Normalized
    <3> QED
      BY <1>1, <2>1, <3>1, IdFacts
  <2> QED
    BY <2>2, <2>3
<1>3. Known(Normalized(r)) => Normalized(r) = eventId[r]
  BY <1>2 DEF Known
<1>4. \A s \in SingleMatch(r) : s = r
  BY <1>1 DEF SingleMatch
<1>5. SingleMatch(r) # {} => (CHOOSE s \in SingleMatch(r) : TRUE) = r
  BY <1>4
<1> QED
  BY <1>1, <1>3, <1>5 DEF Resolved

(***************************************************************************)
(* The state of an archive and of the processes that open it is always     *)
(* one of those that the model describes (Open of store.go and the tables  *)
(* of schema.go).                                                          *)
(***************************************************************************)
THEOREM TypeCorrect == Spec => []TypeOK
<1>1. IInv => TypeOK
  BY DEF IInv
<1> QED
  BY <1>1, Invariance, PTL

(***************************************************************************)
(* However many processes upgrade an archive at once, wherever they end,   *)
(* and whatever the build before imports meanwhile: user_version is only   *)
(* raised to the current schema when all of the upgrade is done, and the   *)
(* archive stays so.                                                       *)
(***************************************************************************)
THEOREM CurrentArchiveIsComplete == Spec => []CurrentIsComplete
<1>1. IInv => CurrentIsComplete
  BY DEF IInv, VersionFits, CurrentIsComplete
<1> QED
  BY <1>1, Invariance, PTL

(***************************************************************************)
(* A pull of a backup from before the upgrade finds for each of its        *)
(* messages the row it is a copy of (reconcileSnapshotMessageEventIDs),    *)
(* although the identifiers are computed from different rows.              *)
(***************************************************************************)
THEOREM OldBackupFindsItsRows == Spec => []OldBackupIsRecognised
<1>1. IInv => OldBackupIsRecognised
  BY RowIsRecognised DEF IInv, VersionFits, OldBackupIsRecognised
<1> QED
  BY <1>1, Invariance, PTL

-----------------------------------------------------------------------------
(***************************************************************************)
(* The refinement.                                                         *)
(***************************************************************************)
LEMMA CompleteIsIdentified == IInv /\ Complete => Upgraded!Identified(message, eventId)
<1> SUFFICES ASSUME IInv, Complete PROVE Upgraded!Identified(message, eventId)
  OBVIOUS
<1>1. Upgraded!Stored(message) = Stored
  BY DEF Upgraded!Stored, Stored
<1>2. \A r \in Stored : eventId[r] # NoId /\ eventId[r] \in EventId
  BY DEF IInv, TypeOK, Complete, Identified, Stored
<1>3. \A r, s \in Stored : eventId[s] = eventId[r] => s = r
  BY <1>2 DEF Complete, Distinct
<1> QED
  BY <1>1, <1>2, <1>3 DEF Upgraded!Identified

LEMMA AddedImplements ==
    ASSUME IInv, NEW new \in SUBSET Row, NEW record \in [new -> Message], new # {},
           Added(record)
    PROVE  Upgraded!Added
<1>1. /\ \A r \in new : r \notin Stored
      /\ Stored' = Stored \cup new
      /\ message' \in [Row -> Message \cup {NoMessage}]
      /\ \A s \in Row \ new : message'[s] = message[s]
  BY AddedRows
<1>2. Stored # Stored' /\ \A s \in Stored : s \in Row \ new
  BY <1>1 DEF Stored
<1>3. Upgraded!Stored(message) = Stored /\ Upgraded!Stored(message') = Stored'
  BY DEF Upgraded!Stored, Stored
<1> QED
  BY <1>1, <1>2, <1>3 DEF Upgraded!Added

LEMMA StepImplements ==
    ASSUME IInv, IInv', [Next]_vars
    PROVE  [Upgraded!Next]_(Upgraded!vars)
<1> USE SchemaUpgradeAssumption
<1>1. ASSUME UNCHANGED <<version, message, eventId>>
      PROVE  UNCHANGED Upgraded!vars
  BY <1>1 DEF Upgraded!vars, Status, Published
<1>2. ASSUME NEW p \in Process, Backfill(p)
      PROVE  UNCHANGED Upgraded!vars
  <2>1. CASE version = SchemaVersion
    BY <1>1, <1>2, <2>1, NothingToBackfill
       DEF IInv, VersionFits, Complete, Backfill
  <2>2. CASE version # SchemaVersion
    BY <1>2, <2>2 DEF Backfill, Upgraded!vars, Status, Published
  <2> QED
    BY <2>1, <2>2
<1>3. ASSUME NEW p \in Process, StampVersion(p)
      PROVE  [Upgraded!Next]_(Upgraded!vars)
  <2>1. Complete /\ ~ (version > SchemaVersion)
    BY <1>3 DEF StampVersion, At, IInv, Reached, VersionFits
  <2>2. version' = SchemaVersion /\ message' = message /\ eventId' = eventId
    BY <1>3 DEF StampVersion
  <2>3. CASE version = SchemaVersion
    BY <1>1, <2>2, <2>3
  <2>4. CASE version # SchemaVersion
    <3>1. Status = "old" /\ Status' = "current" /\ Published' = eventId
      BY <2>1, <2>2, <2>4 DEF Status, Published, IInv, TypeOK
    <3>2. Upgraded!Upgrade
      BY <2>1, <2>2, <3>1, CompleteIsIdentified DEF Upgraded!Upgrade
    <3> QED
      BY <3>2 DEF Upgraded!Next
  <2> QED
    BY <2>3, <2>4
<1>4. ASSUME NEW p \in Process, Import(p)
      PROVE  Upgraded!Next
  <2>1. version = SchemaVersion /\ version' = SchemaVersion
    BY <1>4 DEF Import, At, IInv, Reached
  <2>2. Complete' /\ Complete
    BY <2>1 DEF IInv, VersionFits
  <2> PICK new, record, id : Brings(new, record, id)
    BY <1>4, ImportedRows
  <2>3. /\ new \in SUBSET (Row \ Stored) /\ new # {}
        /\ record \in [new -> Message] /\ Added(record)
        /\ eventId' = [r \in Row |-> IF r \in new THEN id[r] ELSE eventId[r]]
    BY DEF Brings
  <2>4. Upgraded!Added
    BY <2>3, AddedImplements
  <2>5. \A s \in Stored : eventId'[s] = eventId[s]
    BY <2>3 DEF Stored
  <2>6. Status = "current" /\ Status' = "current" /\ Published = eventId /\ Published' = eventId'
    BY <2>1 DEF Status, Published
  <2>7. Upgraded!Identified(message', eventId')
    <3>1. (IInv /\ Complete => Upgraded!Identified(message, eventId))'
      BY CompleteIsIdentified, PTL
    <3> QED
      BY <2>2, <3>1
  <2> QED
    BY <2>4, <2>5, <2>6, <2>7 DEF Upgraded!Next, Upgraded!Import, Upgraded!Stored, Stored
<1>5. ASSUME OldImport
      PROVE  Upgraded!Next
  <2>1. version < SchemaVersion /\ version' = version
    BY <1>5 DEF OldImport, IInv, TypeOK, VersionFits, Complete
  <2>2. Upgraded!Added
    <3>1. PICK r \in Row, m \in Message : Added([s \in {r} |-> m])
      BY <1>5 DEF OldImport
    <3>2. {r} \in SUBSET Row /\ [s \in {r} |-> m] \in [{r} -> Message] /\ {r} # {}
      OBVIOUS
    <3> QED
      BY <3>1, <3>2, AddedImplements
  <2>3. Status = "old" /\ Status' = "old" /\ Published' = Published
    BY <2>1 DEF Status, Published
  <2> QED
    BY <2>2, <2>3 DEF Upgraded!Next, Upgraded!Older
<1>6. ASSUME NEW p \in Process, Start(p) \/ Open(p) \/ Abort(p) \/ Close(p),
             ~Backfill(p), ~StampVersion(p)
      PROVE  UNCHANGED <<version, message, eventId>>
  BY <1>6 DEF Start, Open, Abort, Close, CreateTable, Created, ReadVersion, RefuseNewer,
     ReadColumns, AddColumn, DuplicateColumn, ColumnsAdded, ReadUniqueness, Rebuild,
     ConstraintFails, CreateUniqueIndex, FinalTransaction, CreateIndexes, archive
<1>7. CASE UNCHANGED vars
  BY <1>1, <1>7 DEF vars, archive
<1> QED
  BY <1>1, <1>2, <1>3, <1>4, <1>5, <1>6, <1>7 DEF Next

(***************************************************************************)
(* However the upgrade of Open goes, whoever looks at an archive of the    *)
(* current version sees one step that gave an identifier to each message,  *)
(* and imports after it.                                                   *)
(***************************************************************************)
THEOREM Refinement == Spec => ImplementsUpgrade
<1>1. Init => Upgraded!Init
  <2> SUFFICES ASSUME Init PROVE Upgraded!Init
    OBVIOUS
  <2>1. TypeOK
    BY InitTyped
  <2>2. version # SchemaVersion
    BY InitVersion
  <2> QED
    BY <2>1, <2>2 DEF Upgraded!Init, Status, Published, TypeOK
<1>2. IInv /\ IInv' /\ [Next]_vars => [Upgraded!Next]_(Upgraded!vars)
  BY StepImplements
<1> QED
  BY <1>1, <1>2, Invariance, PTL DEF Spec, ImplementsUpgrade, Upgraded!Spec

=============================================================================
