-------------------------- MODULE ImportFlowProofs --------------------------
(***************************************************************************)
(* Proofs about ImportFlow, for any number of commands, accounts and       *)
(* messages.  What the invariants say of the rows has to be said of what   *)
(* each command has in hand as well, because a commit makes rows of it:    *)
(* whose account its references and files are of, and that the files that  *)
(* it has verified are there.                                              *)
(***************************************************************************)
EXTENDS ImportFlow, TLAPS

-----------------------------------------------------------------------------
(***************************************************************************)
(* The inductive invariant.                                                *)
(***************************************************************************)
Belongs(media, a, m) == media \in Content => media \in {a, Unknown} \X {m}

\* A file holds what its name says, unless someone else has touched it.
FilesHold ==
    \A n \in Name : /\ files[n] \in {Gone, n, Broken}
                    /\ files[n] \in {Gone, n} \/ n \in lost

\* A row without references of another account.
RowFits(m) ==
    rows[m] # NoRow =>
        /\ rows[m].of \in {identity, Unknown}
        /\ m \in crossed \/ Belongs(rows[m].media, rows[m].of, m)
        /\ rows[m].media # NoMedia => Whole(rows[m].media) \/ rows[m].media \in lost

\* What a command has read is of the account of the archive, unless that was
\* restored for another one in the meantime.
RefsFit(j) ==
    /\ ~j.loaded => j.refs = None
    /\ j.pc \in {"cache", "refs"} => ~j.loaded
    /\ j.mode = "restore" => ~j.loaded /\ j.pc \notin {"cache", "refs", "fill"}
    /\ \A m \in Message :
          \/ m \in crossed \/ j.overtaken
          \/ /\ Belongs(j.refs[m], identity, m)
             /\ \A n \in j.seen[m] : Belongs(n, identity, m)

\* Media are of the account of the import, or such references.
FoundFits(j) ==
    \A m \in Message :
        \/ Belongs(j.found[m], j.account, m)
        \/ j.found[m] = j.refs[m] /\ j.mode # "restore"

Verified(j) ==
    j.pc = "commit" =>
        \A m \in Message : j.found[m] \in Name => Whole(j.found[m]) \/ j.found[m] \in lost

JobFits(j) ==
    /\ j.pc = "new" => ~j.loaded /\ \A m \in Message : j.found[m] = Unseen
    /\ RefsFit(j) /\ FoundFits(j) /\ Verified(j)

IInv ==
    /\ TypeOK
    /\ FilesHold
    /\ \A m \in Message : RowFits(m)
    /\ \A c \in Command : JobFits(job[c])

-----------------------------------------------------------------------------
\* An import that has not begun, or has ended, has nothing in hand.
LEMMA EmptyHanded ==
    ASSUME NEW stage \in {"new", "done"}
    PROVE  JobAt(stage) \in Job /\ JobFits(JobAt(stage))
<1> DEFINE j == JobAt(stage)
<1> USE ImportFlowAssumption
<1>1. j \in Job
  BY DEF JobAt, Job, Stages, None, Nothing, Media, Owner
<1>2. \A m \in Message : j.found[m] = Unseen /\ j.refs[m] = NoMedia /\ j.seen[m] = {}
  BY DEF JobAt, None, Nothing
<1>3. Unseen \notin Content /\ NoMedia \notin Content
  BY DEF Name
<1>4. RefsFit(j)
  BY <1>2, <1>3 DEF JobAt, RefsFit, Belongs
<1>5. FoundFits(j) /\ Verified(j)
  BY <1>2, <1>3 DEF JobAt, FoundFits, Verified, Belongs
<1>6. j.pc = "new" => ~j.loaded /\ \A m \in Message : j.found[m] = Unseen
  BY <1>2 DEF JobAt
<1> QED
  BY <1>1, <1>4, <1>5, <1>6 DEF JobFits

\* The invariant holds in a new archive and in one of before identities.
LEMMA InitFits == Init => IInv
<1> SUFFICES ASSUME Init PROVE IInv
  OBVIOUS
<1> USE ImportFlowAssumption
<1>1. NewJob \in Job
  BY EmptyHanded DEF NewJob
<1>2. rows \in [Message -> Row \cup {NoRow}]
  BY DEF Init, Row, Owner
<1>3. TypeOK
  BY <1>1, <1>2 DEF Init, TypeOK, Owner
<1>4. FilesHold
  BY DEF Init, FilesHold
<1>5. ASSUME NEW m \in Message PROVE RowFits(m)
  <2> SUFFICES ASSUME rows[m] # NoRow PROVE RowFits(m)
    BY DEF RowFits
  <2>1. rows[m].of = Unknown
    BY DEF Init
  <2>2. rows[m].media \in {NoMedia, <<Unknown, m>>}
    BY DEF Init
  <2>3. <<Unknown, m>> \in Name
    BY DEF Name, Content, Owner
  <2>4. rows[m].media # NoMedia => files[rows[m].media] = rows[m].media
    BY <2>2, <2>3 DEF Init
  <2>5. Belongs(rows[m].media, rows[m].of, m)
    BY <2>1, <2>2 DEF Belongs, Name
  <2> QED
    BY <2>1, <2>4, <2>5 DEF RowFits, Whole, Init
<1>6. ASSUME NEW c \in Command PROVE JobFits(job[c])
  BY EmptyHanded DEF Init, NewJob
<1> QED
  BY <1>3, <1>4, <1>5, <1>6 DEF IInv

\* Whatever files and losses are added, what a command has in hand still fits.
LEMMA JobsStillFit ==
    ASSUME \A n \in Name : Whole(n) => Whole(n)' \/ n \in lost',
           lost \subseteq lost', crossed \subseteq crossed', identity' = identity
    PROVE  \A j : JobFits(j) => JobFits(j)'
BY DEF JobFits, RefsFit, FoundFits, Verified

\* A step that only changes what one command has in hand.
LEMMA JobStep ==
    ASSUME IInv, NEW c \in Command, NEW j \in Job, JobFits(j),
           Now(c, j),
           UNCHANGED <<store, files, crossed, lost, losses, pulls>>
    PROVE  IInv'
<1>1. TypeOK'
  BY DEF IInv, TypeOK, store, Now
<1>2. FilesHold'
  BY DEF IInv, FilesHold
<1>3. ASSUME NEW m \in Message PROVE RowFits(m)'
  BY DEF IInv, RowFits, Whole, store
<1>4. ASSUME NEW d \in Command PROVE JobFits(job[d])'
  <2>1. job'[d] = IF d = c THEN j ELSE job[d]
    BY DEF IInv, TypeOK, Now
  <2>2. JobFits(job'[d])
    BY <2>1 DEF IInv
  <2>3. \A k : JobFits(k) => JobFits(k)'
    BY JobsStillFit DEF Whole, store
  <2> QED
    BY <2>2, <2>3
<1> QED
  BY <1>1, <1>2, <1>3, <1>4 DEF IInv

\* The end of an import that leaves the archive as it is.
LEMMA EndStep ==
    ASSUME IInv, NEW c \in Command, End(c),
           UNCHANGED <<store, files, crossed, lost, losses, pulls>>
    PROVE  IInv'
BY EmptyHanded, JobStep DEF End

-----------------------------------------------------------------------------
(***************************************************************************)
(* The steps of an import before it changes the archive.                   *)
(***************************************************************************)
LEMMA BeginFits ==
    ASSUME IInv, NEW c \in Command, Begin(c)
    PROVE  IInv'
<1>1. ~job[c].loaded /\ \A m \in Message : job[c].found[m] = Unseen
  BY DEF IInv, JobFits, Begin, At
<1>2. PICK p \in Path, mode \in {"merge", "adopt", "restore"}, fetch \in BOOLEAN :
         Now(c, [job[c] EXCEPT !.path = p, !.mode = mode,
                   !.pc = IF fetch /\ mode # "restore" THEN "cache" ELSE "import"])
  BY DEF Begin
<1> DEFINE j == [job[c] EXCEPT !.path = p, !.mode = mode,
                   !.pc = IF fetch /\ mode # "restore" THEN "cache" ELSE "import"]
<1>3. job[c] \in Job /\ JobFits(job[c])
  BY DEF IInv, TypeOK
<1>4. j \in Job
  BY <1>3 DEF Job, Stages
<1>5. JobFits(j)
  <2>1. RefsFit(j)
    BY <1>1, <1>3 DEF JobFits, RefsFit, Job
  <2>2. FoundFits(j)
    <3>1. \A m \in Message : j.found[m] = Unseen
      BY <1>1, <1>3 DEF Job
    <3> QED
      BY <3>1, ImportFlowAssumption DEF FoundFits, Belongs, Name
  <2> QED
    BY <1>3, <2>1, <2>2 DEF JobFits, Verified, Job
<1> QED
  BY <1>2, <1>4, <1>5, JobStep DEF Begin, Rest

\* The end of a reading that leaves references of the account of the archive.
LEMMA LoadedFits ==
    ASSUME IInv, NEW c \in Command, job[c].pc \in {"cache", "refs"},
           NEW refs \in [Message -> Media],
           \A m \in Message :
               m \in crossed \/ job[c].overtaken \/ Belongs(refs[m], identity, m),
           Now(c, Loaded(job[c], refs)),
           UNCHANGED <<store, files, crossed, lost, losses, pulls>>
    PROVE  IInv'
<1> USE ImportFlowAssumption
<1> DEFINE j == Loaded(job[c], refs)
<1>1. job[c] \in Job /\ JobFits(job[c])
  BY DEF IInv, TypeOK
<1>2. j \in Job
  BY <1>1 DEF Loaded, Job, Stages, Nothing
<1>3. /\ j.loaded /\ j.pc \in {"import", "fill"} /\ j.refs = refs /\ j.mode = job[c].mode
      /\ j.found = job[c].found /\ j.account = job[c].account
      /\ j.overtaken = job[c].overtaken /\ j.seen = Nothing
  BY <1>1 DEF Loaded, Job
<1>4. ~job[c].loaded /\ job[c].mode # "restore" /\ job[c].refs = None
  BY <1>1 DEF JobFits, RefsFit
<1>5. RefsFit(j)
  BY <1>3, <1>4 DEF RefsFit, Nothing
<1>6. ASSUME NEW m \in Message PROVE Belongs(job[c].found[m], job[c].account, m)
  BY <1>1, <1>4 DEF JobFits, FoundFits, Belongs, None, Name
<1>7. FoundFits(j)
  BY <1>3, <1>6 DEF FoundFits
<1>8. JobFits(j)
  BY <1>3, <1>5, <1>7 DEF JobFits, Verified
<1> QED
  BY <1>2, <1>8, JobStep

LEMMA ReadLastSourceFits ==
    ASSUME IInv, NEW c \in Command, ReadLastSource(c)
    PROVE  IInv'
<1> DEFINE j == [job[c] EXCEPT !.from = source,
                               !.unread = {m \in Message : rows[m] # NoRow},
                               !.pc = "refs"]
<1>1. job[c] \in Job /\ JobFits(job[c]) /\ job[c].pc = "cache"
  BY DEF IInv, TypeOK, ReadLastSource, At
<1>2. UNCHANGED <<store, files, crossed, lost, losses, pulls>>
  BY DEF ReadLastSource, Rest
<1>3. CASE source = NoPath
  <2>1. /\ None \in [Message -> Media]
        /\ \A m \in Message : Belongs(None[m], identity, m)
    BY ImportFlowAssumption DEF None, Media, Belongs, Name
  <2>2. Now(c, Loaded(job[c], None))
    BY <1>3 DEF ReadLastSource
  <2> QED
    BY <1>1, <1>2, <2>1, <2>2, LoadedFits
<1>4. CASE source # NoPath
  <2>1. Now(c, j)
    BY <1>4 DEF ReadLastSource
  <2>2. j \in Job
    BY <1>1 DEF IInv, TypeOK, Job, Stages
  <2>3. JobFits(j)
    BY <1>1 DEF JobFits, RefsFit, FoundFits, Verified, Job
  <2> QED
    BY <1>2, <2>1, <2>2, <2>3, JobStep
<1> QED
  BY <1>3, <1>4

\* The media of a row are those of the account of the archive.
LEMMA RowMedia ==
    ASSUME IInv, NEW m \in Message, rows[m] # NoRow
    PROVE  /\ rows[m] \in Row
           /\ m \in crossed \/ Belongs(rows[m].media, identity, m)
<1>1. rows[m] \in Row /\ RowFits(m)
  BY DEF IInv, TypeOK
<1> QED
  BY <1>1 DEF RowFits, Belongs

\* And so are those that a command has seen.
LEMMA SeenFits ==
    ASSUME IInv, NEW c \in Command, NEW batch
    PROVE  /\ Seen(c, batch) \in [Message -> SUBSET Name]
           /\ \A m \in Message :
                 \/ m \in crossed \/ job[c].overtaken
                 \/ \A n \in Seen(c, batch)[m] : Belongs(n, identity, m)
<1>1. job[c] \in Job /\ RefsFit(job[c])
  BY DEF IInv, TypeOK, JobFits
<1>2. ASSUME NEW m \in Message
      PROVE  /\ Seen(c, batch)[m] \subseteq Name
             /\ \/ m \in crossed \/ job[c].overtaken
                \/ \A n \in Seen(c, batch)[m] : Belongs(n, identity, m)
  <2>1. \A n \in Seen(c, batch)[m] :
            n \in job[c].seen[m] \/ (rows[m] # NoRow /\ n = rows[m].media /\ n # NoMedia)
    BY DEF Seen
  <2>2. job[c].seen[m] \subseteq Name
    BY <1>1 DEF Job
  <2>3. rows[m] # NoRow => rows[m].media \in Name \cup {NoMedia}
    BY RowMedia DEF Row, Media
  <2>4. \/ m \in crossed \/ job[c].overtaken
        \/ \A n \in job[c].seen[m] : Belongs(n, identity, m)
    BY <1>1 DEF RefsFit
  <2>5. rows[m] # NoRow => m \in crossed \/ Belongs(rows[m].media, identity, m)
    BY RowMedia
  <2> QED
    BY <2>1, <2>2, <2>3, <2>4, <2>5
<1> QED
  BY <1>2 DEF Seen

LEMMA ReadBatchFits ==
    ASSUME IInv, NEW c \in Command, ReadBatch(c)
    PROVE  IInv'
<1>1. PICK batch \in SUBSET job[c].unread :
         Now(c, [job[c] EXCEPT !.seen = Seen(c, batch), !.unread = @ \ batch])
  BY DEF ReadBatch
<1> DEFINE seen == Seen(c, batch)
           j == [job[c] EXCEPT !.seen = seen, !.unread = @ \ batch]
<1>2. job[c] \in Job /\ JobFits(job[c]) /\ job[c].pc = "refs"
  BY DEF IInv, TypeOK, ReadBatch, At
<1>3. /\ seen \in [Message -> SUBSET Name]
      /\ \A m \in Message :
            m \in crossed \/ job[c].overtaken \/ \A n \in seen[m] : Belongs(n, identity, m)
  BY SeenFits
<1> HIDE DEF seen
<1>4. j \in Job
  BY <1>2, <1>3 DEF Job
<1>5. RefsFit(j)
  BY <1>2, <1>3 DEF JobFits, RefsFit, Job
<1>6. FoundFits(j) /\ Verified(j) /\ j.pc = "refs"
  BY <1>2 DEF JobFits, FoundFits, Verified, Job
<1>7. JobFits(j)
  BY <1>5, <1>6 DEF JobFits
<1>8. Now(c, j)
  BY <1>1 DEF seen
<1> QED
  BY <1>4, <1>7, <1>8, JobStep DEF ReadBatch, Rest

LEMMA ReadMediaRefsFits ==
    ASSUME IInv, NEW c \in Command, ReadMediaRefs(c)
    PROVE  IInv'
<1> USE ImportFlowAssumption
<1> DEFINE seen == Seen(c, job[c].unread)
<1>1. PICK refs \in [Message -> UNION {Ref(seen[m]) : m \in Message}] :
         /\ \A m \in Message : refs[m] \in Ref(seen[m])
         /\ Now(c, Loaded(job[c], refs))
  BY DEF ReadMediaRefs
<1>2. /\ seen \in [Message -> SUBSET Name]
      /\ \A m \in Message :
            m \in crossed \/ job[c].overtaken \/ \A n \in seen[m] : Belongs(n, identity, m)
  BY SeenFits
<1> HIDE DEF seen
<1>3. \A m \in Message : refs[m] = NoMedia \/ refs[m] \in seen[m]
  BY <1>1 DEF Ref
<1>4. refs \in [Message -> Media]
  BY <1>1, <1>2, <1>3 DEF Media
<1>5. \A m \in Message :
          m \in crossed \/ job[c].overtaken \/ Belongs(refs[m], identity, m)
  BY <1>2, <1>3 DEF Belongs, Name
<1> QED
  BY <1>1, <1>4, <1>5, LoadedFits DEF ReadMediaRefs, At, Rest

LEMMA ImportFits ==
    ASSUME IInv, NEW c \in Command, Import(c)
    PROVE  IInv'
<1> USE ImportFlowAssumption
<1>1. job[c] \in Job /\ JobFits(job[c]) /\ job[c].pc = "import"
  BY DEF IInv, TypeOK, Import, At
<1>2. PICK a \in Account, found \in [Message -> Media \cup {Unseen}] :
         /\ \A m \in Message : found[m] \in Available(c, a, m) \cup {Unseen}
         /\ Now(c, [job[c] EXCEPT
                      !.account = a,
                      !.found = found,
                      !.staged = {m \in Message : found[m] \in Name},
                      !.todo = {m \in Message : found[m] \in Name},
                      !.pc = "check"])
  BY DEF Import
<1> DEFINE kept == {m \in Message : found[m] \in Name}
           j == [job[c] EXCEPT !.account = a, !.found = found,
                               !.staged = kept, !.todo = kept, !.pc = "check"]
<1>3. j \in Job
  BY <1>1 DEF Job, Stages, Owner
<1>4. RefsFit(j)
  BY <1>1 DEF JobFits, RefsFit, Job
<1>5. FoundFits(j)
  <2> SUFFICES ASSUME NEW m \in Message
               PROVE  \/ Belongs(j.found[m], j.account, m)
                      \/ j.found[m] = j.refs[m] /\ j.mode # "restore"
    BY DEF FoundFits
  <2>1. j.found[m] = found[m] /\ j.account = a /\ j.refs = job[c].refs /\ j.mode = job[c].mode
    BY <1>1 DEF Job
  <2>2. CASE found[m] \in {NoMedia, Unseen, <<a, m>>}
    BY <2>1, <2>2 DEF Belongs, Name
  <2>3. CASE found[m] \in Reused(c, m)
    <3>1. job[c].refs[m] \in Name /\ found[m] = files[job[c].refs[m]] /\ found[m] # Gone
      BY <1>1, <2>3 DEF Reused, Job, Media
    <3>2. found[m] \in {job[c].refs[m], Broken}
      BY <3>1 DEF IInv, FilesHold
    <3>3. job[c].mode # "restore"
      BY <1>1, <3>1 DEF JobFits, RefsFit, None, Name
    <3> QED
      BY <2>1, <3>2, <3>3 DEF Belongs
  <2> QED
    BY <1>2, <2>2, <2>3 DEF Available
<1>6. JobFits(j)
  BY <1>1, <1>4, <1>5 DEF JobFits, Verified, Job
<1> QED
  BY <1>2, <1>3, <1>6, JobStep DEF Import, Rest

\* A step to another stage, but to those of a reading or of a commit.
LEMMA GotoFits ==
    ASSUME IInv, NEW c \in Command, job[c].pc # "new",
           NEW stage \in {"cache", "fill", "promote", "commit"},
           stage \in {"cache", "fill"} => job[c].mode # "restore",
           stage = "cache" => ~job[c].loaded,
           stage = "commit" =>
               \A m \in Message : job[c].found[m] \in Name => Whole(job[c].found[m]),
           Goto(c, stage),
           UNCHANGED <<store, files, crossed, lost, losses, pulls>>
    PROVE  IInv'
<1> DEFINE j == [job[c] EXCEPT !.pc = stage]
<1>1. job[c] \in Job /\ JobFits(job[c])
  BY DEF IInv, TypeOK
<1>2. j \in Job
  BY <1>1 DEF Job, Stages
<1>3. JobFits(j)
  BY <1>1 DEF JobFits, RefsFit, FoundFits, Verified, Job
<1> QED
  BY <1>2, <1>3, JobStep DEF Goto

LEMMA CheckFits ==
    ASSUME IInv, NEW c \in Command, Check(c)
    PROVE  IInv'
<1>1. job[c].pc = "check" /\ UNCHANGED <<store, files, crossed, lost, losses, pulls>>
  BY DEF Check, At, Rest
<1>2. CASE job[c].mode = "restore" /\ Goto(c, "promote")
  BY <1>1, <1>2, GotoFits
<1>3. CASE job[c].mode # "restore" /\ Goto(c, IF job[c].loaded THEN "fill" ELSE "cache")
  <2>1. CASE job[c].loaded
    BY <1>1, <1>3, <2>1, GotoFits
  <2>2. CASE ~job[c].loaded
    BY <1>1, <1>3, <2>2, GotoFits
  <2> QED
    BY <2>1, <2>2
<1>4. CASE End(c)
  BY <1>1, <1>4, EndStep
<1> QED
  BY <1>2, <1>3, <1>4 DEF Check

LEMMA FillFits ==
    ASSUME IInv, NEW c \in Command, Fill(c)
    PROVE  IInv'
<1> DEFINE found == [m \in Message |-> IF m \in Lacking(c) THEN job[c].refs[m] ELSE job[c].found[m]]
           j == [job[c] EXCEPT !.found = found, !.todo = @ \cup Lacking(c), !.pc = "promote"]
<1>1. job[c] \in Job /\ JobFits(job[c]) /\ job[c].pc = "fill"
  BY DEF IInv, TypeOK, Fill, At
<1>2. found \in [Message -> Media \cup {Unseen}]
  BY <1>1 DEF Job
<1>3. j \in Job
  BY <1>1, <1>2 DEF Job, Stages, Lacking
<1>4. RefsFit(j)
  BY <1>1 DEF JobFits, RefsFit, Job
<1>5. FoundFits(j)
  BY <1>1 DEF JobFits, RefsFit, FoundFits, Job
<1>6. Now(c, j)
  BY <1>1 DEF Fill, Job
<1> QED
  BY <1>1, <1>3, <1>4, <1>5, <1>6, JobStep DEF Fill, Rest, JobFits, Verified, Job

-----------------------------------------------------------------------------
(***************************************************************************)
(* The steps that change the archive.                                      *)
(***************************************************************************)
\* What a command has in hand still fits when the rows and the identity change:
\* either that is a merge for the same account, or who has read something is
\* overtaken.
LEMMA MeanwhileFits ==
    ASSUME \A n \in Name : Whole(n) => Whole(n)' \/ n \in lost',
           lost \subseteq lost', crossed \subseteq crossed',
           NEW restored \in BOOLEAN, ~restored => identity \in {Unknown, identity'},
           NEW j \in Job, JobFits(j), NEW k, k = Meanwhile(j, restored)
    PROVE  k \in Job /\ JobFits(k)'
<1> USE ImportFlowAssumption
<1>1. PICK unread \in SUBSET Message, overtaken \in BOOLEAN :
         /\ k = [j EXCEPT !.unread = unread, !.overtaken = overtaken]
         /\ j.overtaken => overtaken
         /\ overtaken \/ identity \in {Unknown, identity'} \/ (j.refs = None /\ j.seen = Nothing)
  <2> DEFINE inserted == {m \in Message : rows'[m] # NoRow /\ (restored \/ rows[m] = NoRow)}
             unread == IF j.pc = "refs" THEN j.unread \cup inserted ELSE j.unread
             overtaken == \/ j.overtaken
                          \/ /\ restored /\ identity \notin {Unknown, identity'}
                             /\ j.refs # None \/ j.seen # Nothing
  <2>1. k = [j EXCEPT !.unread = unread, !.overtaken = overtaken]
    BY DEF Meanwhile
  <2>2. unread \in SUBSET Message /\ j.overtaken \in BOOLEAN
    BY DEF Job
  <2>3. overtaken \in BOOLEAN
    BY <2>2, Zenon
  <2>4. /\ j.overtaken => overtaken
        /\ overtaken \/ identity \in {Unknown, identity'} \/ (j.refs = None /\ j.seen = Nothing)
    OBVIOUS
  <2> QED
    BY <2>1, <2>2, <2>3, <2>4
<1>2. /\ k \in Job
      /\ k.pc = j.pc /\ k.mode = j.mode /\ k.loaded = j.loaded /\ k.refs = j.refs
      /\ k.seen = j.seen /\ k.found = j.found /\ k.account = j.account
      /\ k.overtaken = overtaken
  BY <1>1 DEF Job
<1>3. ASSUME NEW m \in Message
      PROVE  \/ m \in crossed' \/ overtaken
             \/ /\ Belongs(j.refs[m], identity', m)
                /\ \A n \in j.seen[m] : Belongs(n, identity', m)
  <2>1. CASE overtaken \/ m \in crossed
    BY <2>1
  <2>2. CASE j.refs = None /\ j.seen = Nothing
    BY <2>2 DEF None, Nothing, Belongs, Name
  <2>3. CASE ~overtaken /\ m \notin crossed /\ identity \in {Unknown, identity'}
    <3>1. /\ Belongs(j.refs[m], identity, m)
          /\ \A n \in j.seen[m] : Belongs(n, identity, m)
      BY <1>1, <2>3 DEF JobFits, RefsFit
    <3>2. \A n : Belongs(n, identity, m) => Belongs(n, identity', m)
      BY <2>3 DEF Belongs
    <3> QED
      BY <3>1, <3>2
  <2> QED
    BY <1>1, <2>1, <2>2, <2>3
<1>4. RefsFit(k)'
  BY <1>2, <1>3 DEF JobFits, RefsFit
<1>5. FoundFits(k)' /\ Verified(k)'
  BY <1>2 DEF JobFits, FoundFits, Verified
<1>6. (k.pc = "new" => ~k.loaded /\ \A m \in Message : k.found[m] = Unseen)'
  BY <1>2 DEF JobFits
<1> QED
  BY <1>2, <1>4, <1>5, <1>6 DEF JobFits

\* And a row that is left alone still fits.
LEMMA RowStillFits ==
    ASSUME \A n \in Name : Whole(n) => Whole(n)' \/ n \in lost',
           lost \subseteq lost', crossed \subseteq crossed',
           NEW m \in Message, RowFits(m), rows'[m] = rows[m], rows[m] \in Row \cup {NoRow},
           rows[m] # NoRow => rows[m].of \in {identity', Unknown}
    PROVE  RowFits(m)'
BY DEF RowFits, Row, Media

LEMMA PromoteFits ==
    ASSUME IInv, NEW c \in Command, Promote(c)
    PROVE  IInv'
<1>1. PICK m \in job[c].todo :
         LET n == job[c].found[m]
             rest == [job[c] EXCEPT !.todo = @ \ {m}, !.staged = @ \ {m}]
         IN  \/ files[n] = Gone /\ files' = [files EXCEPT ![n] = n] /\ Now(c, rest)
             \/ Now(c, rest) /\ UNCHANGED files
             \/ End(c) /\ UNCHANGED files
  BY DEF Promote
<1> DEFINE n == job[c].found[m]
           rest == [job[c] EXCEPT !.todo = @ \ {m}, !.staged = @ \ {m}]
<1>2. UNCHANGED <<store, crossed, lost, losses, pulls>>
  BY DEF Promote, Rest
<1>3. job[c] \in Job /\ JobFits(job[c]) /\ job[c].pc = "promote"
  BY DEF IInv, TypeOK, Promote, At
<1>4. rest \in Job /\ JobFits(rest)
  <2>1. rest \in Job
    BY <1>3 DEF Job
  <2>2. RefsFit(rest) /\ FoundFits(rest) /\ Verified(rest)
    BY <1>3 DEF JobFits, RefsFit, FoundFits, Verified, Job
  <2> QED
    BY <1>3, <2>1, <2>2 DEF JobFits, Job
<1>5. CASE files' = [files EXCEPT ![n] = n] /\ files[n] = Gone /\ Now(c, rest)
  <2>1. \A k \in Name : files'[k] = IF k = n THEN k ELSE files[k]
    BY <1>5 DEF IInv, TypeOK
  <2>2. \A k \in Name : Whole(k) => Whole(k)'
    BY <2>1 DEF Whole
  <2>3. TypeOK'
    BY <1>2, <1>4, <1>5, <2>1 DEF IInv, TypeOK, store, Now
  <2>4. FilesHold'
    BY <1>2, <2>1 DEF IInv, FilesHold
  <2>5. ASSUME NEW k \in Message PROVE RowFits(k)'
    <3>1. RowFits(k) /\ rows[k] \in Row \cup {NoRow}
      BY DEF IInv, TypeOK
    <3>2. rows[k] # NoRow => rows[k].of \in {identity', Unknown}
      BY <1>2, <3>1 DEF RowFits, store
    <3> QED
      BY <1>2, <2>2, <3>1, <3>2, RowStillFits DEF store
  <2>6. ASSUME NEW d \in Command PROVE JobFits(job[d])'
    <3>1. job'[d] = IF d = c THEN rest ELSE job[d]
      BY <1>5 DEF IInv, TypeOK, Now
    <3>2. JobFits(job'[d])
      BY <1>4, <3>1 DEF IInv
    <3>3. \A j : JobFits(j) => JobFits(j)'
      BY <1>2, <2>2, JobsStillFit DEF store
    <3> QED
      BY <3>2, <3>3
  <2> QED
    BY <2>3, <2>4, <2>5, <2>6 DEF IInv
<1>6. CASE Now(c, rest) /\ UNCHANGED files
  BY <1>2, <1>4, <1>6, JobStep
<1>7. CASE End(c) /\ UNCHANGED files
  BY <1>2, <1>7, EndStep
<1> QED
  BY <1>1, <1>5, <1>6, <1>7

LEMMA ValidateFits ==
    ASSUME IInv, NEW c \in Command, Validate(c)
    PROVE  IInv'
<1>1. job[c].pc = "promote" /\ UNCHANGED <<store, files, crossed, lost, losses, pulls>>
  BY DEF Validate, At, Rest
<1>2. CASE \A m \in Message : job[c].found[m] \in Name => Whole(job[c].found[m])
  BY <1>1, <1>2, GotoFits DEF Validate
<1>3. CASE ~\A m \in Message : job[c].found[m] \in Name => Whole(job[c].found[m])
  BY <1>1, <1>3, EndStep DEF Validate
<1> QED
  BY <1>2, <1>3

\* A row that a merge leaves behind.
LEMMA MergedRow ==
    ASSUME IInv, NEW c \in Command, At(c, "commit"), job[c].mode # "restore", MayMerge(c),
           Commit(c), NEW m \in Message
    PROVE  RowFits(m)'
<1> USE ImportFlowAssumption
<1> DEFINE j == job[c]
<1>1. j \in Job /\ JobFits(j) /\ j.pc = "commit"
  BY DEF IInv, TypeOK, At
<1>2. /\ rows' = Merged(c) /\ identity' = j.account
      /\ UNCHANGED <<files, lost>> /\ crossed \subseteq crossed'
  BY DEF Commit, Rest
<1>3. rows[m] \in Row \cup {NoRow} /\ RowFits(m)
  BY DEF IInv, TypeOK
<1>4. identity \in {Unknown, j.account}
  BY DEF MayMerge
<1>5. rows[m] # NoRow => rows[m].of \in {j.account, Unknown}
  BY <1>3, <1>4 DEF RowFits
<1>6. CASE j.found[m] = Unseen
  <2>1. rows'[m] = rows[m]
    BY <1>2, <1>6 DEF Merged
  <2> QED
    BY <1>2, <1>3, <1>5, <2>1, RowStillFits DEF Whole
<1>7. CASE j.found[m] # Unseen
  <2> DEFINE kept == j.found[m] = NoMedia /\ rows[m] # NoRow
             media == IF kept THEN rows[m].media ELSE j.found[m]
  <2>1. rows'[m] = [of |-> j.account, media |-> media]
    BY <1>2, <1>7 DEF Merged
  <2>2. m \in crossed' \/ Belongs(media, j.account, m)
    <3>1. CASE kept
      BY <1>2, <1>3, <1>5, <3>1 DEF RowFits, Belongs
    <3>2. CASE ~kept /\ Belongs(j.found[m], j.account, m)
      BY <3>2
    <3>3. CASE ~kept /\ ~Belongs(j.found[m], j.account, m)
      <4>1. j.found[m] = j.refs[m] /\ j.refs[m] # NoMedia
        BY <1>1, <3>3 DEF JobFits, FoundFits, Belongs, Name
      <4>2. j.overtaken => m \in crossed'
        BY <4>1 DEF Commit, Carried
      <4>3. m \in crossed \/ j.overtaken \/ Belongs(j.refs[m], identity, m)
        BY <1>1 DEF JobFits, RefsFit
      <4>4. Belongs(j.refs[m], identity, m) => Belongs(j.refs[m], j.account, m)
        BY <1>4 DEF Belongs
      <4> QED
        BY <1>2, <3>3, <4>1, <4>2, <4>3, <4>4
    <3> QED
      BY <3>1, <3>2, <3>3
  <2>3. media # NoMedia => Whole(media) \/ media \in lost
    <3>1. CASE kept
      BY <1>3, <3>1 DEF RowFits
    <3>2. CASE ~kept
      BY <1>1, <1>7, <3>2 DEF JobFits, Verified, Job, Media
    <3> QED
      BY <3>1, <3>2
  <2> QED
    BY <1>2, <2>1, <2>2, <2>3 DEF RowFits, Whole, Belongs
<1> QED
  BY <1>6, <1>7

\* A row that a restore leaves behind: it has read no references.
LEMMA RestoredRow ==
    ASSUME IInv, NEW c \in Command, At(c, "commit"), job[c].mode = "restore",
           Commit(c), NEW m \in Message
    PROVE  RowFits(m)'
<1> USE ImportFlowAssumption
<1> DEFINE j == job[c]
<1>1. j \in Job /\ JobFits(j) /\ j.pc = "commit"
  BY DEF IInv, TypeOK, At
<1>2. rows' = Restored(c) /\ identity' = j.account /\ UNCHANGED <<files, lost>>
  BY DEF Commit, Rest
<1>3. CASE j.found[m] = Unseen
  BY <1>2, <1>3 DEF Restored, RowFits
<1>4. CASE j.found[m] # Unseen
  <2>1. rows'[m] = [of |-> j.account, media |-> j.found[m]]
    BY <1>2, <1>4 DEF Restored
  <2>2. Belongs(j.found[m], j.account, m)
    BY <1>1 DEF JobFits, RefsFit, FoundFits, Belongs
  <2>3. j.found[m] # NoMedia => Whole(j.found[m]) \/ j.found[m] \in lost
    BY <1>1, <1>4 DEF JobFits, Verified, Job, Media
  <2> QED
    BY <1>2, <2>1, <2>2, <2>3 DEF RowFits, Whole, Belongs
<1> QED
  BY <1>3, <1>4

LEMMA DoneFits == JobFits(JobAt("done"))
BY EmptyHanded

LEMMA CommitFits ==
    ASSUME IInv, NEW c \in Command, Commit(c)
    PROVE  IInv'
<1> DEFINE j == job[c]
<1> DEFINE restored == j.mode = "restore"
<1>1. /\ j \in Job /\ At(c, "commit") /\ Accepts(c) /\ crossed \subseteq crossed'
      /\ identity' = j.account /\ source' = j.path
      /\ job' = [d \in Command |-> IF d = c THEN JobAt("done") ELSE Meanwhile(job[d], restored)]
      /\ UNCHANGED <<files, lost, losses, pulls>>
  BY DEF IInv, TypeOK, Commit, Rest
<1>2. ASSUME NEW m \in Message PROVE rows'[m] \in Row \cup {NoRow}
  <2>1. j.account \in Owner /\ j.found[m] \in Media \cup {Unseen} /\ rows[m] \in Row \cup {NoRow}
    BY <1>1 DEF IInv, TypeOK, Job
  <2>2. CASE rows' = Merged(c)
    BY <2>1, <2>2 DEF Merged, Row
  <2>3. CASE rows' = Restored(c)
    BY <2>1, <2>3 DEF Restored, Row
  <2> QED
    BY <2>2, <2>3 DEF Commit
<1>3. rows' \in [Message -> Row \cup {NoRow}]
  BY <1>2 DEF Commit, Merged, Restored
<1>4. ASSUME NEW d \in Command PROVE job'[d] \in Job /\ JobFits(job[d])'
  <2>1. CASE d = c
    <3>1. JobFits(JobAt("done"))'
      BY DoneFits, PTL
    <3>2. job'[d] = JobAt("done") /\ JobAt("done") \in Job
      BY <1>1, <2>1, EmptyHanded
    <3>3. \A k : k = JobAt("done") => JobFits(k)'
      BY <3>1 DEF JobAt
    <3> QED
      BY <3>2, <3>3
  <2>2. CASE d # c
    <3>1. job'[d] = Meanwhile(job[d], restored) /\ job[d] \in Job /\ JobFits(job[d])
      BY <1>1, <2>2 DEF IInv, TypeOK
    <3>2. ~restored => identity \in {Unknown, identity'}
      BY <1>1 DEF Accepts, MayMerge
    <3>3. \A n \in Name : Whole(n) => Whole(n)' \/ n \in lost'
      BY <1>1 DEF Whole
    <3>4. lost \subseteq lost' /\ crossed \subseteq crossed' /\ restored \in BOOLEAN
      BY <1>1
    <3> HIDE DEF restored
    <3>5. \A k : k = Meanwhile(job[d], restored) => k \in Job /\ JobFits(k)'
      BY <3>1, <3>2, <3>3, <3>4, MeanwhileFits
    <3> QED
      BY <3>1, <3>5
  <2> QED
    BY <2>1, <2>2
<1>5. crossed' \subseteq Message
  BY DEF Commit, Carried, IInv, TypeOK
<1>6. TypeOK'
  BY <1>1, <1>3, <1>4, <1>5 DEF IInv, TypeOK, Job
<1>7. FilesHold'
  BY <1>1 DEF IInv, FilesHold
<1>8. ASSUME NEW m \in Message PROVE RowFits(m)'
  BY <1>1, MergedRow, RestoredRow DEF Commit, Accepts
<1> QED
  BY <1>4, <1>6, <1>7, <1>8 DEF IInv

\* A step that leaves the archive alone: an import is refused, or ends early.
LEMMA GivenUpFits ==
    ASSUME IInv, NEW c \in Command, Refuse(c) \/ Fail(c)
    PROVE  IInv'
BY EndStep DEF Refuse, Fail, Rest

\* The files that a backup refers to and that are not here count as lost.
LEMMA BackupRow ==
    ASSUME IInv, NEW b \in Owner, NEW backup \in Backup(b),
           NEW restored, Pulled(backup, restored),
           NEW m \in Message, backup[m] # NoRow
    PROVE  /\ backup[m] \in Row /\ backup[m].of = b
           /\ Belongs(backup[m].media, b, m)
           /\ backup[m].media # NoMedia
                => Whole(backup[m].media) \/ backup[m].media \in lost'
<1> USE ImportFlowAssumption
<1>1. /\ backup[m] \in [of : {b}, media : Media]
      /\ backup[m].media \in {NoMedia, <<b, m>>}
  BY DEF Backup
<1>2. <<b, m>> \in Name
  BY DEF Name, Content
<1>3. Belongs(backup[m].media, b, m)
  BY <1>1 DEF Belongs, Name
<1>4. ASSUME backup[m].media # NoMedia
      PROVE  Whole(backup[m].media) \/ backup[m].media \in lost'
  BY <1>1, <1>2, <1>4 DEF IInv, FilesHold, Pulled, Missing, Whole
<1> QED
  BY <1>1, <1>3, <1>4 DEF Row

LEMMA PulledFits ==
    ASSUME IInv, NEW b \in Owner, NEW backup \in Backup(b),
           NEW restored \in BOOLEAN, Pulled(backup, restored), pulls < MaxPulls,
           ~restored => identity \in {Unknown, identity'},
           identity' \in Owner, source' \in Path \cup {BackupPath, NoPath},
           rows' \in [Message -> Row \cup {NoRow}],
           \A m \in Message : RowFits(m)'
    PROVE  IInv'
<1> USE ImportFlowAssumption
<1>1. lost' \subseteq Name /\ pulls' \in 0 .. MaxPulls
  BY DEF IInv, TypeOK, Pulled, Missing
<1>2. ASSUME NEW d \in Command PROVE job'[d] \in Job /\ JobFits(job[d])'
  <2>1. job'[d] = Meanwhile(job[d], restored) /\ job[d] \in Job /\ JobFits(job[d])
    BY DEF Pulled, IInv, TypeOK
  <2>2. \A n \in Name : Whole(n) => Whole(n)' \/ n \in lost'
    BY DEF Pulled, Whole
  <2>3. lost \subseteq lost' /\ crossed \subseteq crossed'
    BY DEF Pulled
  <2>4. \A k : k = Meanwhile(job[d], restored) => k \in Job /\ JobFits(k)'
    BY <2>1, <2>2, <2>3, MeanwhileFits
  <2> QED
    BY <2>1, <2>4
<1>3. job' \in [Command -> Job]
  BY <1>2 DEF Pulled
<1>4. TypeOK'
  BY <1>1, <1>3 DEF IInv, TypeOK, Pulled
<1>5. FilesHold'
  BY DEF IInv, FilesHold, Pulled
<1> QED
  BY <1>2, <1>4, <1>5 DEF IInv

LEMMA MergeSnapshotFits ==
    ASSUME IInv, MergeSnapshot
    PROVE  IInv'
<1>1. PICK b \in Owner : \E backup \in Backup(b) :
         /\ MayMergeBackup(b)
         /\ rows' = WithBackup(backup)
         /\ identity' = IF b = Unknown THEN identity ELSE b
         /\ Pulled(backup, FALSE)
  BY DEF MergeSnapshot
<1>2. PICK backup \in Backup(b) :
         /\ MayMergeBackup(b)
         /\ rows' = WithBackup(backup)
         /\ identity' = IF b = Unknown THEN identity ELSE b
         /\ Pulled(backup, FALSE)
  BY <1>1
<1>3. pulls < MaxPulls /\ source' = source
  BY DEF MergeSnapshot
<1>4. ASSUME NEW m \in Message PROVE rows'[m] \in Row \cup {NoRow} /\ RowFits(m)'
  <2>1. rows[m] \in Row \cup {NoRow} /\ RowFits(m)
    BY DEF IInv, TypeOK
  <2>2. rows[m] # NoRow => identity # Unknown /\ b = identity /\ identity' = identity
    BY <1>2 DEF MayMergeBackup, Empty
  <2>3. files' = files /\ lost \subseteq lost' /\ crossed' = crossed
    BY <1>2 DEF Pulled
  <2>4. CASE backup[m] = NoRow
    <3>1. rows'[m] = rows[m]
      BY <1>2, <2>4 DEF WithBackup
    <3>2. rows[m] # NoRow => rows[m].of \in {identity', Unknown}
      BY <2>1, <2>2 DEF RowFits
    <3> QED
      BY <2>1, <2>3, <3>1, <3>2, RowStillFits DEF Whole
  <2>5. CASE backup[m] # NoRow /\ (rows[m] = NoRow \/ rows[m].media = NoMedia)
    <3>1. rows'[m] = backup[m]
      BY <1>2, <2>5 DEF WithBackup
    <3>2. b \in {identity', Unknown}
      BY <1>2
    <3>3. /\ backup[m] \in Row /\ backup[m].of = b
          /\ Belongs(backup[m].media, b, m)
          /\ backup[m].media # NoMedia
               => Whole(backup[m].media) \/ backup[m].media \in lost'
      BY <1>2, <2>5, BackupRow
    <3> QED
      BY <2>3, <3>1, <3>2, <3>3 DEF RowFits, Whole, Belongs
  <2>6. CASE backup[m] # NoRow /\ rows[m] # NoRow /\ rows[m].media # NoMedia
    <3>1. rows'[m] = [backup[m] EXCEPT !.media = rows[m].media]
      BY <1>2, <2>6 DEF WithBackup
    <3>2. backup[m] \in Row /\ backup[m].of = b
      BY <1>2, <2>6, BackupRow
    <3>3. rows'[m] \in Row /\ rows'[m].of = b /\ rows'[m].media = rows[m].media
      BY <2>1, <2>6, <3>1, <3>2 DEF Row
    <3>4. m \in crossed \/ Belongs(rows[m].media, b, m)
      BY <2>2, <2>6, RowMedia
    <3>5. Whole(rows[m].media) \/ rows[m].media \in lost
      BY <2>1, <2>6 DEF RowFits
    <3> QED
      BY <2>2, <2>3, <2>6, <3>3, <3>4, <3>5 DEF RowFits, Whole, Belongs
  <2> QED
    BY <2>4, <2>5, <2>6
<1>5. rows' \in [Message -> Row \cup {NoRow}]
  BY <1>2, <1>4 DEF WithBackup
<1>6. identity' \in Owner /\ source' \in Path \cup {BackupPath, NoPath}
  BY <1>2, <1>3 DEF IInv, TypeOK
<1>7. identity \in {Unknown, identity'}
  BY <1>2 DEF MayMergeBackup
<1> QED
  BY <1>2, <1>3, <1>4, <1>5, <1>6, <1>7, PulledFits

LEMMA RestoreSnapshotFits ==
    ASSUME IInv, RestoreSnapshot
    PROVE  IInv'
<1>1. PICK b \in Owner : \E backup \in Backup(b) :
         rows' = backup /\ identity' = b /\ source' = BackupPath /\ Pulled(backup, TRUE)
  BY DEF RestoreSnapshot
<1>2. PICK backup \in Backup(b) :
         rows' = backup /\ identity' = b /\ source' = BackupPath /\ Pulled(backup, TRUE)
  BY <1>1
<1>3. ASSUME NEW m \in Message PROVE rows'[m] \in Row \cup {NoRow} /\ RowFits(m)'
  <2>1. CASE backup[m] = NoRow
    BY <1>2, <2>1 DEF RowFits
  <2>2. CASE backup[m] # NoRow
    <3>1. /\ backup[m] \in Row /\ backup[m].of = b
          /\ Belongs(backup[m].media, b, m)
          /\ backup[m].media # NoMedia
               => Whole(backup[m].media) \/ backup[m].media \in lost'
      BY <1>2, <2>2, BackupRow
    <3>2. files' = files /\ rows' = backup /\ identity' = b
      BY <1>2 DEF Pulled
    <3> QED
      BY <3>1, <3>2 DEF RowFits, Whole, Belongs
  <2> QED
    BY <2>1, <2>2
<1>4. rows' \in [Message -> Row \cup {NoRow}]
  BY <1>2, <1>3 DEF Backup
<1> QED
  BY <1>2, <1>3, <1>4, PulledFits DEF RestoreSnapshot

LEMMA LoseFits ==
    ASSUME IInv, Lose
    PROVE  IInv'
<1> USE ImportFlowAssumption
<1>1. PICK n \in Content, what \in {Gone, Broken} :
         Whole(n) /\ files' = [files EXCEPT ![n] = what] /\ lost' = lost \cup {n}
  BY DEF Lose
<1>2. \A k \in Name : files'[k] = IF k = n THEN what ELSE files[k]
  BY <1>1 DEF IInv, TypeOK
<1>3. files' \in [Name -> Name \cup {Gone}]
  BY <1>1 DEF IInv, TypeOK, Name
<1>4. lost' \subseteq Name /\ losses' \in 0 .. MaxLosses
  BY <1>1 DEF IInv, TypeOK, Lose, Name
<1>5. TypeOK'
  BY <1>3, <1>4 DEF IInv, TypeOK, Lose, store
<1>6. FilesHold'
  BY <1>1, <1>2 DEF IInv, FilesHold
<1>7. \A k \in Name : Whole(k) => Whole(k)' \/ k \in lost'
  BY <1>1, <1>2 DEF Whole
<1>8. ASSUME NEW m \in Message PROVE RowFits(m)'
  <2>1. RowFits(m) /\ rows[m] \in Row \cup {NoRow} /\ rows'[m] = rows[m]
    BY DEF IInv, TypeOK, Lose, store
  <2>2. rows[m] # NoRow => rows[m].of \in {identity', Unknown}
    BY <2>1 DEF RowFits, Lose, store
  <2> QED
    BY <1>1, <1>7, <2>1, <2>2, RowStillFits DEF Lose
<1>9. ASSUME NEW d \in Command PROVE JobFits(job[d])'
  <2>1. JobFits(job'[d])
    BY DEF IInv, Lose
  <2>2. \A k : JobFits(k) => JobFits(k)'
    BY <1>1, <1>7, JobsStillFit DEF Lose, store
  <2> QED
    BY <2>1, <2>2
<1> QED
  BY <1>5, <1>6, <1>8, <1>9 DEF IInv

-----------------------------------------------------------------------------
\* The invariant is kept by every step of any number of commands.
LEMMA Inductive == IInv /\ [Next]_vars => IInv'
<1> SUFFICES ASSUME IInv, [Next]_vars PROVE IInv'
  OBVIOUS
<1>1. ASSUME NEW c \in Command, Step(c) PROVE IInv'
  BY <1>1, BeginFits, ReadLastSourceFits, ReadBatchFits, ReadMediaRefsFits, ImportFits, CheckFits, FillFits,
     PromoteFits, ValidateFits, CommitFits, GivenUpFits DEF Step
<1>2. CASE UNCHANGED vars
  BY <1>2 DEF vars, IInv, TypeOK, store, FilesHold, RowFits, Whole, JobFits, RefsFit, FoundFits, Verified
<1> QED
  BY <1>1, <1>2, MergeSnapshotFits, RestoreSnapshotFits, LoseFits DEF Next

\* What follows from it of the archive.
LEMMA Consequences == IInv => TypeOK /\ OneAccount /\ FilesAreThere /\ MediaBelongs
BY DEF IInv, RowFits, OneAccount, FilesAreThere, MediaBelongs, Belongs

LEMMA Invariance == Spec => []IInv
BY InitFits, Inductive, PTL DEF Spec

(***************************************************************************)
(* The state of the archive, of its files and of all imports keeps its     *)
(* type (cli.go, store.go).                                                *)
(***************************************************************************)
THEOREM TypeCorrect == Spec => []TypeOK
BY Invariance, Consequences, PTL

(***************************************************************************)
(* However many commands import, restore and pull at the same time, and    *)
(* whoever logs in and out meanwhile, the rows of an archive are of the    *)
(* account whose identity is stored, or older (ensureMergeSource).         *)
(***************************************************************************)
THEOREM ArchiveOfOneAccount == Spec => []OneAccount
BY Invariance, Consequences, PTL

(***************************************************************************)
(* No import that fails, is killed or is refused, at whatever point, and   *)
(* none that succeeds, leaves a row behind whose file is not there whole,  *)
(* unless somebody else has removed or damaged it (promoteImportMedia,     *)
(* validateImportMediaRefs).                                               *)
(***************************************************************************)
THEOREM FilesStay == Spec => []FilesAreThere
BY Invariance, Consequences, PTL

(***************************************************************************)
(* The media that an import takes over from the archive are those of its   *)
(* own account, but for references that a merge has read before somebody   *)
(* else restored the archive for another account                           *)
(* (preserveExistingMediaRefs, mergeStoredMedia).                          *)
(***************************************************************************)
THEOREM MediaOfOwnAccount == Spec => []MediaBelongs
BY Invariance, Consequences, PTL

-----------------------------------------------------------------------------
\* A merge does not take media away, and nothing but a commit or a backup
\* changes rows.
LEMMA RowsKeepMedia ==
    ASSUME IInv, Next
    PROVE  \/ \A m \in Message : HasMedia(rows, m) => HasMedia(rows', m)
           \/ \E c \in Command : job[c].mode = "restore" /\ Commit(c)
           \/ RestoreSnapshot
<1> USE ImportFlowAssumption
<1>1. ASSUME NEW c \in Command, Commit(c), job[c].mode # "restore", NEW m \in Message,
             HasMedia(rows, m)
      PROVE  HasMedia(rows', m)
  <2>1. rows' = Merged(c) /\ job[c].found[m] \in Media \cup {Unseen}
    BY <1>1 DEF Commit, IInv, TypeOK, Job
  <2>2. rows[m] \in Row \cup {NoRow}
    BY DEF IInv, TypeOK
  <2>3. CASE job[c].found[m] = Unseen
    BY <1>1, <2>1, <2>3 DEF HasMedia, Merged
  <2>4. CASE job[c].found[m] # Unseen
    <3> DEFINE media == IF job[c].found[m] = NoMedia /\ rows[m] # NoRow THEN rows[m].media
                        ELSE job[c].found[m]
    <3>1. rows'[m] = [of |-> job[c].account, media |-> media]
      BY <2>1, <2>4 DEF Merged
    <3>2. job[c].account \in Owner /\ media \in Media
      BY <2>1, <2>2, <2>4 DEF IInv, TypeOK, Job, Row
    <3>3. rows'[m] \in Row
      BY <3>1, <3>2 DEF Row
    <3>4. media # NoMedia
      BY <1>1 DEF HasMedia
    <3> QED
      BY <3>1, <3>3, <3>4 DEF HasMedia
  <2> QED
    BY <2>3, <2>4
<1>2. ASSUME MergeSnapshot, NEW m \in Message, HasMedia(rows, m)
      PROVE  HasMedia(rows', m)
  <2>1. PICK b \in Owner : \E backup \in Backup(b) : rows' = WithBackup(backup)
    BY <1>2 DEF MergeSnapshot
  <2>2. PICK backup \in Backup(b) : rows' = WithBackup(backup)
    BY <2>1
  <2>3. backup[m] = NoRow => rows'[m] = rows[m]
    BY <2>2 DEF WithBackup
  <2>4. ASSUME backup[m] # NoRow PROVE HasMedia(rows', m)
    <3>1. rows'[m] = [backup[m] EXCEPT !.media = rows[m].media]
      BY <1>2, <2>2, <2>4 DEF WithBackup, HasMedia
    <3>2. backup[m] \in Row /\ rows[m] \in Row
      BY <1>2, <2>4 DEF Backup, Row, HasMedia, IInv, TypeOK
    <3>3. rows'[m] \in Row /\ rows'[m].media = rows[m].media
      BY <3>1, <3>2 DEF Row
    <3> QED
      BY <1>2, <3>3 DEF HasMedia
  <2> QED
    BY <1>2, <2>3, <2>4 DEF HasMedia
<1>3. ASSUME UNCHANGED store PROVE rows' = rows
  BY <1>3 DEF store
<1>4. ASSUME NEW c \in Command, Step(c), ~Commit(c) PROVE UNCHANGED store
  BY <1>4 DEF Step, Begin, ReadLastSource, ReadBatch, ReadMediaRefs, Import, Check,
              Fill, Promote, Validate, Refuse, Fail
<1>5. ASSUME Lose PROVE UNCHANGED store
  BY <1>5 DEF Lose
<1> QED
  BY <1>1, <1>2, <1>3, <1>4, <1>5 DEF Next, Step

(***************************************************************************)
(* Only a restore takes the media of a message away (mergeStoredMedia,     *)
(* preserveDestinationMedia).                                              *)
(***************************************************************************)
THEOREM MediaStay == Spec => KeepsMedia
<1>1. IInv /\ [Next]_vars
        => [\/ \A m \in Message : HasMedia(rows, m) => HasMedia(rows', m)
            \/ \E c \in Command : job[c].mode = "restore" /\ Commit(c)
            \/ RestoreSnapshot]_vars
  BY RowsKeepMedia
<1> QED
  BY <1>1, Invariance, PTL DEF Spec, KeepsMedia

=============================================================================
