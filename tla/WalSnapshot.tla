---------------------------- MODULE WalSnapshot ----------------------------
(***************************************************************************)
(* How the postbox importer copies a live SQLCipher database (wal.go): it  *)
(* reads the write-ahead log, then the main file, and accepts the pair if  *)
(* neither seems to have changed; then it replays the committed frames on  *)
(* the copy.  Telegram commits, checkpoints and resets the log meanwhile.  *)
(*                                                                         *)
(* A page's content is the number of the commit that wrote it.  A frame's  *)
(* cumulative checksum is the log up to it, as if it never collided.       *)
(***************************************************************************)
EXTENDS Naturals, Sequences, SequencesExt

CONSTANTS
    MaxPages,
    MaxFrames,      \* bound on the frames the log file holds
    MaxCommits,     \* bound on the commits
    MaxLogs,        \* bound on the times the log is started or reset
    Attempts        \* sqliteSnapshotAttempts

ASSUME WalAssumption ==
    /\ MaxPages \in Nat \ {0} /\ Attempts \in Nat \ {0}
    /\ MaxFrames \in Nat /\ MaxCommits \in Nat /\ MaxLogs \in Nat

VARIABLES
    main,       \* the main file: its pages
    wal,        \* the -wal file: whether it exists, its header's salt, its frames
    log,        \* what Telegram has written since the last reset of the log
    images,     \* the committed images, oldest first
    late,       \* per file, a granule of its clock has passed since its first stat
    moved,      \* per file, its modification time differs from the first stat's
    pc, attempt,
    before,     \* the first stat of the attempt
    copy,       \* the bytes read: log file and pages
    since       \* the number of commits when the attempt began

files == <<main, wal, log, images>>
times == <<late, moved>>
reader == <<pc, attempt, before, copy, since>>
vars == <<files, times, reader>>

Pages == 1..MaxPages
NoWal == [exists |-> FALSE, salt |-> 0, frames |-> <<>>]

-----------------------------------------------------------------------------
(***************************************************************************)
(* ApplySQLCipherV4WAL.                                                    *)
(***************************************************************************)

\* A frame counts if its salt is the header's and its checksum continues the
\* frames before it; reading stops at the first that does not.
Continues(w, i) ==
    /\ w.frames[i].salt = w.salt
    /\ \A j \in 1..i : w.frames[j].sum = SubSeq(w.frames[i].sum, 1, j)

ValidFrames(w) == {i \in DOMAIN w.frames : \A j \in 1..i : Continues(w, j)}

Entry(w, i) == Last(w.frames[i].sum)

\* Commit frames carry the number of pages of the database, others zero.
Commits(w) == {i \in ValidFrames(w) : Entry(w, i).size # 0}

LastOf(S) == CHOOSE i \in S : \A j \in S : j <= i

\* The pages up to the last commit frame over the main file's.  More pages than
\* the files can hold are an error, which here yields no image.
Replayed(pages, w) ==
    IF Commits(w) = {} THEN pages
    ELSE LET last      == LastOf(Commits(w))
             size      == Entry(w, last).size
             frames(p) == {i \in 1..last : Entry(w, i).page = p}
         IN  IF size > Len(pages) + last + 1 THEN <<>>
             ELSE [p \in 1..size |->
                    IF frames(p) # {} THEN Entry(w, LastOf(frames(p))).value
                    ELSE IF p <= Len(pages) THEN pages[p] ELSE 0]

-----------------------------------------------------------------------------
(***************************************************************************)
(* Telegram, as a SQLite writer.  A write of a file shows in its           *)
(* modification time once a granule of the clock has passed.  Two kinds of *)
(* write always come in a later granule than the first stat, since nothing *)
(* but the time shows them: frames written over old ones under the header  *)
(* of that stat, and the life of a log that was not there.                 *)
(***************************************************************************)
Later == [main |-> TRUE, wal |-> TRUE]

Writes(file, hidden) ==
    /\ late' \in IF hidden THEN {Later} ELSE {late, Later}
    /\ moved' = [moved EXCEPT ![file] = @ \/ late'[file]]

Committed == Last(images)
Uncommitted == log # <<>> /\ Last(log).size = 0

\* The image after one more frame, of page p, ends the transaction.
Pending(p) ==
    LET open == {i \in DOMAIN log : log[i].value = Len(images)} IN
    {p} \cup {log[i].page : i \in open}

CommittedWith(p) ==
    [q \in 1..(IF p > Len(Committed) THEN p ELSE Len(Committed)) |->
        IF q \in Pending(p) THEN Len(images) ELSE Committed[q]]

\* One frame of a transaction; the last one commits it.  Transactions write
\* their pages in order and append no page without the ones before it.
WriteFrame(p, commit) ==
    /\ wal.exists /\ Len(log) < MaxFrames
    /\ commit => Len(images) <= MaxCommits
    /\ p <= Len(Committed) + 1
    /\ Uncommitted => p > Last(log).page
    /\ LET entry == [page |-> p, value |-> Len(images),
                     size |-> IF commit THEN Len(CommittedWith(p)) ELSE 0]
           over  == Len(log) < Len(wal.frames)
           frame == [salt |-> wal.salt, sum |-> Append(log, entry)]
       IN  /\ log' = Append(log, entry)
           /\ wal' = [wal EXCEPT !.frames =
                        IF over THEN [@ EXCEPT ![Len(log) + 1] = frame] ELSE Append(@, frame)]
           /\ Writes("wal", over /\ wal.salt = before.wal.salt)
    /\ images' = IF commit THEN Append(images, CommittedWith(p)) ELSE images
    /\ UNCHANGED <<main, reader>>

\* A checkpoint copies a committed page to the main file.
Checkpoint(p) ==
    /\ wal.exists
    /\ \E i \in DOMAIN log : log[i].page = p /\ log[i].value < Len(images)
    /\ p <= Len(main) + 1
    /\ p <= Len(main) => main[p] # Committed[p]
    /\ main' = IF p > Len(main) THEN Append(main, Committed[p])
               ELSE [main EXCEPT ![p] = Committed[p]]
    /\ Writes("main", FALSE)
    /\ UNCHANGED <<wal, log, images, reader>>

Checkpointed == main = Committed /\ ~Uncommitted

\* The next transaction starts the log over, under a new header.
Reset ==
    /\ wal.exists /\ wal.salt < MaxLogs
    /\ Checkpointed /\ log # <<>>
    /\ wal' = [wal EXCEPT !.salt = @ + 1]
    /\ log' = <<>>
    /\ Writes("wal", FALSE)
    /\ UNCHANGED <<main, images, reader>>

\* Telegram quits: the log goes.  It starts: the log comes back.
Quit ==
    /\ wal.exists /\ Checkpointed
    /\ wal' = [wal EXCEPT !.exists = FALSE, !.frames = <<>>]
    /\ log' = <<>>
    /\ UNCHANGED <<main, images, times, reader>>

Start ==
    /\ ~wal.exists /\ wal.salt < MaxLogs
    /\ wal' = [wal EXCEPT !.exists = TRUE, !.salt = @ + 1]
    /\ Writes("wal", TRUE)
    /\ UNCHANGED <<main, log, images, reader>>

-----------------------------------------------------------------------------
(***************************************************************************)
(* readSQLiteSnapshot.  Files are read a page or a frame at a time.        *)
(***************************************************************************)
NoStat == [main |-> 0, wal |-> [exists |-> FALSE, salt |-> 0, size |-> 0]]
NoCopy == [wal |-> NoWal, main |-> <<>>]

State == [exists |-> wal.exists, salt |-> wal.salt, size |-> Len(wal.frames)]

StatMain ==
    /\ pc = "stat main"
    /\ before' = [before EXCEPT !.main = Len(main)]
    /\ since' = Len(images)
    /\ late' = [late EXCEPT !.main = FALSE]
    /\ moved' = [moved EXCEPT !.main = FALSE]
    /\ pc' = "stat wal"
    /\ UNCHANGED <<files, attempt, copy>>

StatWal ==
    /\ pc = "stat wal"
    /\ before' = [before EXCEPT !.wal = State]
    /\ late' = [late EXCEPT !.wal = FALSE]
    /\ moved' = [moved EXCEPT !.wal = FALSE]
    /\ pc' = "open wal"
    /\ UNCHANGED <<files, attempt, copy, since>>

\* readOptionalSQLiteWAL: no log is no error.
OpenWal ==
    /\ pc = "open wal"
    /\ copy' = [wal  |-> IF wal.exists THEN [wal EXCEPT !.frames = <<>>] ELSE NoWal,
                main |-> <<>>]
    /\ pc' = IF wal.exists THEN "read wal" ELSE "read main"
    /\ UNCHANGED <<files, times, attempt, before, since>>

ReadWal ==
    /\ pc = "read wal"
    /\ LET n == Len(copy.wal.frames)
       IN  IF n < Len(wal.frames)
           THEN /\ copy' = [copy EXCEPT !.wal.frames = Append(@, wal.frames[n + 1])]
                /\ pc' = pc
           ELSE pc' = "read main" /\ copy' = copy
    /\ UNCHANGED <<files, times, attempt, before, since>>

ReadMain ==
    /\ pc = "read main"
    /\ LET n == Len(copy.main)
       IN  IF n < Len(main)
           THEN copy' = [copy EXCEPT !.main = Append(@, main[n + 1])] /\ pc' = pc
           ELSE pc' = "stat main again" /\ copy' = copy
    /\ UNCHANGED <<files, times, attempt, before, since>>

OneAttemptMore ==
    /\ attempt' = attempt + 1
    /\ pc' = IF attempt <= Attempts THEN "stat main" ELSE "unstable"
    /\ late' = Later /\ moved' = Later
    /\ before' = NoStat /\ copy' = NoCopy /\ since' = 1

\* What an attempt has read is dropped with it.
NextAttempt ==
    /\ attempt' = attempt + 1
    /\ pc' = IF attempt < Attempts THEN "stat main" ELSE "unstable"
    /\ late' = Later /\ moved' = Later
    /\ before' = NoStat /\ copy' = NoCopy /\ since' = 1

\* sqliteFileState.equal and .describes, in the order of the two last stats.
MainUnchanged == before.main = Len(main) /\ ~moved.main /\ Len(copy.main) = Len(main)

WalUnchangedInSize ==
    /\ before.wal.exists = State.exists /\ before.wal.size = State.size
    /\ copy.wal.exists = State.exists /\ Len(copy.wal.frames) = State.size
    /\ State.exists => ~moved.wal

WalUnchanged ==
    /\ before.wal.exists = State.exists
    /\ copy.wal.exists = State.exists
    /\ State.exists =>
          /\ before.wal = State /\ ~moved.wal
          /\ copy.wal.salt = State.salt /\ Len(copy.wal.frames) = State.size

StatMainAgain ==
    /\ pc = "stat main again"
    /\ IF MainUnchanged
       THEN pc' = "stat wal again" /\ UNCHANGED <<times, attempt, before, copy, since>>
       ELSE NextAttempt
    /\ UNCHANGED files

StatWalAgain ==
    /\ pc = "stat wal again"
    /\ IF WalUnchanged
       THEN pc' = "done" /\ UNCHANGED <<times, attempt, before, copy, since>>
       ELSE NextAttempt
    /\ UNCHANGED files

-----------------------------------------------------------------------------
Init ==
    /\ main = <<0>>
    /\ images = << <<0>> >>
    /\ log = <<>>
    /\ wal \in {NoWal, [NoWal EXCEPT !.exists = TRUE]}
    /\ pc = "stat main"
    /\ attempt = 1
    /\ late = Later /\ moved = Later
    /\ before = NoStat /\ copy = NoCopy /\ since = 1

Telegram ==
    \/ \E p \in Pages, commit \in BOOLEAN : WriteFrame(p, commit)
    \/ \E p \in Pages : Checkpoint(p)
    \/ Reset
    \/ Quit
    \/ Start

Reader ==
    \/ StatMain
    \/ StatWal
    \/ OpenWal
    \/ ReadWal
    \/ ReadMain
    \/ StatMainAgain
    \/ StatWalAgain

\* What Telegram does after the reader is done is of no interest here.
Next ==
    \/ Reader
    \/ pc \notin {"done", "unstable"} /\ Telegram

Spec == Init /\ [][Next]_vars

-----------------------------------------------------------------------------
\* The files and the reader's copy keep their shapes and bounds, and the reader
\* gives up exactly when its attempts are used up.
TypeOK ==
    /\ Len(main) \in Pages
    /\ Len(images) \in 1..(MaxCommits + 1)
    /\ wal.exists \in BOOLEAN /\ Len(wal.frames) <= MaxFrames
    /\ Len(log) <= MaxFrames
    /\ attempt \in 1..(Attempts + 1)
    /\ pc = "unstable" <=> attempt = Attempts + 1
    /\ since \in 1..Len(images)
    /\ Len(copy.main) <= Len(main)

\* readSQLiteSnapshot: "both come from one consistent snapshot".  What the
\* accepted pair replays to is an image Telegram committed, and no older than
\* the attempt.
SnapshotIsCommitted ==
    pc = "done" => \E i \in since..Len(images) : Replayed(copy.main, copy.wal) = images[i]
=============================================================================
