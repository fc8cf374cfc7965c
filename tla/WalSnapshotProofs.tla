------------------------- MODULE WalSnapshotProofs -------------------------
(***************************************************************************)
(* Proofs about WalSnapshot, for any number of pages, frames, commits and  *)
(* logs: what an accepted copy replays to was committed.  The invariant    *)
(* says what the log and the main file hold together at any time, and what *)
(* the copy still holds as long as neither stat would show a change.       *)
(***************************************************************************)
EXTENDS WalSnapshot, WellFoundedInduction, TLAPS

-----------------------------------------------------------------------------
(***************************************************************************)
(* The inductive invariant: types.                                         *)
(***************************************************************************)
Image == Seq(Nat)
Entries == [page : Nat \ {0}, value : Nat, size : Nat]
Frames == [salt : Nat, sum : Seq(Entries)]
Logs == [exists : BOOLEAN, salt : Nat, frames : Seq(Frames)]
Flags == [main : BOOLEAN, wal : BOOLEAN]

Reading == {"open wal", "read wal", "read main", "stat main again", "stat wal again"}

FilesTyped ==
    /\ main \in Image /\ Len(main) \in Pages
    /\ wal \in Logs /\ Len(wal.frames) <= MaxFrames
    /\ log \in Seq(Entries) /\ Len(log) <= MaxFrames
    /\ images \in Seq(Image) /\ Len(images) \in 1 .. MaxCommits + 1

ReaderTyped ==
    /\ late \in Flags /\ moved \in Flags
    /\ pc \in Reading \cup {"stat main", "stat wal", "done", "unstable"}
    /\ attempt \in 1 .. Attempts + 1
    /\ pc = "unstable" <=> attempt = Attempts + 1
    /\ before \in [main : Nat, wal : [exists : BOOLEAN, salt : Nat, size : Nat]]
    /\ copy \in [wal : Logs, main : Image]
    /\ Len(copy.main) <= Len(main)
    /\ since \in 1 .. Len(images)

(***************************************************************************)
(* Telegram's files.  The frames of committed transactions come first, and *)
(* the last of each page has the page as it was committed.                 *)
(***************************************************************************)
Closed == {i \in DOMAIN log : log[i].value < Len(images)}

OpenFits(c) ==
    \A i \in c + 1 .. Len(log) :
        /\ log[i].value = Len(images) /\ log[i].size = 0
        /\ log[i].page <= log[Len(log)].page

LastOfPage(i) == \A j \in Closed : log[j].page = log[i].page => j <= i

LogFits ==
    /\ \E c \in 0 .. Len(log) :
          /\ Closed = 1 .. c
          /\ c > 0 => log[c].size = Len(Committed)
          /\ OpenFits(c)
    /\ \A i \in Closed : log[i].page <= Len(Committed)
    /\ \A i \in Closed : LastOfPage(i) => log[i].value = Committed[log[i].page]

\* No committed frame has page p.
Untouched(p) == \A i \in Closed : log[i].page # p

\* With the committed frames over them, pages are the committed image.
Completes(pages) ==
    /\ Len(pages) <= Len(Committed)
    /\ \A p \in 1 .. Len(Committed) :
          Untouched(p) => p <= Len(pages) /\ pages[p] = Committed[p]
    /\ \A c \in Nat : Closed = 1 .. c => Len(Committed) <= Len(pages) + c

WalFits ==
    /\ wal.exists =>
          /\ Len(log) <= Len(wal.frames)
          /\ \A i \in DOMAIN log : wal.frames[i] = [salt |-> wal.salt, sum |-> SubSeq(log, 1, i)]
          /\ \A i \in DOMAIN wal.frames : i > Len(log) => wal.frames[i].salt < wal.salt
    /\ ~ wal.exists => log = <<>> /\ wal.frames = <<>>

FilesFit == FilesTyped /\ LogFits /\ Completes(main) /\ WalFits

(***************************************************************************)
(* The reader.  A log that is as it was at the first stat has been so all  *)
(* the time, and the copy has its frames.                                  *)
(***************************************************************************)
StatFits ==
    pc \in Reading /\ before.wal.exists =>
        /\ before.wal.salt <= wal.salt
        /\ wal.exists /\ before.wal.salt = wal.salt => before.wal.size <= Len(wal.frames)

CopyFits ==
    /\ pc \in {"stat main", "stat wal", "open wal"} => copy = NoCopy
    /\ ~ copy.wal.exists => copy.wal = NoWal
    /\ pc = "read wal" => copy.wal.exists /\ copy.main = <<>>

Still == wal.exists /\ before.wal = State /\ ~ moved.wal

CopiedSoFar ==
    /\ copy.wal.salt = wal.salt
    /\ Len(copy.wal.frames) <= Len(wal.frames)
    /\ \A i \in DOMAIN copy.wal.frames : copy.wal.frames[i] = wal.frames[i]
    /\ \A p \in DOMAIN copy.main : Untouched(p) => p <= Len(Committed) /\ copy.main[p] = Committed[p]

StillCopied ==
    pc \in Reading \cup {"done"} /\ copy.wal.exists /\ Still =>
        /\ CopiedSoFar
        /\ pc \in {"stat wal again", "done"} => Completes(copy.main)

\* Where there was no log the main file has not been written unseen.
Calm ==
    /\ wal.exists => late.main
    /\ \E i \in since .. Len(images) : main = images[i]
    /\ \A p \in DOMAIN copy.main : copy.main[p] = main[p]

CalmCopied ==
    /\ pc \in Reading \ {"stat wal again"} /\ ~ before.wal.exists /\ ~ moved.main => Calm
    /\ pc \in {"stat wal again", "done"} /\ ~ before.wal.exists =>
          \E i \in since .. Len(images) : copy.main = images[i]

DoneFits ==
    pc = "done" => IF before.wal.exists THEN Still /\ copy.wal = wal ELSE copy.wal = NoWal

CopyInv == StatFits /\ CopyFits /\ StillCopied /\ CalmCopied /\ DoneFits

IInv == FilesFit /\ ReaderTyped /\ CopyInv

-----------------------------------------------------------------------------
(***************************************************************************)
(* Sequences and sets of positions.                                        *)
(***************************************************************************)
LEMMA AppendFacts ==
    ASSUME NEW S, NEW s \in Seq(S), NEW e \in S
    PROVE  /\ Append(s, e) \in Seq(S) /\ Len(Append(s, e)) = Len(s) + 1
           /\ DOMAIN Append(s, e) = 1 .. Len(s) + 1
           /\ \A i \in 1 .. Len(s) : Append(s, e)[i] = s[i]
           /\ Append(s, e)[Len(s) + 1] = e
OBVIOUS

LEMMA SequenceDomain ==
    ASSUME NEW S, NEW s \in Seq(S)
    PROVE  Len(s) \in Nat /\ DOMAIN s = 1 .. Len(s)
OBVIOUS

LEMMA ExceptFacts ==
    ASSUME NEW S, NEW s \in Seq(S), NEW k \in 1 .. Len(s), NEW e \in S
    PROVE  /\ [s EXCEPT ![k] = e] \in Seq(S) /\ Len([s EXCEPT ![k] = e]) = Len(s)
           /\ \A i \in 1 .. Len(s) : [s EXCEPT ![k] = e][i] = IF i = k THEN e ELSE s[i]
<1> DEFINE t == [s EXCEPT ![k] = e]
<1>1. s \in [1 .. Len(s) -> S] /\ Len(s) \in Nat
  OBVIOUS
<1>2. t \in [1 .. Len(s) -> S] /\ \A i \in 1 .. Len(s) : t[i] = IF i = k THEN e ELSE s[i]
  BY <1>1
<1> HIDE DEF t
<1>3. t \in Seq(S) /\ Len(t) = Len(s)
  BY <1>1, <1>2
<1> QED
  BY <1>2, <1>3 DEF t

LEMMA SameSequence ==
    ASSUME NEW S, NEW s \in Seq(S), NEW t \in Seq(S), Len(s) = Len(t),
           \A i \in 1 .. Len(s) : s[i] = t[i]
    PROVE  s = t
OBVIOUS

LEMMA PrefixFacts ==
    ASSUME NEW S, NEW s \in Seq(S), NEW n \in 0 .. Len(s)
    PROVE  /\ SubSeq(s, 1, n) \in Seq(S) /\ Len(SubSeq(s, 1, n)) = n
           /\ \A i \in 1 .. n : SubSeq(s, 1, n)[i] = s[i]
OBVIOUS

\* A prefix of a prefix, and of a longer sequence.
LEMMA PrefixOfPrefix ==
    ASSUME NEW S, NEW s \in Seq(S), NEW n \in 0 .. Len(s), NEW m \in 0 .. n
    PROVE  SubSeq(SubSeq(s, 1, n), 1, m) = SubSeq(s, 1, m)
<1> DEFINE t == SubSeq(s, 1, n)
<1>1. t \in Seq(S) /\ Len(t) = n /\ \A i \in 1 .. n : t[i] = s[i]
  BY PrefixFacts
<1> HIDE DEF t
<1>2. /\ SubSeq(t, 1, m) \in Seq(S) /\ Len(SubSeq(t, 1, m)) = m
      /\ \A i \in 1 .. m : SubSeq(t, 1, m)[i] = t[i]
  BY <1>1, PrefixFacts
<1>3. /\ SubSeq(s, 1, m) \in Seq(S) /\ Len(SubSeq(s, 1, m)) = m
      /\ \A i \in 1 .. m : SubSeq(s, 1, m)[i] = s[i]
  BY PrefixFacts
<1>4. \A i \in 1 .. m : i \in 1 .. n
  OBVIOUS
<1>5. SubSeq(t, 1, m) = SubSeq(s, 1, m)
  BY <1>1, <1>2, <1>3, <1>4, SameSequence
<1> QED
  BY <1>5 DEF t

LEMMA PrefixOfAppended ==
    ASSUME NEW S, NEW s \in Seq(S), NEW e \in S, NEW n \in 0 .. Len(s)
    PROVE  SubSeq(Append(s, e), 1, n) = SubSeq(s, 1, n)
<1> DEFINE t == Append(s, e)
<1>1. t \in Seq(S) /\ Len(t) = Len(s) + 1 /\ \A i \in 1 .. Len(s) : t[i] = s[i]
  BY AppendFacts
<1> HIDE DEF t
<1>2. /\ SubSeq(t, 1, n) \in Seq(S) /\ Len(SubSeq(t, 1, n)) = n
      /\ \A i \in 1 .. n : SubSeq(t, 1, n)[i] = t[i]
  <2>1. n \in 0 .. Len(t)
    BY <1>1
  <2> QED
    BY <1>1, <2>1, PrefixFacts
<1>3. /\ SubSeq(s, 1, n) \in Seq(S) /\ Len(SubSeq(s, 1, n)) = n
      /\ \A i \in 1 .. n : SubSeq(s, 1, n)[i] = s[i]
  BY PrefixFacts
<1>4. \A i \in 1 .. n : i \in 1 .. Len(s)
  OBVIOUS
<1>5. SubSeq(t, 1, n) = SubSeq(s, 1, n)
  BY <1>1, <1>2, <1>3, <1>4, SameSequence
<1> QED
  BY <1>5 DEF t

LEMMA WholePrefix ==
    ASSUME NEW S, NEW s \in Seq(S)
    PROVE  SubSeq(s, 1, Len(s)) = s
OBVIOUS

Below == {ss \in Nat \X Nat : ss[1] < ss[2]}

\* A nonempty set of positions has a last one, and LastOf is it.
LEMMA LastOfIsLast ==
    ASSUME NEW n \in Nat, NEW S \in SUBSET (1 .. n), S # {}
    PROVE  LastOf(S) \in S /\ \A j \in S : j <= LastOf(S)
<1> DEFINE T == {k \in Nat : n - k \in S}
<1>1. IsWellFoundedOn(Below, Nat)
  <2>1. OpToRel(<, Nat) = Below
    BY Zenon DEF OpToRel, Below
  <2> QED
    BY NatLessThanWellFounded, <2>1, Zenon
<1>2. T \in SUBSET Nat /\ T # {}
  <2>1. PICK i \in S : TRUE
    OBVIOUS
  <2>2. i \in 1 .. n
    OBVIOUS
  <2>3. n - i \in Nat /\ n - (n - i) = i
    BY <2>2
  <2> QED
    BY <2>3
<1>3. PICK k \in T : \A y \in T : <<y, k>> \notin Below
  BY <1>1, <1>2, WFMin
<1>4. ASSUME NEW y \in T PROVE k <= y
  <2>1. <<y, k>> \in Nat \X Nat /\ <<y, k>>[1] = y /\ <<y, k>>[2] = k
    BY <1>2
  <2>2. ~ (y < k)
    BY <1>3, <2>1 DEF Below
  <2> QED
    BY <1>2, <2>2
<1>5. n - k \in S /\ k \in Nat
  BY <1>3
<1>6. ASSUME NEW j \in S PROVE j <= n - k
  <2>1. j \in 1 .. n
    OBVIOUS
  <2>2. n - j \in Nat /\ n - (n - j) = j
    BY <2>1
  <2>3. n - j \in T
    BY <2>2
  <2>4. k <= n - j
    BY <2>3, <1>4
  <2> QED
    BY <2>1, <2>4, <1>5
<1>7. \E i \in S : \A j \in S : j <= i
  BY <1>5, <1>6
<1> QED
  BY <1>7 DEF LastOf

\* The last of positions is what no other comes after.
LEMMA LastOfIs ==
    ASSUME NEW S \in SUBSET Nat, NEW i \in S, \A j \in S : j <= i
    PROVE  LastOf(S) = i
<1>1. LastOf(S) \in S /\ \A j \in S : j <= LastOf(S)
  BY DEF LastOf
<1>2. LastOf(S) <= i /\ i <= LastOf(S) /\ LastOf(S) \in Nat /\ i \in Nat
  BY <1>1
<1> QED
  BY <1>2

-----------------------------------------------------------------------------
(***************************************************************************)
(* Telegram's steps and the files.                                         *)
(***************************************************************************)
LEMMA CommittedFacts ==
    ASSUME FilesTyped
    PROVE  Committed \in Image /\ Len(images) \in Nat /\ Len(images) >= 1
BY DEF FilesTyped, Committed, Last

\* A main file with a log that tells nothing of committed frames is the image.
LEMMA NothingClosed ==
    ASSUME FilesTyped, Closed = {}, NEW pages \in Image, Completes(pages)
    PROVE  pages = Committed
<1>1. Committed \in Image
  BY CommittedFacts
<1>2. Closed = 1 .. 0
  OBVIOUS
<1>3. Len(Committed) <= Len(pages) + 0 /\ Len(pages) <= Len(Committed)
  BY <1>2 DEF Completes
<1>4. Len(Committed) = Len(pages)
  BY <1>1, <1>3 DEF Image
<1>5. \A p \in 1 .. Len(pages) : pages[p] = Committed[p]
  BY <1>4 DEF Completes, Untouched
<1> QED
  BY <1>1, <1>4, <1>5, SameSequence DEF Image

\* The image is complete by itself.
LEMMA ImageCompletes ==
    ASSUME FilesTyped
    PROVE  Completes(Committed)
<1>1. Len(Committed) \in Nat
  BY CommittedFacts DEF Image
<1> QED
  BY <1>1 DEF Completes

\* What is open comes after what is closed.
LEMMA OpenFacts ==
    ASSUME FilesTyped, LogFits
    PROVE  \E c \in 0 .. Len(log) :
              /\ Closed = 1 .. c
              /\ c > 0 => log[c].size = Len(Committed)
              /\ OpenFits(c)
              /\ DOMAIN log = 1 .. Len(log)
              /\ \A i \in 1 .. c : log[i].value < Len(images)
              /\ {i \in DOMAIN log : log[i].value = Len(images)} = c + 1 .. Len(log)
<1>1. PICK c \in 0 .. Len(log) :
              /\ Closed = 1 .. c
              /\ c > 0 => log[c].size = Len(Committed)
              /\ OpenFits(c)
  BY DEF LogFits
<1>2. DOMAIN log = 1 .. Len(log) /\ \A i \in DOMAIN log : log[i].value \in Nat
  <2>1. DOMAIN log = 1 .. Len(log) /\ \A i \in 1 .. Len(log) : log[i] \in Entries
    BY DEF FilesTyped
  <2> QED
    BY <2>1 DEF Entries
<1>3. \A i \in 1 .. c : log[i].value < Len(images)
  BY <1>1 DEF Closed
<1>4. ASSUME NEW i \in 1 .. Len(log)
      PROVE  log[i].value = Len(images) <=> i \in c + 1 .. Len(log)
  <2>1. CASE i <= c
    <3>1. log[i].value < Len(images)
      BY <1>3, <2>1
    <3> QED
      BY <1>2, <2>1, <3>1, CommittedFacts
  <2>2. CASE i > c
    <3>1. i \in c + 1 .. Len(log)
      BY <2>2
    <3> QED
      BY <1>1, <3>1 DEF OpenFits
  <2> QED
    BY <2>1, <2>2
<1>5. c + 1 .. Len(log) \subseteq 1 .. Len(log)
  OBVIOUS
<1> QED
  BY <1>1, <1>2, <1>3, <1>4, <1>5

\* The image of a transaction that ends with page p.
LEMMA CommittedWithFacts ==
    ASSUME FilesTyped, NEW p \in Pages, p <= Len(Committed) + 1
    PROVE  LET n == IF p > Len(Committed) THEN p ELSE Len(Committed)
           IN  /\ CommittedWith(p) \in Image /\ Len(CommittedWith(p)) = n
               /\ \A q \in 1 .. n :
                     CommittedWith(p)[q] = IF q \in Pending(p) THEN Len(images) ELSE Committed[q]
<1> DEFINE n == IF p > Len(Committed) THEN p ELSE Len(Committed)
           f == CommittedWith(p)
<1>1. Len(Committed) \in Nat /\ p \in Nat /\ n \in Nat /\ Committed \in Image /\ Len(images) \in Nat
  BY CommittedFacts, WalAssumption DEF Image, Pages
<1>2. f = [q \in 1 .. n |-> IF q \in Pending(p) THEN Len(images) ELSE Committed[q]]
  BY DEF CommittedWith
<1>3. ASSUME NEW q \in 1 .. n, q \notin Pending(p) PROVE Committed[q] \in Nat
  <2>1. p \in Pending(p)
    BY DEF Pending
  <2>2. q # p
    BY <1>3, <2>1
  <2>3. q \in 1 .. Len(Committed)
    BY <1>1, <2>2
  <2> QED
    BY <1>1, <2>3 DEF Image
<1> HIDE DEF f
<1>4. f \in [1 .. n -> Nat]
  BY <1>1, <1>2, <1>3
<1>5. f \in Seq(Nat) /\ Len(f) = n
  BY <1>1, <1>4
<1> QED
  BY <1>1, <1>2, <1>5 DEF Image, f

\* One more frame: the log and the frames of the file.
LEMMA WriteTyped ==
    ASSUME FilesFit, NEW p \in Pages, NEW commit \in BOOLEAN, WriteFrame(p, commit)
    PROVE  FilesTyped'
<1> USE DEF FilesFit
<1> DEFINE entry == [page |-> p, value |-> Len(images),
                     size |-> IF commit THEN Len(CommittedWith(p)) ELSE 0]
           frame == [salt |-> wal.salt, sum |-> Append(log, entry)]
           over == Len(log) < Len(wal.frames)
<1>0. wal \in Logs
  BY DEF FilesTyped
<1>1. p \in Nat \ {0} /\ Len(images) \in Nat /\ p <= Len(Committed) + 1
  BY CommittedFacts DEF WriteFrame, Pages
<1>2. CommittedWith(p) \in Image /\ Len(CommittedWith(p)) \in Nat
  BY <1>1, CommittedWithFacts DEF Image
<1>3. entry \in Entries
  BY <1>1, <1>2 DEF Entries
<1>4. /\ log \in Seq(Entries) /\ Len(log) < MaxFrames /\ log' = Append(log, entry)
      /\ wal \in Logs /\ wal.exists /\ Len(wal.frames) <= MaxFrames /\ MaxFrames \in Nat
      /\ wal' = [wal EXCEPT !.frames =
                   IF over THEN [@ EXCEPT ![Len(log) + 1] = frame] ELSE Append(@, frame)]
      /\ images \in Seq(Image) /\ images # <<>>
      /\ images' = IF commit THEN Append(images, CommittedWith(p)) ELSE images
      /\ commit => Len(images) <= MaxCommits
      /\ main' = main
  BY WalAssumption DEF WriteFrame, FilesTyped, reader
<1> HIDE DEF entry
<1>5. log' \in Seq(Entries) /\ Len(log') = Len(log) + 1 /\ Len(log) \in Nat
  BY <1>3, <1>4
<1>6. frame \in Frames /\ wal.frames \in Seq(Frames)
  BY <1>4, <1>5 DEF Frames, Logs
<1> HIDE DEF frame
<1>7. wal' \in Logs /\ Len(wal'.frames) <= MaxFrames
  <2>1. CASE over
    <3>1. wal' = [wal EXCEPT !.frames = [wal.frames EXCEPT ![Len(log) + 1] = frame]]
      BY <1>4, <2>1
    <3>2. Len(log) + 1 \in 1 .. Len(wal.frames)
      BY <1>5, <1>6, <2>1
    <3>3. /\ [wal.frames EXCEPT ![Len(log) + 1] = frame] \in Seq(Frames)
          /\ Len([wal.frames EXCEPT ![Len(log) + 1] = frame]) = Len(wal.frames)
      BY <1>6, <3>2, ExceptFacts
    <3>4. wal' \in Logs /\ wal'.frames = [wal.frames EXCEPT ![Len(log) + 1] = frame]
      BY <1>0, <3>1, <3>3 DEF Logs
    <3> QED
      BY <1>4, <3>3, <3>4
  <2>2. CASE ~ over
    <3>1. wal' = [wal EXCEPT !.frames = Append(wal.frames, frame)]
      BY <1>4, <2>2
    <3>2. Len(wal.frames) <= Len(log) /\ Len(wal.frames) \in Nat
      BY <1>5, <1>6, <2>2
    <3>3. Append(wal.frames, frame) \in Seq(Frames) /\ Len(Append(wal.frames, frame)) = Len(wal.frames) + 1
      BY <1>6
    <3>4. wal' \in Logs /\ wal'.frames = Append(wal.frames, frame)
      BY <1>0, <3>1, <3>3 DEF Logs
    <3> QED
      BY <1>4, <1>5, <3>2, <3>3, <3>4
  <2> QED
    BY <2>1, <2>2
<1>8. images' \in Seq(Image) /\ Len(images') \in 1 .. MaxCommits + 1
  <2>1. Len(images) \in 1 .. MaxCommits + 1 /\ MaxCommits \in Nat
    BY WalAssumption DEF FilesTyped
  <2> HIDE DEF FilesFit
  <2>2. CASE commit
    <3>1. images' = Append(images, CommittedWith(p)) /\ Len(images) <= MaxCommits
      BY <1>4, <2>2
    <3>2. images' \in Seq(Image) /\ Len(images') = Len(images) + 1
      BY <1>2, <1>4, <3>1, AppendFacts
    <3> QED
      BY <1>1, <2>1, <3>1, <3>2
  <2>3. CASE ~ commit
    BY <1>4, <2>1, <2>3
  <2> QED
    BY <2>2, <2>3
<1> QED
  BY <1>4, <1>5, <1>7, <1>8 DEF FilesTyped

LEMMA WriteWalFits ==
    ASSUME FilesFit, NEW p \in Pages, NEW commit \in BOOLEAN, WriteFrame(p, commit)
    PROVE  WalFits'
<1> USE DEF FilesFit
<1> DEFINE entry == [page |-> p, value |-> Len(images),
                     size |-> IF commit THEN Len(CommittedWith(p)) ELSE 0]
           frame == [salt |-> wal.salt, sum |-> Append(log, entry)]
           over == Len(log) < Len(wal.frames)
<1>0. wal \in Logs
  BY DEF FilesTyped
<1>1. /\ log \in Seq(Entries) /\ log' = Append(log, entry)
      /\ wal \in Logs /\ wal.exists /\ wal.frames \in Seq(Frames)
      /\ wal' = [wal EXCEPT !.frames =
                   IF over THEN [@ EXCEPT ![Len(log) + 1] = frame] ELSE Append(@, frame)]
  BY DEF WriteFrame, FilesTyped, Logs
<1>2. /\ Len(log) <= Len(wal.frames) /\ Len(log) \in Nat /\ Len(wal.frames) \in Nat
      /\ \A i \in 1 .. Len(log) : wal.frames[i] = [salt |-> wal.salt, sum |-> SubSeq(log, 1, i)]
      /\ \A i \in 1 .. Len(wal.frames) : i > Len(log) => wal.frames[i].salt < wal.salt
  <2>1. WalFits
    OBVIOUS
  <2>2. wal.exists /\ log \in Seq(Entries) /\ wal.frames \in Seq(Frames)
    BY <1>1
  <2> HIDE DEF FilesFit
  <2>3. /\ Len(log) \in Nat /\ DOMAIN log = 1 .. Len(log)
        /\ Len(wal.frames) \in Nat /\ DOMAIN wal.frames = 1 .. Len(wal.frames)
    BY <2>2, SequenceDomain
  <2> QED
    BY <2>1, <2>2, <2>3, Zenon DEF WalFits
<1>3. log' \in Seq(Entries)
  BY WriteTyped DEF FilesTyped
<1> HIDE DEF entry
<1>4. /\ Len(log') = Len(log) + 1 /\ DOMAIN log' = 1 .. Len(log) + 1
      /\ \A i \in 1 .. Len(log) : SubSeq(log', 1, i) = SubSeq(log, 1, i)
      /\ frame = [salt |-> wal.salt, sum |-> SubSeq(log', 1, Len(log) + 1)]
  <2>1. entry \in Entries
    BY <1>1, <1>3
  <2>2. Len(log') = Len(log) + 1 /\ DOMAIN log' = 1 .. Len(log) + 1
    BY <1>1, <2>1, AppendFacts
  <2>3. \A i \in 1 .. Len(log) : SubSeq(log', 1, i) = SubSeq(log, 1, i)
    BY <1>1, <2>1, PrefixOfAppended
  <2> QED
    BY <1>1, <1>3, <2>2, <2>3, WholePrefix
<1>6. frame \in Frames
  BY <1>1, <1>3, <1>4 DEF Frames, Logs
<1> HIDE DEF frame
<1>5. /\ wal'.exists = wal.exists /\ wal'.salt = wal.salt
      /\ Len(wal'.frames) >= Len(log) + 1
      /\ Len(wal'.frames) = IF over THEN Len(wal.frames) ELSE Len(log) + 1
      /\ DOMAIN wal'.frames = 1 .. Len(wal'.frames)
      /\ \A i \in 1 .. Len(wal'.frames) :
            wal'.frames[i] = IF i = Len(log) + 1 THEN frame ELSE wal.frames[i]
  <2>1. CASE over
    <3>1. wal' = [wal EXCEPT !.frames = [wal.frames EXCEPT ![Len(log) + 1] = frame]]
      BY <1>1, <2>1
    <3>2. Len(log) + 1 \in 1 .. Len(wal.frames) /\ frame \in Frames
      BY <1>2, <1>3, <1>6, <2>1
    <3>3. /\ [wal.frames EXCEPT ![Len(log) + 1] = frame] \in Seq(Frames)
          /\ Len([wal.frames EXCEPT ![Len(log) + 1] = frame]) = Len(wal.frames)
          /\ \A i \in 1 .. Len(wal.frames) :
                [wal.frames EXCEPT ![Len(log) + 1] = frame][i]
                    = IF i = Len(log) + 1 THEN frame ELSE wal.frames[i]
      BY <1>1, <3>2, ExceptFacts
    <3>4. /\ wal'.exists = wal.exists /\ wal'.salt = wal.salt
          /\ wal'.frames = [wal.frames EXCEPT ![Len(log) + 1] = frame]
      BY <1>0, <3>1, <3>3 DEF Logs
    <3> QED
      BY <1>2, <2>1, <3>2, <3>3, <3>4
  <2>2. CASE ~ over
    <3>1. wal' = [wal EXCEPT !.frames = Append(wal.frames, frame)]
      BY <1>1, <2>2
    <3>2. /\ Append(wal.frames, frame) \in Seq(Frames)
          /\ Len(Append(wal.frames, frame)) = Len(wal.frames) + 1
          /\ \A i \in 1 .. Len(wal.frames) : Append(wal.frames, frame)[i] = wal.frames[i]
          /\ Append(wal.frames, frame)[Len(wal.frames) + 1] = frame
      BY <1>1, <1>6, AppendFacts
    <3>3. /\ wal'.exists = wal.exists /\ wal'.salt = wal.salt
          /\ wal'.frames = Append(wal.frames, frame)
      BY <1>0, <3>1, <3>2 DEF Logs
    <3>4. Len(wal.frames) = Len(log)
      BY <1>2, <2>2
    <3> QED
      BY <1>2, <2>2, <3>2, <3>3, <3>4
  <2> QED
    BY <2>1, <2>2
<1>7. \A i \in DOMAIN log' : wal'.frames[i] = [salt |-> wal'.salt, sum |-> SubSeq(log', 1, i)]
  <2> SUFFICES ASSUME NEW i \in DOMAIN log'
      PROVE  wal'.frames[i] = [salt |-> wal'.salt, sum |-> SubSeq(log', 1, i)]
    OBVIOUS
  <2>1. i \in 1 .. Len(log) + 1 /\ i \in 1 .. Len(wal'.frames)
    BY <1>2, <1>4, <1>5
  <2>2. CASE i = Len(log) + 1
    BY <1>4, <1>5, <2>1, <2>2
  <2>3. CASE i # Len(log) + 1
    <3>1. i \in 1 .. Len(log)
      BY <1>2, <2>1, <2>3
    <3> QED
      BY <1>2, <1>4, <1>5, <2>1, <2>3, <3>1
  <2> QED
    BY <2>2, <2>3
<1>8. \A i \in DOMAIN wal'.frames : i > Len(log') => wal'.frames[i].salt < wal'.salt
  BY <1>2, <1>4, <1>5
<1> QED
  BY <1>1, <1>4, <1>5, <1>7, <1>8 DEF WalFits

\* What a frame adds to the log, and a commit to the images.
LEMMA WriteFacts ==
    ASSUME FilesFit, NEW p \in Pages, NEW commit \in BOOLEAN, WriteFrame(p, commit)
    PROVE  /\ main' = main /\ p <= Len(Committed) + 1
           /\ Len(log') = Len(log) + 1 /\ DOMAIN log' = 1 .. Len(log) + 1
           /\ \A i \in 1 .. Len(log) : log'[i] = log[i]
           /\ log'[Len(log) + 1].page = p /\ log'[Len(log) + 1].value = Len(images)
           /\ commit => /\ Len(images') = Len(images) + 1 /\ Committed' = CommittedWith(p)
                        /\ log'[Len(log) + 1].size = Len(CommittedWith(p))
           /\ ~ commit => /\ images' = images /\ Committed' = Committed
                          /\ log'[Len(log) + 1].size = 0
<1> DEFINE entry == [page |-> p, value |-> Len(images),
                     size |-> IF commit THEN Len(CommittedWith(p)) ELSE 0]
<1>1. /\ log \in Seq(Entries) /\ images \in Seq(Image) /\ Len(images) \in Nat
      /\ p \in Nat \ {0} /\ p <= Len(Committed) + 1
      /\ log' = Append(log, entry) /\ main' = main
      /\ images' = IF commit THEN Append(images, CommittedWith(p)) ELSE images
  BY CommittedFacts DEF WriteFrame, FilesFit, FilesTyped, Pages
<1>2. CommittedWith(p) \in Image
  BY <1>1, CommittedWithFacts DEF FilesFit
<1>3. entry \in Entries
  BY <1>1, <1>2 DEF Entries, Image
<1>4. /\ entry.page = p /\ entry.value = Len(images)
      /\ entry.size = IF commit THEN Len(CommittedWith(p)) ELSE 0
  OBVIOUS
<1> HIDE DEF entry
<1>5. /\ Len(log') = Len(log) + 1 /\ DOMAIN log' = 1 .. Len(log) + 1
      /\ \A i \in 1 .. Len(log) : log'[i] = log[i]
      /\ log'[Len(log) + 1] = entry
  BY <1>1, <1>3, AppendFacts
<1>6. CASE commit
  <2>1. /\ Len(images') = Len(images) + 1
        /\ images'[Len(images) + 1] = CommittedWith(p)
    BY <1>1, <1>2, <1>6, AppendFacts
  <2>2. Committed' = CommittedWith(p)
    BY <2>1 DEF Committed, Last
  <2> QED
    BY <1>1, <1>4, <1>5, <1>6, <2>1, <2>2
<1>7. CASE ~ commit
  <2>1. images' = images
    BY <1>1, <1>7
  <2>2. Committed' = Committed
    BY <2>1 DEF Committed
  <2> QED
    BY <1>1, <1>4, <1>5, <1>7, <2>1, <2>2
<1> QED
  BY <1>6, <1>7

\* A frame that commits nothing leaves what is committed as it was.
LEMMA WriteOpen ==
    ASSUME FilesFit, NEW p \in Pages, WriteFrame(p, FALSE)
    PROVE  Closed' = Closed /\ LogFits'
<1>1. PICK c \in 0 .. Len(log) :
              /\ Closed = 1 .. c
              /\ c > 0 => log[c].size = Len(Committed)
              /\ OpenFits(c)
              /\ DOMAIN log = 1 .. Len(log)
              /\ \A i \in 1 .. c : log[i].value < Len(images)
  BY OpenFacts DEF FilesFit
<1>2. /\ Len(log') = Len(log) + 1 /\ DOMAIN log' = 1 .. Len(log) + 1
      /\ \A i \in 1 .. Len(log) : log'[i] = log[i]
      /\ log'[Len(log) + 1].page = p /\ log'[Len(log) + 1].value = Len(images)
      /\ log'[Len(log) + 1].size = 0 /\ images' = images /\ Committed' = Committed
  BY WriteFacts
<1>3. Len(images) \in Nat /\ Len(log) \in Nat /\ p \in Nat
  BY CommittedFacts DEF FilesFit, FilesTyped, Pages
<1>4. Closed' = Closed
  <2>1. Closed' = {i \in 1 .. Len(log) + 1 : log'[i].value < Len(images)}
    BY <1>2 DEF Closed
  <2>2. Closed = {i \in 1 .. Len(log) : log[i].value < Len(images)}
    BY <1>1 DEF Closed
  <2>3. ~ (Len(images) < Len(images))
    BY <1>3
  <2>4. \A i \in 1 .. Len(log) + 1 : i \in 1 .. Len(log) \/ i = Len(log) + 1
    BY <1>3
  <2>5. 1 .. Len(log) \subseteq 1 .. Len(log) + 1
    BY <1>3
  <2> QED
    BY <1>2, <2>1, <2>2, <2>3, <2>4, <2>5, Zenon
<1>5. \A i \in Closed : i \in 1 .. Len(log) /\ log'[i] = log[i]
  BY <1>1, <1>2
<1>6. OpenFits(c)'
  <2> SUFFICES ASSUME NEW i \in c + 1 .. Len(log) + 1
      PROVE  /\ log'[i].value = Len(images) /\ log'[i].size = 0
             /\ log'[i].page <= log'[Len(log) + 1].page
    BY <1>2, Zenon DEF OpenFits
  <2>1. CASE i = Len(log) + 1
    BY <1>2, <1>3, <2>1
  <2>2. CASE i # Len(log) + 1
    <3>1. i \in c + 1 .. Len(log) /\ i \in 1 .. Len(log) /\ Len(log) \in c + 1 .. Len(log)
      BY <1>3, <2>2
    <3>2. /\ log[i].value = Len(images) /\ log[i].size = 0
          /\ log[i].page <= log[Len(log)].page /\ log[Len(log)].size = 0
      BY <1>1, <3>1 DEF OpenFits
    <3>3. p > log[Len(log)].page
      <4>1. Uncommitted
        <5>1. log # <<>>
          BY <3>1
        <5> QED
          BY <3>2, <5>1 DEF Uncommitted, Last
      <4> QED
        BY <4>1 DEF WriteFrame, Last
    <3>4. log[i].page \in Nat /\ log[Len(log)].page \in Nat
      <4>1. log[i] \in Entries /\ log[Len(log)] \in Entries
        BY <3>1 DEF FilesFit, FilesTyped
      <4> QED
        BY <4>1 DEF Entries
    <3>5. log'[i].page <= p
      BY <1>2, <1>3, <3>1, <3>2, <3>3, <3>4
    <3> QED
      BY <1>2, <3>1, <3>2, <3>5
  <2> QED
    BY <2>1, <2>2
<1>7. c > 0 => log'[c].size = Len(Committed)
  <2>1. c > 0 => c \in 1 .. Len(log)
    OBVIOUS
  <2> QED
    BY <1>1, <1>2, <2>1
<1>8. \A i \in Closed : log'[i].page <= Len(Committed)
  BY <1>5, Zenon DEF FilesFit, LogFits
<1>9. \A i \in Closed : LastOfPage(i)' => log'[i].value = Committed[log'[i].page]
  <2>1. \A i \in Closed : LastOfPage(i)' <=> LastOfPage(i)
    BY <1>4, <1>5, Zenon DEF LastOfPage
  <2> QED
    BY <1>5, <2>1, Zenon DEF FilesFit, LogFits
<1>10. c \in 0 .. Len(log')
  BY <1>2, <1>3
<1> QED
  <2>1. \E d \in 0 .. Len(log') :
          /\ Closed' = 1 .. d
          /\ d > 0 => log'[d].size = Len(Committed')
          /\ OpenFits(d)'
    BY <1>1, <1>2, <1>4, <1>6, <1>7, <1>10
  <2> QED
    BY <1>2, <1>4, <1>8, <1>9, <2>1, Zenon DEF LogFits

\* A commit closes every frame.
LEMMA WriteCommit ==
    ASSUME FilesFit, NEW p \in Pages, WriteFrame(p, TRUE)
    PROVE  Closed' = 1 .. Len(log) + 1 /\ LogFits'
<1>1. PICK c \in 0 .. Len(log) :
              /\ Closed = 1 .. c
              /\ OpenFits(c)
              /\ DOMAIN log = 1 .. Len(log)
              /\ \A i \in 1 .. c : log[i].value < Len(images)
              /\ {i \in DOMAIN log : log[i].value = Len(images)} = c + 1 .. Len(log)
  BY OpenFacts DEF FilesFit
<1>2. /\ Len(log') = Len(log) + 1 /\ DOMAIN log' = 1 .. Len(log) + 1
      /\ \A i \in 1 .. Len(log) : log'[i] = log[i]
      /\ log'[Len(log) + 1].page = p /\ log'[Len(log) + 1].value = Len(images)
      /\ log'[Len(log) + 1].size = Len(CommittedWith(p))
      /\ Len(images') = Len(images) + 1 /\ Committed' = CommittedWith(p)
      /\ p <= Len(Committed) + 1
  BY WriteFacts
<1>3. /\ Len(images) \in Nat /\ Len(log) \in Nat /\ p \in Nat \ {0} /\ Len(Committed) \in Nat
      /\ \A i \in 1 .. Len(log) : log[i].value \in Nat /\ log[i].page \in Nat \ {0}
  <2>1. \A i \in 1 .. Len(log) : log[i] \in Entries
    BY DEF FilesFit, FilesTyped
  <2>2. \A i \in 1 .. Len(log) : log[i].value \in Nat /\ log[i].page \in Nat \ {0}
    BY <2>1 DEF Entries
  <2> QED
    BY <2>2, CommittedFacts DEF FilesFit, FilesTyped, Pages, Image
<1> DEFINE n == IF p > Len(Committed) THEN p ELSE Len(Committed)
<1>4. /\ Len(CommittedWith(p)) = n
      /\ \A q \in 1 .. n :
            CommittedWith(p)[q] = IF q \in Pending(p) THEN Len(images) ELSE Committed[q]
  BY <1>2, CommittedWithFacts DEF FilesFit
<1>5. Pending(p) = {p} \cup {log[i].page : i \in c + 1 .. Len(log)}
  BY <1>1 DEF Pending
<1>6. \A i \in c + 1 .. Len(log) : i \in 1 .. Len(log) /\ log[i].value = Len(images) /\ log[i].page < p
  <2> SUFFICES ASSUME NEW i \in c + 1 .. Len(log)
      PROVE  i \in 1 .. Len(log) /\ log[i].value = Len(images) /\ log[i].page < p
    OBVIOUS
  <2>1. i \in 1 .. Len(log) /\ Len(log) \in c + 1 .. Len(log) /\ Len(log) \in 1 .. Len(log)
    OBVIOUS
  <2>2. /\ log[i].value = Len(images)
        /\ log[i].page <= log[Len(log)].page /\ log[Len(log)].size = 0
    BY <1>1, <2>1 DEF OpenFits
  <2>3. p > log[Len(log)].page
    <3>1. log # <<>>
      BY <2>1
    <3>2. Uncommitted
      BY <2>2, <3>1 DEF Uncommitted, Last
    <3> QED
      BY <3>2 DEF WriteFrame, Last
  <2> QED
    BY <1>3, <2>1, <2>2, <2>3
<1>7. Closed' = 1 .. Len(log) + 1
  <2>1. Closed' = {i \in 1 .. Len(log) + 1 : log'[i].value < Len(images) + 1}
    BY <1>2 DEF Closed
  <2>2. ASSUME NEW i \in 1 .. Len(log) + 1 PROVE log'[i].value < Len(images) + 1
    <3>1. CASE i = Len(log) + 1
      BY <1>2, <1>3, <3>1
    <3>2. CASE i \in c + 1 .. Len(log)
      <4>1. i \in 1 .. Len(log) /\ log[i].value = Len(images)
        BY <1>6, <3>2
      <4>2. log'[i] = log[i]
        BY <1>2, <4>1
      <4> QED
        BY <1>3, <4>1, <4>2
    <3>3. CASE i \in 1 .. c
      <4>1. i \in 1 .. Len(log)
        BY <3>3
      <4> QED
        BY <1>1, <1>2, <1>3, <3>3, <4>1
    <3> QED
      BY <1>3, <3>1, <3>2, <3>3
  <2> QED
    BY <2>1, <2>2
<1>8. \A d \in Nat : d = Len(log') => OpenFits(d)'
  BY DEF OpenFits
<1>9. \A i \in Closed : i \in 1 .. Len(log) /\ log[i].page <= Len(Committed)
  BY <1>1 DEF FilesFit, LogFits
<1>10. ASSUME NEW i \in 1 .. Len(log) + 1 PROVE log'[i].page <= n
  <2>1. CASE i = Len(log) + 1
    BY <1>2, <1>3, <2>1
  <2>2. CASE i \in c + 1 .. Len(log)
    BY <1>2, <1>3, <1>6, <2>2
  <2>3. CASE i \in 1 .. c
    BY <1>1, <1>2, <1>3, <1>9, <2>3
  <2> QED
    BY <1>3, <2>1, <2>2, <2>3
<1>11. ASSUME NEW i \in 1 .. Len(log) + 1, LastOfPage(i)'
       PROVE  log'[i].value = CommittedWith(p)[log'[i].page]
  <2> DEFINE q == log'[i].page
  <2>1. q \in 1 .. n
    <3>1. q \in Nat \ {0}
      <4>1. CASE i = Len(log) + 1
        BY <1>2, <1>3, <4>1
      <4>2. CASE i # Len(log) + 1
        <5>1. i \in 1 .. Len(log)
          BY <1>3, <4>2
        <5> QED
          BY <1>2, <1>3, <5>1
      <4> QED
        BY <4>1, <4>2
    <3> QED
      BY <1>3, <1>10, <3>1
  <2>2. \A j \in 1 .. Len(log) + 1 : log'[j].page = q => j <= i
    BY <1>7, <1>11, Zenon DEF LastOfPage
  <2>3. CASE i = Len(log) + 1
    BY <1>2, <1>4, <1>5, <2>1, <2>3
  <2>4. CASE i \in c + 1 .. Len(log)
    <3>1. q \in Pending(p) /\ log'[i].value = Len(images)
      BY <1>2, <1>5, <1>6, <2>4
    <3> QED
      BY <1>4, <2>1, <3>1
  <2>5. CASE i \in 1 .. c
    <3>0. i \in 1 .. Len(log) /\ log'[i] = log[i]
      BY <1>2, <2>5
    <3>1. q # p
      <4>1. Len(log) + 1 \in 1 .. Len(log) + 1 /\ ~ (Len(log) + 1 <= i)
        BY <1>3, <3>0
      <4> QED
        BY <1>2, <2>2, <4>1
    <3>2. ASSUME NEW j \in c + 1 .. Len(log) PROVE log[j].page # q
      <4>1. j \in 1 .. Len(log) + 1 /\ j \in 1 .. Len(log) /\ ~ (j <= i)
        BY <1>3, <2>5
      <4> QED
        BY <1>2, <2>2, <4>1
    <3>3. q \notin Pending(p)
      BY <1>5, <3>1, <3>2
    <3>4. LastOfPage(i)
      <4> SUFFICES ASSUME NEW j \in Closed, log[j].page = log[i].page PROVE j <= i
        BY DEF LastOfPage
      <4>1. j \in 1 .. Len(log) /\ j \in 1 .. Len(log) + 1
        BY <1>3, <1>9
      <4> QED
        BY <1>2, <2>2, <3>0, <4>1
    <3>5. log[i].value = Committed[log[i].page]
      BY <1>1, <2>5, <3>4 DEF FilesFit, LogFits
    <3> QED
      BY <1>4, <2>1, <3>0, <3>3, <3>5
  <2> QED
    BY <1>3, <2>3, <2>4, <2>5
<1> HIDE DEF n
<1> QED
  <2>1. \E d \in 0 .. Len(log') :
          /\ Closed' = 1 .. d
          /\ d > 0 => log'[d].size = Len(Committed')
          /\ OpenFits(d)'
    <3>1. PICK d \in Nat : d = Len(log')
      BY <1>2, <1>3
    <3>2. d \in 0 .. Len(log') /\ Closed' = 1 .. d
      BY <1>2, <1>7, <3>1
    <3>3. log'[d].size = Len(Committed')
      BY <1>2, <3>1
    <3>4. OpenFits(d)'
      BY <1>8, <3>1
    <3> QED
      BY <3>2, <3>3, <3>4
  <2>2. \A i \in Closed' : log'[i].page <= Len(Committed')
    BY <1>2, <1>4, <1>7, <1>10
  <2>3. \A i \in Closed' : LastOfPage(i)' => log'[i].value = Committed'[log'[i].page]
    BY <1>2, <1>7, <1>11
  <2> QED
    BY <1>7, <2>1, <2>2, <2>3, Zenon DEF LogFits

LEMMA WriteCompletes ==
    ASSUME FilesFit, NEW p \in Pages, NEW commit \in BOOLEAN, WriteFrame(p, commit)
    PROVE  Completes(main)'
<1>1. PICK c \in 0 .. Len(log) :
              /\ Closed = 1 .. c
              /\ DOMAIN log = 1 .. Len(log)
              /\ {i \in DOMAIN log : log[i].value = Len(images)} = c + 1 .. Len(log)
  BY OpenFacts DEF FilesFit
<1>2. /\ main' = main
      /\ DOMAIN log' = 1 .. Len(log) + 1
      /\ \A i \in 1 .. Len(log) : log'[i] = log[i]
      /\ log'[Len(log) + 1].page = p /\ p <= Len(Committed) + 1
  BY WriteFacts
<1>3. /\ Len(log) \in Nat /\ p \in Nat \ {0} /\ Len(Committed) \in Nat /\ Len(main) \in Nat
      /\ \A i \in 1 .. c : i \in 1 .. Len(log)
  BY CommittedFacts DEF FilesFit, FilesTyped, Pages, Image
<1>4. /\ Len(main) <= Len(Committed) /\ Len(Committed) <= Len(main) + c
      /\ \A q \in 1 .. Len(Committed) : Untouched(q) => q <= Len(main) /\ main[q] = Committed[q]
  <2>1. Completes(main)
    BY DEF FilesFit
  <2>2. c \in Nat
    BY <1>3
  <2> QED
    BY <1>1, <2>1, <2>2, Zenon DEF Completes
<1>5. CASE ~ commit
  <2>1. Closed' = Closed /\ Committed' = Committed
    BY <1>5, WriteOpen, WriteFacts
  <2>2. \A q : Untouched(q)' <=> Untouched(q)
    <3>1. \A i \in Closed : log'[i] = log[i]
      BY <1>1, <1>2, <1>3, Zenon
    <3> QED
      BY <2>1, <3>1, Zenon DEF Untouched
  <2>3. \A d \in Nat : Closed' = 1 .. d => Len(Committed) <= Len(main) + d
    BY <2>1, Zenon DEF FilesFit, Completes
  <2> QED
    BY <1>2, <1>4, <2>1, <2>2, <2>3, Zenon DEF Completes
<1>6. CASE commit
  <2>1. Closed' = 1 .. Len(log) + 1 /\ Committed' = CommittedWith(p)
    BY <1>6, WriteCommit, WriteFacts
  <2> DEFINE n == IF p > Len(Committed) THEN p ELSE Len(Committed)
  <2>2. /\ Len(CommittedWith(p)) = n
        /\ \A q \in 1 .. n :
              CommittedWith(p)[q] = IF q \in Pending(p) THEN Len(images) ELSE Committed[q]
    BY <1>2, CommittedWithFacts DEF FilesFit
  <2>3. n \in Nat /\ Len(Committed) <= n /\ n <= Len(Committed) + 1
    BY <1>2, <1>3
  <2>4. Pending(p) = {p} \cup {log[i].page : i \in c + 1 .. Len(log)}
    BY <1>1 DEF Pending
  <2>5. ASSUME NEW q \in 1 .. n, Untouched(q)'
        PROVE  q <= Len(main) /\ main[q] = CommittedWith(p)[q]
    <3>1. \A i \in 1 .. Len(log) + 1 : log'[i].page # q
      BY <2>1, <2>5, Zenon DEF Untouched
    <3>2. q # p
      BY <1>2, <1>3, <3>1
    <3>3. \A i \in 1 .. Len(log) : log[i].page # q
      <4>1. \A i \in 1 .. Len(log) : i \in 1 .. Len(log) + 1
        BY <1>3
      <4> QED
        BY <1>2, <3>1, <4>1
    <3>4. \A i \in c + 1 .. Len(log) : i \in 1 .. Len(log)
      OBVIOUS
    <3>5. q \notin Pending(p)
      BY <2>4, <3>2, <3>3, <3>4
    <3>6. q \in 1 .. Len(Committed)
      BY <1>2, <1>3, <3>2
    <3>7. Untouched(q)
      BY <1>1, <1>3, <3>3 DEF Untouched
    <3> QED
      BY <1>4, <2>2, <3>5, <3>6, <3>7
  <2>6. ASSUME NEW d \in Nat, Closed' = 1 .. d PROVE n <= Len(main) + d
    <3>1. Len(log) + 1 \in 1 .. d
      BY <1>3, <2>1, <2>6
    <3> QED
      BY <1>3, <1>4, <2>3, <3>1
  <2>7. Len(main) <= n
    BY <1>3, <1>4, <2>3
  <2> HIDE DEF n
  <2> QED
    BY <1>2, <2>1, <2>2, <2>5, <2>6, <2>7 DEF Completes
<1> QED
  BY <1>5, <1>6

\* Where the log and the images stay, so does what they say of pages.
LEMMA SameLog ==
    ASSUME log' = log, images' = images
    PROVE  /\ Closed' = Closed /\ Committed' = Committed
           /\ LogFits <=> LogFits'
           /\ \A p : Untouched(p) <=> Untouched(p)'
           /\ \A pages : Completes(pages) <=> Completes(pages)'
<1>1. Closed' = Closed
  BY DEF Closed
<1>2. Committed' = Committed
  BY DEF Committed
<1>3. \A p : Untouched(p) <=> Untouched(p)'
  BY <1>1 DEF Untouched
<1>4. \A i : LastOfPage(i) <=> LastOfPage(i)'
  BY <1>1 DEF LastOfPage
<1>5. \A c : OpenFits(c) <=> OpenFits(c)'
  BY DEF OpenFits
<1>6. LogFits <=> LogFits'
  BY <1>1, <1>2, <1>4, <1>5 DEF LogFits
<1>7. \A pages : Completes(pages) <=> Completes(pages)'
  BY <1>1, <1>2, <1>3 DEF Completes
<1> QED
  BY <1>1, <1>2, <1>3, <1>6, <1>7

\* An empty log, over a main file that is the image.
LEMMA EmptyLog ==
    ASSUME FilesTyped, log' = <<>>, images' = images
    PROVE  Committed' = Committed /\ LogFits' /\ \A pages : pages = Committed => Completes(pages)'
<1>1. Committed' = Committed
  BY DEF Committed
<1>2. Closed' = {}
  BY DEF Closed
<1>3. Len(log') = 0 /\ Closed' = 1 .. 0
  BY <1>2
<1>4. \A c : c = 0 => OpenFits(c)'
  BY <1>3 DEF OpenFits
<1>5. LogFits'
  <2>1. \E c \in 0 .. Len(log') :
          /\ Closed' = 1 .. c
          /\ c > 0 => log'[c].size = Len(Committed')
          /\ OpenFits(c)'
    BY <1>3, <1>4
  <2> QED
    BY <1>2, <2>1, Zenon DEF LogFits
<1>6. ASSUME NEW pages, pages = Committed PROVE Completes(pages)'
  <2>1. Len(Committed) \in Nat
    BY CommittedFacts DEF Image
  <2> QED
    BY <1>1, <1>6, <2>1 DEF Completes
<1> QED
  BY <1>1, <1>5, <1>6

LEMMA CheckpointFits ==
    ASSUME FilesFit, NEW p \in Pages, Checkpoint(p)
    PROVE  /\ FilesFit' /\ log' = log /\ images' = images /\ wal' = wal
           /\ Len(main) <= Len(main') /\ wal.exists
<1>1. /\ wal' = wal /\ log' = log /\ images' = images /\ wal.exists
      /\ p <= Len(main) + 1
      /\ main' = IF p > Len(main) THEN Append(main, Committed[p])
                 ELSE [main EXCEPT ![p] = Committed[p]]
  BY DEF Checkpoint
<1>2. PICK i \in Closed : log[i].page = p
  BY DEF Checkpoint, Closed
<1>3. p \in 1 .. Len(Committed) /\ Committed[p] \in Nat
  <2>1. p <= Len(Committed) /\ Committed \in Image
    BY <1>2, CommittedFacts DEF FilesFit, LogFits
  <2> QED
    BY <2>1, WalAssumption DEF Pages, Image
<1>4. main \in Seq(Nat) /\ Len(main) \in 1 .. MaxPages /\ p \in 1 .. MaxPages
  BY DEF FilesFit, FilesTyped, Image, Pages
<1>5. /\ main' \in Seq(Nat) /\ Len(main') = IF p > Len(main) THEN Len(main) + 1 ELSE Len(main)
      /\ \A q \in 1 .. Len(main) : q # p => main'[q] = main[q]
  <2>1. CASE p > Len(main)
    BY <1>1, <1>3, <1>4, <2>1, AppendFacts
  <2>2. CASE ~ (p > Len(main))
    <3>1. p \in 1 .. Len(main)
      BY <1>4, <2>2
    <3> QED
      BY <1>1, <1>3, <1>4, <2>2, <3>1, ExceptFacts
  <2> QED
    BY <2>1, <2>2
<1>6. Len(main') \in 1 .. MaxPages /\ Len(main) <= Len(main') /\ Len(main') <= Len(Committed)
  <2>1. Len(main) <= Len(Committed)
    BY DEF FilesFit, Completes
  <2> QED
    BY <1>1, <1>3, <1>4, <1>5, <2>1, WalAssumption
<1>7. FilesTyped'
  BY <1>1, <1>5, <1>6 DEF FilesFit, FilesTyped, Image, Pages
<1>8. LogFits' /\ Closed' = Closed /\ Committed' = Committed
  BY <1>1, SameLog DEF FilesFit
<1>9. WalFits'
  BY <1>1 DEF FilesFit, WalFits
<1>10. Completes(main)'
  <2>1. \A q : Untouched(q)' => Untouched(q) /\ q # p
    BY <1>1, <1>2, SameLog DEF Untouched
  <2>2. \A q \in 1 .. Len(Committed) :
            Untouched(q) => q <= Len(main) /\ main[q] = Committed[q]
    BY DEF FilesFit, Completes
  <2>3. Len(Committed) \in Nat
    BY CommittedFacts DEF FilesFit, Image
  <2>4. ASSUME NEW q \in 1 .. Len(Committed), Untouched(q)'
        PROVE  q <= Len(main') /\ main'[q] = Committed[q]
    <3>1. q \in 1 .. Len(main) /\ q # p /\ main[q] = Committed[q]
      BY <1>4, <2>1, <2>2, <2>3, <2>4
    <3> QED
      BY <1>4, <1>5, <1>6, <3>1
  <2>5. ASSUME NEW c \in Nat, Closed = 1 .. c PROVE Len(Committed) <= Len(main') + c
    <3>1. Len(Committed) <= Len(main) + c
      BY <2>5 DEF FilesFit, Completes
    <3> QED
      BY <1>4, <1>6, <2>3, <3>1
  <2> QED
    BY <1>6, <1>8, <2>4, <2>5 DEF Completes
<1> QED
  BY <1>1, <1>6, <1>7, <1>8, <1>9, <1>10 DEF FilesFit

LEMMA ResetFits ==
    ASSUME FilesFit, Reset
    PROVE  FilesFit'
<1>1. /\ wal' = [wal EXCEPT !.salt = @ + 1] /\ log' = <<>>
      /\ main' = main /\ images' = images /\ main = Committed /\ wal.exists
  BY DEF Reset, Checkpointed
<1>2. /\ wal \in Logs /\ wal.salt \in Nat /\ Len(wal.frames) \in Nat
      /\ \A i \in DOMAIN wal.frames : i \in 1 .. Len(wal.frames) /\ wal.frames[i].salt \in Nat
  <2>1. wal \in Logs /\ wal.salt \in Nat /\ wal.frames \in Seq(Frames)
    BY DEF FilesFit, FilesTyped, Logs
  <2>2. \A i \in DOMAIN wal.frames : i \in 1 .. Len(wal.frames) /\ wal.frames[i] \in Frames
    BY <2>1
  <2> QED
    BY <2>1, <2>2 DEF Frames
<1>3. wal' \in Logs /\ wal'.exists = wal.exists /\ wal'.salt = wal.salt + 1 /\ wal'.frames = wal.frames
  <2>1. wal' = [wal EXCEPT !.salt = wal.salt + 1] /\ wal \in Logs
    BY <1>1, <1>2
  <2> QED
    BY <2>1 DEF Logs
<1>4. LogFits' /\ Completes(main)'
  BY <1>1, EmptyLog DEF FilesFit
<1>5. <<>> \in Seq(Entries) /\ Len(<<>>) = 0
  OBVIOUS
<1>6. FilesTyped'
  BY <1>1, <1>3, <1>5, WalAssumption DEF FilesFit, FilesTyped
<1>7. \A i \in DOMAIN wal.frames : wal.frames[i].salt < wal.salt + 1
  <2> SUFFICES ASSUME NEW i \in DOMAIN wal.frames PROVE wal.frames[i].salt < wal.salt + 1
    OBVIOUS
  <2>1. CASE i \in DOMAIN log
    <3>1. wal.frames[i] = [salt |-> wal.salt, sum |-> SubSeq(log, 1, i)]
      BY <1>1, <2>1 DEF FilesFit, WalFits
    <3>2. wal.frames[i].salt = wal.salt
      BY <3>1
    <3> QED
      BY <1>2, <3>2
  <2>2. CASE i \notin DOMAIN log
    <3>1. DOMAIN log = 1 .. Len(log) /\ Len(log) \in Nat
      BY DEF FilesFit, FilesTyped
    <3>2. i > Len(log)
      BY <1>2, <2>2, <3>1
    <3>3. wal.frames[i].salt < wal.salt
      BY <1>1, <3>2 DEF FilesFit, WalFits
    <3> QED
      BY <1>2, <3>3
  <2> QED
    BY <2>1, <2>2
<1>8. WalFits'
  BY <1>1, <1>2, <1>3, <1>5, <1>7 DEF WalFits
<1> QED
  BY <1>4, <1>6, <1>8 DEF FilesFit

LEMMA QuitFits ==
    ASSUME FilesFit, Quit
    PROVE  FilesFit'
<1>1. /\ wal' = [wal EXCEPT !.exists = FALSE, !.frames = <<>>] /\ log' = <<>>
      /\ main' = main /\ images' = images /\ main = Committed
  BY DEF Quit, Checkpointed
<1>2. /\ wal' \in Logs /\ ~ wal'.exists /\ wal'.frames = <<>>
  <2>1. wal \in Logs /\ <<>> \in Seq(Frames)
    BY DEF FilesFit, FilesTyped
  <2> QED
    BY <1>1, <2>1 DEF Logs
<1>3. LogFits' /\ Completes(main)'
  BY <1>1, EmptyLog DEF FilesFit
<1>4. <<>> \in Seq(Entries) /\ Len(<<>>) = 0
  OBVIOUS
<1>5. FilesTyped'
  BY <1>1, <1>2, <1>4, WalAssumption DEF FilesFit, FilesTyped
<1>6. WalFits'
  BY <1>1, <1>2 DEF WalFits
<1> QED
  BY <1>3, <1>5, <1>6 DEF FilesFit

LEMMA StartFits ==
    ASSUME FilesFit, Start
    PROVE  FilesFit'
<1>1. /\ wal' = [wal EXCEPT !.exists = TRUE, !.salt = @ + 1] /\ ~ wal.exists
      /\ main' = main /\ images' = images /\ log' = log
  BY DEF Start
<1>2. log = <<>> /\ wal.frames = <<>>
  BY <1>1 DEF FilesFit, WalFits
<1>3. wal' \in Logs /\ wal'.exists /\ wal'.frames = wal.frames
  <2>1. wal \in Logs
    BY DEF FilesFit, FilesTyped
  <2>2. wal' = [wal EXCEPT !.exists = TRUE, !.salt = wal.salt + 1]
    BY <1>1
  <2>3. wal.salt \in Nat /\ wal.salt + 1 \in Nat /\ wal.frames \in Seq(Frames)
    BY <2>1 DEF Logs
  <2>4. wal' = [exists |-> TRUE, salt |-> wal.salt + 1, frames |-> wal.frames]
    BY <2>1, <2>2 DEF Logs
  <2> QED
    BY <2>3, <2>4 DEF Logs
<1>4. LogFits' /\ Completes(main)'
  BY <1>1, SameLog DEF FilesFit
<1>5. FilesTyped'
  BY <1>1, <1>3 DEF FilesFit, FilesTyped
<1>6. WalFits'
  <2>1. Len(log') <= Len(wal'.frames) /\ DOMAIN log' = {} /\ DOMAIN wal'.frames = {}
    BY <1>1, <1>2, <1>3
  <2> QED
    BY <1>3, <2>1 DEF WalFits
<1> QED
  BY <1>4, <1>5, <1>6 DEF FilesFit

-----------------------------------------------------------------------------
(***************************************************************************)
(* Telegram's steps and the reader.                                        *)
(***************************************************************************)
\* Modification times only get newer.
Newer ==
    /\ late' \in Flags /\ moved' \in Flags
    /\ late.main => late'.main
    /\ moved.main => moved'.main
    /\ moved.wal => moved'.wal

LEMMA WritesMain ==
    ASSUME late \in Flags, moved \in Flags, Writes("main", FALSE)
    PROVE  Newer /\ (late.main => moved'.main)
<1>1. late' = late \/ late' = Later
  BY DEF Writes
<1>2. moved' = [moved EXCEPT !.main = moved.main \/ late'.main]
  BY DEF Writes
<1>3. late' \in Flags /\ (late.main => late'.main)
  <2>1. Later \in Flags /\ Later.main /\ Later.wal
    BY DEF Flags, Later
  <2> QED
    BY <1>1, <2>1, Zenon
<1>4. late'.main \in BOOLEAN /\ moved.main \in BOOLEAN
  BY <1>3 DEF Flags
<1>5. moved' = [main |-> moved.main \/ late'.main, wal |-> moved.wal]
  BY <1>2 DEF Flags
<1>6. moved.wal \in BOOLEAN /\ (moved.main \/ late'.main) \in BOOLEAN
  BY <1>4 DEF Flags
<1>7. moved' \in Flags /\ moved'.main = (moved.main \/ late'.main) /\ moved'.wal = moved.wal
  BY <1>5, <1>6 DEF Flags
<1> QED
  BY <1>3, <1>7 DEF Newer

LEMMA WritesWal ==
    ASSUME late \in Flags, moved \in Flags, NEW hidden \in BOOLEAN, Writes("wal", hidden)
    PROVE  Newer /\ (hidden => late'.main /\ moved'.wal)
<1>1. /\ late' = late \/ late' = Later
      /\ hidden => late' = Later
  BY DEF Writes
<1>2. moved' = [moved EXCEPT !.wal = moved.wal \/ late'.wal]
  BY DEF Writes
<1>3. late' \in Flags /\ (late.main => late'.main) /\ (hidden => late'.main /\ late'.wal)
  <2>1. Later \in Flags /\ Later.main /\ Later.wal
    BY DEF Flags, Later
  <2> QED
    BY <1>1, <2>1, Zenon
<1>4. late'.wal \in BOOLEAN /\ moved.wal \in BOOLEAN
  BY <1>3 DEF Flags
<1>5. moved' = [main |-> moved.main, wal |-> moved.wal \/ late'.wal]
  BY <1>2 DEF Flags
<1>6. moved.main \in BOOLEAN /\ (moved.wal \/ late'.wal) \in BOOLEAN
  BY <1>4 DEF Flags
<1>7. moved' \in Flags /\ moved'.main = moved.main /\ moved'.wal = (moved.wal \/ late'.wal)
  BY <1>5, <1>6 DEF Flags
<1> QED
  BY <1>3, <1>7 DEF Newer

\* What every step of Telegram does: no image is lost, the main file does not
\* shrink, and the reader is as it was.
Onward ==
    /\ FilesFit'
    /\ reader' = reader
    /\ Newer
    /\ Len(images) <= Len(images') /\ \A i \in 1 .. Len(images) : images'[i] = images[i]
    /\ Len(main) <= Len(main')

\* Frames are added, or written over old ones; the log starts over, or goes.
LogMoves ==
    \/ wal.exists /\ wal'.exists /\ wal'.salt = wal.salt /\ Len(wal.frames) < Len(wal'.frames)
    \/ /\ wal.exists /\ wal'.exists /\ wal'.salt = wal.salt /\ Len(wal.frames) = Len(wal'.frames)
       /\ wal.salt = before.wal.salt => moved'.wal
    \/ wal'.salt = wal.salt + 1
    \/ ~ wal'.exists /\ wal'.salt = wal.salt

LEMMA WriteOnward ==
    ASSUME IInv, NEW p \in Pages, NEW commit \in BOOLEAN, WriteFrame(p, commit)
    PROVE  Onward /\ LogMoves /\ main' = main /\ wal.exists
<1> USE DEF IInv
<1>1. FilesFit'
  <2>1. LogFits'
    BY WriteOpen, WriteCommit
  <2> QED
    BY <2>1, WriteTyped, WriteWalFits, WriteCompletes DEF FilesFit
<1> DEFINE over == Len(log) < Len(wal.frames)
           frame == [salt |-> wal.salt, sum |-> log']
           fs == IF over THEN [wal.frames EXCEPT ![Len(log) + 1] = frame]
                 ELSE Append(wal.frames, frame)
<1>2. /\ wal.exists /\ main' = main /\ reader' = reader
      /\ wal' = [wal EXCEPT !.frames = fs]
      /\ Writes("wal", over /\ wal.salt = before.wal.salt)
      /\ images' = IF commit THEN Append(images, CommittedWith(p)) ELSE images
  BY DEF WriteFrame, reader
<1>3. wal \in Logs
  BY DEF FilesFit, FilesTyped
<1>4. wal'.frames = fs /\ wal'.salt = wal.salt /\ wal'.exists = wal.exists
  BY <1>2, <1>3 DEF Logs
<1>5. wal.frames \in Seq(Frames) /\ frame \in Frames
  <2>1. wal.frames \in Seq(Frames) /\ wal.salt \in Nat
    BY <1>3 DEF Logs
  <2>2. log' \in Seq(Entries)
    BY <1>1 DEF FilesFit, FilesTyped
  <2> QED
    BY <2>1, <2>2 DEF Frames
<1> HIDE DEF frame
<1>6. /\ Newer
      /\ over /\ wal.salt = before.wal.salt => moved'.wal
  BY <1>2, WritesWal DEF ReaderTyped
<1>7. LogMoves
  <2>1. CASE over
    <3>1. Len(log) + 1 \in 1 .. Len(wal.frames)
      BY <1>5, <2>1 DEF FilesFit, FilesTyped
    <3>2. Len([wal.frames EXCEPT ![Len(log) + 1] = frame]) = Len(wal.frames)
      BY <1>5, <3>1, ExceptFacts
    <3> QED
      BY <1>2, <1>4, <1>6, <2>1, <3>2 DEF LogMoves
  <2>2. CASE ~ over
    <3>1. Len(fs) = Len(wal.frames) + 1 /\ Len(wal.frames) \in Nat
      BY <1>5, <2>2, AppendFacts
    <3>2. Len(wal.frames) < Len(wal'.frames)
      BY <1>4, <3>1
    <3> QED
      BY <1>2, <1>4, <3>2 DEF LogMoves
  <2> QED
    BY <2>1, <2>2
<1>8. Len(images) <= Len(images') /\ \A i \in 1 .. Len(images) : images'[i] = images[i]
  <2>1. images \in Seq(Image) /\ Len(images) \in Nat
    BY DEF FilesFit, FilesTyped
  <2>2. CASE commit
    <3>1. CommittedWith(p) \in Image
      <4>1. p <= Len(Committed) + 1
        BY DEF WriteFrame
      <4> QED
        BY <4>1, CommittedWithFacts DEF FilesFit
    <3> QED
      BY <1>2, <2>1, <2>2, <3>1, AppendFacts
  <2>3. CASE ~ commit
    BY <1>2, <2>1, <2>3
  <2> QED
    BY <2>2, <2>3
<1>9. Len(main) <= Len(main')
  BY <1>2 DEF FilesFit, FilesTyped, Pages
<1> QED
  BY <1>1, <1>2, <1>6, <1>7, <1>8, <1>9 DEF Onward

LEMMA CheckpointOnward ==
    ASSUME IInv, NEW p \in Pages, Checkpoint(p)
    PROVE  /\ Onward /\ wal.exists /\ wal' = wal /\ log' = log /\ images' = images
           /\ late.main => moved'.main
<1>1. /\ FilesFit' /\ log' = log /\ images' = images /\ wal' = wal
      /\ Len(main) <= Len(main') /\ wal.exists
  BY CheckpointFits DEF IInv
<1>2. Writes("main", FALSE) /\ reader' = reader
  BY DEF Checkpoint, reader
<1>3. Newer /\ (late.main => moved'.main)
  BY <1>2, WritesMain DEF IInv, ReaderTyped
<1>4. Len(images) \in Nat
  BY DEF IInv, FilesFit, FilesTyped
<1> QED
  BY <1>1, <1>2, <1>3, <1>4 DEF Onward

LEMMA ResetOnward ==
    ASSUME IInv, Reset
    PROVE  Onward /\ LogMoves /\ main' = main /\ wal.exists
<1>1. FilesFit'
  BY ResetFits DEF IInv
<1>2. /\ Writes("wal", FALSE) /\ reader' = reader /\ main' = main /\ images' = images /\ wal.exists
      /\ wal' = [wal EXCEPT !.salt = wal.salt + 1]
  BY DEF Reset, reader
<1>3. Newer
  BY <1>2, WritesWal DEF IInv, ReaderTyped
<1>4. Len(images) \in Nat /\ Len(main) \in Nat /\ wal \in Logs
  BY DEF IInv, FilesFit, FilesTyped, Pages
<1>5. wal'.salt = wal.salt + 1
  BY <1>2, <1>4 DEF Logs
<1> QED
  BY <1>1, <1>2, <1>3, <1>4, <1>5 DEF Onward, LogMoves

LEMMA QuitOnward ==
    ASSUME IInv, Quit
    PROVE  Onward /\ LogMoves /\ main' = main /\ wal.exists
<1>1. FilesFit'
  BY QuitFits DEF IInv
<1>2. /\ late' = late /\ moved' = moved /\ reader' = reader
      /\ main' = main /\ images' = images /\ wal.exists
      /\ wal' = [wal EXCEPT !.exists = FALSE, !.frames = <<>>]
  BY DEF Quit, reader, times
<1>3. Newer
  BY <1>2 DEF IInv, ReaderTyped, Newer
<1>4. Len(images) \in Nat /\ Len(main) \in Nat /\ wal \in Logs
  BY DEF IInv, FilesFit, FilesTyped, Pages
<1>5. ~ wal'.exists /\ wal'.salt = wal.salt
  BY <1>2, <1>4 DEF Logs
<1> QED
  BY <1>1, <1>2, <1>3, <1>4, <1>5 DEF Onward, LogMoves

LEMMA StartOnward ==
    ASSUME IInv, Start
    PROVE  Onward /\ LogMoves /\ main' = main /\ late'.main
<1>1. FilesFit'
  BY StartFits DEF IInv
<1>2. /\ Writes("wal", TRUE) /\ reader' = reader /\ main' = main /\ images' = images
      /\ wal' = [wal EXCEPT !.exists = TRUE, !.salt = wal.salt + 1]
  BY DEF Start, reader
<1>3. Newer /\ late'.main
  BY <1>2, WritesWal DEF IInv, ReaderTyped
<1>4. Len(images) \in Nat /\ Len(main) \in Nat /\ wal \in Logs
  BY DEF IInv, FilesFit, FilesTyped, Pages
<1>5. wal'.salt = wal.salt + 1
  <2>1. wal.salt \in Nat
    BY <1>4 DEF Logs
  <2> QED
    BY <1>2, <1>4, <2>1 DEF Logs
<1> QED
  BY <1>1, <1>2, <1>3, <1>4, <1>5 DEF Onward, LogMoves

\* The reader's state, in the form its steps need it.
LEMMA ReaderFacts ==
    ASSUME reader' = reader
    PROVE  pc' = pc /\ attempt' = attempt /\ before' = before /\ copy' = copy /\ since' = since
BY DEF reader

LEMMA FileLengths ==
    ASSUME FilesFit
    PROVE  Len(main) \in Nat \ {0} /\ Len(images) \in Nat \ {0}
BY DEF FilesFit, FilesTyped, Pages

LEMMA CopyLengths ==
    ASSUME IInv
    PROVE  /\ Len(copy.main) \in Nat /\ Len(copy.main) <= Len(main)
           /\ since \in 1 .. Len(images)
<1>1. copy.main \in Image
  BY DEF IInv, ReaderTyped
<1>2. Len(copy.main) \in Nat
  BY <1>1 DEF Image
<1>3. Len(copy.main) <= Len(main) /\ since \in 1 .. Len(images)
  BY DEF IInv, ReaderTyped
<1> QED
  BY <1>2, <1>3

\* The lengths after a step of Telegram's.
LEMMA OnwardLengths ==
    ASSUME Onward
    PROVE  Len(main') \in Nat /\ Len(images') \in Nat
BY DEF Onward, FilesFit, FilesTyped, Pages

LEMMA OnwardTyped ==
    ASSUME IInv, Onward
    PROVE  ReaderTyped'
<1>1. pc' = pc /\ attempt' = attempt /\ before' = before /\ copy' = copy /\ since' = since
  BY ReaderFacts DEF Onward
<1>2. late' \in Flags /\ moved' \in Flags
  BY DEF Onward, Newer
<1>3. /\ Len(copy.main) \in Nat /\ Len(main) \in Nat /\ Len(main') \in Nat
      /\ Len(images) \in Nat /\ Len(images') \in Nat /\ since \in 1 .. Len(images)
      /\ Len(copy.main) <= Len(main)
  BY FileLengths, CopyLengths, OnwardLengths DEF IInv
<1>4. Len(copy.main) <= Len(main')
  BY <1>3 DEF Onward
<1>5. since \in 1 .. Len(images')
  BY <1>3 DEF Onward
<1> QED
  BY <1>1, <1>2, <1>4, <1>5 DEF IInv, ReaderTyped

LEMMA StatSizes ==
    ASSUME IInv
    PROVE  /\ before.wal.salt \in Nat /\ before.wal.size \in Nat /\ before.wal.exists \in BOOLEAN
           /\ wal.salt \in Nat /\ Len(wal.frames) \in Nat /\ wal.exists \in BOOLEAN
<1>1. before.wal \in [exists : BOOLEAN, salt : Nat, size : Nat]
  BY DEF IInv, ReaderTyped
<1>2. wal \in Logs
  BY DEF IInv, FilesFit, FilesTyped
<1>3. wal.salt \in Nat /\ wal.frames \in Seq(Frames) /\ wal.exists \in BOOLEAN
  BY <1>2 DEF Logs
<1> QED
  BY <1>1, <1>3

LEMMA OnwardStatFits ==
    ASSUME IInv, Onward, wal' = wal \/ LogMoves
    PROVE  StatFits'
<1>1. pc' = pc /\ before' = before
  BY ReaderFacts DEF Onward
<1>2. /\ before.wal.salt \in Nat /\ before.wal.size \in Nat
      /\ wal.salt \in Nat /\ Len(wal.frames) \in Nat
  BY StatSizes
<1> SUFFICES ASSUME pc \in Reading, before.wal.exists
    PROVE  /\ before.wal.salt <= wal'.salt
           /\ wal'.exists /\ before.wal.salt = wal'.salt => before.wal.size <= Len(wal'.frames)
  BY <1>1 DEF StatFits
<1>3. /\ before.wal.salt <= wal.salt
      /\ wal.exists /\ before.wal.salt = wal.salt => before.wal.size <= Len(wal.frames)
  BY DEF IInv, CopyInv, StatFits
<1>4. Len(wal'.frames) \in Nat
  <2>1. wal' \in Logs
    BY DEF Onward, FilesFit, FilesTyped
  <2>2. wal'.frames \in Seq(Frames)
    BY <2>1 DEF Logs
  <2> QED
    BY <2>2
<1>5. CASE wal' = wal
  BY <1>3, <1>5
<1>6. CASE LogMoves
  BY <1>2, <1>3, <1>4, <1>6 DEF LogMoves
<1> QED
  BY <1>5, <1>6

\* A log that moves is no longer as the first stat had it.
LEMMA MovesIsSeen ==
    ASSUME IInv, Onward, LogMoves, pc \in Reading
    PROVE  ~ Still'
<1> SUFFICES ASSUME Still' PROVE FALSE
  OBVIOUS
<1>1. before' = before
  BY ReaderFacts DEF Onward
<1>2. /\ before.wal.salt \in Nat /\ before.wal.size \in Nat
      /\ wal.salt \in Nat /\ Len(wal.frames) \in Nat
  BY StatSizes
<1>3. /\ wal'.exists /\ before.wal = [exists |-> wal'.exists, salt |-> wal'.salt, size |-> Len(wal'.frames)]
      /\ ~ moved'.wal
  BY <1>1 DEF Still, State
<1>4. before.wal.exists /\ before.wal.salt = wal'.salt /\ before.wal.size = Len(wal'.frames)
  BY <1>3
<1>5. /\ before.wal.salt <= wal.salt
      /\ wal.exists /\ before.wal.salt = wal.salt => before.wal.size <= Len(wal.frames)
  BY <1>4 DEF IInv, CopyInv, StatFits
<1>6. CASE wal.exists /\ wal'.exists /\ wal'.salt = wal.salt /\ Len(wal.frames) < Len(wal'.frames)
  BY <1>2, <1>4, <1>5, <1>6
<1>7. CASE wal'.salt = wal.salt /\ (wal.salt = before.wal.salt => moved'.wal)
  BY <1>3, <1>4, <1>7
<1>8. CASE wal'.salt = wal.salt + 1
  BY <1>2, <1>4, <1>5, <1>8
<1> QED
  BY <1>3, <1>6, <1>7, <1>8, Zenon DEF LogMoves

LEMMA OnwardImages ==
    ASSUME IInv, Onward, NEW m, \E i \in since .. Len(images) : m = images[i]
    PROVE  \E i \in since .. Len(images') : m = images'[i]
<1>1. PICK i \in since .. Len(images) : m = images[i]
  OBVIOUS
<1>2. /\ since \in Nat \ {0} /\ Len(images) \in Nat /\ Len(images') \in Nat
      /\ Len(images) <= Len(images')
  BY FileLengths, CopyLengths, OnwardLengths DEF IInv, Onward
<1>3. i \in 1 .. Len(images) /\ i \in since .. Len(images')
  BY <1>1, <1>2
<1>4. images'[i] = images[i]
  BY <1>3 DEF Onward
<1> QED
  BY <1>1, <1>3, <1>4

\* Where there was no log, an unmoved main file has not been written.
LEMMA OnwardCalm ==
    ASSUME IInv, Onward, pc \notin {"done", "unstable"},
           (late.main => moved'.main) \/ main' = main,
           wal.exists \/ ~ wal'.exists \/ late'.main,
           main' = main \/ wal.exists
    PROVE  CalmCopied'
<1>1. pc' = pc /\ attempt' = attempt /\ before' = before /\ copy' = copy /\ since' = since
  BY ReaderFacts DEF Onward
<1>2. ASSUME pc \in Reading \ {"stat wal again"}, ~ before.wal.exists, ~ moved'.main
      PROVE  Calm'
  <2>1. ~ moved.main
    BY <1>2 DEF Onward, Newer
  <2>2. Calm
    BY <1>2, <2>1 DEF IInv, CopyInv, CalmCopied
  <2>3. main' = main
    BY <1>2, <2>2 DEF Calm
  <2>4. wal'.exists => late'.main
    BY <2>2 DEF Calm, Onward, Newer
  <2>5. \E i \in since .. Len(images') : main = images'[i]
    BY <2>2, OnwardImages DEF Calm
  <2> QED
    BY <1>1, <2>2, <2>3, <2>4, <2>5 DEF Calm
<1>3. ASSUME pc = "stat wal again", ~ before.wal.exists
      PROVE  \E i \in since .. Len(images') : copy.main = images'[i]
  <2>1. \E i \in since .. Len(images) : copy.main = images[i]
    BY <1>3 DEF IInv, CopyInv, CalmCopied
  <2> QED
    BY <2>1, OnwardImages
<1> QED
  BY <1>1, <1>2, <1>3 DEF CalmCopied

\* Telegram's steps keep all that is known of the copy.
LEMMA OnwardFits ==
    ASSUME IInv, Onward, pc \notin {"done", "unstable"}, CalmCopied',
           LogMoves \/ (wal' = wal /\ log' = log /\ images' = images)
    PROVE  IInv'
<1>1. pc' = pc /\ attempt' = attempt /\ before' = before /\ copy' = copy /\ since' = since
  BY ReaderFacts DEF Onward
<1>2. CopyFits'
  BY <1>1 DEF IInv, CopyInv, CopyFits
<1>3. DoneFits'
  BY <1>1 DEF DoneFits
<1>4. StillCopied'
  <2> SUFFICES ASSUME pc \in Reading, copy.wal.exists, Still'
      PROVE  CopiedSoFar' /\ (pc = "stat wal again" => Completes(copy.main)')
    BY <1>1 DEF StillCopied
  <2>1. wal' = wal /\ log' = log /\ images' = images
    BY MovesIsSeen
  <2>2. ~ moved.wal
    BY DEF Still, Onward, Newer
  <2>3. Still
    BY <1>1, <2>1, <2>2 DEF Still, State
  <2>4. CopiedSoFar /\ (pc = "stat wal again" => Completes(copy.main))
    BY <2>3 DEF IInv, CopyInv, StillCopied
  <2>5. /\ Committed' = Committed
        /\ \A p : Untouched(p) <=> Untouched(p)'
        /\ \A pages : Completes(pages) <=> Completes(pages)'
    BY <2>1, SameLog
  <2>6. CopiedSoFar'
    BY <1>1, <2>1, <2>4, <2>5 DEF CopiedSoFar
  <2>7. Completes(copy.main) => Completes(copy.main)'
    BY <1>1, <2>5 DEF Completes
  <2> QED
    BY <2>4, <2>6, <2>7
<1> QED
  BY <1>2, <1>3, <1>4, OnwardTyped, OnwardStatFits DEF Onward, IInv, CopyInv

LEMMA TelegramFits ==
    ASSUME IInv, pc \notin {"done", "unstable"}, Telegram
    PROVE  IInv'
<1>1. ASSUME NEW p \in Pages, NEW commit \in BOOLEAN, WriteFrame(p, commit) PROVE IInv'
  <2>1. Onward /\ LogMoves /\ main' = main /\ wal.exists
    BY <1>1, WriteOnward
  <2>2. CalmCopied'
    BY <2>1, OnwardCalm
  <2> QED
    BY <2>1, <2>2, OnwardFits
<1>2. ASSUME NEW p \in Pages, Checkpoint(p) PROVE IInv'
  <2>1. /\ Onward /\ wal.exists /\ wal' = wal /\ log' = log /\ images' = images
        /\ late.main => moved'.main
    BY <1>2, CheckpointOnward
  <2>2. CalmCopied'
    BY <2>1, OnwardCalm
  <2> QED
    BY <2>1, <2>2, OnwardFits
<1>3. CASE Reset
  <2>1. Onward /\ LogMoves /\ main' = main /\ wal.exists
    BY <1>3, ResetOnward
  <2> QED
    BY <2>1, OnwardCalm, OnwardFits
<1>4. CASE Quit
  <2>1. Onward /\ LogMoves /\ main' = main /\ wal.exists
    BY <1>4, QuitOnward
  <2> QED
    BY <2>1, OnwardCalm, OnwardFits
<1>5. CASE Start
  <2>1. Onward /\ LogMoves /\ main' = main /\ late'.main
    BY <1>5, StartOnward
  <2> QED
    BY <2>1, OnwardCalm, OnwardFits
<1> QED
  BY <1>1, <1>2, <1>3, <1>4, <1>5 DEF Telegram

-----------------------------------------------------------------------------
(***************************************************************************)
(* The reader's steps.                                                     *)
(***************************************************************************)
LEMMA SameFiles ==
    ASSUME FilesFit, files' = files
    PROVE  /\ FilesFit' /\ main' = main /\ wal' = wal /\ log' = log /\ images' = images
           /\ Committed' = Committed
           /\ \A p : Untouched(p) <=> Untouched(p)'
           /\ \A pages : Completes(pages) <=> Completes(pages)'
<1>1. main' = main /\ wal' = wal /\ log' = log /\ images' = images
  BY DEF files
<1>2. /\ Committed' = Committed
      /\ LogFits'
      /\ \A p : Untouched(p) <=> Untouched(p)'
      /\ \A pages : Completes(pages) <=> Completes(pages)'
  BY <1>1, SameLog DEF FilesFit
<1>3. FilesTyped'
  BY <1>1 DEF FilesFit, FilesTyped
<1>4. WalFits'
  BY <1>1 DEF FilesFit, WalFits
<1> QED
  BY <1>1, <1>2, <1>3, <1>4 DEF FilesFit

LEMMA NoCopyTyped ==
    /\ NoCopy \in [wal : Logs, main : Image] /\ NoCopy.wal = NoWal /\ NoCopy.main = <<>>
    /\ ~ NoWal.exists /\ NoWal \in Logs /\ Len(NoCopy.main) = 0
    /\ NoStat \in [main : Nat, wal : [exists : BOOLEAN, salt : Nat, size : Nat]]
    /\ Later \in Flags
<1>1. <<>> \in Seq(Frames) /\ <<>> \in Image /\ Len(<<>>) = 0
  BY DEF Image
<1>2. NoWal \in Logs /\ ~ NoWal.exists
  BY <1>1 DEF NoWal, Logs
<1>3. NoStat \in [main : Nat, wal : [exists : BOOLEAN, salt : Nat, size : Nat]]
  BY DEF NoStat
<1>4. Later \in Flags
  BY DEF Later, Flags
<1> QED
  BY <1>1, <1>2, <1>3, <1>4 DEF NoCopy

LEMMA InitFits ==
    ASSUME Init
    PROVE  IInv
<1>1. /\ main = <<0>> /\ images = << <<0>> >> /\ log = <<>>
      /\ wal \in {NoWal, [NoWal EXCEPT !.exists = TRUE]}
  BY DEF Init
<1>2. <<0>> \in Image /\ Len(<<0>>) = 1 /\ << <<0>> >> \in Seq(Image) /\ Len(<< <<0>> >>) = 1
  BY DEF Image
<1>3. wal \in Logs /\ wal.frames = <<>> /\ Len(wal.frames) = 0
  <2>1. <<>> \in Seq(Frames) /\ Len(<<>>) = 0
    OBVIOUS
  <2>2. wal = [exists |-> FALSE, salt |-> 0, frames |-> <<>>]
            \/ wal = [exists |-> TRUE, salt |-> 0, frames |-> <<>>]
    BY <1>1 DEF NoWal
  <2>3. CASE wal = [exists |-> FALSE, salt |-> 0, frames |-> <<>>]
    BY <2>1, <2>3 DEF Logs
  <2>4. CASE wal = [exists |-> TRUE, salt |-> 0, frames |-> <<>>]
    BY <2>1, <2>4 DEF Logs
  <2> QED
    BY <2>2, <2>3, <2>4
<1>4. FilesTyped
  <2>1. <<>> \in Seq(Entries) /\ Len(<<>>) = 0
    OBVIOUS
  <2>2. main \in Image /\ Len(main) \in Pages
    BY <1>1, <1>2, WalAssumption DEF Pages
  <2>3. images \in Seq(Image) /\ Len(images) \in 1 .. MaxCommits + 1
    BY <1>1, <1>2, WalAssumption
  <2> QED
    BY <1>1, <1>3, <2>1, <2>2, <2>3, WalAssumption DEF FilesTyped
<1>5. main = Committed
  BY <1>1 DEF Committed, Last
<1>6. Completes(main)
  BY <1>4, <1>5, ImageCompletes
<1>7. LogFits
  <2>1. Closed = {} /\ Len(log) = 0
    BY <1>1 DEF Closed
  <2>2. Closed = 1 .. 0 /\ OpenFits(0)
    BY <2>1 DEF OpenFits
  <2>3. \E c \in 0 .. Len(log) :
          /\ Closed = 1 .. c
          /\ c > 0 => log[c].size = Len(Committed)
          /\ OpenFits(c)
    BY <2>1, <2>2
  <2> QED
    BY <2>1, <2>3, Zenon DEF LogFits
<1>8. WalFits
  <2>1. Len(log) <= Len(wal.frames) /\ DOMAIN log = {} /\ DOMAIN wal.frames = {}
    BY <1>1, <1>3
  <2> QED
    BY <1>1, <1>3, <2>1 DEF WalFits
<1>9. /\ late = Later /\ moved = Later /\ before = NoStat /\ copy = NoCopy
      /\ since = 1 /\ attempt = 1 /\ pc = "stat main"
  BY DEF Init
<1>10. ReaderTyped
  <2>1. attempt \in 1 .. Attempts + 1 /\ attempt # Attempts + 1
    <3>1. attempt = 1
      BY <1>9
    <3> QED
      BY <3>1, WalAssumption
  <2>2. since \in 1 .. Len(images) /\ Len(copy.main) <= Len(main)
    <3>1. since = 1 /\ Len(images) = 1 /\ Len(main) = 1 /\ Len(copy.main) = 0
      BY <1>1, <1>2, <1>9, NoCopyTyped
    <3> QED
      BY <3>1
  <2>3. /\ before \in [main : Nat, wal : [exists : BOOLEAN, salt : Nat, size : Nat]]
        /\ copy \in [wal : Logs, main : Image] /\ late \in Flags /\ moved \in Flags
    BY <1>9, NoCopyTyped
  <2> QED
    BY <1>9, <2>1, <2>2, <2>3 DEF ReaderTyped
<1>11. pc \notin Reading /\ pc # "done" /\ pc # "stat wal again"
  BY <1>9 DEF Reading
<1>12. CopyInv
  BY <1>9, <1>11, NoCopyTyped DEF CopyInv, StatFits, CopyFits, StillCopied, CalmCopied, DoneFits
<1> QED
  BY <1>4, <1>6, <1>7, <1>8, <1>10, <1>12 DEF IInv, FilesFit

\* Outside an attempt nothing is known of a copy.
LEMMA NothingRead ==
    ASSUME pc' \in {"stat main", "stat wal", "unstable"}, copy' = NoCopy
    PROVE  CopyInv'
<1>1. pc' \notin Reading /\ pc' # "done" /\ pc' # "stat wal again"
  BY DEF Reading
<1>2. CopyFits'
  BY <1>1, NoCopyTyped DEF CopyFits, Reading
<1> QED
  BY <1>1, <1>2 DEF CopyInv, StatFits, StillCopied, CalmCopied, DoneFits

LEMMA StatMainFits ==
    ASSUME IInv, StatMain
    PROVE  IInv'
<1>1. /\ pc = "stat main" /\ pc' = "stat wal" /\ files' = files
      /\ before' = [before EXCEPT !.main = Len(main)] /\ since' = Len(images)
      /\ late' = [late EXCEPT !.main = FALSE] /\ moved' = [moved EXCEPT !.main = FALSE]
      /\ attempt' = attempt /\ copy' = copy
  BY DEF StatMain
<1>2. FilesFit' /\ main' = main /\ images' = images
  BY <1>1, SameFiles DEF IInv
<1>3. copy = NoCopy
  BY <1>1 DEF IInv, CopyInv, CopyFits
<1>4. /\ late \in Flags /\ moved \in Flags
      /\ before \in [main : Nat, wal : [exists : BOOLEAN, salt : Nat, size : Nat]]
      /\ copy \in [wal : Logs, main : Image] /\ Len(copy.main) <= Len(main)
      /\ attempt \in 1 .. Attempts + 1 /\ attempt # Attempts + 1
  BY <1>1 DEF IInv, ReaderTyped
<1>5. late' \in Flags /\ moved' \in Flags
  BY <1>1, <1>4 DEF Flags
<1>6. before' \in [main : Nat, wal : [exists : BOOLEAN, salt : Nat, size : Nat]]
  BY <1>1, <1>4, FileLengths DEF IInv
<1>7. since' \in 1 .. Len(images')
  <2>1. Len(images) \in 1 .. Len(images)
    BY FileLengths DEF IInv
  <2> QED
    BY <1>1, <1>2, <2>1
<1>8. ReaderTyped'
  BY <1>1, <1>2, <1>4, <1>5, <1>6, <1>7 DEF ReaderTyped
<1> QED
  BY <1>1, <1>2, <1>3, <1>8, NothingRead DEF IInv

LEMMA NextAttemptFits ==
    ASSUME IInv, pc \in Reading, NextAttempt, files' = files
    PROVE  IInv'
<1>1. /\ attempt' = attempt + 1
      /\ pc' = IF attempt < Attempts THEN "stat main" ELSE "unstable"
      /\ late' = Later /\ moved' = Later /\ before' = NoStat /\ copy' = NoCopy /\ since' = 1
  BY DEF NextAttempt
<1>2. FilesFit' /\ main' = main /\ images' = images
  BY SameFiles DEF IInv
<1>3. attempt \in 1 .. Attempts /\ Attempts \in Nat
  <2>1. pc # "unstable"
    BY DEF Reading
  <2>2. attempt \in 1 .. Attempts + 1 /\ attempt # Attempts + 1
    BY <2>1 DEF IInv, ReaderTyped
  <2> QED
    BY <2>2, WalAssumption
<1>4. attempt' \in 1 .. Attempts + 1 /\ (pc' = "unstable" <=> attempt' = Attempts + 1)
  <2>0. attempt' = attempt + 1
    BY <1>1
  <2>1. attempt' = attempt + 1 /\ attempt' \in 1 .. Attempts + 1
    BY <1>3, <2>0
  <2>2. CASE attempt < Attempts
    <3>1. pc' = "stat main"
      BY <1>1, <2>2
    <3>2. attempt' # Attempts + 1
      BY <1>3, <2>0, <2>2
    <3> QED
      BY <2>1, <3>1, <3>2
  <2>3. CASE ~ (attempt < Attempts)
    <3>1. pc' = "unstable" /\ attempt = Attempts
      BY <1>1, <1>3, <2>3
    <3> QED
      BY <2>1, <3>1
  <2> QED
    BY <2>2, <2>3
<1>5. since' \in 1 .. Len(images') /\ Len(copy'.main) <= Len(main')
  <2>1. since' = 1 /\ Len(copy'.main) = 0
    BY <1>1, NoCopyTyped
  <2>2. Len(images') \in Nat \ {0} /\ Len(main') \in Nat \ {0}
    BY <1>2, FileLengths DEF IInv
  <2> QED
    BY <2>1, <2>2
<1>6. pc' \in {"stat main", "unstable"}
  BY <1>1
<1>7. ReaderTyped'
  BY <1>1, <1>4, <1>5, <1>6, NoCopyTyped DEF ReaderTyped
<1> QED
  BY <1>1, <1>2, <1>6, <1>7, NothingRead DEF IInv

LEMMA StatWalFits ==
    ASSUME IInv, StatWal
    PROVE  IInv'
<1>1. /\ pc = "stat wal" /\ pc' = "open wal" /\ files' = files
      /\ before' = [before EXCEPT !.wal = State] /\ since' = since
      /\ late' = [late EXCEPT !.wal = FALSE] /\ moved' = [moved EXCEPT !.wal = FALSE]
      /\ attempt' = attempt /\ copy' = copy
  BY DEF StatWal
<1>2. FilesFit' /\ main' = main /\ images' = images /\ wal' = wal
  BY <1>1, SameFiles DEF IInv
<1>3. copy = NoCopy
  BY <1>1 DEF IInv, CopyInv, CopyFits
<1>4. /\ late \in Flags /\ moved \in Flags
      /\ before \in [main : Nat, wal : [exists : BOOLEAN, salt : Nat, size : Nat]]
      /\ copy \in [wal : Logs, main : Image] /\ Len(copy.main) <= Len(main)
      /\ attempt \in 1 .. Attempts + 1 /\ attempt # Attempts + 1
      /\ since \in 1 .. Len(images)
  BY <1>1 DEF IInv, ReaderTyped
<1>5. late' \in Flags /\ moved' \in Flags /\ late'.main = late.main
  BY <1>1, <1>4 DEF Flags
<1>6. wal.salt \in Nat /\ Len(wal.frames) \in Nat /\ wal.exists \in BOOLEAN
  BY StatSizes
<1>7. /\ State \in [exists : BOOLEAN, salt : Nat, size : Nat]
      /\ State.exists = wal.exists /\ State.salt = wal.salt /\ State.size = Len(wal.frames)
  BY <1>6 DEF State
<1>8. /\ before' \in [main : Nat, wal : [exists : BOOLEAN, salt : Nat, size : Nat]]
      /\ before'.wal = State
  BY <1>1, <1>4, <1>7
<1>9. ReaderTyped'
  BY <1>1, <1>2, <1>4, <1>5, <1>8 DEF ReaderTyped, Reading
<1>10. StatFits'
  BY <1>2, <1>6, <1>7, <1>8 DEF StatFits
<1>11. ~ copy'.wal.exists /\ copy' = NoCopy /\ copy'.wal = NoWal /\ copy'.main = <<>>
  BY <1>1, <1>3, NoCopyTyped
<1>12. CopyFits' /\ StillCopied' /\ DoneFits'
  BY <1>1, <1>11 DEF CopyFits, StillCopied, DoneFits
<1>13. CalmCopied'
  <2> SUFFICES ASSUME ~ wal.exists PROVE Calm'
    BY <1>1, <1>7, <1>8 DEF CalmCopied
  <2>1. log = <<>>
    BY DEF IInv, FilesFit, WalFits
  <2>2. Closed = {}
    BY <2>1 DEF Closed
  <2>3. main = Committed
    BY <2>2, NothingClosed DEF IInv, FilesFit, FilesTyped
  <2>4. Len(images) \in since .. Len(images) /\ main = images[Len(images)]
    BY <1>4, <2>3, FileLengths DEF IInv, Committed, Last
  <2>5. DOMAIN copy'.main = {}
    BY <1>11
  <2> QED
    BY <1>1, <1>2, <2>4, <2>5 DEF Calm
<1> QED
  BY <1>2, <1>9, <1>10, <1>12, <1>13 DEF IInv, CopyInv

\* A step that only reads keeps what is known of the files and the first stat.
LEMMA ReadingKeeps ==
    ASSUME IInv, files' = files, times' = times, attempt' = attempt, before' = before, since' = since,
           pc \in Reading, pc' \in Reading,
           copy' \in [wal : Logs, main : Image], Len(copy'.main) <= Len(main)
    PROVE  /\ FilesFit' /\ ReaderTyped' /\ StatFits' /\ DoneFits' /\ (Still' <=> Still)
           /\ main' = main /\ wal' = wal /\ images' = images /\ late' = late /\ moved' = moved
           /\ Committed' = Committed
           /\ \A p : Untouched(p) <=> Untouched(p)'
           /\ \A pages : Completes(pages) <=> Completes(pages)'
<1>1. /\ FilesFit' /\ main' = main /\ wal' = wal /\ log' = log /\ images' = images
      /\ Committed' = Committed
      /\ \A p : Untouched(p) <=> Untouched(p)'
      /\ \A pages : Completes(pages) <=> Completes(pages)'
  BY SameFiles DEF IInv
<1>2. late' = late /\ moved' = moved
  BY DEF times
<1>3. pc # "unstable" /\ pc' # "unstable" /\ pc' # "done"
  BY DEF Reading
<1>4. ReaderTyped'
  BY <1>1, <1>2, <1>3 DEF IInv, ReaderTyped
<1>5. StatFits'
  BY <1>1 DEF IInv, CopyInv, StatFits
<1>6. Still' <=> Still
  BY <1>1, <1>2 DEF Still, State
<1>7. DoneFits'
  BY <1>3 DEF DoneFits
<1> QED
  BY <1>1, <1>2, <1>4, <1>5, <1>6, <1>7

LEMMA OpenWalFits ==
    ASSUME IInv, OpenWal
    PROVE  IInv'
<1>1. /\ pc = "open wal" /\ files' = files /\ times' = times
      /\ attempt' = attempt /\ before' = before /\ since' = since
      /\ copy' = [wal |-> IF wal.exists THEN [wal EXCEPT !.frames = <<>>] ELSE NoWal, main |-> <<>>]
      /\ pc' = IF wal.exists THEN "read wal" ELSE "read main"
  BY DEF OpenWal
<1>2. pc \in Reading \ {"stat wal again"} /\ pc' \in Reading \ {"stat wal again"}
  BY <1>1 DEF Reading
<1>3. wal \in Logs /\ <<>> \in Seq(Frames) /\ <<>> \in Image /\ Len(<<>>) = 0
  BY DEF IInv, FilesFit, FilesTyped, Image
<1>4. copy'.main = <<>> /\ copy'.wal = IF wal.exists THEN [wal EXCEPT !.frames = <<>>] ELSE NoWal
  BY <1>1
<1>5. /\ copy'.wal \in Logs /\ (copy'.wal.exists <=> wal.exists)
      /\ wal.exists => copy'.wal.salt = wal.salt /\ copy'.wal.frames = <<>>
      /\ ~ wal.exists => copy'.wal = NoWal
  <2>1. CASE wal.exists
    <3>1. copy'.wal = [wal EXCEPT !.frames = <<>>]
      BY <1>4, <2>1
    <3> QED
      BY <1>3, <2>1, <3>1 DEF Logs
  <2>2. CASE ~ wal.exists
    BY <1>4, <2>2, NoCopyTyped
  <2> QED
    BY <2>1, <2>2
<1>6. copy' \in [wal : Logs, main : Image]
  BY <1>1, <1>3, <1>4, <1>5
<1>7. Len(copy'.main) <= Len(main)
  BY <1>3, <1>4, FileLengths DEF IInv
<1>8. /\ FilesFit' /\ ReaderTyped' /\ StatFits' /\ DoneFits' /\ (Still' <=> Still)
      /\ main' = main /\ wal' = wal /\ images' = images /\ late' = late /\ moved' = moved
  BY <1>1, <1>2, <1>6, <1>7, ReadingKeeps
<1>9. CopyFits'
  BY <1>1, <1>4, <1>5 DEF CopyFits
<1>10. DOMAIN copy'.main = {}
  BY <1>4
<1>11. StillCopied'
  <2> SUFFICES ASSUME wal.exists PROVE CopiedSoFar'
    BY <1>1, <1>5 DEF StillCopied
  <2>1. Len(copy'.wal.frames) = 0 /\ DOMAIN copy'.wal.frames = {} /\ copy'.wal.salt = wal.salt
    BY <1>5
  <2>2. Len(wal.frames) \in Nat
    BY StatSizes
  <2> QED
    BY <1>8, <1>10, <2>1, <2>2 DEF CopiedSoFar
<1>12. CalmCopied'
  <2> SUFFICES ASSUME ~ before.wal.exists, ~ moved.main PROVE Calm'
    BY <1>1, <1>2, <1>8 DEF CalmCopied
  <2>1. Calm
    BY <1>2 DEF IInv, CopyInv, CalmCopied
  <2> QED
    BY <1>1, <1>8, <1>10, <2>1 DEF Calm
<1> QED
  BY <1>8, <1>9, <1>11, <1>12 DEF IInv, CopyInv

LEMMA ReadWalFits ==
    ASSUME IInv, ReadWal
    PROVE  IInv'
<1> DEFINE n == Len(copy.wal.frames)
<1>1. /\ pc = "read wal" /\ files' = files /\ times' = times
      /\ attempt' = attempt /\ before' = before /\ since' = since
      /\ \/ /\ n < Len(wal.frames)
            /\ copy' = [copy EXCEPT !.wal.frames = Append(copy.wal.frames, wal.frames[n + 1])]
            /\ pc' = "read wal"
         \/ copy' = copy /\ pc' = "read main"
  BY DEF ReadWal
<1>2. pc \in Reading \ {"stat wal again"} /\ pc' \in Reading \ {"stat wal again"}
  BY <1>1 DEF Reading
<1>3. /\ copy \in [wal : Logs, main : Image] /\ copy.wal \in Logs /\ copy.main \in Image
      /\ Len(copy.main) <= Len(main) /\ copy.wal.exists /\ copy.main = <<>>
  BY <1>1 DEF IInv, ReaderTyped, CopyInv, CopyFits
<1>4. wal \in Logs /\ wal.frames \in Seq(Frames) /\ copy.wal.frames \in Seq(Frames)
  <2>1. wal \in Logs
    BY DEF IInv, FilesFit, FilesTyped
  <2> QED
    BY <1>3, <2>1 DEF Logs
<1>5. /\ copy' \in [wal : Logs, main : Image] /\ copy'.main = copy.main
      /\ copy'.wal.exists = copy.wal.exists /\ copy'.wal.salt = copy.wal.salt
      /\ \/ /\ n < Len(wal.frames)
            /\ copy'.wal.frames = Append(copy.wal.frames, wal.frames[n + 1])
         \/ copy'.wal.frames = copy.wal.frames
  <2>1. CASE copy' = copy
    BY <1>3, <2>1
  <2>2. CASE /\ n < Len(wal.frames)
             /\ copy' = [copy EXCEPT !.wal.frames = Append(copy.wal.frames, wal.frames[n + 1])]
    <3>1. wal.frames[n + 1] \in Frames
      BY <1>4, <2>2
    <3> DEFINE fs == Append(copy.wal.frames, wal.frames[n + 1])
    <3>2. fs \in Seq(Frames)
      BY <1>4, <3>1
    <3> HIDE DEF fs
    <3>3. copy' = [copy EXCEPT !.wal.frames = fs]
      BY <2>2 DEF fs
    <3> DEFINE w == [copy.wal EXCEPT !.frames = fs]
    <3>4. copy' = [copy EXCEPT !.wal = w]
      BY <1>3, <3>3
    <3>5. w \in Logs /\ w.exists = copy.wal.exists /\ w.salt = copy.wal.salt /\ w.frames = fs
      BY <1>3, <3>2 DEF Logs
    <3> HIDE DEF w
    <3>6. copy' \in [wal : Logs, main : Image] /\ copy'.main = copy.main /\ copy'.wal = w
      BY <1>3, <3>4, <3>5
    <3> QED
      BY <2>2, <3>5, <3>6 DEF fs
  <2> QED
    BY <1>1, <2>1, <2>2
<1>6. /\ FilesFit' /\ ReaderTyped' /\ StatFits' /\ DoneFits' /\ (Still' <=> Still)
      /\ main' = main /\ wal' = wal /\ images' = images /\ late' = late /\ moved' = moved
      /\ Committed' = Committed /\ \A p : Untouched(p) <=> Untouched(p)'
  BY <1>1, <1>2, <1>3, <1>5, ReadingKeeps
<1>7. CopyFits'
  BY <1>1, <1>3, <1>5 DEF CopyFits
<1>8. StillCopied'
  <2> SUFFICES ASSUME Still PROVE CopiedSoFar'
    BY <1>1, <1>6 DEF StillCopied
  <2>1. /\ copy.wal.salt = wal.salt
        /\ Len(copy.wal.frames) <= Len(wal.frames)
        /\ \A i \in DOMAIN copy.wal.frames : copy.wal.frames[i] = wal.frames[i]
        /\ \A p \in DOMAIN copy.main : Untouched(p) => p <= Len(Committed) /\ copy.main[p] = Committed[p]
    BY <1>2, <1>3 DEF IInv, CopyInv, StillCopied, CopiedSoFar
  <2>2. /\ Len(copy'.wal.frames) <= Len(wal.frames)
        /\ \A i \in DOMAIN copy'.wal.frames : copy'.wal.frames[i] = wal.frames[i]
    <3>1. CASE copy'.wal.frames = copy.wal.frames
      BY <2>1, <3>1
    <3>2. CASE /\ n < Len(wal.frames)
               /\ copy'.wal.frames = Append(copy.wal.frames, wal.frames[n + 1])
      <4>1. n \in Nat /\ Len(wal.frames) \in Nat /\ DOMAIN copy.wal.frames = 1 .. n
            /\ wal.frames[n + 1] \in Frames
        BY <1>4, <3>2
      <4>2. /\ Len(copy'.wal.frames) = n + 1 /\ DOMAIN copy'.wal.frames = 1 .. n + 1
            /\ \A i \in 1 .. n : copy'.wal.frames[i] = copy.wal.frames[i]
            /\ copy'.wal.frames[n + 1] = wal.frames[n + 1]
        BY <1>4, <3>2, <4>1, AppendFacts
      <4>3. \A i \in 1 .. n + 1 : i \in 1 .. n \/ i = n + 1
        BY <4>1
      <4>4. n + 1 <= Len(wal.frames)
        BY <3>2, <4>1
      <4> QED
        BY <2>1, <4>1, <4>2, <4>3, <4>4
    <3> QED
      BY <1>5, <3>1, <3>2
  <2>3. copy'.wal.salt = wal.salt
    BY <1>5, <2>1
  <2>4. \A p \in DOMAIN copy'.main : Untouched(p)' => p <= Len(Committed) /\ copy'.main[p] = Committed[p]
    BY <1>5, <1>6, <2>1
  <2> QED
    BY <1>6, <2>2, <2>3, <2>4 DEF CopiedSoFar
<1>9. CalmCopied'
  <2> SUFFICES ASSUME ~ before.wal.exists, ~ moved.main PROVE Calm'
    BY <1>1, <1>2, <1>6 DEF CalmCopied
  <2>1. Calm
    BY <1>2 DEF IInv, CopyInv, CalmCopied
  <2> QED
    BY <1>1, <1>5, <1>6, <2>1 DEF Calm
<1> QED
  BY <1>6, <1>7, <1>8, <1>9 DEF IInv, CopyInv

LEMMA ReadMainFits ==
    ASSUME IInv, ReadMain
    PROVE  IInv'
<1> DEFINE n == Len(copy.main)
<1>1. /\ pc = "read main" /\ files' = files /\ times' = times
      /\ attempt' = attempt /\ before' = before /\ since' = since
      /\ \/ /\ n < Len(main) /\ pc' = "read main"
            /\ copy' = [copy EXCEPT !.main = Append(copy.main, main[n + 1])]
         \/ copy' = copy /\ pc' = "stat main again"
  BY DEF ReadMain
<1>2. pc \in Reading \ {"stat wal again"} /\ pc' \in Reading \ {"stat wal again"}
  BY <1>1 DEF Reading
<1>3. /\ copy \in [wal : Logs, main : Image] /\ copy.main \in Image
      /\ Len(copy.main) <= Len(main)
  BY DEF IInv, ReaderTyped
<1>4. copy.main \in Seq(Nat) /\ main \in Seq(Nat)
  BY <1>3 DEF IInv, FilesFit, FilesTyped, Image
<1>5. /\ copy' \in [wal : Logs, main : Image] /\ copy'.wal = copy.wal
      /\ \/ /\ n < Len(main) /\ main[n + 1] \in Nat
            /\ copy'.main = Append(copy.main, main[n + 1])
         \/ copy'.main = copy.main
  <2>1. CASE copy' = copy
    BY <1>3, <2>1
  <2>2. CASE n < Len(main) /\ copy' = [copy EXCEPT !.main = Append(copy.main, main[n + 1])]
    <3>1. main[n + 1] \in Nat
      BY <1>4, <2>2
    <3>2. Append(copy.main, main[n + 1]) \in Image
      BY <1>4, <3>1 DEF Image
    <3> QED
      BY <1>3, <2>2, <3>1, <3>2
  <2> QED
    BY <1>1, <2>1, <2>2
<1>6. /\ Len(copy'.main) <= Len(main)
      /\ \A p \in DOMAIN copy'.main :
            \/ p \in DOMAIN copy.main /\ copy'.main[p] = copy.main[p]
            \/ p \in 1 .. Len(main) /\ copy'.main[p] = main[p]
  <2>1. CASE copy'.main = copy.main
    BY <1>3, <2>1
  <2>2. CASE /\ n < Len(main) /\ main[n + 1] \in Nat
             /\ copy'.main = Append(copy.main, main[n + 1])
    <3>1. n \in Nat /\ Len(main) \in Nat /\ DOMAIN copy.main = 1 .. n
      BY <1>4
    <3>2. /\ Len(copy'.main) = n + 1 /\ DOMAIN copy'.main = 1 .. n + 1
          /\ \A i \in 1 .. n : copy'.main[i] = copy.main[i]
          /\ copy'.main[n + 1] = main[n + 1]
      BY <1>4, <2>2, AppendFacts
    <3>3. \A i \in 1 .. n + 1 : i \in 1 .. n \/ i = n + 1
      BY <3>1
    <3>4. n + 1 <= Len(main) /\ n + 1 \in 1 .. Len(main)
      BY <2>2, <3>1
    <3> QED
      BY <3>1, <3>2, <3>3, <3>4
  <2> QED
    BY <1>5, <2>1, <2>2
<1>7. /\ FilesFit' /\ ReaderTyped' /\ StatFits' /\ DoneFits' /\ (Still' <=> Still)
      /\ main' = main /\ wal' = wal /\ images' = images /\ late' = late /\ moved' = moved
      /\ Committed' = Committed /\ \A p : Untouched(p) <=> Untouched(p)'
  BY <1>1, <1>2, <1>5, <1>6, ReadingKeeps
<1>8. CopyFits'
  BY <1>1, <1>5 DEF IInv, CopyInv, CopyFits
<1>9. StillCopied'
  <2> SUFFICES ASSUME copy.wal.exists, Still PROVE CopiedSoFar'
    BY <1>1, <1>5, <1>7 DEF StillCopied
  <2>1. /\ copy.wal.salt = wal.salt
        /\ Len(copy.wal.frames) <= Len(wal.frames)
        /\ \A i \in DOMAIN copy.wal.frames : copy.wal.frames[i] = wal.frames[i]
        /\ \A p \in DOMAIN copy.main : Untouched(p) => p <= Len(Committed) /\ copy.main[p] = Committed[p]
    BY <1>2 DEF IInv, CopyInv, StillCopied, CopiedSoFar
  <2>2. ASSUME NEW p \in 1 .. Len(main), Untouched(p)
        PROVE  p <= Len(Committed) /\ main[p] = Committed[p]
    <3>1. Len(main) <= Len(Committed) /\ Len(Committed) \in Nat /\ Len(main) \in Nat
      BY CommittedFacts, FileLengths DEF IInv, FilesFit, Completes, Image
    <3>2. p \in 1 .. Len(Committed)
      BY <3>1
    <3> QED
      BY <2>2, <3>1, <3>2 DEF IInv, FilesFit, Completes
  <2>3. \A p \in DOMAIN copy'.main : Untouched(p) => p <= Len(Committed) /\ copy'.main[p] = Committed[p]
    BY <1>6, <2>1, <2>2
  <2> QED
    BY <1>5, <1>7, <2>1, <2>3 DEF CopiedSoFar
<1>10. CalmCopied'
  <2> SUFFICES ASSUME ~ before.wal.exists, ~ moved.main PROVE Calm'
    BY <1>1, <1>2, <1>7 DEF CalmCopied
  <2>1. Calm
    BY <1>2 DEF IInv, CopyInv, CalmCopied
  <2>2. \A p \in DOMAIN copy'.main : copy'.main[p] = main[p]
    BY <1>6, <2>1 DEF Calm
  <2> QED
    BY <1>1, <1>7, <2>1, <2>2 DEF Calm
<1> QED
  BY <1>7, <1>8, <1>9, <1>10 DEF IInv, CopyInv

LEMMA StatMainAgainFits ==
    ASSUME IInv, StatMainAgain
    PROVE  IInv'
<1>1. pc = "stat main again" /\ files' = files /\ pc \in Reading \ {"stat wal again"}
  BY DEF StatMainAgain, Reading
<1>2. CASE ~ MainUnchanged
  BY <1>1, <1>2, NextAttemptFits DEF StatMainAgain
<1>3. CASE MainUnchanged
  <2>1. /\ pc' = "stat wal again" /\ times' = times /\ attempt' = attempt
        /\ before' = before /\ copy' = copy /\ since' = since /\ pc' \in Reading
    BY <1>3 DEF StatMainAgain, Reading
  <2>2. /\ copy \in [wal : Logs, main : Image] /\ copy.main \in Image
        /\ Len(copy.main) <= Len(main)
    BY DEF IInv, ReaderTyped
  <2>3. /\ FilesFit' /\ ReaderTyped' /\ StatFits' /\ DoneFits' /\ (Still' <=> Still)
        /\ main' = main /\ wal' = wal /\ images' = images
        /\ Committed' = Committed
        /\ \A p : Untouched(p) <=> Untouched(p)'
        /\ \A pages : Completes(pages) <=> Completes(pages)'
    BY <1>1, <2>1, <2>2, ReadingKeeps
  <2>4. CopyFits'
    BY <2>1 DEF IInv, CopyInv, CopyFits
  <2>5. Len(copy.main) = Len(main) /\ ~ moved.main
    BY <1>3 DEF MainUnchanged
  <2>6. copy.main \in Seq(Nat) /\ main \in Seq(Nat)
    BY <2>2 DEF IInv, FilesFit, FilesTyped, Image
  <2>7. StillCopied'
    <3> SUFFICES ASSUME copy.wal.exists, Still
        PROVE  CopiedSoFar' /\ Completes(copy.main)'
      BY <2>1, <2>3 DEF StillCopied
    <3>1. CopiedSoFar
      BY <1>1 DEF IInv, CopyInv, StillCopied
    <3>2. CopiedSoFar'
      BY <2>1, <2>3, <3>1 DEF CopiedSoFar
    <3>3. Completes(copy.main)
      <4>1. /\ Len(main) <= Len(Committed)
            /\ \A p \in 1 .. Len(Committed) : Untouched(p) => p <= Len(main)
            /\ \A c \in Nat : Closed = 1 .. c => Len(Committed) <= Len(main) + c
        BY DEF IInv, FilesFit, Completes
      <4>2. \A p \in DOMAIN copy.main : Untouched(p) => copy.main[p] = Committed[p]
        BY <3>1 DEF CopiedSoFar
      <4>3. Len(Committed) \in Nat
        BY CommittedFacts DEF IInv, FilesFit, Image
      <4>4. ASSUME NEW p \in 1 .. Len(Committed), Untouched(p)
            PROVE  p <= Len(copy.main) /\ copy.main[p] = Committed[p]
        <5>1. p <= Len(copy.main)
          BY <2>5, <4>1, <4>4
        <5>2. p \in DOMAIN copy.main
          BY <2>6, <4>3, <5>1
        <5> QED
          BY <4>2, <4>4, <5>1, <5>2
      <4> QED
        BY <2>5, <4>1, <4>4 DEF Completes
    <3>4. Completes(copy.main)'
      BY <2>1, <2>3, <3>3 DEF Completes
    <3> QED
      BY <3>2, <3>4
  <2>8. CalmCopied'
    <3> SUFFICES ASSUME ~ before.wal.exists
        PROVE  \E i \in since .. Len(images) : copy.main = images[i]
      BY <2>1, <2>3 DEF CalmCopied
    <3>1. Calm
      BY <1>1, <2>5 DEF IInv, CopyInv, CalmCopied
    <3>2. \A p \in 1 .. Len(copy.main) : copy.main[p] = main[p]
      BY <2>6, <3>1 DEF Calm
    <3>3. copy.main = main
      BY <2>5, <2>6, <3>2, SameSequence
    <3> QED
      BY <3>1, <3>3 DEF Calm
  <2> QED
    BY <2>3, <2>4, <2>7, <2>8 DEF IInv, CopyInv
<1> QED
  BY <1>2, <1>3

LEMMA SameLogFile ==
    ASSUME NEW a \in Logs, NEW b \in Logs,
           a.exists = b.exists, a.salt = b.salt, a.frames = b.frames
    PROVE  a = b
BY DEF Logs

\* The copy of a log that is as it was is the log.
LEMMA CopyOfTheLog ==
    ASSUME IInv, pc = "stat wal again", before.wal.exists, WalUnchanged
    PROVE  Still /\ copy.wal.exists /\ copy.wal = wal
<1>1. /\ wal.exists /\ before.wal = State /\ ~ moved.wal
      /\ copy.wal.exists /\ Len(copy.wal.frames) = Len(wal.frames)
  BY DEF WalUnchanged, State
<1>2. Still
  BY <1>1 DEF Still
<1>3. CopiedSoFar
  BY <1>1, <1>2 DEF IInv, CopyInv, StillCopied, Reading
<1>4. wal \in Logs /\ copy.wal \in Logs
  BY DEF IInv, FilesFit, FilesTyped, ReaderTyped
<1>5. wal.frames \in Seq(Frames) /\ copy.wal.frames \in Seq(Frames)
  BY <1>4 DEF Logs
<1>6. \A i \in 1 .. Len(copy.wal.frames) : copy.wal.frames[i] = wal.frames[i]
  <2>1. DOMAIN copy.wal.frames = 1 .. Len(copy.wal.frames)
    BY <1>5, SequenceDomain
  <2>2. \A i \in DOMAIN copy.wal.frames : copy.wal.frames[i] = wal.frames[i]
    BY <1>3 DEF CopiedSoFar
  <2> QED
    BY <2>1, <2>2
<1>7. copy.wal.frames = wal.frames
  BY <1>1, <1>5, <1>6, SameSequence
<1>8. copy.wal.exists = wal.exists
  <2>1. copy.wal.exists \in BOOLEAN /\ wal.exists \in BOOLEAN
    BY <1>4 DEF Logs
  <2> QED
    BY <1>1, <2>1
<1>9. copy.wal = wal
  <2>1. copy.wal.salt = wal.salt
    BY <1>3 DEF CopiedSoFar
  <2> QED
    BY <1>4, <1>7, <1>8, <2>1, SameLogFile
<1> QED
  BY <1>1, <1>2, <1>9

LEMMA StatWalAgainFits ==
    ASSUME IInv, StatWalAgain
    PROVE  IInv'
<1>1. pc = "stat wal again" /\ files' = files /\ pc \in Reading
  BY DEF StatWalAgain, Reading
<1>2. CASE ~ WalUnchanged
  BY <1>1, <1>2, NextAttemptFits DEF StatWalAgain
<1>3. CASE WalUnchanged
  <2>1. /\ pc' = "done" /\ times' = times /\ attempt' = attempt
        /\ before' = before /\ copy' = copy /\ since' = since
    BY <1>3 DEF StatWalAgain
  <2>2. /\ FilesFit' /\ main' = main /\ wal' = wal /\ log' = log /\ images' = images
        /\ Committed' = Committed
        /\ \A p : Untouched(p) <=> Untouched(p)'
        /\ \A pages : Completes(pages) <=> Completes(pages)'
    BY <1>1, SameFiles DEF IInv
  <2>3. late' = late /\ moved' = moved
    BY <2>1 DEF times
  <2>4. ReaderTyped'
    BY <1>1, <2>1, <2>2, <2>3 DEF IInv, ReaderTyped
  <2>5. StatFits'
    BY <2>1 DEF StatFits, Reading
  <2>6. CopyFits'
    BY <2>1 DEF IInv, CopyInv, CopyFits
  <2>7. Still' <=> Still
    BY <2>1, <2>2, <2>3 DEF Still, State
  <2>8. StillCopied'
    <3> SUFFICES ASSUME copy.wal.exists, Still
        PROVE  CopiedSoFar' /\ Completes(copy.main)'
      BY <2>1, <2>7 DEF StillCopied
    <3>1. CopiedSoFar /\ Completes(copy.main)
      BY <1>1 DEF IInv, CopyInv, StillCopied
    <3>2. CopiedSoFar'
      BY <2>1, <2>2, <3>1 DEF CopiedSoFar
    <3>3. Completes(copy.main)'
      BY <2>1, <2>2, <3>1 DEF Completes
    <3> QED
      BY <3>2, <3>3
  <2>9. CalmCopied'
    BY <1>1, <2>1, <2>2 DEF IInv, CopyInv, CalmCopied, Reading
  <2>10. DoneFits'
    <3>1. CASE before.wal.exists
      <4>1. Still /\ copy.wal = wal
        BY <1>1, <1>3, <3>1, CopyOfTheLog
      <4> QED
        BY <2>1, <2>2, <2>7, <3>1, <4>1 DEF DoneFits
    <3>2. CASE ~ before.wal.exists
      <4>1. ~ copy.wal.exists
        <5>1. copy.wal.exists = before.wal.exists
          BY <1>3 DEF WalUnchanged
        <5> QED
          BY <3>2, <5>1
      <4>2. copy.wal = NoWal
        BY <4>1 DEF IInv, CopyInv, CopyFits
      <4> QED
        BY <2>1, <3>2, <4>2 DEF DoneFits
    <3> QED
      BY <3>1, <3>2
  <2> QED
    BY <2>2, <2>4, <2>5, <2>6, <2>8, <2>9, <2>10 DEF IInv, CopyInv
<1> QED
  BY <1>2, <1>3

LEMMA Stutters ==
    ASSUME IInv, UNCHANGED vars
    PROVE  IInv'
<1>1. files' = files /\ late' = late /\ moved' = moved /\ reader' = reader
  BY DEF vars, times
<1>2. /\ FilesFit' /\ main' = main /\ wal' = wal /\ log' = log /\ images' = images
      /\ Committed' = Committed
      /\ \A p : Untouched(p) <=> Untouched(p)'
      /\ \A pages : Completes(pages) <=> Completes(pages)'
  BY <1>1, SameFiles DEF IInv
<1>3. pc' = pc /\ attempt' = attempt /\ before' = before /\ copy' = copy /\ since' = since
  BY <1>1, ReaderFacts
<1>4. ReaderTyped'
  BY <1>1, <1>2, <1>3 DEF IInv, ReaderTyped
<1>5. StatFits' /\ CopyFits'
  BY <1>2, <1>3 DEF IInv, CopyInv, StatFits, CopyFits
<1>6. (Still' <=> Still) /\ (Calm' <=> Calm) /\ (CopiedSoFar' <=> CopiedSoFar)
  <2>1. Still' <=> Still
    BY <1>1, <1>2, <1>3 DEF Still, State
  <2>2. Calm' <=> Calm
    BY <1>1, <1>2, <1>3 DEF Calm
  <2>3. CopiedSoFar' <=> CopiedSoFar
    BY <1>2, <1>3 DEF CopiedSoFar
  <2> QED
    BY <2>1, <2>2, <2>3
<1>7. Completes(copy.main) => Completes(copy.main)'
  BY <1>2, <1>3 DEF Completes
<1>8. StillCopied' /\ DoneFits'
  BY <1>2, <1>3, <1>6, <1>7 DEF IInv, CopyInv, StillCopied, DoneFits
<1>9. CalmCopied'
  BY <1>1, <1>2, <1>3, <1>6 DEF IInv, CopyInv, CalmCopied
<1> QED
  BY <1>2, <1>4, <1>5, <1>8, <1>9 DEF IInv, CopyInv

LEMMA StepFits ==
    ASSUME IInv, [Next]_vars
    PROVE  IInv'
<1>1. CASE Reader
  BY <1>1, StatMainFits, StatWalFits, OpenWalFits, ReadWalFits, ReadMainFits,
     StatMainAgainFits, StatWalAgainFits DEF Reader
<1>2. CASE pc \notin {"done", "unstable"} /\ Telegram
  BY <1>2, TelegramFits
<1>3. CASE UNCHANGED vars
  BY <1>3, Stutters
<1> QED
  BY <1>1, <1>2, <1>3 DEF Next

\* The invariant holds in every reachable state.
LEMMA Invariance == Spec => []IInv
<1>1. Init => IInv
  BY InitFits
<1>2. IInv /\ [Next]_vars => IInv'
  BY StepFits
<1> QED
  BY <1>1, <1>2, PTL DEF Spec

-----------------------------------------------------------------------------
(***************************************************************************)
(* ApplySQLCipherV4WAL on the files as they are.                           *)
(***************************************************************************)
\* The frames that count are those of the log, and each holds its entry.
LEMMA ValidFramesAreTheLog ==
    ASSUME FilesFit, wal.exists
    PROVE  /\ ValidFrames(wal) = 1 .. Len(log)
           /\ \A i \in 1 .. Len(log) : Entry(wal, i) = log[i]
<1>1. /\ log \in Seq(Entries) /\ DOMAIN log = 1 .. Len(log) /\ Len(log) \in Nat
      /\ wal.frames \in Seq(Frames)
  <2>1. wal \in Logs
    BY DEF FilesFit, FilesTyped
  <2>2. wal.frames \in Seq(Frames)
    BY <2>1 DEF Logs
  <2> QED
    BY <2>2 DEF FilesFit, FilesTyped
<1>2. /\ DOMAIN wal.frames = 1 .. Len(wal.frames) /\ Len(wal.frames) \in Nat
      /\ \A i \in DOMAIN wal.frames : wal.frames[i].salt \in Nat
  <2>1. \A i \in DOMAIN wal.frames : wal.frames[i] \in Frames
    BY <1>1
  <2>2. \A i \in DOMAIN wal.frames : wal.frames[i].salt \in Nat
    BY <2>1 DEF Frames
  <2> QED
    BY <1>1, <2>2
<1>3. /\ Len(log) <= Len(wal.frames)
      /\ \A i \in 1 .. Len(log) : wal.frames[i] = [salt |-> wal.salt, sum |-> SubSeq(log, 1, i)]
      /\ \A i \in DOMAIN wal.frames : i > Len(log) => wal.frames[i].salt < wal.salt
  BY <1>1 DEF FilesFit, WalFits
<1>4. \A i \in 1 .. Len(log) : wal.frames[i].salt = wal.salt /\ wal.frames[i].sum = SubSeq(log, 1, i)
  <2> SUFFICES ASSUME NEW i \in 1 .. Len(log)
      PROVE  wal.frames[i].salt = wal.salt /\ wal.frames[i].sum = SubSeq(log, 1, i)
    OBVIOUS
  <2>1. wal.frames[i] = [salt |-> wal.salt, sum |-> SubSeq(log, 1, i)]
    BY <1>3
  <2> QED
    BY <2>1
<1>5. wal.salt \in Nat
  <2>1. wal \in Logs
    BY DEF FilesFit, FilesTyped
  <2> QED
    BY <2>1 DEF Logs
<1>6. ASSUME NEW i \in 1 .. Len(log) PROVE Continues(wal, i)
  <2>1. ASSUME NEW j \in 1 .. i PROVE wal.frames[j].sum = SubSeq(wal.frames[i].sum, 1, j)
    <3>1. j \in 1 .. Len(log) /\ i \in 0 .. Len(log) /\ j \in 0 .. i
      BY <1>1
    <3>2. SubSeq(SubSeq(log, 1, i), 1, j) = SubSeq(log, 1, j)
      BY <1>1, <3>1, PrefixOfPrefix
    <3> QED
      BY <1>4, <3>1, <3>2
  <2> QED
    BY <1>4, <2>1 DEF Continues
<1>7. ASSUME NEW i \in DOMAIN wal.frames, i \notin 1 .. Len(log) PROVE ~ Continues(wal, i)
  <2>1. i > Len(log)
    BY <1>1, <1>2, <1>7
  <2>2. wal.frames[i].salt < wal.salt /\ wal.frames[i].salt \in Nat
    BY <1>2, <1>3, <2>1
  <2>3. wal.frames[i].salt # wal.salt
    BY <1>5, <2>2
  <2> QED
    BY <2>3 DEF Continues
<1>8. ValidFrames(wal) = 1 .. Len(log)
  <2>1. ASSUME NEW i \in 1 .. Len(log) PROVE i \in ValidFrames(wal)
    <3>1. i \in DOMAIN wal.frames
      BY <1>1, <1>2, <1>3
    <3>2. \A j \in 1 .. i : j \in 1 .. Len(log)
      BY <1>1
    <3> QED
      BY <1>6, <3>1, <3>2 DEF ValidFrames
  <2>2. ASSUME NEW i \in ValidFrames(wal) PROVE i \in 1 .. Len(log)
    <3>1. i \in DOMAIN wal.frames /\ \A j \in 1 .. i : Continues(wal, j)
      BY DEF ValidFrames
    <3>2. i \in 1 .. i
      BY <1>2, <3>1
    <3> QED
      BY <1>7, <3>1, <3>2
  <2> QED
    BY <2>1, <2>2
<1>9. ASSUME NEW i \in 1 .. Len(log) PROVE Entry(wal, i) = log[i]
  <2>1. i \in 0 .. Len(log) /\ i \in 1 .. i
    BY <1>1
  <2>2. Len(SubSeq(log, 1, i)) = i /\ SubSeq(log, 1, i)[i] = log[i]
    BY <1>1, <2>1, PrefixFacts
  <2> QED
    BY <1>4, <2>2 DEF Entry, Last
<1> QED
  BY <1>8, <1>9

\* What completes the committed frames replays to the image.
LEMMA ReplaysCommitted ==
    ASSUME FilesFit, wal.exists, NEW pages \in Image, Completes(pages)
    PROVE  Replayed(pages, wal) = Committed
<1>1. PICK c \in 0 .. Len(log) :
              /\ Closed = 1 .. c
              /\ c > 0 => log[c].size = Len(Committed)
              /\ OpenFits(c)
  BY OpenFacts DEF FilesFit
<1>2. /\ ValidFrames(wal) = 1 .. Len(log)
      /\ \A i \in 1 .. Len(log) : Entry(wal, i) = log[i]
  BY ValidFramesAreTheLog
<1>3. /\ Committed \in Seq(Nat) /\ Len(Committed) \in Nat \ {0} /\ Len(log) \in Nat
      /\ pages \in Seq(Nat)
  <2>1. Committed \in Seq(Nat)
    BY CommittedFacts DEF FilesFit, Image
  <2>2. Len(main) \in Nat \ {0} /\ Len(main) <= Len(Committed)
    BY FileLengths DEF FilesFit, Completes
  <2>3. log \in Seq(Entries)
    BY DEF FilesFit, FilesTyped
  <2> QED
    BY <2>1, <2>2, <2>3 DEF Image
<1>4. Commits(wal) = {i \in 1 .. Len(log) : log[i].size # 0}
  BY <1>2 DEF Commits
<1>5. \A i \in Commits(wal) : i \in 1 .. c
  <2> SUFFICES ASSUME NEW i \in 1 .. Len(log), log[i].size # 0 PROVE i \in 1 .. c
    BY <1>4
  <2>1. i \notin c + 1 .. Len(log)
    BY <1>1 DEF OpenFits
  <2> QED
    BY <1>3, <2>1
<1>6. CASE c = 0
  <2>1. Commits(wal) = {}
    BY <1>5, <1>6
  <2>2. Closed = {}
    BY <1>1, <1>6
  <2>3. pages = Committed
    BY <2>2, NothingClosed DEF FilesFit
  <2> QED
    BY <2>1, <2>3 DEF Replayed
<1>7. CASE c # 0
  <2>1. c \in 1 .. Len(log) /\ c \in Nat /\ log[c].size = Len(Committed)
    BY <1>1, <1>3, <1>7
  <2>2. c \in Commits(wal)
    BY <1>3, <1>4, <2>1
  <2>3. LastOf(Commits(wal)) = c
    <3>1. Commits(wal) \in SUBSET Nat /\ \A j \in Commits(wal) : j <= c
      BY <1>5
    <3> QED
      BY <2>2, <3>1, LastOfIs
  <2>4. Entry(wal, c).size = Len(Committed)
    BY <1>2, <2>1
  <2>5. ~ (Len(Committed) > Len(pages) + c + 1)
    <3>1. Len(Committed) <= Len(pages) + c
      BY <1>1, <2>1 DEF Completes
    <3> QED
      BY <1>3, <2>1, <3>1
  <2> DEFINE frames(p) == {i \in 1 .. c : Entry(wal, i).page = p}
             value(p) == IF frames(p) # {} THEN Entry(wal, LastOf(frames(p))).value
                         ELSE IF p <= Len(pages) THEN pages[p] ELSE 0
  <2>6. Replayed(pages, wal) = [p \in 1 .. Len(Committed) |-> value(p)]
    BY <2>2, <2>3, <2>4, <2>5 DEF Replayed
  <2>7. ASSUME NEW p \in 1 .. Len(Committed) PROVE value(p) = Committed[p]
    <3>1. \A i \in 1 .. c : i \in 1 .. Len(log) /\ Entry(wal, i) = log[i]
      BY <1>2, <1>3
    <3>2. CASE frames(p) = {}
      <4>1. Untouched(p)
        BY <1>1, <3>1, <3>2 DEF Untouched
      <4> QED
        BY <3>2, <4>1 DEF Completes
    <3>3. CASE frames(p) # {}
      <4> DEFINE l == LastOf(frames(p))
      <4>1. l \in frames(p) /\ \A j \in frames(p) : j <= l
        <5>1. frames(p) \in SUBSET (1 .. c)
          OBVIOUS
        <5> HIDE DEF frames
        <5> QED
          BY <2>1, <3>3, <5>1, LastOfIsLast
      <4> HIDE DEF l
      <4>2. l \in 1 .. c /\ Entry(wal, l) = log[l] /\ log[l].page = p
        BY <3>1, <4>1
      <4>3. LastOfPage(l)
        BY <1>1, <3>1, <4>1, <4>2 DEF LastOfPage
      <4>4. log[l].value = Committed[p]
        BY <1>1, <4>2, <4>3 DEF FilesFit, LogFits
      <4>5. value(p) = Entry(wal, l).value
        BY <3>3 DEF l
      <4> QED
        BY <4>2, <4>4, <4>5
    <3> QED
      BY <3>2, <3>3
  <2> HIDE DEF value
  <2>8. Committed = [p \in 1 .. Len(Committed) |-> Committed[p]]
    BY <1>3
  <2> QED
    BY <2>6, <2>7, <2>8
<1> QED
  BY <1>6, <1>7

\* Without a log the main file is the image.
LEMMA NoLogReplays ==
    ASSUME NEW pages
    PROVE  Replayed(pages, NoWal) = pages
<1>1. DOMAIN NoWal.frames = {}
  BY DEF NoWal
<1>2. Commits(NoWal) = {}
  BY <1>1 DEF Commits, ValidFrames
<1> QED
  BY <1>2 DEF Replayed

-----------------------------------------------------------------------------
(***************************************************************************)
(* The theorems.                                                           *)
(***************************************************************************)
\* readSQLiteSnapshot and the files it reads keep their shapes and bounds,
\* whatever Telegram does between its reads; it gives up exactly when
\* sqliteSnapshotAttempts are used up.
THEOREM TypeCorrect == Spec => []TypeOK
<1>1. IInv => TypeOK
  <2> SUFFICES ASSUME IInv PROVE TypeOK
    OBVIOUS
  <2>1. Len(main) \in Pages /\ Len(images) \in 1 .. MaxCommits + 1 /\ Len(log) <= MaxFrames
    BY DEF IInv, FilesFit, FilesTyped
  <2>2. wal.exists \in BOOLEAN /\ Len(wal.frames) <= MaxFrames
    BY StatSizes DEF IInv, FilesFit, FilesTyped
  <2>3. /\ attempt \in 1 .. Attempts + 1 /\ (pc = "unstable" <=> attempt = Attempts + 1)
        /\ since \in 1 .. Len(images) /\ Len(copy.main) <= Len(main)
    BY DEF IInv, ReaderTyped
  <2> QED
    BY <2>1, <2>2, <2>3 DEF TypeOK
<1> QED
  BY <1>1, Invariance, PTL

\* readSQLiteSnapshot: "both come from one consistent snapshot".  For any
\* number of pages, frames, commits and restarts of Telegram, what
\* ApplySQLCipherV4WAL makes of an accepted pair of files is an image that
\* Telegram committed, and none from before the attempt.
THEOREM CopiesAreCommitted == Spec => []SnapshotIsCommitted
<1>1. IInv => SnapshotIsCommitted
  <2> SUFFICES ASSUME IInv, pc = "done"
      PROVE  \E i \in since .. Len(images) : Replayed(copy.main, copy.wal) = images[i]
    BY DEF SnapshotIsCommitted
  <2>1. CASE before.wal.exists
    <3>1. Still /\ copy.wal = wal /\ wal.exists
      BY <2>1 DEF IInv, CopyInv, DoneFits, Still
    <3>2. Completes(copy.main)
      BY <3>1 DEF IInv, CopyInv, StillCopied
    <3>3. copy.main \in Image
      BY DEF IInv, ReaderTyped
    <3>4. Replayed(copy.main, copy.wal) = images[Len(images)]
      BY <3>1, <3>2, <3>3, ReplaysCommitted DEF IInv, Committed, Last
    <3>5. Len(images) \in since .. Len(images)
      BY CopyLengths, FileLengths DEF IInv
    <3> QED
      BY <3>4, <3>5
  <2>2. CASE ~ before.wal.exists
    <3>1. copy.wal = NoWal
      BY <2>2 DEF IInv, CopyInv, DoneFits
    <3>2. \E i \in since .. Len(images) : copy.main = images[i]
      BY <2>2 DEF IInv, CopyInv, CalmCopied
    <3> QED
      BY <3>1, <3>2, NoLogReplays
  <2> QED
    BY <2>1, <2>2
<1> QED
  BY <1>1, Invariance, PTL
=============================================================================
