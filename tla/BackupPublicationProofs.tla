---------------------- MODULE BackupPublicationProofs ----------------------
(***************************************************************************)
(* Proofs about BackupPublication, for any number of processes, checkouts, *)
(* shards and checkpoints.                                                 *)
(***************************************************************************)
EXTENDS BackupPublication, WellFoundedInduction, TLAPS

-----------------------------------------------------------------------------
(***************************************************************************)
(* The inductive invariant.  The first part holds however the processes    *)
(* share the checkouts: the types, that every manifest there is was once   *)
(* exported, how far a pull has come, and that the checkpoint a push is    *)
(* about to publish names a commit of the branch it publishes.             *)
(***************************************************************************)
Manifest == Exported \cup {<<>>}

BranchFits(branch) ==
    /\ branch \in Seq(Commit) /\ Len(branch) <= MaxCommits
    /\ \A i \in DOMAIN branch : branch[i].manifest \in Manifest

RemoteFits ==
    /\ BranchFits(remote)
    /\ remoteTags \in [Tag -> 0 .. Len(remote)]

HeadsFit ==
    /\ head \in [Checkout -> Seq(Commit)]
    /\ \A c \in Checkout : BranchFits(head[c])

LocalTagsFit == localTags \in [Checkout -> [Tag -> Seq(Commit)]]

TreesFit == tree \in [Checkout -> [manifest : Manifest, files : Maps]]

ReadSoFar(r) ==
    /\ r.snapshot \in Exported
    /\ DOMAIN r.data = Owned(r.snapshot) \ r.todo
    /\ \A s \in DOMAIN r.data : r.data[s] = r.snapshot[s]

ProcFits(p) ==
    LET c == CheckoutOf[p]
        r == proc[p]
    IN  /\ r.snapshot \in Manifest
        /\ r.todo \subseteq Owned(r.snapshot)
        /\ r.pc = "read" => ReadSoFar(r)
        /\ r.pc = "publish" /\ r.tag # NoTag => Len(localTags[c][r.tag]) \in 1 .. Len(head[c])

ProcsFit ==
    /\ proc \in [Process -> ProcType]
    /\ \A p \in Process : ProcFits(p)

Fits == RemoteFits /\ HeadsFit /\ LocalTagsFit /\ TreesFit /\ ProcsFit

(***************************************************************************)
(* The second part needs a checkout of its own for each process: a push    *)
(* finds its checkout as it left it, from the first shard to the upload.   *)
(***************************************************************************)
Apart == \A p, q \in Process : CheckoutOf[p] = CheckoutOf[q] => p = q

AllVerified(branch) ==
    \A i \in DOMAIN branch : Verified(At(branch, i - 1), branch[i])

Publishing(p) == proc[p].pc = "publish" \/ (proc[p].pc = "tag" /\ proc[p].push)

PushFits(p) ==
    LET c == CheckoutOf[p]
        r == proc[p]
    IN  /\ Writing(p) => DOMAIN tree[c].files \subseteq Owned(r.old) \cup (Owned(r.snapshot) \ r.todo)
        /\ r.pc = "close" /\ "manifest" \notin r.closing => tree[c].manifest = r.snapshot
        /\ r.pc \in {"verify", "tag", "publish"} => Tip(head[c]).manifest = r.snapshot
        /\ Publishing(p) => AllVerified(head[c])

IInv ==
    /\ Apart
    /\ Fits
    /\ AllVerified(remote)
    /\ \A p \in Process : PushFits(p)

-----------------------------------------------------------------------------
(***************************************************************************)
(* Files and manifests.                                                    *)
(***************************************************************************)
LEMMA MapFacts ==
    \A f : f \in Maps <=> \E D \in SUBSET Path : f \in [D -> Text]
BY DEF Maps

LEMMA EmptyIsMap == <<>> \in Maps /\ DOMAIN <<>> = {}
<1>1. <<>> \in [{} -> Text]
  OBVIOUS
<1> QED
  BY <1>1 DEF Maps

LEMMA StagedIsMap ==
    ASSUME NEW f \in Maps, NEW g \in Maps, NEW S
    PROVE  Staged(f, g, S) \in Maps
<1>1. PICK D \in SUBSET Path : f \in [D -> Text]
  BY MapFacts
<1>2. PICK E \in SUBSET Path : g \in [E -> Text]
  BY MapFacts
<1>3. Staged(f, g, S) \in [(D \ S) \cup (E \cap S) -> Text]
  BY <1>1, <1>2 DEF Staged
<1>4. (D \ S) \cup (E \cap S) \in SUBSET Path
  BY <1>1, <1>2
<1> QED
  BY <1>3, <1>4, MapFacts

LEMMA SweptIsMap ==
    ASSUME NEW f \in Maps, NEW e
    PROVE  Swept(f, e) \in Maps
<1>1. PICK D \in SUBSET Path : f \in [D -> Text]
  BY MapFacts
<1>2. Swept(f, e) \in [D \cap DOMAIN e -> Text]
  BY <1>1 DEF Swept
<1>3. D \cap DOMAIN e \in SUBSET Path
  BY <1>1
<1> QED
  BY <1>2, <1>3, MapFacts

\* Two manifests that list the same shards with the same texts are one.
LEMMA SameMap ==
    ASSUME NEW f \in Maps, NEW g \in Maps, DOMAIN f = DOMAIN g,
           \A s \in DOMAIN f : f[s] = g[s]
    PROVE  f = g
<1>1. PICK D \in SUBSET Path : f \in [D -> Text]
  BY MapFacts
<1>2. g \in [D -> Text]
  BY <1>1, MapFacts
<1> QED
  BY <1>1, <1>2

LEMMA ExportsAreMaps == \A e \in Exported : e \in Maps /\ e # <<>>
<1>1. Exports \in [Checkout -> SUBSET (Maps \ {<<>>})]
  BY PublicationAssumption
<1>2. ASSUME NEW e \in Exported PROVE e \in Maps \ {<<>>}
  BY <1>1, <1>2 DEF Exported, Range
<1> QED
  BY <1>2

LEMMA ExportOf == \A c \in Checkout : \A e \in Exports[c] : e \in Exported
BY PublicationAssumption DEF Exported, Range

-----------------------------------------------------------------------------
(***************************************************************************)
(* Processes.                                                              *)
(***************************************************************************)
LEMMA IdleType == Idle \in ProcType
BY EmptyIsMap, PublicationAssumption DEF Idle, ProcType, Phase, Closing

LEMMA AdvanceFacts ==
    ASSUME NEW p \in Process, NEW pc \in Phase, proc \in [Process -> ProcType], Advance(p, pc)
    PROVE  /\ proc' \in [Process -> ProcType]
           /\ \A q \in Process : q # p => proc'[q] = proc[q]
           /\ pc = "idle" => proc'[p] = Idle
           /\ pc # "idle" =>
                /\ proc'[p].pc = pc
                /\ proc'[p].old = <<>>
                /\ proc'[p].snapshot = proc[p].snapshot
                /\ proc'[p].todo = proc[p].todo
                /\ proc'[p].closing = proc[p].closing
                /\ proc'[p].push = proc[p].push
                /\ proc'[p].tag = proc[p].tag
                /\ proc'[p].data = proc[p].data
BY IdleType, EmptyIsMap DEF Advance, ProcType

-----------------------------------------------------------------------------
(***************************************************************************)
(* Branches.                                                               *)
(***************************************************************************)
LEMMA ManifestsAreMaps == Manifest \subseteq Maps
BY ExportsAreMaps, EmptyIsMap DEF Manifest

LEMMA AtFits ==
    ASSUME NEW branch, BranchFits(branch), NEW i \in 0 .. Len(branch)
    PROVE  /\ At(branch, i).manifest \in Manifest
           /\ At(branch, i).files \in Maps
           /\ At(branch, i).stray \in BOOLEAN
<1>1. CASE i = 0
  BY <1>1, EmptyIsMap DEF At, Root, Manifest
<1>2. CASE i # 0
  <2>1. i \in DOMAIN branch /\ branch[i] \in Commit
    BY <1>2 DEF BranchFits
  <2> QED
    BY <1>2, <2>1 DEF At, BranchFits, Commit
<1> QED
  BY <1>1, <1>2

LEMMA TipFits ==
    ASSUME NEW branch, BranchFits(branch)
    PROVE  /\ Tip(branch).manifest \in Manifest
           /\ Tip(branch).files \in Maps
           /\ Tip(branch).stray \in BOOLEAN
<1>1. Len(branch) \in 0 .. Len(branch)
  BY DEF BranchFits
<1> QED
  BY <1>1, AtFits DEF Tip

LEMMA AppendFits ==
    ASSUME NEW branch, BranchFits(branch), NEW c \in Checkout, NEW t,
           t.manifest \in Manifest, t.files \in Maps, t.stray \in BOOLEAN,
           Len(branch) < MaxCommits
    PROVE  /\ BranchFits(Append(branch, Stamped(t, c)))
           /\ Len(Append(branch, Stamped(t, c))) = Len(branch) + 1
           /\ Tip(Append(branch, Stamped(t, c))) = Stamped(t, c)
           /\ \A i \in 0 .. Len(branch) : At(Append(branch, Stamped(t, c)), i) = At(branch, i)
<1> DEFINE x == Stamped(t, c)
           long == Append(branch, x)
<1>1. x \in Commit /\ x.manifest \in Manifest
  BY ManifestsAreMaps DEF Stamped, Commit
<1> HIDE DEF x
<1>2. /\ long \in Seq(Commit) /\ Len(long) = Len(branch) + 1
      /\ \A i \in 1 .. Len(branch) : long[i] = branch[i]
      /\ long[Len(branch) + 1] = x
  BY <1>1 DEF BranchFits
<1> HIDE DEF long
<1>3. BranchFits(long)
  <2>1. ASSUME NEW i \in DOMAIN long PROVE long[i].manifest \in Manifest
    BY <1>1, <1>2, <2>1 DEF BranchFits
  <2>2. Len(long) <= MaxCommits
    BY <1>2, PublicationAssumption DEF BranchFits
  <2> QED
    BY <1>2, <2>1, <2>2 DEF BranchFits
<1>4. Tip(long) = x
  BY <1>2 DEF Tip, At, BranchFits
<1>5. \A i \in 0 .. Len(branch) : At(long, i) = At(branch, i)
  BY <1>2 DEF At
<1> QED
  BY <1>2, <1>3, <1>4, <1>5 DEF x, long

-----------------------------------------------------------------------------
(***************************************************************************)
(* The first part of the invariant.  A branch only gets longer, and a tag  *)
(* of a checkout stays where it is: what another process of the checkout   *)
(* has reached is not lost.                                                *)
(***************************************************************************)
Grows ==
    /\ \A c \in Checkout : Len(head[c]) <= Len(head'[c])
    /\ \A c \in Checkout, t \in Tag : localTags[c][t] # <<>> => localTags'[c][t] = localTags[c][t]

LEMMA FitsStep ==
    ASSUME Fits, RemoteFits', HeadsFit', LocalTagsFit', TreesFit', Grows,
           proc' \in [Process -> ProcType],
           \A q \in Process : proc'[q] = proc[q] \/ ProcFits(q)'
    PROVE  Fits'
<1>1. ASSUME NEW q \in Process, proc'[q] = proc[q] PROVE ProcFits(q)'
  <2> DEFINE c == CheckoutOf[q]
             t == proc[q].tag
  <2>1. ProcFits(q) /\ proc[q] \in ProcType /\ c \in Checkout
    BY PublicationAssumption DEF Fits, ProcsFit
  <2>2. ASSUME proc[q].pc = "publish", t # NoTag
        PROVE  Len(localTags'[c][t]) \in 1 .. Len(head'[c])
    <3>1. t \in Tag /\ Len(localTags[c][t]) \in 1 .. Len(head[c])
      BY <2>1, <2>2 DEF ProcFits, ProcType
    <3>2. localTags'[c][t] = localTags[c][t] /\ Len(head[c]) <= Len(head'[c])
      BY <2>1, <3>1 DEF Grows
    <3>3. head[c] \in Seq(Commit) /\ head'[c] \in Seq(Commit)
      BY <2>1 DEF Fits, HeadsFit, BranchFits
    <3>4. Len(head[c]) \in Nat /\ Len(head'[c]) \in Nat
      BY <3>3
    <3>5. \A k, m, n \in Nat : k \in 1 .. m /\ m <= n => k \in 1 .. n
      OBVIOUS
    <3>6. Len(localTags[c][t]) \in Nat
      BY <3>1, <3>4
    <3> HIDE DEF c, t
    <3> QED
      BY <3>1, <3>2, <3>4, <3>5, <3>6, Zenon
  <2> QED
    BY <1>1, <2>1, <2>2 DEF ProcFits
<1> QED
  BY <1>1 DEF Fits, ProcsFit

\* A step that leaves the repositories alone.
LEMMA ProcStep ==
    ASSUME Fits, NEW p \in Process, UNCHANGED <<remote, remoteTags, head, localTags>>, TreesFit',
           proc' \in [Process -> ProcType],
           \A q \in Process : q # p => proc'[q] = proc[q],
           ProcFits(p)'
    PROVE  Fits'
<1>1. RemoteFits' /\ HeadsFit' /\ LocalTagsFit' /\ Grows
  BY DEF Fits, RemoteFits, HeadsFit, LocalTagsFit, Grows
<1> QED
  BY <1>1, FitsStep

\* What is true of a process that does nothing.
LEMMA IdleFits ==
    ASSUME NEW p \in Process, proc'[p] = Idle
    PROVE  ProcFits(p)'
BY DEF ProcFits, Idle, Manifest

LEMMA ProcFacts ==
    ASSUME Fits, NEW p \in Process
    PROVE  /\ CheckoutOf[p] \in Checkout
           /\ proc \in [Process -> ProcType] /\ proc[p] \in ProcType
           /\ ProcFits(p)
BY PublicationAssumption DEF Fits, ProcsFit

LEMMA CheckoutFacts ==
    ASSUME Fits, NEW c \in Checkout
    PROVE  /\ BranchFits(head[c])
           /\ localTags[c] \in [Tag -> Seq(Commit)]
           /\ tree[c] \in [manifest : Manifest, files : Maps]
           /\ BranchFits(remote)
BY DEF Fits, HeadsFit, LocalTagsFit, TreesFit, RemoteFits

LEMMA PushStartFits ==
    ASSUME Fits, NEW p \in Process, PushStart(p)
    PROVE  Fits'
<1> DEFINE c == CheckoutOf[p]
<1>1. PICK e \in Exports[c], r \in Requests :
         proc' = [proc EXCEPT ![p] =
                    [Idle EXCEPT !.pc = "write", !.old = tree[c].manifest,
                                 !.snapshot = e, !.todo = DOMAIN e,
                                 !.push = r.push, !.tag = r.tag]]
  BY DEF PushStart
<1>2. c \in Checkout /\ e \in Exported /\ e \in Maps /\ tree[c].manifest \in Maps
  BY ProcFacts, CheckoutFacts, ExportOf, ExportsAreMaps, ManifestsAreMaps
<1>3. r.push \in BOOLEAN /\ r.tag \in Tag \cup {NoTag}
  BY PublicationAssumption
<1>4. DOMAIN e \subseteq Path
  BY <1>2, MapFacts
<1>5. proc'[p] = [pc |-> "write", old |-> tree[c].manifest, snapshot |-> e, todo |-> DOMAIN e,
                  closing |-> {}, push |-> r.push, tag |-> r.tag, data |-> <<>>]
  BY <1>1, ProcFacts DEF Idle
<1>6. proc'[p] \in ProcType
  BY <1>2, <1>3, <1>4, <1>5, EmptyIsMap DEF ProcType, Phase
<1>7. proc' \in [Process -> ProcType] /\ \A q \in Process : q # p => proc'[q] = proc[q]
  BY <1>1, <1>5, <1>6, ProcFacts
<1>8. ProcFits(p)'
  BY <1>2, <1>5 DEF ProcFits, Manifest, Owned
<1>9. UNCHANGED <<remote, remoteTags, head, localTags>> /\ TreesFit'
  BY DEF PushStart, TreesFit, Fits
<1> QED
  BY <1>7, <1>8, <1>9, ProcStep

LEMMA InitUploadFits ==
    ASSUME Fits, NEW p \in Process, InitUpload(p)
    PROVE  Fits'
<1> DEFINE c == CheckoutOf[p]
           m == Tip(head[c]).manifest
<1>1. m \in Manifest /\ m \in Maps
  BY ProcFacts, CheckoutFacts, TipFits, ManifestsAreMaps
<1>2. proc' = [proc EXCEPT ![p] = [Idle EXCEPT !.pc = "verify", !.push = TRUE, !.snapshot = m]]
  BY DEF InitUpload
<1> HIDE DEF m
<1>3. proc'[p] = [pc |-> "verify", old |-> <<>>, snapshot |-> m, todo |-> {},
                  closing |-> {}, push |-> TRUE, tag |-> NoTag, data |-> <<>>]
  BY <1>2, ProcFacts DEF Idle
<1>4. proc'[p] \in ProcType
  BY <1>1, <1>3, EmptyIsMap DEF ProcType, Phase
<1>5. proc' \in [Process -> ProcType] /\ \A q \in Process : q # p => proc'[q] = proc[q]
  BY <1>2, <1>3, <1>4, ProcFacts
<1>6. ProcFits(p)'
  BY <1>1, <1>3 DEF ProcFits
<1>7. UNCHANGED <<remote, remoteTags, head, localTags>> /\ TreesFit'
  BY DEF InitUpload, TreesFit, Fits
<1> QED
  BY <1>5, <1>6, <1>7, ProcStep

LEMMA TreeStep ==
    ASSUME Fits, NEW c \in Checkout, NEW t \in [manifest : Manifest, files : Maps],
           tree' = [tree EXCEPT ![c] = t]
    PROVE  TreesFit'
BY DEF Fits, TreesFit

LEMMA WriteShardFits ==
    ASSUME Fits, NEW p \in Process, WriteShard(p)
    PROVE  Fits'
<1> DEFINE c == CheckoutOf[p]
           r == proc[p]
<1>1. PICK s \in r.todo :
         /\ \/ UNCHANGED tree
            \/ tree' = [tree EXCEPT ![c].files = Staged(@, r.snapshot, {s})]
         /\ proc' = [proc EXCEPT
              ![p].todo = @ \ {s},
              ![p].pc = IF r.todo = {s} THEN "close" ELSE @,
              ![p].closing = IF r.todo = {s} THEN Closing ELSE @]
  BY DEF WriteShard
<1>2. /\ c \in Checkout /\ r \in ProcType /\ ProcFits(p)
      /\ tree[c] \in [manifest : Manifest, files : Maps]
  BY ProcFacts, CheckoutFacts
<1>3. TreesFit'
  <2>1. CASE UNCHANGED tree
    BY <2>1 DEF Fits, TreesFit
  <2>2. CASE tree' = [tree EXCEPT ![c].files = Staged(@, r.snapshot, {s})]
    <3>1. Staged(tree[c].files, r.snapshot, {s}) \in Maps
      BY <1>2, StagedIsMap DEF ProcType
    <3>2. [tree[c] EXCEPT !.files = Staged(tree[c].files, r.snapshot, {s})]
             \in [manifest : Manifest, files : Maps]
      BY <1>2, <3>1
    <3> QED
      BY <1>2, <2>2, <3>2, TreeStep
  <2> QED
    BY <1>1, <2>1, <2>2
<1>4. /\ proc' \in [Process -> ProcType]
      /\ \A q \in Process : q # p => proc'[q] = proc[q]
      /\ proc'[p].snapshot = r.snapshot
      /\ proc'[p].todo = r.todo \ {s}
      /\ proc'[p].pc \in {"write", "close"}
  BY <1>1, <1>2, ProcFacts DEF WriteShard, ProcType, Phase
<1>5. ProcFits(p)'
  BY <1>2, <1>4 DEF ProcFits
<1> QED
  BY <1>3, <1>4, <1>5, ProcStep DEF WriteShard

LEMMA SweepFits ==
    ASSUME Fits, NEW p \in Process, Sweep(p)
    PROVE  Fits'
<1> DEFINE c == CheckoutOf[p]
           r == proc[p]
           t == [tree[c] EXCEPT !.files = Swept(@, r.snapshot)]
<1>1. c \in Checkout /\ r \in ProcType /\ ProcFits(p) /\ tree[c] \in [manifest : Manifest, files : Maps]
  BY ProcFacts, CheckoutFacts
<1>2. Swept(tree[c].files, r.snapshot) \in Maps
  BY <1>1, SweptIsMap
<1>3. t \in [manifest : Manifest, files : Maps]
  BY <1>1, <1>2
<1>4. TreesFit'
  BY <1>1, <1>3, TreeStep DEF Sweep
<1>5. /\ proc' \in [Process -> ProcType]
      /\ \A q \in Process : q # p => proc'[q] = proc[q]
      /\ proc'[p].snapshot = r.snapshot
      /\ proc'[p].todo = r.todo
      /\ proc'[p].pc = "close"
  BY <1>1, ProcFacts DEF Sweep, ProcType
<1>6. ProcFits(p)'
  BY <1>1, <1>5 DEF ProcFits
<1> QED
  BY <1>4, <1>5, <1>6, ProcStep DEF Sweep

LEMMA WriteManifestFits ==
    ASSUME Fits, NEW p \in Process, WriteManifest(p)
    PROVE  Fits'
<1> DEFINE c == CheckoutOf[p]
           r == proc[p]
           t == [tree[c] EXCEPT !.manifest = r.snapshot]
<1>1. c \in Checkout /\ r \in ProcType /\ ProcFits(p) /\ tree[c] \in [manifest : Manifest, files : Maps]
  BY ProcFacts, CheckoutFacts
<1>2. t \in [manifest : Manifest, files : Maps]
  BY <1>1 DEF ProcFits
<1>3. TreesFit'
  BY <1>1, <1>2, TreeStep DEF WriteManifest
<1>4. /\ proc' \in [Process -> ProcType]
      /\ \A q \in Process : q # p => proc'[q] = proc[q]
      /\ proc'[p].snapshot = r.snapshot
      /\ proc'[p].todo = r.todo
      /\ proc'[p].pc = "close"
  BY <1>1, ProcFacts DEF WriteManifest, ProcType
<1>5. ProcFits(p)'
  BY <1>1, <1>4 DEF ProcFits
<1> QED
  BY <1>3, <1>4, <1>5, ProcStep DEF WriteManifest

\* A new commit on a checkout's branch.
LEMMA HeadStep ==
    ASSUME Fits, NEW c \in Checkout, NEW b, BranchFits(b), Len(head[c]) <= Len(b),
           head' = [head EXCEPT ![c] = b], UNCHANGED localTags
    PROVE  HeadsFit' /\ Grows
<1>1. HeadsFit
  BY DEF Fits
<1>2. b \in Seq(Commit)
  BY DEF BranchFits
<1>3. head' \in [Checkout -> Seq(Commit)] /\ \A d \in Checkout : head'[d] = IF d = c THEN b ELSE head[d]
  BY <1>1, <1>2 DEF HeadsFit
<1>4. \A d \in Checkout : BranchFits(head'[d])
  BY <1>1, <1>3 DEF HeadsFit
<1>5. \A d \in Checkout : Len(head[d]) \in Nat
  BY <1>1 DEF HeadsFit
<1> QED
  BY <1>3, <1>4, <1>5 DEF HeadsFit, Grows

LEMMA CommittedFits ==
    ASSUME Fits, NEW p \in Process
    PROVE  /\ Committed(p).manifest = tree[CheckoutOf[p]].manifest
           /\ Committed(p).manifest \in Manifest
           /\ Committed(p).files \in Maps
           /\ Committed(p).stray \in BOOLEAN
<1> DEFINE c == CheckoutOf[p]
           staged == Staged(Tip(head[c]).files, tree[c].files, OwnedPaths(p))
<1>1. BranchFits(head[c]) /\ tree[c] \in [manifest : Manifest, files : Maps]
  BY ProcFacts, CheckoutFacts
<1>2. Tip(head[c]).files \in Maps /\ Tip(head[c]).stray \in BOOLEAN
  BY <1>1, TipFits
<1>3. staged \in Maps
  BY <1>1, <1>2, StagedIsMap
<1>4. Committed(p) = [manifest |-> tree[c].manifest, files |-> staged, stray |-> Tip(head[c]).stray]
  BY DEF Committed
<1> HIDE DEF staged
<1> QED
  BY <1>1, <1>2, <1>3, <1>4

LEMMA AfterCommitIs ==
    ASSUME NEW p, proc[p] \in ProcType
    PROVE  /\ AfterCommit(p) \in {"verify", "tag", "idle"}
           /\ AfterCommit(p) = "verify" <=> proc[p].push
           /\ AfterCommit(p) \in Phase
<1>1. proc[p].push \in BOOLEAN
  BY DEF ProcType
<1>2. CASE proc[p].push = TRUE
  BY <1>2 DEF AfterCommit, Phase
<1>3. CASE proc[p].push = FALSE
  BY <1>3 DEF AfterCommit, Phase
<1> QED
  BY <1>1, <1>2, <1>3

LEMMA CommitPathsFits ==
    ASSUME Fits, NEW p \in Process, CommitPaths(p)
    PROVE  Fits'
<1> DEFINE c == CheckoutOf[p]
           r == proc[p]
           t == Committed(p)
<1>1. /\ c \in Checkout /\ r \in ProcType /\ ProcFits(p) /\ BranchFits(head[c])
      /\ proc \in [Process -> ProcType]
  BY ProcFacts, CheckoutFacts
<1>2. HeadsFit' /\ Grows
  <2>1. CASE UNCHANGED head
    <3>1. \A d \in Checkout : Len(head[d]) \in Nat
      BY DEF Fits, HeadsFit
    <3> QED
      BY <2>1, <3>1 DEF CommitPaths, Fits, HeadsFit, Grows
  <2>2. CASE /\ Len(head[c]) < MaxCommits
             /\ head' = [head EXCEPT ![c] = Append(@, Stamped(t, c))]
    <3> DEFINE b == Append(head[c], Stamped(t, c))
    <3>1. t.manifest \in Manifest /\ t.files \in Maps /\ t.stray \in BOOLEAN
      BY CommittedFits
    <3>2. BranchFits(b) /\ Len(b) = Len(head[c]) + 1
      BY <1>1, <2>2, <3>1, AppendFits
    <3>3. Len(head[c]) \in Nat
      BY <1>1 DEF BranchFits
    <3>4. head' = [head EXCEPT ![c] = b] /\ UNCHANGED localTags
      BY <2>2 DEF CommitPaths
    <3>5. Len(head[c]) <= Len(b)
      BY <3>2, <3>3
    <3> HIDE DEF b
    <3> QED
      BY <1>1, <3>2, <3>4, <3>5, HeadStep
  <2> QED
    BY <2>1, <2>2 DEF CommitPaths
<1>3. AfterCommit(p) \in Phase \ {"publish", "read"}
  BY <1>1, AfterCommitIs
<1>4. proc' \in [Process -> ProcType] /\ \A q \in Process : q # p => proc'[q] = proc[q]
  BY <1>1, <1>3, AdvanceFacts DEF CommitPaths
<1>5. ProcFits(p)'
  <2>1. CASE AfterCommit(p) = "idle"
    BY <1>1, <1>3, <2>1, AdvanceFacts, IdleFits DEF CommitPaths
  <2>2. CASE AfterCommit(p) # "idle"
    <3>1. /\ proc'[p].pc = AfterCommit(p)
          /\ proc'[p].snapshot = r.snapshot
          /\ proc'[p].todo = r.todo
      BY <1>1, <1>3, <2>2, AdvanceFacts DEF CommitPaths
    <3> QED
      BY <1>1, <1>3, <3>1 DEF ProcFits
  <2> QED
    BY <2>1, <2>2
<1>6. RemoteFits' /\ LocalTagsFit' /\ TreesFit'
  BY DEF CommitPaths, Fits, RemoteFits, LocalTagsFit, TreesFit
<1> QED
  BY <1>2, <1>4, <1>5, <1>6, FitsStep

LEMMA VerifyFits ==
    ASSUME Fits, NEW p \in Process, VerifyPendingHistory(p)
    PROVE  Fits'
<1> DEFINE pc == IF proc[p].tag = NoTag THEN "publish" ELSE "tag"
<1>1. /\ proc \in [Process -> ProcType] /\ proc[p] \in ProcType /\ ProcFits(p)
      /\ pc \in Phase /\ pc # "idle" /\ pc # "read" /\ Advance(p, pc)
      /\ pc = "publish" => proc[p].tag = NoTag
  BY ProcFacts DEF VerifyPendingHistory, Phase
<1> HIDE DEF pc
<1>2. /\ proc' \in [Process -> ProcType]
      /\ \A q \in Process : q # p => proc'[q] = proc[q]
      /\ proc'[p].pc = pc
      /\ proc'[p].snapshot = proc[p].snapshot
      /\ proc'[p].todo = proc[p].todo
      /\ proc'[p].tag = proc[p].tag
  BY <1>1, AdvanceFacts
<1>3. ProcFits(p)'
  BY <1>1, <1>2 DEF ProcFits
<1>4. UNCHANGED <<remote, remoteTags, head, localTags>> /\ TreesFit'
  BY DEF VerifyPendingHistory, TreesFit, Fits
<1> QED
  BY <1>2, <1>3, <1>4, ProcStep

LEMMA CreateTagFits ==
    ASSUME Fits, NEW p \in Process, CreateImmutableTag(p)
    PROVE  Fits'
<1> DEFINE c == CheckoutOf[p]
           t == proc[p].tag
           pc == IF proc[p].push THEN "publish" ELSE "idle"
<1>1. /\ proc \in [Process -> ProcType] /\ proc[p] \in ProcType /\ ProcFits(p)
      /\ pc \in {"publish", "idle"} /\ pc \in Phase /\ Advance(p, pc)
      /\ t \in Tag \cup {NoTag}
  BY ProcFacts DEF CreateImmutableTag, Phase, ProcType
<1>2. /\ c \in Checkout /\ BranchFits(head[c]) /\ head[c] # <<>> /\ head[c] \in Seq(Commit)
      /\ localTags \in [Checkout -> [Tag -> Seq(Commit)]]
      /\ localTags[c][t] \in {<<>>, head[c]}
      /\ localTags' = [localTags EXCEPT ![c][t] = head[c]]
  BY ProcFacts, CheckoutFacts DEF CreateImmutableTag, Fits, LocalTagsFit, BranchFits
<1> HIDE DEF pc
<1>3. LocalTagsFit'
  BY <1>2 DEF LocalTagsFit
<1>4. Grows
  <2>1. \A d \in Checkout, u \in Tag : localTags[d][u] # <<>> => localTags'[d][u] = localTags[d][u]
    BY <1>2
  <2>2. \A d \in Checkout : head'[d] = head[d] /\ Len(head[d]) \in Nat
    BY DEF CreateImmutableTag, Fits, HeadsFit
  <2> QED
    BY <2>1, <2>2 DEF Grows
<1>5. RemoteFits' /\ HeadsFit' /\ TreesFit'
  BY DEF CreateImmutableTag, Fits, RemoteFits, HeadsFit, TreesFit
<1>6. proc' \in [Process -> ProcType] /\ \A q \in Process : q # p => proc'[q] = proc[q]
  BY <1>1, AdvanceFacts
<1>7. ProcFits(p)'
  <2>1. CASE pc = "idle"
    BY <1>1, <2>1, AdvanceFacts, IdleFits
  <2>2. CASE pc = "publish"
    <3>1. /\ proc'[p].pc = "publish"
          /\ proc'[p].snapshot = proc[p].snapshot
          /\ proc'[p].todo = proc[p].todo
          /\ proc'[p].tag = t
      BY <1>1, <2>2, AdvanceFacts
    <3>2. t # NoTag => localTags'[c][t] = head[c]
      BY <1>1, <1>2
    <3>3. head'[c] = head[c] /\ Len(head[c]) \in 1 .. Len(head[c])
      BY <1>2 DEF CreateImmutableTag
    <3> QED
      BY <1>1, <3>1, <3>2, <3>3 DEF ProcFits
  <2> QED
    BY <1>1, <2>1, <2>2
<1> QED
  BY <1>3, <1>4, <1>5, <1>6, <1>7, FitsStep

\* Ending, whether the command is done or not.
LEMMA EndFits ==
    ASSUME Fits, NEW p \in Process, Advance(p, "idle"),
           RemoteFits', UNCHANGED <<head, localTags, tree>>
    PROVE  Fits'
<1>1. /\ proc' \in [Process -> ProcType]
      /\ \A q \in Process : q # p => proc'[q] = proc[q]
      /\ proc'[p] = Idle
  BY ProcFacts, AdvanceFacts DEF Phase
<1>2. ProcFits(p)'
  BY <1>1, IdleFits
<1>3. \A c \in Checkout : Len(head[c]) \in Nat
  BY DEF Fits, HeadsFit
<1>4. HeadsFit' /\ LocalTagsFit' /\ TreesFit' /\ Grows
  BY <1>3 DEF Fits, HeadsFit, LocalTagsFit, TreesFit, Grows
<1> QED
  BY <1>1, <1>2, <1>4, FitsStep

LEMMA PushAtomicFits ==
    ASSUME Fits, NEW p \in Process, PushAtomic(p)
    PROVE  Fits'
<1> DEFINE c == CheckoutOf[p]
           t == proc[p].tag
<1>1. /\ c \in Checkout /\ proc[p] \in ProcType /\ ProcFits(p) /\ BranchFits(head[c])
      /\ head[c] \in Seq(Commit) /\ t \in Tag \cup {NoTag} /\ RemoteFits
  BY ProcFacts, CheckoutFacts DEF BranchFits, ProcType, Fits
<1>2. Len(remote) \in Nat /\ Len(head[c]) \in Nat /\ Len(remote) <= Len(head[c])
  BY <1>1 DEF PushAtomic, FastForwards, IsPrefix, RemoteFits, BranchFits
<1>3. remoteTags \in [Tag -> 0 .. Len(head[c])]
  <2>1. 0 .. Len(remote) \subseteq 0 .. Len(head[c])
    BY <1>2
  <2> QED
    BY <1>1, <2>1 DEF RemoteFits
<1>4. t # NoTag => Len(localTags[c][t]) \in 0 .. Len(head[c])
  BY <1>1, <1>2 DEF PushAtomic, ProcFits
<1>5. remoteTags' \in [Tag -> 0 .. Len(head[c])]
  BY <1>1, <1>3, <1>4 DEF PushAtomic
<1>6. remote' = head[c]
  BY DEF PushAtomic
<1>7. RemoteFits'
  BY <1>1, <1>5, <1>6 DEF RemoteFits
<1> QED
  BY <1>7, EndFits DEF PushAtomic

LEMMA FetchFits ==
    ASSUME Fits, NEW c \in Checkout, FetchInto(c)
    PROVE  /\ LocalTagsFit'
           /\ \A d \in Checkout, t \in Tag :
                 localTags[d][t] # <<>> => localTags'[d][t] = localTags[d][t]
<1>1. remote \in Seq(Commit) /\ remoteTags \in [Tag -> 0 .. Len(remote)]
  BY DEF Fits, RemoteFits, BranchFits
<1>2. localTags \in [Checkout -> [Tag -> Seq(Commit)]]
  BY DEF Fits, LocalTagsFit
<1>3. \A t \in Tag : SubSeq(remote, 1, remoteTags[t]) \in Seq(Commit)
  BY <1>1
<1>4. Fetched(c) \in [Tag -> Seq(Commit)]
  BY <1>2, <1>3 DEF Fetched
<1>5. LocalTagsFit'
  BY <1>2, <1>4 DEF FetchInto, LocalTagsFit
<1>6. \A t \in Tag : localTags[c][t] # <<>> => Fetched(c)[t] = localTags[c][t]
  BY DEF Fetched
<1>7. \A d \in Checkout : localTags'[d] = IF d = c THEN Fetched(c) ELSE localTags[d]
  BY <1>2 DEF FetchInto
<1> QED
  BY <1>5, <1>6, <1>7

\* What a fetch and, if it can be done, a fast-forward leave.
LEMMA CheckedOutFits ==
    ASSUME Fits, NEW c \in Checkout
    PROVE  CheckedOut(c) \in [manifest : Manifest, files : Maps]
<1> DEFINE moved == Staged(tree[c].files, Tip(remote).files,
                      {s \in Path : ~Unchanged(Tip(head[c]).files, Tip(remote).files, s)})
<1>1. tree[c] \in [manifest : Manifest, files : Maps] /\ BranchFits(remote)
  BY CheckoutFacts
<1>2. Tip(remote).manifest \in Manifest /\ Tip(remote).files \in Maps
  BY <1>1, TipFits
<1>3. moved \in Maps
  BY <1>1, <1>2, StagedIsMap
<1>4. CheckedOut(c) = [manifest |-> IF Tip(head[c]).manifest = Tip(remote).manifest
                                    THEN tree[c].manifest ELSE Tip(remote).manifest,
                       files |-> moved]
  BY DEF CheckedOut
<1> HIDE DEF moved
<1> QED
  BY <1>1, <1>2, <1>3, <1>4

LEMMA SyncFits ==
    ASSUME Fits, NEW c \in Checkout, Sync(c) \/ (FetchInto(c) /\ UNCHANGED <<head, tree>>),
           UNCHANGED <<remote, remoteTags>>
    PROVE  RemoteFits' /\ HeadsFit' /\ LocalTagsFit' /\ TreesFit' /\ Grows
<1>1. /\ LocalTagsFit'
      /\ \A d \in Checkout, t \in Tag : localTags[d][t] # <<>> => localTags'[d][t] = localTags[d][t]
  BY FetchFits DEF Sync
<1>2. RemoteFits'
  BY DEF Fits, RemoteFits
<1>3. \A d \in Checkout : BranchFits(head[d]) /\ Len(head[d]) \in Nat
  BY DEF Fits, HeadsFit
<1>4. CASE UNCHANGED <<head, tree>>
  BY <1>1, <1>2, <1>3, <1>4 DEF Fits, HeadsFit, TreesFit, Grows
<1>5. CASE /\ IsPrefix(head[c], remote)
           /\ head' = [head EXCEPT ![c] = remote]
           /\ tree' = [tree EXCEPT ![c] = CheckedOut(c)]
  <2>1. BranchFits(remote) /\ remote \in Seq(Commit) /\ Len(head[c]) <= Len(remote)
    BY <1>5, CheckoutFacts DEF IsPrefix, BranchFits
  <2>2. TreesFit'
    BY <1>5, CheckedOutFits, TreeStep
  <2>3. /\ head' \in [Checkout -> Seq(Commit)]
        /\ \A d \in Checkout : head'[d] = IF d = c THEN remote ELSE head[d]
    BY <1>5, <2>1 DEF Fits, HeadsFit
  <2>4. HeadsFit'
    BY <1>3, <2>1, <2>3 DEF HeadsFit
  <2>5. Grows
    BY <1>1, <1>3, <2>1, <2>3 DEF Grows
  <2> QED
    BY <1>1, <1>2, <2>2, <2>4, <2>5
<1> QED
  BY <1>4, <1>5 DEF Sync

LEMMA StatusFits ==
    ASSUME Fits, NEW p \in Process, Status(p)
    PROVE  Fits'
<1>1. RemoteFits' /\ HeadsFit' /\ LocalTagsFit' /\ TreesFit' /\ Grows
  BY ProcFacts, SyncFits DEF Status
<1>2. proc' = proc
  BY DEF Status
<1> QED
  BY <1>1, <1>2, FitsStep DEF Fits, ProcsFit

LEMMA PullStartFits ==
    ASSUME Fits, NEW p \in Process, PullStart(p)
    PROVE  Fits'
<1> DEFINE c == CheckoutOf[p]
           m == tree'[c].manifest
<1>1. RemoteFits' /\ HeadsFit' /\ LocalTagsFit' /\ TreesFit' /\ Grows
  BY ProcFacts, SyncFits DEF PullStart
<1>2. m \in Exported /\ m \in Maps /\ DOMAIN m \subseteq Path
  <2>1. m \in Manifest /\ m # <<>>
    BY <1>1, ProcFacts DEF TreesFit, PullStart
  <2>2. m \in Maps
    BY <2>1, ManifestsAreMaps
  <2> QED
    BY <2>1, <2>2, MapFacts DEF Manifest
<1>3. proc' = [proc EXCEPT ![p] = [Idle EXCEPT !.pc = "read", !.snapshot = m, !.todo = Owned(m)]]
  BY DEF PullStart
<1> HIDE DEF m
<1>4. proc'[p] = [pc |-> "read", old |-> <<>>, snapshot |-> m, todo |-> DOMAIN m,
                  closing |-> {}, push |-> FALSE, tag |-> NoTag, data |-> <<>>]
  BY <1>3, ProcFacts DEF Idle, Owned
<1>5. proc'[p] \in ProcType
  BY <1>2, <1>4, EmptyIsMap DEF ProcType, Phase
<1>6. proc' \in [Process -> ProcType] /\ \A q \in Process : q # p => proc'[q] = proc[q]
  BY <1>3, <1>4, <1>5, ProcFacts
<1>7. ProcFits(p)'
  BY <1>2, <1>4, EmptyIsMap DEF ProcFits, ReadSoFar, Owned, Manifest
<1> QED
  BY <1>1, <1>6, <1>7, FitsStep

LEMMA ReadShardFits ==
    ASSUME Fits, NEW p \in Process, ReadShard(p)
    PROVE  Fits'
<1> DEFINE c == CheckoutOf[p]
           r == proc[p]
           files == tree[c].files
<1>1. PICK s \in r.todo :
         /\ Present(files, s)
         /\ HashMatches(files, r.snapshot, s)
         /\ proc' = [proc EXCEPT ![p].todo = @ \ {s}, ![p].data = Staged(@, files, {s})]
  BY DEF ReadShard
<1>2. /\ c \in Checkout /\ r \in ProcType /\ ProcFits(p) /\ proc \in [Process -> ProcType]
      /\ files \in Maps /\ r.pc = "read"
  BY ProcFacts, CheckoutFacts DEF ReadShard
<1> DEFINE data == Staged(r.data, files, {s})
<1>3. data \in Maps
  BY <1>2, StagedIsMap DEF ProcType
<1>4. /\ DOMAIN data = (DOMAIN r.data \ {s}) \cup {s}
      /\ \A q \in DOMAIN data : data[q] = IF q = s THEN files[s] ELSE r.data[q]
  BY <1>1 DEF Staged, Present
<1>5. proc' = [proc EXCEPT ![p].todo = @ \ {s}, ![p].data = data]
  BY <1>1
<1> HIDE DEF data
<1>6. /\ proc' \in [Process -> ProcType]
      /\ \A q \in Process : q # p => proc'[q] = proc[q]
      /\ proc'[p].pc = "read"
      /\ proc'[p].snapshot = r.snapshot
      /\ proc'[p].todo = r.todo \ {s}
      /\ proc'[p].data = data
  BY <1>2, <1>3, <1>5 DEF ProcType
<1>7. ReadSoFar(proc'[p])
  <2>1. s \in Owned(r.snapshot) /\ files[s] = r.snapshot[s]
    BY <1>1, <1>2 DEF ProcFits, HashMatches
  <2> QED
    BY <1>2, <1>4, <1>6, <2>1 DEF ProcFits, ReadSoFar
<1>8. ProcFits(p)'
  BY <1>2, <1>6, <1>7 DEF ProcFits
<1>9. TreesFit'
  BY DEF ReadShard, Fits, TreesFit
<1> QED
  BY <1>6, <1>8, <1>9, ProcStep DEF ReadShard

LEMMA RestoreAtFits ==
    ASSUME Fits, NEW p \in Process, RestoreAt(p)
    PROVE  Fits'
<1> DEFINE c == CheckoutOf[p]
<1>1. RemoteFits' /\ HeadsFit' /\ LocalTagsFit' /\ TreesFit' /\ Grows
  BY ProcFacts, SyncFits DEF RestoreAt
<1>2. PICK commit \in Referable(c) :
         /\ commit.manifest # <<>>
         /\ \A s \in Owned(commit.manifest) :
               /\ Present(commit.files, s)
               /\ HashMatches(commit.files, commit.manifest, s)
         /\ proc' = [proc EXCEPT ![p] =
              [Idle EXCEPT !.pc = "read", !.snapshot = commit.manifest,
                           !.data = Swept(commit.files, commit.manifest)]]
  BY DEF RestoreAt
<1> DEFINE m == commit.manifest
           data == Swept(commit.files, m)
<1>3. m \in Exported /\ m \in Maps /\ commit.files \in Maps
  <2>1. PICK branch \in {head[c], remote} : commit \in Range(branch)
    BY DEF Referable
  <2>2. BranchFits(branch)
    BY <2>1, ProcFacts, CheckoutFacts
  <2>3. PICK i \in DOMAIN branch : commit = branch[i]
    BY <2>1 DEF Range
  <2>4. commit \in Commit /\ m \in Manifest
    BY <2>2, <2>3 DEF BranchFits
  <2> QED
    BY <1>2, <2>4 DEF Manifest, Commit
<1>4. data \in Maps
  BY <1>3, SweptIsMap
<1>5. DOMAIN data = DOMAIN m /\ \A s \in DOMAIN data : data[s] = m[s]
  BY <1>2 DEF Swept, Owned, Present, HashMatches
<1> HIDE DEF data
<1>6. proc'[p] = [pc |-> "read", old |-> <<>>, snapshot |-> m, todo |-> {},
                  closing |-> {}, push |-> FALSE, tag |-> NoTag, data |-> data]
  BY <1>2, ProcFacts DEF Idle, data
<1>7. proc'[p] \in ProcType
  BY <1>3, <1>4, <1>6, EmptyIsMap DEF ProcType, Phase
<1>8. proc' \in [Process -> ProcType] /\ \A q \in Process : q # p => proc'[q] = proc[q]
  BY <1>2, <1>6, <1>7, ProcFacts
<1>9. ProcFits(p)'
  BY <1>3, <1>5, <1>6 DEF ProcFits, ReadSoFar, Owned, Manifest
<1> QED
  BY <1>1, <1>8, <1>9, FitsStep

\* The user's commit is of something that was in the branch, or of less.
LEMMA HandMadeFits ==
    ASSUME NEW branch, BranchFits(branch), NEW t \in HandMade(branch)
    PROVE  t.manifest \in Manifest /\ t.files \in Maps /\ t.stray \in BOOLEAN
<1> DEFINE tip == Tip(branch)
<1>1. tip.manifest \in Manifest /\ tip.files \in Maps /\ tip.stray \in BOOLEAN
  BY TipFits
<1>2. tip = Root \/ tip \in Commit
  BY DEF Tip, At, BranchFits
<1>3. CASE t = [tip EXCEPT !.stray = ~@]
  BY <1>1, <1>2, <1>3 DEF Commit, Root
<1>4. CASE t = [tip EXCEPT !.manifest = <<>>]
  BY <1>1, <1>2, <1>4 DEF Commit, Root, Manifest
<1>5. ASSUME NEW s \in DOMAIN tip.files, t = [tip EXCEPT !.files = Staged(@, <<>>, {s})]
      PROVE  t.manifest \in Manifest /\ t.files \in Maps /\ t.stray \in BOOLEAN
  <2>1. Staged(tip.files, <<>>, {s}) \in Maps
    BY <1>1, EmptyIsMap, StagedIsMap
  <2> QED
    BY <1>1, <1>2, <1>5, <2>1 DEF Commit, Root
<1>6. ASSUME NEW i \in 1 .. Len(branch), t = At(branch, i)
      PROVE  t.manifest \in Manifest /\ t.files \in Maps /\ t.stray \in BOOLEAN
  BY <1>6, AtFits
<1> QED
  BY <1>3, <1>4, <1>5, <1>6 DEF HandMade

LEMMA UserCommitFits ==
    ASSUME Fits, NEW c \in Checkout, UserCommit(c)
    PROVE  Fits'
<1>1. PICK t \in HandMade(head[c]) :
         /\ head' = [head EXCEPT ![c] = Append(@, Stamped(t, c))]
         /\ tree' = [tree EXCEPT ![c] = [manifest |-> t.manifest, files |-> t.files]]
  BY DEF UserCommit
<1>2. BranchFits(head[c]) /\ Len(head[c]) \in Nat
  BY CheckoutFacts DEF BranchFits
<1>3. t.manifest \in Manifest /\ t.files \in Maps /\ t.stray \in BOOLEAN
  BY <1>2, HandMadeFits
<1> DEFINE b == Append(head[c], Stamped(t, c))
<1>4. BranchFits(b) /\ Len(b) = Len(head[c]) + 1
  BY <1>2, <1>3, AppendFits DEF UserCommit
<1>5. head' = [head EXCEPT ![c] = b] /\ UNCHANGED localTags
  BY <1>1 DEF UserCommit
<1> HIDE DEF b
<1>6. Len(head[c]) <= Len(b)
  BY <1>2, <1>4
<1>7. HeadsFit' /\ Grows
  BY <1>4, <1>5, <1>6, HeadStep
<1>8. TreesFit'
  BY <1>1, <1>3, TreeStep
<1>9. RemoteFits' /\ LocalTagsFit' /\ proc' = proc
  BY DEF UserCommit, Fits, RemoteFits, LocalTagsFit
<1> QED
  BY <1>7, <1>8, <1>9, FitsStep DEF Fits, ProcsFit

LEMMA UserDropFits ==
    ASSUME Fits, NEW c \in Checkout, UserDrop(c) \/ UserReset(c)
    PROVE  Fits'
<1>1. tree[c] \in [manifest : Manifest, files : Maps] /\ BranchFits(head[c])
  BY CheckoutFacts
<1>2. TreesFit'
  <2>1. ASSUME NEW s \in Path \ DOMAIN tree[c].files, NEW x \in Text,
               tree' = [tree EXCEPT ![c].files = Staged(@, [r \in {s} |-> x], {s})]
        PROVE  TreesFit'
    <3>1. [r \in {s} |-> x] \in Maps
      BY MapFacts
    <3>2. Staged(tree[c].files, [r \in {s} |-> x], {s}) \in Maps
      BY <1>1, <3>1, StagedIsMap
    <3>3. [tree[c] EXCEPT !.files = Staged(@, [r \in {s} |-> x], {s})]
             \in [manifest : Manifest, files : Maps]
      BY <1>1, <3>2
    <3> QED
      BY <2>1, <3>3, TreeStep
  <2>2. CASE UserReset(c)
    BY <1>1, <2>2, TipFits, TreeStep DEF UserReset
  <2> QED
    BY <2>1, <2>2 DEF UserDrop
<1>3. \A d \in Checkout : Len(head[d]) \in Nat
  BY DEF Fits, HeadsFit
<1>4. RemoteFits' /\ HeadsFit' /\ LocalTagsFit' /\ Grows /\ proc' = proc
  BY <1>3 DEF UserDrop, UserReset, Fits, RemoteFits, HeadsFit, LocalTagsFit, Grows
<1> QED
  BY <1>2, <1>4, FitsStep DEF Fits, ProcsFit

LEMMA InitFits == Init => Fits
<1> SUFFICES ASSUME Init PROVE Fits
  OBVIOUS
<1>1. <<>> \in Seq(Commit) /\ Len(<<>>) = 0 /\ DOMAIN <<>> = {}
  OBVIOUS
<1>2. BranchFits(<<>>)
  BY <1>1, PublicationAssumption DEF BranchFits
<1>3. RemoteFits /\ HeadsFit /\ LocalTagsFit
  BY <1>1, <1>2 DEF Init, RemoteFits, HeadsFit, LocalTagsFit
<1>4. TreesFit
  BY EmptyIsMap DEF Init, Clean, TreesFit, Manifest
<1>5. ProcsFit
  BY IdleType DEF Init, ProcsFit, ProcFits, Idle, Manifest
<1> QED
  BY <1>3, <1>4, <1>5 DEF Fits

LEMMA NextFits == Fits /\ [Next]_vars => Fits'
<1> SUFFICES ASSUME Fits, [Next]_vars PROVE Fits'
  OBVIOUS
<1>1. ASSUME NEW p \in Process, Command(p) PROVE Fits'
  <2>1. CASE Import(p) \/ Abort(p)
    BY <2>1, EndFits DEF Import, Abort, Fits, RemoteFits
  <2> QED
    BY <1>1, <2>1, PushStartFits, InitUploadFits, WriteShardFits, SweepFits, WriteManifestFits,
       CommitPathsFits, VerifyFits, CreateTagFits, PushAtomicFits, StatusFits, PullStartFits,
       ReadShardFits, RestoreAtFits DEF Command
<1>2. ASSUME NEW c \in Handled, ByHand(c) PROVE Fits'
  BY <1>2, PublicationAssumption, UserCommitFits, UserDropFits DEF ByHand
<1>3. CASE UNCHANGED vars
  <2>1. \A d \in Checkout : Len(head[d]) \in Nat
    BY DEF Fits, HeadsFit
  <2>2. RemoteFits' /\ HeadsFit' /\ LocalTagsFit' /\ TreesFit' /\ Grows /\ proc' = proc
    BY <1>3, <2>1 DEF vars, Fits, RemoteFits, HeadsFit, LocalTagsFit, TreesFit, Grows
  <2> QED
    BY <2>2, FitsStep DEF Fits, ProcsFit
<1> QED
  BY <1>1, <1>2, <1>3 DEF Next

LEMMA AlwaysFits == Spec => []Fits
BY InitFits, NextFits, PTL DEF Spec

(***************************************************************************)
(* The types of every process, checkout and branch, and of a tag that is   *)
(* on the remote, however the processes share the checkouts.               *)
(***************************************************************************)
THEOREM TypeCorrect == Spec => []TypeOK
<1>1. ASSUME Fits PROVE TypeOK
  <2>1. tree \in [Checkout -> [manifest : Maps, files : Maps]]
    BY <1>1, ManifestsAreMaps DEF Fits, TreesFit
  <2> QED
    BY <1>1, <2>1 DEF Fits, RemoteFits, BranchFits, HeadsFit, LocalTagsFit, ProcsFit, ProcFits, TypeOK
<1> QED
  BY <1>1, AlwaysFits, PTL

(***************************************************************************)
(* Pull hands the store what one push exported and nothing else, although  *)
(* any number of pushes write into the same checkout while it reads.       *)
(***************************************************************************)
THEOREM PullsOneExport == Spec => []PulledIsExport
<1>1. ASSUME Fits, NEW p \in Process, proc[p].pc = "read", proc[p].todo = {}
      PROVE  proc[p].data \in Exported
  <2> DEFINE r == proc[p]
  <2>1. ReadSoFar(r) /\ r \in ProcType
    BY <1>1 DEF Fits, ProcsFit, ProcFits
  <2>2. r.data \in Maps /\ r.snapshot \in Maps
    BY <2>1 DEF ProcType
  <2>3. DOMAIN r.data = DOMAIN r.snapshot
    BY <1>1, <2>1 DEF ReadSoFar, Owned
  <2>4. r.data = r.snapshot
    BY <2>1, <2>2, <2>3, SameMap DEF ReadSoFar
  <2> QED
    BY <2>1, <2>4 DEF ReadSoFar
<1>2. Fits => PulledIsExport
  BY <1>1 DEF PulledIsExport
<1> QED
  BY <1>2, AlwaysFits, PTL

-----------------------------------------------------------------------------
(***************************************************************************)
(* Verification.  Common is a maximum, so it needs one to exist.           *)
(***************************************************************************)
Less == {ss \in Nat \X Nat : ss[1] < ss[2]}

LEMMA LeastExists ==
    ASSUME NEW S \in SUBSET Nat, S # {}
    PROVE  \E x \in S : \A y \in S : x <= y
<1>1. OpToRel(<, Nat) = Less
  BY Zenon DEF OpToRel, Less
<1>2. IsWellFoundedOn(Less, Nat)
  BY NatLessThanWellFounded, <1>1, Zenon
<1>3. PICK x \in S : \A y \in S : <<y, x>> \notin Less
  BY <1>2, WFMin
<1>4. ASSUME NEW y \in S PROVE x <= y
  <2>1. <<y, x>> \in Nat \X Nat /\ <<y, x>>[1] = y /\ <<y, x>>[2] = x
    OBVIOUS
  <2>2. ~ (y < x)
    BY <1>3, <2>1 DEF Less
  <2> QED
    BY <2>2
<1> QED
  BY <1>3, <1>4

LEMMA CommonFacts ==
    ASSUME NEW branch \in Seq(Commit), NEW base \in Seq(Commit)
    PROVE  /\ Common(branch, base) \in 0 .. Len(branch)
           /\ Common(branch, base) <= Len(base)
           /\ \A i \in 1 .. Common(branch, base) : branch[i] = base[i]
<1> DEFINE Agree(n) == \A i \in 1 .. n : branch[i] = base[i]
           Gap == {k \in 0 .. Len(branch) : Len(branch) - k <= Len(base) /\ Agree(Len(branch) - k)}
<1>1. Len(branch) \in Gap
  <2>1. Len(branch) - Len(branch) = 0 /\ Len(branch) \in Nat /\ Len(base) \in Nat
    OBVIOUS
  <2>2. Agree(0)
    OBVIOUS
  <2> QED
    BY <2>1, <2>2
<1>2. PICK k \in Gap : \A j \in Gap : k <= j
  <2>1. Gap \in SUBSET Nat
    OBVIOUS
  <2> HIDE DEF Gap
  <2> QED
    BY <1>1, <2>1, LeastExists
<1> DEFINE n == Len(branch) - k
<1>3. n \in 0 .. Len(branch) /\ n <= Len(base) /\ Agree(n)
  BY <1>2
<1>4. n < Len(branch) /\ n < Len(base) => branch[n + 1] # base[n + 1]
  <2> SUFFICES ASSUME n < Len(branch), n < Len(base), branch[n + 1] = base[n + 1] PROVE FALSE
    OBVIOUS
  <2>1. k - 1 \in 0 .. Len(branch) /\ Len(branch) - (k - 1) = n + 1 /\ n + 1 <= Len(base)
    BY <1>2
  <2>2. Agree(n + 1)
    <3>1. n \in Nat /\ branch[n + 1] = base[n + 1] /\ \A i \in 1 .. n : branch[i] = base[i]
      BY <1>3
    <3> HIDE DEF n
    <3>2. \A i \in 1 .. n + 1 : i \in 1 .. n \/ i = n + 1
      BY <3>1
    <3> QED
      BY <3>1, <3>2
  <2>3. k - 1 \in Gap
    BY <2>1, <2>2
  <2>4. k <= k - 1
    BY <1>2, <2>3
  <2>5. k \in Nat
    BY <1>2
  <2> QED
    BY <2>4, <2>5
<1>5. \A m \in 0 .. Len(branch) : m <= Len(base) =>
         (SubSeq(branch, 1, m) = SubSeq(base, 1, m) <=> Agree(m))
  <2> SUFFICES ASSUME NEW m \in 0 .. Len(branch), m <= Len(base)
               PROVE  SubSeq(branch, 1, m) = SubSeq(base, 1, m) <=> Agree(m)
    OBVIOUS
  <2>1. /\ SubSeq(branch, 1, m) = [i \in 1 .. m |-> branch[i]]
        /\ SubSeq(base, 1, m) = [i \in 1 .. m |-> base[i]]
    OBVIOUS
  <2> QED
    BY <2>1
<1> DEFINE Is(m) == /\ m <= Len(base)
                    /\ SubSeq(branch, 1, m) = SubSeq(base, 1, m)
                    /\ m < Len(branch) /\ m < Len(base) => branch[m + 1] # base[m + 1]
<1>6. Common(branch, base) = CHOOSE m \in 0 .. Len(branch) : Is(m)
  BY DEF Common
<1>7. n \in 0 .. Len(branch) /\ Is(n)
  BY <1>3, <1>4, <1>5
<1>8. Common(branch, base) \in 0 .. Len(branch) /\ Is(Common(branch, base))
  <2> HIDE DEF Is, n
  <2> QED
    BY <1>6, <1>7
<1> QED
  BY <1>5, <1>8

(***************************************************************************)
(* A branch is verified throughout if what the remote has is and the rest  *)
(* has been looked at.                                                     *)
(***************************************************************************)
LEMMA PendingIsTheRest ==
    ASSUME NEW branch \in Seq(Commit), NEW base \in Seq(Commit),
           AllVerified(base), PendingVerified(branch, base)
    PROVE  AllVerified(branch)
<1> DEFINE n == Common(branch, base)
<1>1. n \in 0 .. Len(branch) /\ n <= Len(base) /\ \A i \in 1 .. n : branch[i] = base[i]
  BY CommonFacts
<1> HIDE DEF n
<1>2. ASSUME NEW i \in DOMAIN branch PROVE Verified(At(branch, i - 1), branch[i])
  <2>1. i \in 1 .. Len(branch)
    OBVIOUS
  <2>2. CASE i > n
    <3>1. i \in n + 1 .. Len(branch)
      BY <1>1, <2>1, <2>2
    <3> QED
      BY <3>1 DEF PendingVerified, Pending, n
  <2>3. CASE i <= n
    <3>1. i \in 1 .. n /\ i \in DOMAIN base /\ (i - 1 # 0 => i - 1 \in 1 .. n)
      BY <1>1, <2>1, <2>3
    <3>2. branch[i] = base[i] /\ At(branch, i - 1) = At(base, i - 1)
      BY <1>1, <3>1 DEF At
    <3> QED
      BY <3>1, <3>2 DEF AllVerified
  <2> QED
    BY <1>1, <2>1, <2>2, <2>3
<1> QED
  BY <1>2 DEF AllVerified

-----------------------------------------------------------------------------
(***************************************************************************)
(* The second part of the invariant.  A command touches no process but its *)
(* own and no checkout but its own, and a user works where no command      *)
(* runs, so that what a push has done so far stays done.                   *)
(***************************************************************************)
LEMMA AdvanceAlone ==
    ASSUME NEW p \in Process, NEW pc, proc \in [Process -> ProcType], Advance(p, pc)
    PROVE  \A q \in Process : q # p => proc'[q] = proc[q]
BY DEF Advance

LEMMA SyncAlone ==
    ASSUME Fits, NEW c \in Checkout, Sync(c)
    PROVE  \A d \in Checkout : d # c => head'[d] = head[d] /\ tree'[d] = tree[d]
BY DEF Sync, Fits, HeadsFit, TreesFit

LEMMA CommandAlone ==
    ASSUME Fits, NEW p \in Process, Command(p)
    PROVE  /\ \A q \in Process : q # p => proc'[q] = proc[q]
           /\ \A d \in Checkout : d # CheckoutOf[p] => head'[d] = head[d] /\ tree'[d] = tree[d]
<1>1. /\ CheckoutOf[p] \in Checkout /\ proc \in [Process -> ProcType]
      /\ head \in [Checkout -> Seq(Commit)]
      /\ tree \in [Checkout -> [manifest : Manifest, files : Maps]]
  BY ProcFacts DEF Fits, HeadsFit, TreesFit
<1>2. CASE PushStart(p) \/ InitUpload(p) \/ ReadShard(p)
  BY <1>1, <1>2 DEF PushStart, InitUpload, ReadShard
<1>3. CASE WriteShard(p)
  BY <1>1, <1>3 DEF WriteShard
<1>4. CASE Sweep(p) \/ WriteManifest(p)
  BY <1>1, <1>4 DEF Sweep, WriteManifest
<1>5. CASE CommitPaths(p)
  BY <1>1, <1>5, AdvanceAlone DEF CommitPaths
<1>6. CASE VerifyPendingHistory(p)
  BY <1>1, <1>6, AdvanceAlone DEF VerifyPendingHistory
<1>7. CASE CreateImmutableTag(p)
  BY <1>1, <1>7, AdvanceAlone DEF CreateImmutableTag
<1>8. CASE PushAtomic(p) \/ Import(p) \/ Abort(p)
  BY <1>1, <1>8, AdvanceAlone DEF PushAtomic, Import, Abort
<1>9. CASE Status(p) \/ PullStart(p)
  BY <1>1, <1>9, SyncAlone DEF Status, PullStart
<1>10. CASE RestoreAt(p)
  BY <1>1, <1>10 DEF RestoreAt
<1> QED
  BY <1>2, <1>3, <1>4, <1>5, <1>6, <1>7, <1>8, <1>9, <1>10, Zenon DEF Command

LEMMA Untouched ==
    ASSUME NEW q \in Process, PushFits(q), proc'[q] = proc[q],
           head'[CheckoutOf[q]] = head[CheckoutOf[q]],
           tree'[CheckoutOf[q]] = tree[CheckoutOf[q]]
    PROVE  PushFits(q)'
BY DEF PushFits, Writing, Publishing

LEMMA NotPushing ==
    ASSUME NEW p \in Process, proc'[p].pc \in {"idle", "read"}
    PROVE  PushFits(p)'
BY DEF PushFits, Writing, Publishing

LEMMA PushFacts ==
    ASSUME IInv, NEW p \in Process
    PROVE  /\ CheckoutOf[p] \in Checkout
           /\ proc \in [Process -> ProcType] /\ proc[p] \in ProcType
           /\ ProcFits(p) /\ PushFits(p)
           /\ BranchFits(head[CheckoutOf[p]])
           /\ tree \in [Checkout -> [manifest : Manifest, files : Maps]]
           /\ head \in [Checkout -> Seq(Commit)]
<1>1. Fits /\ PushFits(p)
  BY DEF IInv
<1>2. HeadsFit /\ TreesFit
  BY <1>1 DEF Fits
<1> QED
  BY <1>1, <1>2, ProcFacts, CheckoutFacts DEF HeadsFit, TreesFit

LEMMA PushStartPush ==
    ASSUME IInv, NEW p \in Process, PushStart(p)
    PROVE  PushFits(p)'
<1> DEFINE c == CheckoutOf[p]
<1>1. PICK e \in Exports[c], r \in Requests :
         proc' = [proc EXCEPT ![p] =
                    [Idle EXCEPT !.pc = "write", !.old = tree[c].manifest,
                                 !.snapshot = e, !.todo = DOMAIN e,
                                 !.push = r.push, !.tag = r.tag]]
  BY DEF PushStart
<1>2. proc'[p] = [pc |-> "write", old |-> tree[c].manifest, snapshot |-> e, todo |-> DOMAIN e,
                  closing |-> {}, push |-> r.push, tag |-> r.tag, data |-> <<>>]
  BY <1>1, PushFacts DEF Idle
<1>3. DOMAIN tree'[c].files \subseteq Owned(tree[c].manifest)
  BY DEF PushStart, InputsOwned
<1> QED
  BY <1>2, <1>3 DEF PushFits, Writing, Publishing

LEMMA InitUploadPush ==
    ASSUME IInv, NEW p \in Process, InitUpload(p)
    PROVE  PushFits(p)'
<1> DEFINE m == Tip(head[CheckoutOf[p]]).manifest
<1>1. /\ proc' = [proc EXCEPT ![p] = [Idle EXCEPT !.pc = "verify", !.push = TRUE, !.snapshot = m]]
      /\ head' = head
  BY DEF InitUpload
<1> HIDE DEF m
<1>2. proc'[p].pc = "verify" /\ proc'[p].snapshot = m
  BY <1>1, PushFacts DEF Idle
<1>3. Tip(head'[CheckoutOf[p]]).manifest = m
  BY <1>1 DEF m
<1> QED
  BY <1>2, <1>3 DEF PushFits, Writing, Publishing

LEMMA WriteShardPush ==
    ASSUME IInv, NEW p \in Process, WriteShard(p)
    PROVE  PushFits(p)'
<1> DEFINE c == CheckoutOf[p]
           r == proc[p]
<1>1. PICK s \in r.todo :
         /\ \/ UNCHANGED tree
            \/ tree' = [tree EXCEPT ![c].files = Staged(@, r.snapshot, {s})]
         /\ proc' = [proc EXCEPT
              ![p].todo = @ \ {s},
              ![p].pc = IF r.todo = {s} THEN "close" ELSE @,
              ![p].closing = IF r.todo = {s} THEN Closing ELSE @]
  BY DEF WriteShard
<1>2. /\ c \in Checkout /\ r \in ProcType /\ proc \in [Process -> ProcType]
      /\ r.todo \subseteq Owned(r.snapshot)
      /\ tree \in [Checkout -> [manifest : Manifest, files : Maps]]
      /\ DOMAIN tree[c].files \subseteq Owned(r.old) \cup (Owned(r.snapshot) \ r.todo)
  BY PushFacts DEF ProcFits, PushFits, Writing, WriteShard
<1>3. /\ proc'[p].old = r.old /\ proc'[p].snapshot = r.snapshot
      /\ proc'[p].todo = r.todo \ {s}
      /\ \/ proc'[p].pc = "write"
         \/ proc'[p].pc = "close" /\ proc'[p].closing = Closing
  BY <1>1, <1>2 DEF WriteShard, ProcType
<1>4. DOMAIN tree'[c].files \subseteq Owned(r.old) \cup (Owned(r.snapshot) \ (r.todo \ {s}))
  <2>1. CASE UNCHANGED tree
    BY <1>2, <2>1
  <2>2. CASE tree' = [tree EXCEPT ![c].files = Staged(@, r.snapshot, {s})]
    <3>1. tree'[c].files = Staged(tree[c].files, r.snapshot, {s})
      BY <1>2, <2>2
    <3>2. DOMAIN Staged(tree[c].files, r.snapshot, {s}) \subseteq DOMAIN tree[c].files \cup {s}
      BY DEF Staged
    <3>3. s \in Owned(r.snapshot)
      BY <1>1, <1>2
    <3>4. DOMAIN tree'[c].files \subseteq DOMAIN tree[c].files \cup {s}
      BY <3>1, <3>2
    <3>5. DOMAIN tree[c].files \subseteq Owned(r.old) \cup (Owned(r.snapshot) \ r.todo)
      BY <1>2
    <3> QED
      BY <3>3, <3>4, <3>5
  <2> QED
    BY <1>1, <2>1, <2>2
<1> QED
  BY <1>3, <1>4 DEF PushFits, Writing, Publishing, Closing

LEMMA SweepPush ==
    ASSUME IInv, NEW p \in Process, Sweep(p)
    PROVE  PushFits(p)'
<1> DEFINE c == CheckoutOf[p]
           r == proc[p]
<1>1. /\ c \in Checkout /\ r \in ProcType /\ proc \in [Process -> ProcType] /\ PushFits(p)
      /\ tree \in [Checkout -> [manifest : Manifest, files : Maps]]
  BY PushFacts
<1>2. /\ proc'[p].pc = "close" /\ proc'[p].old = r.old /\ proc'[p].snapshot = r.snapshot
      /\ proc'[p].todo = r.todo /\ proc'[p].closing = r.closing \ {"sweep"}
  BY <1>1 DEF Sweep, ProcType
<1>3. tree'[c].manifest = tree[c].manifest /\ tree'[c].files = Swept(tree[c].files, r.snapshot)
  BY <1>1 DEF Sweep
<1>4. DOMAIN tree'[c].files \subseteq DOMAIN tree[c].files
  BY <1>3 DEF Swept
<1>5. r.pc = "close"
  BY DEF Sweep
<1> QED
  BY <1>1, <1>2, <1>3, <1>4, <1>5 DEF PushFits, Writing, Publishing

LEMMA WriteManifestPush ==
    ASSUME IInv, NEW p \in Process, WriteManifest(p)
    PROVE  PushFits(p)'
<1> DEFINE c == CheckoutOf[p]
           r == proc[p]
<1>1. /\ c \in Checkout /\ r \in ProcType /\ proc \in [Process -> ProcType] /\ PushFits(p)
      /\ tree \in [Checkout -> [manifest : Manifest, files : Maps]]
  BY PushFacts
<1>2. /\ proc'[p].pc = "close" /\ proc'[p].old = r.old /\ proc'[p].snapshot = r.snapshot
      /\ proc'[p].todo = r.todo
  BY <1>1 DEF WriteManifest, ProcType
<1>3. tree'[c].manifest = r.snapshot /\ tree'[c].files = tree[c].files
  BY <1>1 DEF WriteManifest
<1>4. r.pc = "close"
  BY DEF WriteManifest
<1> QED
  BY <1>1, <1>2, <1>3, <1>4 DEF PushFits, Writing, Publishing

LEMMA CommitPathsPush ==
    ASSUME IInv, NEW p \in Process, CommitPaths(p)
    PROVE  PushFits(p)'
<1> DEFINE c == CheckoutOf[p]
           r == proc[p]
           t == Committed(p)
<1>1. /\ c \in Checkout /\ r \in ProcType /\ proc \in [Process -> ProcType]
      /\ BranchFits(head[c]) /\ head \in [Checkout -> Seq(Commit)] /\ Fits
  BY PushFacts DEF IInv
<1>2. tree[c].manifest = r.snapshot
  BY PushFacts DEF PushFits, CommitPaths
<1>3. t.manifest = r.snapshot
  BY <1>1, <1>2, CommittedFits
<1>4. Tip(head'[c]).manifest = r.snapshot
  <2>1. CASE Same(t, Tip(head[c])) /\ UNCHANGED head
    BY <1>3, <2>1 DEF Same
  <2>2. CASE /\ Len(head[c]) < MaxCommits
             /\ head' = [head EXCEPT ![c] = Append(@, Stamped(t, c))]
    <3>1. t.manifest \in Manifest /\ t.files \in Maps /\ t.stray \in BOOLEAN
      BY <1>1, CommittedFits
    <3>2. Tip(Append(head[c], Stamped(t, c))) = Stamped(t, c)
      BY <1>1, <2>2, <3>1, AppendFits
    <3>3. head'[c] = Append(head[c], Stamped(t, c))
      BY <1>1, <2>2
    <3>4. Stamped(t, c).manifest = t.manifest
      BY DEF Stamped
    <3> QED
      BY <1>3, <3>2, <3>3, <3>4
  <2> QED
    BY <2>1, <2>2 DEF CommitPaths
<1>5. /\ AfterCommit(p) \in {"verify", "tag", "idle"} /\ AfterCommit(p) \in Phase
      /\ AfterCommit(p) = "verify" <=> r.push
      /\ Advance(p, AfterCommit(p))
  BY <1>1, AfterCommitIs DEF CommitPaths
<1>6. CASE AfterCommit(p) = "idle"
  <2>1. proc'[p] = Idle
    BY <1>1, <1>5, <1>6, AdvanceFacts
  <2> QED
    BY <2>1, NotPushing DEF Idle
<1>7. CASE AfterCommit(p) # "idle"
  <2>1. proc'[p].pc = AfterCommit(p) /\ proc'[p].snapshot = r.snapshot /\ proc'[p].push = r.push
    BY <1>1, <1>5, <1>7, AdvanceFacts
  <2> QED
    BY <1>4, <1>5, <1>7, <2>1 DEF PushFits, Writing, Publishing
<1> QED
  BY <1>6, <1>7

LEMMA VerifyPush ==
    ASSUME IInv, NEW p \in Process, VerifyPendingHistory(p)
    PROVE  PushFits(p)'
<1> DEFINE c == CheckoutOf[p]
           r == proc[p]
           pc == IF proc[p].tag = NoTag THEN "publish" ELSE "tag"
<1>1. /\ r \in ProcType /\ proc \in [Process -> ProcType] /\ PushFits(p)
      /\ head[c] \in Seq(Commit) /\ remote \in Seq(Commit) /\ AllVerified(remote)
  BY PushFacts DEF IInv, Fits, RemoteFits, BranchFits
<1>2. AllVerified(head[c])
  BY <1>1, PendingIsTheRest DEF VerifyPendingHistory
<1>3. pc \in {"publish", "tag"} /\ pc \in Phase /\ Advance(p, pc) /\ r.pc = "verify" /\ head' = head
  BY DEF VerifyPendingHistory, Phase
<1> HIDE DEF pc
<1>4. proc'[p].pc = pc /\ proc'[p].snapshot = r.snapshot
  BY <1>1, <1>3, AdvanceFacts
<1>5. Tip(head[c]).manifest = r.snapshot
  BY <1>1, <1>3 DEF PushFits
<1> QED
  BY <1>2, <1>3, <1>4, <1>5 DEF PushFits, Writing, Publishing

LEMMA CreateTagPush ==
    ASSUME IInv, NEW p \in Process, CreateImmutableTag(p)
    PROVE  PushFits(p)'
<1> DEFINE c == CheckoutOf[p]
           r == proc[p]
           pc == IF proc[p].push THEN "publish" ELSE "idle"
<1>1. r \in ProcType /\ proc \in [Process -> ProcType] /\ PushFits(p)
  BY PushFacts
<1>2. /\ pc \in {"publish", "idle"} /\ pc \in Phase /\ Advance(p, pc) /\ r.pc = "tag" /\ head' = head
      /\ pc = "publish" => r.push
  BY DEF CreateImmutableTag, Phase
<1> HIDE DEF pc
<1>3. CASE pc = "idle"
  <2>1. proc'[p] = Idle
    BY <1>1, <1>2, <1>3, AdvanceFacts
  <2> QED
    BY <2>1, NotPushing DEF Idle
<1>4. CASE pc = "publish"
  <2>1. proc'[p].pc = "publish" /\ proc'[p].snapshot = r.snapshot
    BY <1>1, <1>2, <1>4, AdvanceFacts
  <2>2. Tip(head[c]).manifest = r.snapshot /\ AllVerified(head[c])
    BY <1>1, <1>2, <1>4 DEF PushFits, Publishing
  <2> QED
    BY <1>2, <2>1, <2>2 DEF PushFits, Writing
<1> QED
  BY <1>2, <1>3, <1>4

LEMMA OtherPush ==
    ASSUME IInv, NEW p \in Process,
           PushAtomic(p) \/ Status(p) \/ PullStart(p) \/ ReadShard(p) \/ Import(p) \/ RestoreAt(p) \/ Abort(p)
    PROVE  PushFits(p)'
<1>1. proc \in [Process -> ProcType] /\ proc[p] \in ProcType
  BY PushFacts
<1>2. CASE PushAtomic(p) \/ Import(p) \/ Abort(p)
  <2>1. proc'[p] = Idle
    BY <1>1, <1>2, AdvanceFacts DEF PushAtomic, Import, Abort, Phase
  <2> QED
    BY <2>1, NotPushing DEF Idle
<1>3. CASE Status(p)
  BY <1>1, <1>3, NotPushing DEF Status
<1>4. CASE PullStart(p)
  <2>1. proc'[p].pc = "read"
    BY <1>1, <1>4 DEF PullStart, Idle
  <2> QED
    BY <2>1, NotPushing
<1>5. CASE ReadShard(p)
  <2>1. proc'[p].pc = "read"
    BY <1>1, <1>5 DEF ReadShard, ProcType
  <2> QED
    BY <2>1, NotPushing
<1>6. CASE RestoreAt(p)
  <2>1. proc'[p].pc = "read"
    BY <1>1, <1>6 DEF RestoreAt, Idle
  <2> QED
    BY <2>1, NotPushing
<1> QED
  BY <1>2, <1>3, <1>4, <1>5, <1>6

LEMMA RemoteStaysVerified ==
    ASSUME IInv, NEW p \in Process, Command(p)
    PROVE  AllVerified(remote')
<1>1. CASE PushAtomic(p)
  BY <1>1, PushFacts DEF PushAtomic, PushFits, Publishing
<1>2. CASE ~PushAtomic(p)
  <2>1. remote' = remote
    BY <1>2 DEF Command, PushStart, InitUpload, WriteShard, Sweep, WriteManifest, CommitPaths,
       VerifyPendingHistory, CreateImmutableTag, Status, PullStart, ReadShard, Import, RestoreAt, Abort
  <2> QED
    BY <2>1 DEF IInv
<1> QED
  BY <1>1, <1>2

LEMMA InitInv == Apart /\ Init => IInv
<1> SUFFICES ASSUME Apart, Init PROVE IInv
  OBVIOUS
<1>1. AllVerified(remote)
  BY DEF Init, AllVerified
<1>2. \A p \in Process : PushFits(p)
  BY DEF Init, PushFits, Idle, Writing, Publishing
<1> QED
  BY <1>1, <1>2, InitFits DEF IInv

LEMMA NextInv == IInv /\ [Next]_vars => IInv'
<1> SUFFICES ASSUME IInv, [Next]_vars PROVE IInv'
  OBVIOUS
<1>1. Fits' /\ Apart /\ Fits /\ \A q \in Process : PushFits(q) /\ CheckoutOf[q] \in Checkout
  BY NextFits, PushFacts DEF IInv
<1>2. ASSUME NEW p \in Process, Command(p) PROVE IInv'
  <2>1. PushFits(p)'
    BY <1>2, PushStartPush, InitUploadPush, WriteShardPush, SweepPush, WriteManifestPush,
       CommitPathsPush, VerifyPush, CreateTagPush, OtherPush DEF Command
  <2>2. ASSUME NEW q \in Process, q # p PROVE PushFits(q)'
    <3>1. CheckoutOf[q] # CheckoutOf[p]
      BY <1>1, <2>2 DEF Apart
    <3>2. /\ proc'[q] = proc[q]
          /\ head'[CheckoutOf[q]] = head[CheckoutOf[q]]
          /\ tree'[CheckoutOf[q]] = tree[CheckoutOf[q]]
      BY <1>1, <1>2, <2>2, <3>1, CommandAlone
    <3> QED
      BY <1>1, <3>2, Untouched
  <2>3. AllVerified(remote')
    BY <1>2, RemoteStaysVerified
  <2> QED
    BY <1>1, <2>1, <2>2, <2>3 DEF IInv, Apart
<1>3. ASSUME NEW c \in Handled, ByHand(c) PROVE IInv'
  <2>1. /\ proc' = proc /\ remote' = remote /\ Quiet(c) /\ c \in Checkout
        /\ \A d \in Checkout : d # c => head'[d] = head[d] /\ tree'[d] = tree[d]
    <3>1. c \in Checkout
      BY PublicationAssumption
    <3>2. HeadsFit /\ TreesFit
      BY <1>1 DEF Fits
    <3> QED
      BY <1>3, <3>1, <3>2 DEF ByHand, UserCommit, UserDrop, UserReset, HeadsFit, TreesFit
  <2>2. ASSUME NEW q \in Process PROVE PushFits(q)'
    <3>1. CASE CheckoutOf[q] = c
      BY <2>1, <3>1, NotPushing DEF Quiet
    <3>2. CASE CheckoutOf[q] # c
      BY <1>1, <2>1, <3>2, Untouched
    <3> QED
      BY <3>1, <3>2
  <2> QED
    BY <1>1, <2>1, <2>2 DEF IInv, Apart
<1>4. CASE UNCHANGED vars
  <2>1. proc' = proc /\ remote' = remote /\ head' = head /\ tree' = tree
    BY <1>4 DEF vars
  <2>2. \A q \in Process : PushFits(q)'
    BY <1>1, <2>1, Untouched
  <2> QED
    BY <1>1, <2>1, <2>2 DEF IInv, Apart
<1> QED
  BY <1>2, <1>3, <1>4 DEF Next

LEMMA AlwaysInv == Apart /\ Spec => []IInv
BY InitInv, NextInv, PTL DEF Spec

-----------------------------------------------------------------------------
(***************************************************************************)
(* What a verified branch is.  Nothing is said of a commit but by the one  *)
(* before it: the first commit that were otherwise shows there is none.    *)
(***************************************************************************)
LEMMA VerifiedIsWhole ==
    ASSUME NEW branch \in Seq(Commit), AllVerified(branch), NEW i \in DOMAIN branch
    PROVE  /\ \A s \in Owned(branch[i].manifest) : SizeMatches(branch[i], s)
           /\ ~branch[i].stray
           /\ \A j \in 1 .. i : branch[j].manifest # <<>> => branch[i].manifest # <<>>
<1>1. /\ \A k \in DOMAIN branch : k \in Nat \ {0} /\ k \in 1 .. Len(branch)
      /\ \A k \in DOMAIN branch : k - 1 # 0 => k - 1 \in DOMAIN branch /\ At(branch, k - 1) = branch[k - 1]
  BY DEF At
<1>2. \A k \in DOMAIN branch : /\ Verified(At(branch, k - 1), branch[k])
                               /\ branch[k].stray \in BOOLEAN
  <2>1. \A k \in DOMAIN branch : branch[k] \in Commit
    OBVIOUS
  <2> QED
    BY <2>1 DEF AllVerified, Commit
<1>3. \A s \in Owned(branch[i].manifest) : SizeMatches(branch[i], s)
  BY <1>2 DEF Verified, VerifiedArtifacts
<1>4. ~branch[i].stray
  <2> DEFINE S == {k \in DOMAIN branch : branch[k].stray}
  <2> SUFFICES ASSUME S # {} PROVE FALSE
    OBVIOUS
  <2>1. S \in SUBSET Nat
    BY <1>1
  <2>2. PICK k \in S : \A l \in S : k <= l
    <3> HIDE DEF S
    <3> QED
      BY <2>1, LeastExists
  <2>3. At(branch, k - 1).stray = branch[k].stray
    BY <1>2, <2>2 DEF Verified, VerifiedChange
  <2>4. CASE k - 1 = 0
    BY <2>2, <2>3, <2>4 DEF At, Root
  <2>5. CASE k - 1 # 0
    <3>1. k - 1 \in S
      BY <1>1, <2>2, <2>3, <2>5
    <3>2. k \in Nat /\ k <= k - 1
      BY <2>1, <2>2, <3>1
    <3> QED
      BY <3>2
  <2> QED
    BY <2>4, <2>5
<1>5. ASSUME NEW j \in 1 .. i, branch[j].manifest # <<>>, branch[i].manifest = <<>> PROVE FALSE
  <2> DEFINE S == {k \in DOMAIN branch : j <= k /\ branch[k].manifest = <<>>}
  <2>1. S \in SUBSET Nat /\ i \in S
    BY <1>1, <1>5
  <2>2. PICK k \in S : \A l \in S : k <= l
    <3> HIDE DEF S
    <3> QED
      BY <2>1, LeastExists
  <2>3. k \in DOMAIN branch /\ j <= k /\ branch[k].manifest = <<>> /\ k # j
    BY <1>5, <2>2
  <2>4. k \in Nat /\ j \in Nat /\ 1 <= j
    BY <2>1, <2>2
  <2>5. j <= k - 1 /\ k - 1 # 0
    BY <2>3, <2>4
  <2>6. k - 1 \in DOMAIN branch /\ At(branch, k - 1) = branch[k - 1]
    BY <1>1, <2>3, <2>5
  <2>7. branch[k - 1].manifest = <<>>
    BY <1>2, <2>3, <2>6 DEF Verified, VerifiedChange
  <2>8. k - 1 \in S
    BY <2>5, <2>6, <2>7
  <2>9. k <= k - 1
    BY <2>2, <2>8
  <2> QED
    BY <2>4, <2>9
<1> QED
  BY <1>3, <1>4, <1>5

\* If no two texts have ciphertexts of one size, what the size check lets pass can be read.
SizesDiffer == \A x, y \in Text : Bytes[x] = Bytes[y] => x = y

SizedInv == SizesDiffer /\ IInv

LEMMA AlwaysSized == Apart /\ SizesDiffer /\ Spec => []SizedInv
<1>1. Apart /\ SizesDiffer /\ Init => SizedInv
  BY InitInv DEF SizedInv
<1>2. SizedInv /\ [Next]_vars => SizedInv'
  BY NextInv DEF SizedInv, SizesDiffer
<1> QED
  BY <1>1, <1>2, PTL DEF Spec

LEMMA VerifiedIsReadable ==
    ASSUME SizesDiffer, NEW branch \in Seq(Commit), AllVerified(branch), NEW i \in DOMAIN branch
    PROVE  Readable(branch[i])
<1> DEFINE c == branch[i]
<1>1. c.manifest \in Maps /\ c.files \in Maps
  <2>1. c \in Commit
    OBVIOUS
  <2> QED
    BY <2>1 DEF Commit
<1>2. ASSUME NEW s \in Owned(c.manifest)
      PROVE  Present(c.files, s) /\ c.files[s] = c.manifest[s]
  <2>1. Present(c.files, s) /\ Bytes[c.files[s]] = Bytes[c.manifest[s]]
    BY VerifiedIsWhole DEF SizeMatches
  <2>2. c.files[s] \in Text /\ c.manifest[s] \in Text
    BY <1>1, <2>1, MapFacts DEF Present, Owned
  <2> QED
    BY <2>1, <2>2 DEF SizesDiffer
<1> QED
  BY <1>2 DEF Readable

-----------------------------------------------------------------------------
(***************************************************************************)
(* Push verifies and uploads in two steps.  With a checkout for each       *)
(* process nothing is uploaded that verifyPendingHistory would refuse,     *)
(* whatever other machines upload in between: PublicationRace shows that   *)
(* one process per checkout is needed.                                     *)
(***************************************************************************)
THEOREM PublishedWasVerified == Apart /\ Spec => []PublishedIsVerified
<1>1. IInv => PublishedIsVerified
  BY DEF IInv, AllVerified, PublishedIsVerified
<1> QED
  BY <1>1, AlwaysInv, PTL

(***************************************************************************)
(* Every commit of the remote has what its manifest lists, nothing else,   *)
(* and a manifest from the first one on, for branches of any length.       *)
(***************************************************************************)
THEOREM PublishedWhole == Apart /\ Spec => []PublishedIsWhole
<1>1. ASSUME IInv, NEW i \in DOMAIN remote
      PROVE  /\ \A s \in Path : Present(remote[i].manifest, s) =>
                   /\ Present(remote[i].files, s)
                   /\ Bytes[remote[i].files[s]] = Bytes[remote[i].manifest[s]]
             /\ ~remote[i].stray
             /\ \A j \in 1 .. i : remote[j].manifest # <<>> => remote[i].manifest # <<>>
  <2>1. remote \in Seq(Commit) /\ AllVerified(remote)
    BY <1>1 DEF IInv, Fits, RemoteFits, BranchFits
  <2> QED
    BY <2>1, VerifiedIsWhole DEF Present, Owned, SizeMatches
<1>2. IInv => PublishedIsWhole
  BY <1>1 DEF PublishedIsWhole
<1> QED
  BY <1>2, AlwaysInv, PTL

(***************************************************************************)
(* A push publishes the export it has made and no mixture with what an     *)
(* interrupted one left, if it is alone in its checkout and sizes differ.  *)
(***************************************************************************)
THEOREM PushesItsExport == Apart /\ SizesDiffer /\ Spec => []PublishesItsExport
<1>1. ASSUME IInv, SizesDiffer, NEW p \in Process, proc[p].pc = "publish"
      PROVE  LET tip == Tip(head[CheckoutOf[p]])
             IN  tip.manifest = proc[p].snapshot /\ Readable(tip)
  <2> DEFINE branch == head[CheckoutOf[p]]
  <2>1. PushFits(p) /\ branch \in Seq(Commit)
    BY <1>1, PushFacts DEF BranchFits
  <2>2. Tip(branch).manifest = proc[p].snapshot /\ AllVerified(branch)
    BY <1>1, <2>1 DEF PushFits, Publishing
  <2>3. CASE Len(branch) = 0
    <3>1. Tip(branch).manifest = <<>>
      BY <2>3 DEF Tip, At, Root
    <3>2. Owned(Tip(branch).manifest) = {}
      BY <3>1, EmptyIsMap DEF Owned
    <3> QED
      BY <2>2, <3>2 DEF Readable
  <2>4. CASE Len(branch) # 0
    <3>1. Len(branch) \in DOMAIN branch
      BY <2>1, <2>4
    <3> QED
      BY <1>1, <2>1, <2>2, <2>4, <3>1, VerifiedIsReadable DEF Tip, At
  <2> QED
    BY <2>3, <2>4
<1>2. SizedInv => PublishesItsExport
  BY <1>1 DEF PublishesItsExport, SizedInv
<1> QED
  BY <1>2, AlwaysSized, PTL

(***************************************************************************)
(* A writing push overwrites or removes a file only if it was owned by the *)
(* manifest it found, whatever the user laid into data/ before.            *)
(***************************************************************************)
THEOREM UnownedFilesSurvive == Apart /\ Spec => UnownedSurvives
<1>1. ASSUME IInv, NEW p \in Process, NEW s \in Path, Writing(p),
             s \in proc[p].todo \/ s \notin Owned(proc[p].snapshot),
             Present(tree[CheckoutOf[p]].files, s)
      PROVE  s \in Owned(proc[p].old)
  BY <1>1, PushFacts DEF PushFits, Present
<1> DEFINE Survives == \A p \in Process, s \in Path :
              LET before == tree[CheckoutOf[p]].files
                  after  == tree'[CheckoutOf[p]].files
              IN  /\ Writing(p)
                  /\ s \in proc[p].todo \/ s \notin Owned(proc[p].snapshot)
                  /\ Present(before, s) /\ ~Unchanged(before, after, s)
                  => s \in Owned(proc[p].old)
<1>2. IInv /\ [Next]_vars => [Survives]_vars
  BY <1>1
<1> QED
  BY <1>2, AlwaysInv, PTL DEF Spec, UnownedSurvives

-----------------------------------------------------------------------------
(***************************************************************************)
(* The remote implements the log of snapshots.                             *)
(***************************************************************************)
LogOf(branch) == [i \in DOMAIN branch |-> Yield(branch[i])]

LEMMA LogIsSeq ==
    ASSUME NEW branch \in Seq(Commit)
    PROVE  /\ DOMAIN LogOf(branch) = DOMAIN branch
           /\ Len(LogOf(branch)) = Len(branch)
           /\ \A i \in DOMAIN branch : LogOf(branch)[i] = Yield(branch[i])
<1> DEFINE S == {Yield(branch[i]) : i \in DOMAIN branch}
<1>1. LogOf(branch) \in [1 .. Len(branch) -> S] /\ Len(branch) \in Nat
  BY DEF LogOf
<1>2. Len(LogOf(branch)) = Len(branch)
  BY <1>1
<1> QED
  BY <1>2 DEF LogOf

\* What a verified commit yields.
LEMMA YieldOfVerified ==
    ASSUME SizesDiffer, NEW branch, BranchFits(branch), AllVerified(branch), NEW i \in DOMAIN branch
    PROVE  /\ branch[i].manifest = <<>> => Yield(branch[i]) = Nothing
           /\ branch[i].manifest # <<>> => Yield(branch[i]) = branch[i].manifest
           /\ Yield(branch[i]) \in Exported \cup {Nothing}
           /\ Yield(branch[i]) = Nothing <=> branch[i].manifest = <<>>
<1>1. Readable(branch[i]) /\ branch[i].manifest \in Manifest
  BY VerifiedIsReadable DEF BranchFits
<1>2. CASE branch[i].manifest = <<>>
  BY <1>2 DEF Yield
<1>3. CASE branch[i].manifest # <<>>
  <2>1. Yield(branch[i]) = branch[i].manifest /\ branch[i].manifest \in Exported
    BY <1>1, <1>3 DEF Yield, Manifest
  <2>2. branch[i].manifest # Nothing
    BY <2>1, ExportsAreMaps, PublicationAssumption
  <2> QED
    BY <1>3, <2>1, <2>2
<1> QED
  BY <1>2, <1>3

LEMMA PushAppends ==
    ASSUME SizedInv, NEW p \in Process, PushAtomic(p)
    PROVE  /\ Len(LogOf(remote)) <= Len(LogOf(remote'))
           /\ \A i \in DOMAIN LogOf(remote) : LogOf(remote')[i] = LogOf(remote)[i]
           /\ \A i \in DOMAIN LogOf(remote') \ DOMAIN LogOf(remote) :
                /\ LogOf(remote')[i] \in Exported \cup {Nothing}
                /\ LogOf(remote')[i] = Nothing => \A j \in 1 .. i : LogOf(remote')[j] = Nothing
<1> DEFINE b == head[CheckoutOf[p]]
<1>1. /\ remote' = b /\ BranchFits(b) /\ b \in Seq(Commit) /\ AllVerified(b) /\ SizesDiffer
  <2>1. PushFits(p) /\ BranchFits(b)
    BY PushFacts DEF SizedInv
  <2> QED
    BY <2>1 DEF PushAtomic, PushFits, Publishing, SizedInv, BranchFits
<1>2. remote \in Seq(Commit) /\ IsPrefix(remote, b)
  BY DEF PushAtomic, FastForwards, SizedInv, IInv, Fits, RemoteFits, BranchFits
<1>3. /\ Len(remote) \in Nat /\ Len(b) \in Nat /\ Len(remote) <= Len(b)
      /\ \A i \in DOMAIN remote : i \in DOMAIN b /\ b[i] = remote[i]
  <2>1. Len(remote) \in Nat /\ Len(b) \in Nat /\ Len(remote) <= Len(b)
    BY <1>1, <1>2 DEF IsPrefix
  <2>2. /\ SubSeq(remote, 1, Len(remote)) = [i \in 1 .. Len(remote) |-> remote[i]]
        /\ SubSeq(b, 1, Len(remote)) = [i \in 1 .. Len(remote) |-> b[i]]
    BY <1>1, <1>2, <2>1
  <2>3. \A i \in 1 .. Len(remote) : b[i] = remote[i]
    BY <1>2, <2>2 DEF IsPrefix
  <2> QED
    BY <1>1, <1>2, <2>1, <2>3
<1> HIDE DEF b
<1>4. Len(LogOf(remote)) <= Len(LogOf(b))
  BY <1>1, <1>2, <1>3, LogIsSeq
<1>5. \A i \in DOMAIN LogOf(remote) : LogOf(b)[i] = LogOf(remote)[i]
  BY <1>1, <1>2, <1>3, LogIsSeq
<1>6. ASSUME NEW i \in DOMAIN LogOf(b)
      PROVE  /\ LogOf(b)[i] \in Exported \cup {Nothing}
             /\ LogOf(b)[i] = Nothing => \A j \in 1 .. i : LogOf(b)[j] = Nothing
  <2>1. i \in DOMAIN b /\ LogOf(b)[i] = Yield(b[i])
    BY <1>1, LogIsSeq
  <2>2. ASSUME LogOf(b)[i] = Nothing, NEW j \in 1 .. i PROVE LogOf(b)[j] = Nothing
    <3>1. j \in DOMAIN b
      BY <1>1, <2>1
    <3>2. b[j].manifest = <<>>
      BY <1>1, <2>1, <2>2, VerifiedIsWhole, YieldOfVerified
    <3> QED
      BY <1>1, <3>1, <3>2, LogIsSeq, YieldOfVerified
  <2> QED
    BY <1>1, <2>1, <2>2, YieldOfVerified
<1> QED
  BY <1>1, <1>4, <1>5, <1>6

\* The names of a push: none, or one that was free and now stands for a published commit.
LEMMA PushNames ==
    ASSUME Fits, NEW p \in Process, PushAtomic(p)
    PROVE  \/ remoteTags' = remoteTags
           \/ \E t \in Tag, i \in DOMAIN LogOf(remote') :
                /\ remoteTags[t] = 0
                /\ remoteTags' = [remoteTags EXCEPT ![t] = i]
<1> DEFINE c == CheckoutOf[p]
           t == proc[p].tag
<1>1. /\ proc[p] \in ProcType /\ ProcFits(p) /\ head[c] \in Seq(Commit)
      /\ t \in Tag \cup {NoTag} /\ remoteTags \in [Tag -> 0 .. Len(remote)]
  BY ProcFacts, CheckoutFacts DEF ProcType, BranchFits, Fits, RemoteFits
<1>2. CASE t = NoTag
  BY <1>2 DEF PushAtomic
<1>3. CASE t # NoTag
  <2> DEFINE n == Len(localTags[c][t])
  <2>1. /\ t \in Tag /\ n \in 1 .. Len(head[c])
        /\ remoteTags[t] \in {0, n}
        /\ remoteTags' = [remoteTags EXCEPT ![t] = n]
        /\ remote' = head[c]
    BY <1>1, <1>3 DEF PushAtomic, TagFits, ProcFits
  <2> HIDE DEF n
  <2>2. n \in DOMAIN LogOf(remote')
    BY <1>1, <2>1, LogIsSeq
  <2>3. CASE remoteTags[t] = n
    <3>1. [remoteTags EXCEPT ![t] = n] = remoteTags
      BY <1>1, <2>3
    <3> QED
      BY <2>1, <3>1
  <2>4. CASE remoteTags[t] = 0
    BY <2>1, <2>2, <2>4
  <2> QED
    BY <2>1, <2>3, <2>4
<1> QED
  BY <1>2, <1>3

(***************************************************************************)
(* For any number of machines, each with a checkout of its own, the remote *)
(* is a log of whole snapshots that only grows, and its checkpoints do not *)
(* move: every step of a command or of a user appends to the log or leaves *)
(* it, if sizes differ.                                                    *)
(***************************************************************************)
THEOREM Refinement == Apart /\ SizesDiffer /\ Spec => ImplementsLog
<1>1. Init => Log!Init
  <2> SUFFICES ASSUME Init PROVE Log!Init
    OBVIOUS
  <2>1. [i \in DOMAIN remote |-> Yield(remote[i])] = <<>>
    BY DEF Init
  <2> QED
    BY <2>1 DEF Init, Log!Init
<1>2. SizedInv /\ [Next]_vars => [Log!Publish]_(Log!vars)
  <2> SUFFICES ASSUME SizedInv, [Next]_vars PROVE [Log!Publish]_(Log!vars)
    OBVIOUS
  <2>1. ASSUME NEW p \in Process, PushAtomic(p) PROVE Log!Publish
    <3>1. Fits
      BY DEF SizedInv, IInv
    <3> QED
      BY <2>1, <3>1, PushAppends, PushNames DEF Log!Publish, LogOf
  <2>2. CASE remote' = remote /\ remoteTags' = remoteTags
    BY <2>2 DEF Log!vars
  <2>3. ASSUME NEW p \in Process, Command(p), ~PushAtomic(p)
        PROVE  remote' = remote /\ remoteTags' = remoteTags
    BY <2>3 DEF Command, PushStart, InitUpload, WriteShard, Sweep, WriteManifest, CommitPaths,
       VerifyPendingHistory, CreateImmutableTag, Status, PullStart, ReadShard, Import, RestoreAt, Abort
  <2>4. ASSUME NEW c \in Handled, ByHand(c) PROVE remote' = remote /\ remoteTags' = remoteTags
    BY <2>4 DEF ByHand, UserCommit, UserDrop, UserReset
  <2>5. UNCHANGED vars => remote' = remote /\ remoteTags' = remoteTags
    BY DEF vars
  <2> QED
    BY <2>1, <2>2, <2>3, <2>4, <2>5 DEF Next
<1> QED
  BY <1>1, <1>2, AlwaysSized, PTL DEF Spec, ImplementsLog, Log!Spec

=============================================================================
