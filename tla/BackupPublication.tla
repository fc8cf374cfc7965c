------------------------- MODULE BackupPublication -------------------------
(***************************************************************************)
(* internal/backup: `backup push` and `backup pull` of several processes,  *)
(* on one checkout or on several, that meet at one remote branch.          *)
(*                                                                         *)
(* A push writes encrypted shards into the checkout, removes the ones no   *)
(* longer needed, writes the manifest, commits what the old and the new    *)
(* manifest own, verifies every commit the remote does not have, tags, and *)
(* pushes branch and tag together.  It takes no lock and may end after any *)
(* step.  A pull fast-forwards the checkout, reads the manifest and then   *)
(* the shards one by one.                                                  *)
(*                                                                         *)
(* A shard's text stands for its plaintext (and for its hash); encryption  *)
(* is left out but for the size of the ciphertext, which is all that can   *)
(* be checked without the identity.  A manifest maps the paths it owns to  *)
(* the texts it recorded; the empty one is no manifest.                    *)
(***************************************************************************)
EXTENDS Integers, Sequences, SequencesExt

CONSTANTS
    Process,      \* runs of the command
    Checkout,     \* clones of the backup repository
    CheckoutOf,   \* the clone each process works in
    Path,         \* shard paths: one per table, one per month of messages
    Text,         \* what a shard may hold
    Bytes,        \* the size of each text's ciphertext
    Exports,      \* per clone: what ExportAll may yield, as the shards it is split into
    Handled,      \* the clones a user also works in by hand
    Tag,          \* names of checkpoints
    NoTag,        \* a push without --tag
    Requests,     \* with which options pushes are asked for
    Nothing,      \* what a commit without a manifest yields
    MaxPending,   \* unpublished commits a push is willing to verify (128)
    MaxCommits    \* bound: commits on a branch

Maps == UNION {[D -> Text] : D \in SUBSET Path}

ASSUME PublicationAssumption ==
    /\ CheckoutOf \in [Process -> Checkout]
    /\ Handled \subseteq Checkout
    /\ Bytes \in [Text -> Nat]
    /\ Exports \in [Checkout -> SUBSET (Maps \ {<<>>})]
    /\ NoTag \notin Tag
    /\ Requests \subseteq [push : BOOLEAN, tag : Tag \cup {NoTag}]
    /\ Nothing \notin Maps
    /\ MaxPending \in Nat
    /\ MaxCommits \in Nat

VARIABLES
    remote,       \* the remote branch: its commits, oldest first
    remoteTags,   \* the commit, by its position, a remote tag names; 0 is none
    head,         \* per checkout: the local branch
    localTags,    \* per checkout: the branch up to the tagged commit; <<>> is none
    tree,         \* per checkout: the work tree
    proc          \* per process: where it is and what it has read

vars == <<remote, remoteTags, head, localTags, tree, proc>>

(***************************************************************************)
(* Commits.  A commit holds a manifest, shards, and possibly a file that   *)
(* is neither ("stray"), and is told from an equal one by who made it.     *)
(***************************************************************************)
Clean == [manifest |-> <<>>, files |-> <<>>]
Root  == [manifest |-> <<>>, files |-> <<>>, stray |-> FALSE]

Commit == [manifest : Maps, files : Maps, stray : BOOLEAN, by : Checkout]

At(branch, i) == IF i = 0 THEN Root ELSE branch[i]
Tip(branch)   == At(branch, Len(branch))

Same(a, b) == /\ a.manifest = b.manifest
              /\ a.files = b.files
              /\ a.stray = b.stray

Owned(manifest) == DOMAIN manifest

Present(files, s) == s \in DOMAIN files

(* Equal at path s: the same text or both without the file. *)
Unchanged(f, g, s) == /\ Present(f, s) <=> Present(g, s)
                      /\ Present(f, s) => f[s] = g[s]

(* f with the paths of S as they are in g, there or not. *)
Staged(f, g, S) ==
    [s \in (DOMAIN f \ S) \cup (DOMAIN g \cap S) |-> IF s \in S THEN g[s] ELSE f[s]]

(* What reading a commit yields: its manifest's shards, if it has one. *)
Readable(c) == \A s \in Owned(c.manifest) :
                  Present(c.files, s) /\ c.files[s] = c.manifest[s]

(***************************************************************************)
(* verifyPendingHistory, for one commit and the one before it.             *)
(***************************************************************************)
SizeMatches(c, s) == /\ Present(c.files, s)
                     /\ Bytes[c.files[s]] = Bytes[c.manifest[s]]

PresentArtifacts(c) == \A s \in Owned(c.manifest) : Present(c.files, s)

VerifiedArtifacts(c) == \A s \in Owned(c.manifest) : SizeMatches(c, s)

VerifiedChange(prior, c) ==
    /\ prior.manifest # <<>> => c.manifest # <<>>
    /\ prior.stray = c.stray
    /\ \A s \in Path : ~Unchanged(prior.files, c.files, s) =>
          /\ s \in Owned(prior.manifest) \cup Owned(c.manifest)
          /\ Present(c.files, s) => s \in Owned(c.manifest)

Verified(prior, c) == VerifiedArtifacts(c) /\ VerifiedChange(prior, c)

(* The commits of branch that base does not have start after Common. *)
Common(branch, base) ==
    CHOOSE n \in 0 .. Len(branch) :
       /\ n <= Len(base)
       /\ SubSeq(branch, 1, n) = SubSeq(base, 1, n)
       /\ n < Len(branch) /\ n < Len(base) => branch[n + 1] # base[n + 1]

Pending(branch, base) == Common(branch, base) + 1 .. Len(branch)

TipVerified(branch, base) ==
    Pending(branch, base) # {} =>
       Verified(At(branch, Len(branch) - 1), branch[Len(branch)])

PendingVerified(branch, base) ==
    /\ Len(branch) - Common(branch, base) <= MaxPending
    /\ \A i \in Pending(branch, base) : Verified(At(branch, i - 1), branch[i])

-----------------------------------------------------------------------------
(***************************************************************************)
(* Processes.  "old" is the manifest a push found; "snapshot" what it      *)
(* exports, or for a pull the manifest it reads by; "todo" the shards left *)
(* to write or read, "closing" what a writer does after the last shard;    *)
(* "data" the shards a pull has read.                                      *)
(***************************************************************************)
Phase   == {"idle", "write", "close", "verify", "tag", "publish", "read"}
Closing == {"sweep", "manifest"}

Idle == [pc |-> "idle", old |-> <<>>, snapshot |-> <<>>, todo |-> {},
         closing |-> {}, push |-> FALSE, tag |-> NoTag, data |-> <<>>]

Quiet(c) == \A p \in Process : CheckoutOf[p] = c => proc[p].pc = "idle"

Init ==
    /\ remote = <<>>
    /\ remoteTags = [t \in Tag |-> 0]
    /\ head = [c \in Checkout |-> <<>>]
    /\ localTags = [c \in Checkout |-> [t \in Tag |-> <<>>]]
    /\ tree = [c \in Checkout |-> Clean]
    /\ proc = [p \in Process |-> Idle]

(***************************************************************************)
(* Push, up to the export: the manifest is read, and every ciphertext in   *)
(* the work tree must be its own, or the push is refused.                  *)
(***************************************************************************)
InputsOwnedAfterFirst(c) ==
    tree[c].manifest # <<>> => DOMAIN tree[c].files \subseteq Owned(tree[c].manifest)

InputsOwned(c) == DOMAIN tree[c].files \subseteq Owned(tree[c].manifest)

PushStart(p) ==
    LET c == CheckoutOf[p]
    IN  /\ proc[p].pc = "idle"
        /\ InputsOwned(c)
        /\ \E e \in Exports[c], r \in Requests :
              proc' = [proc EXCEPT ![p] =
                         [Idle EXCEPT !.pc = "write", !.old = tree[c].manifest,
                                      !.snapshot = e, !.todo = DOMAIN e,
                                      !.push = r.push, !.tag = r.tag]]
        /\ UNCHANGED <<remote, remoteTags, head, localTags, tree>>

(***************************************************************************)
(* `backup init` on a checkout that exists writes and commits the README   *)
(* alone (not modelled) and then uploads whatever is pending.              *)
(***************************************************************************)
InitUpload(p) ==
    LET c == CheckoutOf[p]
    IN  /\ proc[p].pc = "idle"
        /\ head[c] # <<>>
        /\ proc' = [proc EXCEPT ![p] =
                      [Idle EXCEPT !.pc = "verify", !.push = TRUE,
                                   !.snapshot = Tip(head[c]).manifest]]
        /\ UNCHANGED <<remote, remoteTags, head, localTags, tree>>

(***************************************************************************)
(* The snapshot writer.  A shard whose text the old manifest records is    *)
(* left as it is while its file is there; whether the writer looks into    *)
(* the file is not relied on.  Sweeping and writing the manifest come      *)
(* after the shards, in an order that is not relied on either.             *)
(***************************************************************************)
Reusable(p, s) ==
    /\ s \in Owned(proc[p].old)
    /\ proc[p].old[s] = proc[p].snapshot[s]
    /\ Present(tree[CheckoutOf[p]].files, s)

WriteShard(p) ==
    LET c == CheckoutOf[p]
    IN  /\ proc[p].pc = "write"
        /\ \E s \in proc[p].todo :
              /\ \/ Reusable(p, s) /\ UNCHANGED tree
                 \/ tree' = [tree EXCEPT ![c].files = Staged(@, proc[p].snapshot, {s})]
              /\ proc' = [proc EXCEPT
                   ![p].todo = @ \ {s},
                   ![p].pc = IF proc[p].todo = {s} THEN "close" ELSE @,
                   ![p].closing = IF proc[p].todo = {s} THEN Closing ELSE @]
        /\ UNCHANGED <<remote, remoteTags, head, localTags>>

Swept(files, e) == [s \in DOMAIN files \cap DOMAIN e |-> files[s]]

Sweep(p) ==
    /\ proc[p].pc = "close" /\ "sweep" \in proc[p].closing
    /\ tree' = [tree EXCEPT ![CheckoutOf[p]].files = Swept(@, proc[p].snapshot)]
    /\ proc' = [proc EXCEPT ![p].closing = @ \ {"sweep"}]
    /\ UNCHANGED <<remote, remoteTags, head, localTags>>

WriteManifest(p) ==
    /\ proc[p].pc = "close" /\ "manifest" \in proc[p].closing
    /\ tree' = [tree EXCEPT ![CheckoutOf[p]].manifest = proc[p].snapshot]
    /\ proc' = [proc EXCEPT ![p].closing = @ \ {"manifest"}]
    /\ UNCHANGED <<remote, remoteTags, head, localTags>>

(***************************************************************************)
(* commitAndPush: the manifest and the paths the old and the new manifest  *)
(* own are committed as they are in the work tree by now; nothing else is. *)
(* A tagged push verifies in Push, another one here, a local one not.      *)
(***************************************************************************)
OwnedPaths(p) == Owned(proc[p].old) \cup Owned(proc[p].snapshot)

Committed(p) ==
    LET c == CheckoutOf[p]
    IN  [manifest |-> tree[c].manifest,
         files |-> Staged(Tip(head[c]).files, tree[c].files, OwnedPaths(p)),
         stray |-> Tip(head[c]).stray]

AfterCommit(p) == IF proc[p].push THEN "verify"
                  ELSE IF proc[p].tag # NoTag THEN "tag" ELSE "idle"

Stamped(c, checkout) == [manifest |-> c.manifest, files |-> c.files,
                         stray |-> c.stray, by |-> checkout]

Advance(p, pc) ==
    proc' = [proc EXCEPT ![p] = IF pc = "idle" THEN Idle
                                      ELSE [@ EXCEPT !.pc = pc, !.old = <<>>]]

CommitPaths(p) ==
    LET c == CheckoutOf[p]
    IN  /\ proc[p].pc = "close" /\ proc[p].closing = {}
        /\ \/ Same(Committed(p), Tip(head[c])) /\ UNCHANGED head
           \/ /\ ~Same(Committed(p), Tip(head[c]))
              /\ Len(head[c]) < MaxCommits
              /\ head' = [head EXCEPT ![c] = Append(@, Stamped(Committed(p), c))]
        /\ Advance(p, AfterCommit(p))
        /\ UNCHANGED <<remote, remoteTags, localTags, tree>>

(***************************************************************************)
(* The remote's head is asked for, and everything verified it does not     *)
(* have.  A push that is refused ends here (Abort); so does one that knows *)
(* nothing of the remote's head, which PushAtomic would refuse anyway.     *)
(***************************************************************************)
VerifyPendingHistory(p) ==
    LET c == CheckoutOf[p]
    IN  /\ proc[p].pc = "verify"
        /\ PendingVerified(head[c], remote)
        /\ Advance(p, IF proc[p].tag = NoTag THEN "publish" ELSE "tag")
        /\ UNCHANGED <<remote, remoteTags, head, localTags, tree>>

CreateImmutableTag(p) ==
    LET c == CheckoutOf[p]
        t == proc[p].tag
    IN  /\ proc[p].pc = "tag"
        /\ head[c] # <<>>
        /\ localTags[c][t] \in {<<>>, head[c]}
        /\ localTags' = [localTags EXCEPT ![c][t] = head[c]]
        /\ Advance(p, IF proc[p].push THEN "publish" ELSE "idle")
        /\ UNCHANGED <<remote, remoteTags, head, tree>>

(***************************************************************************)
(* Branch and tag are pushed together, by name: HEAD is what it is by now. *)
(* Without force the remote takes only descendants, and no tag it has      *)
(* elsewhere.                                                              *)
(***************************************************************************)
TagFits(c, t) == remoteTags[t] \in {0, Len(localTags[c][t])}

Forced(c) == Len(remote) <= Len(head[c])

FastForwards(c) == IsPrefix(remote, head[c])

PushTagAlone(p) ==
    LET c == CheckoutOf[p]
        t == proc[p].tag
    IN  /\ proc[p].pc = "publish" /\ t # NoTag
        /\ TagFits(c, t)
        /\ remoteTags' = [remoteTags EXCEPT ![t] = Len(localTags[c][t])]
        /\ Advance(p, "idle")
        /\ UNCHANGED <<remote, head, localTags, tree>>

PushAtomic(p) ==
    LET c == CheckoutOf[p]
        t == proc[p].tag
    IN  /\ proc[p].pc = "publish"
        /\ FastForwards(c)
        /\ t # NoTag => TagFits(c, t)
        /\ remote' = head[c]
        /\ remoteTags' = IF t = NoTag THEN remoteTags
                         ELSE [remoteTags EXCEPT ![t] = Len(localTags[c][t])]
        /\ Advance(p, "idle")
        /\ UNCHANGED <<head, localTags, tree>>

-----------------------------------------------------------------------------
(***************************************************************************)
(* Pull.  ensureRepo fetches and fast-forwards; a checkout that is ahead   *)
(* stays, one that has diverged, or whose work tree differs where the new  *)
(* commits do, is an error once it has fetched.                            *)
(***************************************************************************)
Fetched(c) == [t \in Tag |->
    IF localTags[c][t] = <<>> THEN SubSeq(remote, 1, remoteTags[t]) ELSE localTags[c][t]]

Checkable(c) ==
    LET from == Tip(head[c])  to == Tip(remote)
    IN  /\ from.manifest = to.manifest \/ tree[c].manifest = from.manifest
        /\ \A s \in Path : \/ Unchanged(from.files, to.files, s)
                           \/ Unchanged(tree[c].files, from.files, s)

CheckedOut(c) ==
    LET from == Tip(head[c])  to == Tip(remote)
    IN  [manifest |-> IF from.manifest = to.manifest THEN tree[c].manifest ELSE to.manifest,
         files |-> Staged(tree[c].files, to.files,
                          {s \in Path : ~Unchanged(from.files, to.files, s)})]

FetchInto(c) == localTags' = [localTags EXCEPT ![c] = Fetched(c)]

Sync(c) ==
    /\ FetchInto(c)
    /\ \/ /\ IsPrefix(head[c], remote) /\ Checkable(c)
          /\ head' = [head EXCEPT ![c] = remote]
          /\ tree' = [tree EXCEPT ![c] = CheckedOut(c)]
       \/ /\ IsPrefix(remote, head[c])
          /\ UNCHANGED <<head, tree>>

(* `backup status`, or a pull that ends before it has read a manifest. *)
Status(p) ==
    LET c == CheckoutOf[p]
    IN  /\ proc[p].pc = "idle"
        /\ \/ Sync(c)
           \/ FetchInto(c) /\ UNCHANGED <<head, tree>>
        /\ UNCHANGED <<remote, remoteTags, proc>>

PullStart(p) ==
    LET c == CheckoutOf[p]
    IN  /\ proc[p].pc = "idle"
        /\ Sync(c)
        /\ tree'[c].manifest # <<>>
        /\ proc' = [proc EXCEPT ![p] =
                      [Idle EXCEPT !.pc = "read", !.snapshot = tree'[c].manifest,
                                   !.todo = Owned(tree'[c].manifest)]]
        /\ UNCHANGED <<remote, remoteTags>>

ListedOnly(files, manifest, s) == s \in Owned(manifest)

HashMatches(files, manifest, s) == files[s] = manifest[s]

ReadShard(p) ==
    LET files == tree[CheckoutOf[p]].files
    IN  /\ proc[p].pc = "read"
        /\ \E s \in proc[p].todo :
              /\ Present(files, s)
              /\ HashMatches(files, proc[p].snapshot, s)
              /\ proc' = [proc EXCEPT ![p].todo = @ \ {s},
                                      ![p].data = Staged(@, files, {s})]
        /\ UNCHANGED <<remote, remoteTags, head, localTags, tree>>

Import(p) ==
    /\ proc[p].pc = "read" /\ proc[p].todo = {}
    /\ Advance(p, "idle")
    /\ UNCHANGED <<remote, remoteTags, head, localTags, tree>>

(***************************************************************************)
(* pull --restore --ref: a fetch, then one commit's objects, which do not  *)
(* change under the reader; the checkout stays where it is.  Import hands  *)
(* what was read to the store.                                             *)
(***************************************************************************)
Referable(c) == UNION {Range(branch) : branch \in {head[c], remote}}

RestoreAt(p) ==
    LET c == CheckoutOf[p]
    IN  /\ proc[p].pc = "idle"
        /\ FetchInto(c)
        /\ \E commit \in Referable(c) :
              /\ commit.manifest # <<>>
              /\ \A s \in Owned(commit.manifest) :
                    /\ Present(commit.files, s)
                    /\ HashMatches(commit.files, commit.manifest, s)
              /\ proc' = [proc EXCEPT ![p] =
                   [Idle EXCEPT !.pc = "read", !.snapshot = commit.manifest,
                                !.data = Swept(commit.files, commit.manifest)]]
        /\ UNCHANGED <<remote, remoteTags, head, tree>>

(***************************************************************************)
(* A process ends anywhere: a crash, a refusal, an error of git.           *)
(***************************************************************************)
Abort(p) ==
    /\ proc[p].pc # "idle"
    /\ Advance(p, "idle")
    /\ UNCHANGED <<remote, remoteTags, head, localTags, tree>>

-----------------------------------------------------------------------------
(***************************************************************************)
(* The user's hands in a checkout no command is running in, as the tests   *)
(* put them there: commits of a stray file or without it, of a shard or    *)
(* the manifest removed, of an earlier commit's content; a ciphertext laid *)
(* into data/; a work tree reset to HEAD.                                  *)
(***************************************************************************)
HandMade(branch) ==
    LET tip == Tip(branch)
    IN  {[tip EXCEPT !.stray = ~@], [tip EXCEPT !.manifest = <<>>]}
        \cup {[tip EXCEPT !.files = Staged(@, <<>>, {s})] : s \in DOMAIN tip.files}
        \cup {At(branch, i) : i \in 1 .. Len(branch)}

UserCommit(c) ==
    /\ Quiet(c)
    /\ Len(head[c]) < MaxCommits
    /\ \E t \in HandMade(head[c]) :
          /\ ~Same(t, Tip(head[c]))
          /\ head' = [head EXCEPT ![c] = Append(@, Stamped(t, c))]
          /\ tree' = [tree EXCEPT ![c] = [manifest |-> t.manifest, files |-> t.files]]
    /\ UNCHANGED <<remote, remoteTags, localTags, proc>>

UserDrop(c) ==
    /\ Quiet(c)
    /\ \E s \in Path \ DOMAIN tree[c].files, x \in Text :
          tree' = [tree EXCEPT ![c].files = Staged(@, [r \in {s} |-> x], {s})]
    /\ UNCHANGED <<remote, remoteTags, head, localTags, proc>>

UserReset(c) ==
    /\ Quiet(c)
    /\ tree' = [tree EXCEPT ![c] = [manifest |-> Tip(head[c]).manifest,
                                    files |-> Tip(head[c]).files]]
    /\ UNCHANGED <<remote, remoteTags, head, localTags, proc>>

Command(p) ==
    \/ PushStart(p) \/ InitUpload(p)
    \/ WriteShard(p) \/ Sweep(p) \/ WriteManifest(p) \/ CommitPaths(p)
    \/ VerifyPendingHistory(p) \/ CreateImmutableTag(p)
    \/ PushAtomic(p)
    \/ Status(p) \/ PullStart(p) \/ ReadShard(p) \/ Import(p)
    \/ RestoreAt(p) \/ Abort(p)

ByHand(c) == UserCommit(c) \/ UserDrop(c) \/ UserReset(c)

Next ==
    \/ \E p \in Process : Command(p)
    \/ \E c \in Handled : ByHand(c)

Spec == Init /\ [][Next]_vars

-----------------------------------------------------------------------------
(***************************************************************************)
(* The types; a process has only shards of its snapshot left, and a remote *)
(* tag names a commit of the remote branch.                                *)
(***************************************************************************)
ProcType == [pc : Phase, old : Maps, snapshot : Maps, todo : SUBSET Path,
             closing : SUBSET Closing, push : BOOLEAN, tag : Tag \cup {NoTag},
             data : Maps]

TypeOK ==
    /\ remote \in Seq(Commit) /\ Len(remote) <= MaxCommits
    /\ remoteTags \in [Tag -> 0 .. Len(remote)]
    /\ head \in [Checkout -> Seq(Commit)]
    /\ localTags \in [Checkout -> [Tag -> Seq(Commit)]]
    /\ tree \in [Checkout -> [manifest : Maps, files : Maps]]
    /\ proc \in [Process -> ProcType]
    /\ \A p \in Process : proc[p].todo \subseteq Owned(proc[p].snapshot)

(***************************************************************************)
(* verifyPendingHistory: whatever processes crashed and whatever was       *)
(* committed by hand before, every commit that reaches the remote has all  *)
(* the shards its manifest lists, in the sizes it lists, and no other      *)
(* file, and the first manifest is never dropped again.                    *)
(***************************************************************************)
PublishedIsWhole ==
    \A i \in DOMAIN remote :
       /\ \A s \in Path : Present(remote[i].manifest, s) =>
             /\ Present(remote[i].files, s)
             /\ Bytes[remote[i].files[s]] = Bytes[remote[i].manifest[s]]
       /\ ~remote[i].stray
       /\ \A j \in 1 .. i : remote[j].manifest # <<>> => remote[i].manifest # <<>>

(***************************************************************************)
(* The same as the backup's own README puts it (backup.go:545, "Explicit   *)
(* pushes verify unpublished history first"): nothing reaches the remote   *)
(* that verifyPendingHistory would refuse.                                 *)
(***************************************************************************)
PublishedIsVerified ==
    \A i \in DOMAIN remote : Verified(At(remote, i - 1), remote[i])

(***************************************************************************)
(* Push: what a push is about to publish as its export is its export,      *)
(* readable in full, also when an interrupted push has left shards or the  *)
(* manifest of another one behind; what init uploads is readable too.  To  *)
(* the size check texts differ only in size: this needs sizes that differ. *)
(***************************************************************************)
PublishesItsExport ==
    \A p \in Process : proc[p].pc = "publish" =>
       LET tip == Tip(head[CheckoutOf[p]])
       IN  tip.manifest = proc[p].snapshot /\ Readable(tip)

(***************************************************************************)
(* Pull: a store is only ever handed something a push has exported, never  *)
(* shards of two snapshots, although the checkout may change between the   *)
(* manifest and any of the shards.                                         *)
(***************************************************************************)
Exported == UNION Range(Exports)

PulledIsExport ==
    \A p \in Process : proc[p].pc = "read" /\ proc[p].todo = {} => proc[p].data \in Exported

(***************************************************************************)
(* validateSnapshotInputs: a writing push overwrites or removes only files *)
(* of the snapshot it found.                                               *)
(***************************************************************************)
Writing(p) == proc[p].pc \in {"write", "close"}

UnownedSurvives ==
    [][\A p \in Process, s \in Path :
          LET before == tree[CheckoutOf[p]].files
              after  == tree'[CheckoutOf[p]].files
          IN  /\ Writing(p)
              /\ s \in proc[p].todo \/ s \notin Owned(proc[p].snapshot)
              /\ Present(before, s) /\ ~Unchanged(before, after, s)
              => s \in Owned(proc[p].old)]_vars

(***************************************************************************)
(* The remote as a log of snapshots (module SnapshotLog): what a reader of *)
(* each commit gets.  The size check tells texts apart only by size, so    *)
(* this needs sizes that differ.                                           *)
(***************************************************************************)
Yield(c) == CASE c.manifest = <<>> -> Nothing
              [] c.manifest # <<>> /\ Readable(c) -> c.manifest
              [] OTHER -> <<>>

Log == INSTANCE SnapshotLog WITH
          Snapshot <- Exported,
          log <- [i \in DOMAIN remote |-> Yield(remote[i])],
          tags <- remoteTags

ImplementsLog == Log!Spec

=============================================================================
