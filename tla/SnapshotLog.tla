---------------------------- MODULE SnapshotLog ----------------------------
(***************************************************************************)
(* What a backup repository promises to the machines that restore from it: *)
(* a log of commits, each of which yields one complete snapshot (or none,  *)
(* before the first one), that only grows, and names for some of them that *)
(* never move.  A commit that yields a broken snapshot is not in the type. *)
(***************************************************************************)
EXTENDS Naturals, Sequences

CONSTANTS
    Snapshot,   \* the complete snapshots
    Nothing,    \* what a commit before the first snapshot yields
    Tag         \* the names of checkpoints

VARIABLES
    log,        \* what each published commit yields
    tags        \* the position a name stands for, 0 while it is free

vars == <<log, tags>>

Init ==
    /\ log = <<>>
    /\ tags = [t \in Tag |-> 0]

(***************************************************************************)
(* One push appends any number of commits and names at most one of those   *)
(* that are published by then, both or neither.                            *)
(***************************************************************************)
Publish ==
    /\ Len(log) <= Len(log')
    /\ \A i \in DOMAIN log : log'[i] = log[i]
    /\ \A i \in DOMAIN log' \ DOMAIN log :
          /\ log'[i] \in Snapshot \cup {Nothing}
          /\ log'[i] = Nothing => \A j \in 1 .. i : log'[j] = Nothing
    /\ \/ tags' = tags
       \/ \E t \in Tag, i \in DOMAIN log' :
             /\ tags[t] = 0
             /\ tags' = [tags EXCEPT ![t] = i]

Spec == Init /\ [][Publish]_vars

=============================================================================
