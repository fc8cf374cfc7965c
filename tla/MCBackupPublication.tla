------------------------ MODULE MCBackupPublication ------------------------
(***************************************************************************)
(* Small instances of BackupPublication: two texts of different size, and  *)
(* two exports, such that no mixture of their shards is an export: one     *)
(* month of messages, and then a second month with the first one edited.   *)
(***************************************************************************)
EXTENDS BackupPublication

CONSTANTS p1, p2, c1, c2, jan, feb

OwnCheckout == [p \in Process |-> IF p = p1 THEN c1 ELSE c2]
OneCheckout == [p \in Process |-> c1]

Texts == {10, 20}
Sizes == [x \in Texts |-> x]

TwoMonths ==
    [c \in Checkout |-> {[s \in {jan} |-> 10], [s \in {jan, feb} |-> 20]}]

AnyRequest == [push : BOOLEAN, tag : Tag \cup {NoTag}]

-----------------------------------------------------------------------------
(***************************************************************************)
(* Either one machine with both exports, or two machines with one export   *)
(* each, of the first month, and one commit less: both at once are too     *)
(* many states.                                                            *)
(***************************************************************************)
OneOrTwo ==
    [c \in Checkout |-> IF c = c1 THEN TwoMonths[c] ELSE {[s \in {jan} |-> 20]}]

VARIABLE machines

OneMachine ==
    /\ machines = 1
    /\ Command(p1) \/ ByHand(c1)

TwoMachines ==
    /\ machines = 2
    /\ Next
    /\ \A p \in Process : feb \notin Owned(proc'[p].snapshot)
    /\ \A c \in Checkout : /\ ~Present(tree'[c].files, feb)
                          /\ Len(head'[c]) < MaxCommits

OwnInit == Init /\ machines \in {1, 2}

OwnNext == UNCHANGED machines /\ (OneMachine \/ TwoMachines)

OwnSpec == OwnInit /\ [][OwnNext]_<<vars, machines>>

(***************************************************************************)
(* All processes in one checkout, with any export.                         *)
(***************************************************************************)
SharedInit == Init /\ machines = 1

SharedNext == UNCHANGED machines /\ Next

SharedSpec == SharedInit /\ [][SharedNext]_<<vars, machines>>

=============================================================================
