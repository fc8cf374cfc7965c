-------------------------- MODULE MCMessageHistory --------------------------
(***************************************************************************)
(* Small instances of MessageHistory.  Texts are numbers.  Event ids are   *)
(* compared by a fixed stand-in for the order of their hashes: the first   *)
(* event in which two chains differ decides.                               *)
(***************************************************************************)
EXTENDS MessageHistory, FiniteSets, TLC

Why == [none |-> 0, message |-> 1, chat |-> 2]
Type == [created |-> 3, edited |-> 1, deleted |-> 2, observed |-> 0]

\* A number per event, injective on small times and texts.
Code(e) ==
    Type[e.type] + 4 * (e.at + 8 * (e.payload.text + 8 * (e.payload.edit
        + 8 * (e.payload.del + 8 * Why[e.payload.why]))))

MCHashBefore(x, y) ==
    LET common == {i \in DOMAIN x \cap DOMAIN y : x[i] # y[i]}
    IN  IF common = {} THEN Len(x) < Len(y)
        ELSE LET i == CHOOSE k \in common : \A j \in common : k <= j
             IN  Code(x[i]) < Code(y[i])

ArchiveSymmetry == Permutations(Archives)

\* What a behaviour is about: archives that only fetch, delete and exchange
\* snapshots of a message with several texts, or archives that are migrated,
\* replaced and restored as well, with one text and a shorter clock but one
\* revision more.  Both at once are too many states.
VARIABLE story

Exchange ==
    \/ TelegramEdit
    \/ TelegramChange
    \/ \E a \in Archives :
          \/ Fetch(a)
          \/ DeleteMessage(a)
          \/ DeleteChat(a)
          \/ Push(a)
          \/ MergeSnapshot(a)

FirstText == CHOOSE text \in Texts : \A other \in Texts : text <= other

MCInit ==
    /\ Init
    /\ story \in {"exchange", "rewrite"}
    /\ story = "rewrite" => telegram.text = FirstText

MCNext ==
    /\ UNCHANGED story
    /\ \/ /\ story = "exchange"
          /\ Exchange
          /\ \A a \in Archives : Len(history'[a]) < MaxRevisions
       \/ /\ story = "rewrite"
          /\ Next
          /\ clock' < MaxTime
          /\ telegram'.text = FirstText

MCSpec == MCInit /\ [][MCNext]_<<vars, story>>
=============================================================================
