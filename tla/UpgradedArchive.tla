-------------------------- MODULE UpgradedArchive --------------------------
(***************************************************************************)
(* What opening an archive with this build promises: an archive of an      *)
(* older schema becomes a current one at once, with an identifier of its   *)
(* own for every message that is stored by then, and from there on no      *)
(* message is lost or gets another identifier.  An archive of a newer      *)
(* schema is left as it is.                                                *)
(***************************************************************************)
CONSTANTS
    Row,        \* the rows of messages
    Message,    \* the messages, as chat and message id
    NoMessage,  \* what a free row holds
    EventId,    \* the identifiers of messages
    NoId        \* no identifier, or one of an archive that is not current

VARIABLES
    status,     \* "old", "current" or "newer"
    message,    \* the message of each row
    eventId     \* the identifier of each row, once the archive is current

vars == <<status, message, eventId>>

Stored(content) == {r \in Row : content[r] # NoMessage}

Identified(content, ids) ==
    \A r \in Stored(content) :
        /\ ids[r] \in EventId
        /\ \A s \in Stored(content) : ids[s] = ids[r] => s = r

Init ==
    /\ status \in {"old", "current", "newer"}
    /\ message \in [Row -> Message \cup {NoMessage}]
    /\ eventId \in [Row -> EventId \cup {NoId}]
    /\ status = "current" => Identified(message, eventId)

(***************************************************************************)
(* Messages more, in rows that were free.                                  *)
(***************************************************************************)
Added ==
    /\ message' \in [Row -> Message \cup {NoMessage}]
    /\ Stored(message) \subseteq Stored(message') /\ Stored(message) # Stored(message')
    /\ \A r \in Stored(message) : message'[r] = message[r]

Older ==
    /\ status = "old"
    /\ Added
    /\ UNCHANGED <<status, eventId>>

Upgrade ==
    /\ status = "old"
    /\ status' = "current"
    /\ Identified(message, eventId')
    /\ UNCHANGED message

Import ==
    /\ status = "current"
    /\ Added
    /\ \A r \in Stored(message) : eventId'[r] = eventId[r]
    /\ Identified(message', eventId')
    /\ UNCHANGED status

Next == Older \/ Upgrade \/ Import

Spec == Init /\ [][Next]_vars

=============================================================================
