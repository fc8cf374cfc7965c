---------------------------- MODULE RemoteMedia ----------------------------
(***************************************************************************)
(* How the Postbox importer gets media files for its messages: from what   *)
(* other messages have, and then from Telegram with the sessions of the    *)
(* accounts (importer.go, postbox_remote.go).  The messages of an account  *)
(* are asked for with its own session, and if that breaks, all over again  *)
(* with the session of another account.  What happens to one message, with *)
(* its retries and deadlines, is in FloodWait.                             *)
(*                                                                         *)
(* A file stands for the account whose session has seen it and the peer    *)
(* and message id it was seen under; in a channel all accounts see the     *)
(* same.  Files have the same size, and a message has one resource or, if  *)
(* it only refers to media, none.                                          *)
(***************************************************************************)
EXTENDS Naturals, FiniteSets, FiniteSetsExt

CONSTANTS
    Messages,       \* how many messages there are, in their order
    Accounts,       \* how many accounts there are, in the order of their ids
    Key,            \* the peers with message ids
    NoKey,          \* of a message that is not in the cloud
    Resource,
    Record,         \* what the records of the messages say
    NoFile

Message == 1 .. Messages

Account == 1 .. Accounts

Everyone == 0

RecordType ==
    [account : Account, key : Key \cup {NoKey}, channel : BOOLEAN,
     resources : {{}} \cup {{r} : r \in Resource}, referenced : BOOLEAN,
     placeholder : BOOLEAN, old : BOOLEAN]

ASSUME RemoteMediaAssumption ==
    /\ Messages \in Nat /\ Accounts \in Nat
    /\ NoKey \notin Key
    /\ Record \in [Message -> RecordType]
    /\ NoFile \notin [of : Account \cup {Everyone}, key : Key \cup {NoKey}]

VARIABLES
    file,       \* the media file of each message
    typed,      \* the messages that have a media_type
    sessions,   \* the accounts with a session
    candidates, \* the messages to ask Telegram for
    pc,         \* what is done next
    accounts,   \* the accounts left, and the one whose messages are asked for
    account,
    session,    \* the session that is tried last, and all of them
    tried,      \*   for the messages of this account
    todo,       \* the messages left to the session that is tried
    tally,      \* what this session has counted
    stats,      \* what is counted so far
    missing,    \* the number of files that are missing
    broken      \* the sessions that did not get to their end

given == <<sessions, candidates>>
round == <<accounts, account, session, tried, todo, tally>>
vars == <<file, typed, given, pc, round, stats, missing, broken>>

-----------------------------------------------------------------------------
File == [of : Account \cup {Everyone}, key : Key \cup {NoKey}]

Seen(by, m) ==
    [of |-> IF Record[m].channel THEN Everyone ELSE by, key |-> Record[m].key]

Own(m) == Seen(Record[m].account, m)

Tally == [attempted : Nat, downloaded : Nat, unavailable : Nat, failed : Nat]

Zero == [attempted |-> 0, downloaded |-> 0, unavailable |-> 0, failed |-> 0]

Downloaded == [attempted |-> 1, downloaded |-> 1, unavailable |-> 0, failed |-> 0]
Unavailable == [attempted |-> 1, downloaded |-> 0, unavailable |-> 1, failed |-> 0]
Failed == [attempted |-> 1, downloaded |-> 0, unavailable |-> 0, failed |-> 1]

Sum(s, t) ==
    [attempted |-> s.attempted + t.attempted, downloaded |-> s.downloaded + t.downloaded,
     unavailable |-> s.unavailable + t.unavailable, failed |-> s.failed + t.failed]

(***************************************************************************)
(* Messages that are the same one take the file of the first that has one, *)
(* and then messages with a common resource do.                            *)
(***************************************************************************)
DuplicateKey(m) ==
    [account |-> Record[m].account, key |-> Record[m].key, placeholder |-> Record[m].placeholder]

Twins ==
    [m \in Message |->
        {n \in Message : Record[m].key # NoKey /\ DuplicateKey(n) = DuplicateKey(m)}]

Sharers ==
    [m \in Message |->
        {n \in Message : Record[n].resources \cap Record[m].resources # {}}]

SharedFrom(others, f) ==
    [m \in Message |->
        LET having == {n \in others[m] : f[n] # NoFile}
        IN  IF f[m] = NoFile /\ m \in typed /\ having # {} THEN f[Min(having)] ELSE f[m]]

Shared(f) == SharedFrom(Sharers, SharedFrom(Twins, f))

Wanting(f, media) ==
    {m \in media : /\ f[m] = NoFile
                   /\ Record[m].key # NoKey
                   /\ Record[m].resources # {} \/ Record[m].referenced}

MissingCount(f, media) == Cardinality({DuplicateKey(m) : m \in Wanting(f, media)})

Typed(f) == {m \in typed : f[m] # NoFile \/ ~Record[m].placeholder}

-----------------------------------------------------------------------------
(***************************************************************************)
(* Some messages have a file in the local cache, or share it with one that *)
(* has, and some others have one in the archive.                           *)
(***************************************************************************)
OwnOf(some) == [m \in Message |-> IF m \in some THEN Own(m) ELSE NoFile]

Init ==
    /\ typed = Message
    /\ \E cached \in SUBSET Message : \E archived \in SUBSET (Message \ cached) :
          LET local == Shared(OwnOf(cached))
          IN  file = [m \in Message |-> IF local[m] # NoFile THEN local[m] ELSE OwnOf(archived)[m]]
    /\ sessions \in SUBSET Account
    /\ candidates = {}
    /\ pc = "share"
    /\ accounts = {} /\ account = Everyone /\ session = Everyone /\ tried = {} /\ todo = {} /\ tally = Zero
    /\ stats = Zero
    /\ missing = 0
    /\ broken = {}

Goto(step) == pc' = step

(***************************************************************************)
(* importPostboxGo shares what there is, and downloadPostboxRemoteMedia    *)
(* does so again and determines the candidates, once.                      *)
(***************************************************************************)
Start ==
    /\ pc = "share"
    /\ file' = Shared(Shared(file))
    /\ candidates' = {m \in Wanting(file', typed) : ~Record[m].old}
    /\ accounts' = {Record[m].account : m \in candidates'}
    /\ missing' = MissingCount(file', typed)
    /\ Goto(IF candidates' = {} THEN "finish"
            ELSE IF sessions = {} THEN "none" ELSE "account")
    /\ UNCHANGED <<typed, sessions, account, session, tried, todo, tally, stats, broken>>

NoSessions ==
    /\ pc = "none"
    /\ typed' = Typed(file)
    /\ missing' = MissingCount(file, typed')
    /\ stats' = [stats EXCEPT !.unavailable = Cardinality(candidates)]
    /\ Goto("finish")
    /\ UNCHANGED <<file, given, round, broken>>

\* A slip: the messages of the account that have a file are asked for as well.
AllIndexes(a) == {m \in Message : Record[m].account = a}

Indexes(a) == {m \in candidates : Record[m].account = a}

\* The accounts come in the order of a Go map.
NextAccount ==
    /\ pc = "account"
    /\ \E a \in accounts :
          /\ accounts' = accounts \ {a}
          /\ account' = a
    /\ tried' = {}
    /\ Goto("session")
    /\ UNCHANGED <<file, typed, given, session, todo, tally, stats, missing, broken>>

(***************************************************************************)
(* preferredPostboxSessions: the account's own session, and then the       *)
(* others in the order of their ids.                                       *)
(***************************************************************************)
\* A slip: the sessions are only sorted.
Sorted == Min(sessions \ tried)

Preferred == IF account \in sessions \ tried THEN account ELSE Min(sessions \ tried)

NextSession ==
    /\ pc = "session"
    /\ sessions \ tried # {}
    /\ session' = Preferred
    /\ tried' = tried \cup {session'}
    /\ todo' = Indexes(account)
    /\ tally' = Zero
    /\ Goto("message")
    /\ UNCHANGED <<file, typed, given, accounts, account, stats, missing, broken>>

NotHandled ==
    /\ pc = "session"
    /\ sessions \ tried = {}
    /\ stats' = [stats EXCEPT !.unavailable = @ + Cardinality(Indexes(account))]
    /\ Goto("shared")
    /\ UNCHANGED <<file, typed, given, round, missing, broken>>

(***************************************************************************)
(* One message of the session: it is downloaded, or it is not there, or    *)
(* the lookup or the download fails or runs out of time.                   *)
(***************************************************************************)
Count(m, result) ==
    /\ todo' = todo \ {m}
    /\ tally' = Sum(tally, result)
    /\ UNCHANGED <<typed, given, pc, accounts, account, session, tried, stats, missing, broken>>

Download ==
    /\ pc = "message"
    /\ \E m \in todo :
          /\ file' = [file EXCEPT ![m] = Seen(session, m)]
          /\ Count(m, Downloaded)

NoDownload ==
    /\ pc = "message"
    /\ \E m \in todo, result \in {Unavailable, Failed} : Count(m, result)
    /\ UNCHANGED file

(***************************************************************************)
(* The session can not be opened, or breaks while it is in use.  What it   *)
(* has counted is dropped, the files are kept.                             *)
(***************************************************************************)
\* A slip: what the session has counted is kept as well.
BreakKeepingTally ==
    /\ pc = "message"
    /\ broken' = broken \cup {session}
    /\ stats' = Sum(stats, tally)
    /\ Goto("session")
    /\ UNCHANGED <<file, typed, given, round, missing>>

Break ==
    /\ pc = "message"
    /\ broken' = broken \cup {session}
    /\ Goto("session")
    /\ UNCHANGED <<file, typed, given, round, stats, missing>>

Handled ==
    /\ pc = "message"
    /\ todo = {}
    /\ stats' = Sum(stats, tally)
    /\ Goto("shared")
    /\ UNCHANGED <<file, typed, given, round, missing, broken>>

Share ==
    /\ pc = "shared"
    /\ file' = Shared(file)
    /\ Goto(IF accounts = {} THEN "clear" ELSE "account")
    /\ UNCHANGED <<typed, given, round, stats, missing, broken>>

\* A placeholder that has no file is no media message.
Clear ==
    /\ pc = "clear"
    /\ typed' = Typed(file)
    /\ missing' = MissingCount(file, typed')
    /\ Goto("finish")
    /\ UNCHANGED <<file, given, round, stats, broken>>

(***************************************************************************)
(* importPostboxGo shares once more what the downloads have brought.       *)
(***************************************************************************)
\* A slip: it relies on what downloadPostboxRemoteMedia has shared.
FinishUnshared ==
    /\ pc = "finish"
    /\ typed' = Typed(file)
    /\ Goto("done")
    /\ UNCHANGED <<file, given, round, stats, missing, broken>>

Finish ==
    /\ pc = "finish"
    /\ file' = Shared(file)
    /\ typed' = Typed(file')
    /\ Goto("done")
    /\ UNCHANGED <<given, round, stats, missing, broken>>

Next ==
    \/ Start \/ NoSessions \/ NextAccount \/ NextSession \/ NotHandled
    \/ Download \/ NoDownload \/ Break \/ Handled \/ Share \/ Clear \/ Finish

Spec == Init /\ [][Next]_vars

-----------------------------------------------------------------------------
TypeOK ==
    /\ file \in [Message -> File \cup {NoFile}]
    /\ typed \subseteq Message
    /\ sessions \subseteq Account
    /\ candidates \subseteq Message
    /\ pc \in {"share", "none", "account", "session", "message", "shared", "clear", "finish", "done"}
    /\ accounts \subseteq Account
    /\ account \in Account \cup {Everyone}
    /\ session \in Account \cup {Everyone}
    /\ tried \subseteq sessions
    /\ todo \subseteq candidates
    /\ tally \in Tally /\ stats \in Tally
    /\ missing \in 0 .. Messages
    /\ broken \subseteq sessions

(***************************************************************************)
(* In the end every candidate is counted once, as downloaded, unavailable  *)
(* or failed, however many sessions were tried for it; and no more are     *)
(* counted as downloaded than have a file.                                 *)
(***************************************************************************)
CountsAreTrue ==
    pc = "done" =>
        /\ stats.downloaded + stats.unavailable + stats.failed = Cardinality(candidates)
        /\ stats.attempted <= Cardinality(candidates)
        /\ stats.downloaded <= Cardinality({m \in candidates : file[m] # NoFile})

(***************************************************************************)
(* A message has the file that its own account sees under it, or under a   *)
(* message that it shares files with.  Another account may see something   *)
(* else under the same peer and id, and its file is taken only if the own  *)
(* session is missing or broke.                                            *)
(***************************************************************************)
Sharing(S) == \A k \in S : Twins[k] \cup Sharers[k] \subseteq S

Related ==
    [m \in Message |-> {n \in Message : \A S \in SUBSET Message : m \in S /\ Sharing(S) => n \in S}]

OwnMedia ==
    \A m \in Message : file[m] # NoFile =>
        \E n \in Related[m] :
            \/ file[m] = Own(n)
            \/ /\ file[m].key = Record[n].key
               /\ Record[n].account \in broken \cup (Account \ sessions)

(***************************************************************************)
(* In the end no message lacks a file that another message could share     *)
(* with it, whichever session brought it, and no fewer are counted as      *)
(* missing than are.                                                       *)
(***************************************************************************)
NothingIsOverlooked ==
    pc = "done" =>
        /\ missing >= MissingCount(file, typed)
        /\ \A m \in typed, n \in Message :
              file[m] = NoFile /\ n \in Twins[m] \cup Sharers[m] => file[n] = NoFile

=============================================================================
