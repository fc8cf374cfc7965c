----------------------------- MODULE FloodWait -----------------------------
(***************************************************************************)
(* One message whose media is fetched from Telegram (postbox_remote.go,    *)
(* the loop of downloadPostboxRemoteMediaForSession).  The message is      *)
(* looked up by up to three calls and its file is then downloaded by some  *)
(* more.  Both phases have a deadline of their own, and every call goes    *)
(* through the flood-wait policy of flood_wait.go, which waits out what    *)
(* the server asks for and repeats the call.                               *)
(*                                                                         *)
(* Time is counted in seconds from the start of the phase.                 *)
(***************************************************************************)
EXTENDS Integers

CONSTANTS
    MaxRetries,     \* telegramFloodWaitMaxRetries
    MaxDelay,       \* telegramFloodWaitMaxDelay
    SafetyDelay,    \* telegramFloodWaitSafetyDelay
    LookupTime,     \* the part of postboxRemoteMessageTimeout for the network
    DownloadTime,   \* the part of telegramMediaDownloadTimeout for the network
    Latencies,      \* how long a call may take
    Delays,         \* how long the server may ask a client to wait
    MaxChunks       \* bound on the calls of a download

ASSUME FloodWaitAssumption ==
    /\ MaxRetries \in Nat /\ MaxDelay \in Nat /\ SafetyDelay \in Nat
    /\ LookupTime \in Nat /\ DownloadTime \in Nat
    /\ Latencies \subseteq Nat /\ Delays \subseteq Nat
    /\ MaxChunks \in Nat \ {0}

VARIABLES
    phase,      \* "lookup" or "download"
    calls,      \* the calls of the phase still to make, this one included
    retries,    \* of this call
    clock,      \* time since the phase began
    waits,      \* ghost: the waits of the phase
    network,    \* ghost: the part of the clock spent on calls
    firstErr,   \* "nil", or "set" once a lookup has failed
    outcome     \* what the statistics count the message as, "none" until then

vars == <<phase, calls, retries, clock, waits, network, firstErr, outcome>>

Phases == {"lookup", "download"}
Outcomes == {"downloaded", "unavailable", "timeout", "error"}

-----------------------------------------------------------------------------
RetryBudget == MaxRetries * (MaxDelay + SafetyDelay)

Work(p) == IF p = "lookup" THEN LookupTime ELSE DownloadTime

UnreservedDeadline == Work(phase)

Deadline == Work(phase) + RetryBudget

\* A clock that runs ahead stops at the deadline: the context is cancelled.
Within(t) == IF t < Deadline THEN t ELSE Deadline

Running(p) == phase = p /\ outcome = "none"

Finish(o) ==
    /\ outcome' = o
    /\ UNCHANGED <<phase, calls, retries, firstErr>>

\* A failure is a timeout if the deadline has passed when it is looked at.
Failure == IF clock' >= Deadline THEN "timeout" ELSE "error"

-----------------------------------------------------------------------------
(***************************************************************************)
(* What a call that is over means to its phase: getPostboxRemoteMessage    *)
(* goes on to the next lookup unless one finds the message, and returns    *)
(* the first error if none does; a download fails with its first error.    *)
(***************************************************************************)
NextCall(f) ==
    /\ calls' = calls - 1
    /\ retries' = 0
    /\ firstErr' = f
    /\ UNCHANGED <<phase, outcome>>

LookupMissed(f) ==
    IF calls > 1 THEN NextCall(f)
    ELSE Finish(IF f = "set" THEN Failure ELSE "unavailable")

CallFailed ==
    IF phase = "lookup" THEN LookupMissed("set") ELSE Finish(Failure)

\* The call goes over the network for t seconds, or until the deadline.
Takes(t) ==
    /\ clock' = Within(clock + t)
    /\ network' = network + (clock' - clock)

InTime(t) == Takes(t) /\ clock' < Deadline

\* A call that the deadline interrupts, or that starts after it.
CutOff(t) ==
    /\ Running(phase)
    /\ Takes(t) /\ clock' >= Deadline
    /\ CallFailed
    /\ UNCHANGED waits

\* The message: its media is downloaded, under a new deadline, unless it has
\* none or the options leave it out.
Found(t, chunks) ==
    /\ Running("lookup")
    /\ t + clock < Deadline
    /\ phase' = "download" /\ calls' = chunks
    /\ retries' = 0 /\ clock' = 0 /\ waits' = 0 /\ network' = 0
    /\ firstErr' = "nil"
    /\ UNCHANGED outcome

FoundWithoutMedia(t) ==
    /\ Running("lookup")
    /\ InTime(t)
    /\ Finish("unavailable")
    /\ UNCHANGED waits

NotFound(t) ==
    /\ Running("lookup")
    /\ InTime(t)
    /\ LookupMissed(firstErr)
    /\ UNCHANGED waits

\* A part of the file; the last one completes it.  An empty file is none.
Chunk(t) ==
    /\ Running("download")
    /\ InTime(t)
    /\ IF calls > 1 THEN NextCall(firstErr)
       ELSE \E o \in {"downloaded", "unavailable"} : Finish(o)
    /\ UNCHANGED waits

Refused(t) ==
    /\ Running(phase)
    /\ InTime(t)
    /\ CallFailed
    /\ UNCHANGED waits

-----------------------------------------------------------------------------
(***************************************************************************)
(* telegramFloodWaitPolicy.Handle.                                         *)
(***************************************************************************)
MayAlwaysWait(d) == d <= MaxDelay

MayWait(d) == retries < MaxRetries /\ d <= MaxDelay

\* The server asks for a wait.  The policy sleeps and repeats the call, unless
\* the deadline ends its sleep.
FloodWait(t, d) ==
    /\ Running(phase)
    /\ t + clock < Deadline
    /\ MayWait(d)
    /\ clock' = Within(clock + t + d + SafetyDelay)
    /\ network' = network + t
    /\ waits' = waits + 1
    /\ IF clock' < Deadline
       THEN retries' = retries + 1 /\ UNCHANGED <<phase, calls, firstErr, outcome>>
       ELSE CallFailed

FloodError(t, d) ==
    /\ Running(phase)
    /\ InTime(t)
    /\ ~MayWait(d)
    /\ CallFailed
    /\ UNCHANGED waits

-----------------------------------------------------------------------------
\* A channel has three ways to look a message up, other chats two, and a chat
\* without an input peer one.
Init ==
    /\ phase = "lookup"
    /\ calls \in 1..3
    /\ retries = 0
    /\ clock = 0 /\ waits = 0 /\ network = 0
    /\ firstErr = "nil"
    /\ outcome = "none"

Next ==
    \E t \in Latencies :
        \/ CutOff(t)
        \/ \E chunks \in 1..MaxChunks : Found(t, chunks)
        \/ FoundWithoutMedia(t)
        \/ NotFound(t)
        \/ Chunk(t)
        \/ Refused(t)
        \/ \E d \in Delays : FloodWait(t, d) \/ FloodError(t, d)

Spec == Init /\ [][Next]_vars

-----------------------------------------------------------------------------
\* The variables keep their types, the clock never passes the deadline, and no
\* call is repeated more often than the policy allows.
TypeOK ==
    /\ phase \in Phases
    /\ calls \in Nat
    /\ retries \in 0..MaxRetries
    /\ clock \in 0..Deadline
    /\ waits \in Nat
    /\ network \in 0..clock
    /\ firstErr \in {"nil", "set"}
    /\ outcome \in Outcomes \cup {"none"}

\* The budget is reserved: a phase that waits no more often than one call may
\* is not timed out unless the network has had all of its own time.
TimeoutIsExplained ==
    outcome = "timeout" => waits > MaxRetries \/ network >= Work(phase)

\* "Reserve the retry budget so a valid flood wait cannot consume the RPC
\* deadline": no message times out before the network has had its time.
BudgetIsEnough ==
    outcome = "timeout" => network >= Work(phase)
=============================================================================
