-------------------------- MODULE FloodWaitProofs --------------------------
(***************************************************************************)
(* Proofs about FloodWait: for every choice of the limits, a phase that    *)
(* waits no more often than one call may is timed out by the network only. *)
(***************************************************************************)
EXTENDS FloodWait, TLAPS

\* The longest the policy sleeps at a time.
Longest == MaxDelay + SafetyDelay

\* Sleeping accounts for what the network does not, and only the deadline makes
\* a failure a timeout.
IInv ==
    /\ TypeOK
    /\ clock <= network + waits * Longest
    /\ outcome = "timeout" => clock = Deadline

-----------------------------------------------------------------------------
\* A wait more is at most Longest more of the clock.
LEMMA OneMoreWait ==
    ASSUME NEW n \in Nat, NEW s \in Nat
    PROVE  /\ n * s \in Nat
           /\ (n + 1) * s = n * s + s
  OBVIOUS

\* Fewer waits than retries take no longer than the budget.
LEMMA BudgetCovers ==
    ASSUME NEW n \in Nat, NEW m \in Nat, NEW s \in Nat, n <= m
    PROVE  n * s <= m * s
  <1>1. PICK k \in Nat : m = n + k
    OBVIOUS
  <1>2. m * s = n * s + k * s
    BY <1>1
  <1>3. k * s \in Nat /\ n * s \in Nat
    OBVIOUS
  <1> QED
    BY <1>2, <1>3

\* The deadlines are times.
LEMMA DeadlineIsTime ==
    ASSUME phase \in Phases
    PROVE  Deadline \in Nat /\ Longest \in Nat
  BY FloodWaitAssumption, OneMoreWait DEF Deadline, Work, RetryBudget, Longest, Phases

\* Everything starts at zero.
LEMMA InitHolds == Init => IInv
  <1> SUFFICES ASSUME Init PROVE IInv
    OBVIOUS
  <1>1. Deadline \in Nat /\ Longest \in Nat
    BY DeadlineIsTime DEF Init, Phases
  <1>2. TypeOK
    BY <1>1, FloodWaitAssumption DEF Init, TypeOK, Phases, Outcomes
  <1>3. waits * Longest \in Nat
    BY <1>1, <1>2, OneMoreWait DEF TypeOK
  <1>4. clock <= network + waits * Longest
    BY <1>3 DEF Init
  <1> QED
    BY <1>2, <1>4 DEF Init, IInv

-----------------------------------------------------------------------------
\* A failed call leaves the phase where it is and starts the next call afresh or
\* ends the message; only the deadline makes it a timeout.
LEMMA CallFails ==
    ASSUME TypeOK, Running(phase), CallFailed
    PROVE  /\ phase' = phase
           /\ calls' \in Nat /\ retries' \in 0..MaxRetries /\ firstErr' \in {"nil", "set"}
           /\ outcome' \in Outcomes \cup {"none"}
           /\ outcome' = "timeout" => clock' >= Deadline
  BY FloodWaitAssumption
  DEF TypeOK, Running, CallFailed, LookupMissed, NextCall, Finish, Failure, Outcomes, Phases

\* A lookup that does not find the message likewise.
LEMMA LookupMisses ==
    ASSUME TypeOK, Running("lookup"), NEW f \in {"nil", "set"}, LookupMissed(f)
    PROVE  /\ phase' = phase
           /\ calls' \in Nat /\ retries' \in 0..MaxRetries /\ firstErr' \in {"nil", "set"}
           /\ outcome' \in Outcomes \cup {"none"}
           /\ outcome' = "timeout" => clock' >= Deadline
  BY FloodWaitAssumption
  DEF TypeOK, Running, LookupMissed, NextCall, Finish, Failure, Outcomes, Phases

\* A call adds the same to the clock and to the time of the network.
LEMMA TakesTime ==
    ASSUME IInv, NEW t \in Nat, Takes(t), waits' = waits
    PROVE  /\ clock' \in 0..Deadline /\ network' \in 0..clock'
           /\ clock' <= network' + waits' * Longest
  <1>1. Deadline \in Nat /\ Longest \in Nat
    BY DeadlineIsTime DEF IInv, TypeOK
  <1>2. waits * Longest \in Nat /\ waits' * Longest = waits * Longest
    BY <1>1, OneMoreWait DEF IInv, TypeOK
  <1>3. /\ clock' \in Nat /\ clock <= clock' /\ clock' <= Deadline
        /\ network' = network + (clock' - clock)
    BY <1>1 DEF IInv, TypeOK, Takes, Within
  <1>4. clock \in Nat /\ network \in Nat /\ network <= clock
    BY <1>1 DEF IInv, TypeOK
  <1>5. clock' \in 0..Deadline
    BY <1>1, <1>3
  <1>6. network' \in 0..clock'
    <2>1. PICK k \in Nat : clock' = clock + k
      BY <1>3, <1>4
    <2>2. network' = network + k
      BY <1>3, <1>4, <2>1
    <2> QED
      BY <1>3, <1>4, <2>1, <2>2
  <1>7. clock <= network + waits * Longest
    BY DEF IInv
  <1>8. clock' <= network' + waits * Longest
    BY <1>1, <1>2, <1>3, <1>4, <1>7
  <1> QED
    BY <1>2, <1>5, <1>6, <1>8

\* The same for the invariant: a step that stays in its phase and keeps these
\* facts keeps it.
LEMMA SamePhase ==
    ASSUME IInv, phase' = phase,
           calls' \in Nat, retries' \in 0..MaxRetries, firstErr' \in {"nil", "set"},
           outcome' \in Outcomes \cup {"none"},
           outcome' = "timeout" => clock' >= Deadline,
           waits' \in Nat, clock' \in 0..Deadline, network' \in 0..clock',
           clock' <= network' + waits' * Longest
    PROVE  IInv'
  <1>1. Deadline' = Deadline /\ Longest' = Longest /\ Deadline \in Nat
    BY DeadlineIsTime DEF IInv, TypeOK, Deadline, Work, RetryBudget, Longest
  <1> QED
    BY <1>1 DEF IInv, TypeOK

-----------------------------------------------------------------------------
\* Every step keeps the invariant.
LEMMA StepHolds == IInv /\ [Next]_vars => IInv'
  <1> SUFFICES ASSUME IInv, [Next]_vars PROVE IInv'
    OBVIOUS
  <1> USE DEF IInv
  <1>1. Deadline \in Nat /\ Longest \in Nat
    BY DeadlineIsTime DEF TypeOK
  <1>2. CASE UNCHANGED vars
    BY <1>2 DEF vars, TypeOK, Deadline, Work, RetryBudget, Longest
  <1>3. ASSUME NEW t \in Latencies, CutOff(t) PROVE IInv'
    <2>1. TypeOK /\ Running(phase) /\ CallFailed /\ Takes(t) /\ waits' = waits /\ t \in Nat
      BY <1>3, FloodWaitAssumption DEF CutOff
    <2> QED
      BY <2>1, CallFails, TakesTime, SamePhase DEF TypeOK
  <1>4. ASSUME NEW t \in Latencies, NEW chunks \in 1..MaxChunks, Found(t, chunks) PROVE IInv'
    <2>1. /\ phase' = "download" /\ calls' \in Nat /\ retries' = 0 /\ clock' = 0
          /\ waits' = 0 /\ network' = 0 /\ firstErr' = "nil" /\ outcome' = "none"
      BY <1>4, FloodWaitAssumption DEF Found, Running
    <2>2. Deadline' \in Nat /\ Longest' \in Nat
      BY <2>1, FloodWaitAssumption, OneMoreWait DEF Deadline, Work, RetryBudget, Longest
    <2>3. TypeOK'
      BY <2>1, <2>2, FloodWaitAssumption DEF TypeOK, Phases, Outcomes
    <2>4. waits' * Longest' \in Nat
      BY <2>2, <2>3, OneMoreWait DEF TypeOK
    <2> QED
      BY <2>1, <2>3, <2>4
  <1>5. ASSUME NEW t \in Latencies, FoundWithoutMedia(t) PROVE IInv'
    <2>1. /\ Takes(t) /\ waits' = waits /\ t \in Nat
          /\ outcome' = "unavailable" /\ UNCHANGED <<phase, calls, retries, firstErr>>
      BY <1>5, FloodWaitAssumption DEF FoundWithoutMedia, InTime, Finish
    <2> QED
      BY <2>1, TakesTime, SamePhase DEF TypeOK, Outcomes
  <1>6. ASSUME NEW t \in Latencies, NotFound(t) PROVE IInv'
    <2>1. /\ TypeOK /\ Running("lookup") /\ firstErr \in {"nil", "set"} /\ LookupMissed(firstErr)
          /\ Takes(t) /\ waits' = waits /\ t \in Nat
      BY <1>6, FloodWaitAssumption DEF NotFound, InTime, TypeOK
    <2> QED
      BY <2>1, LookupMisses, TakesTime, SamePhase DEF TypeOK
  <1>7. ASSUME NEW t \in Latencies, Chunk(t) PROVE IInv'
    <2>1. Takes(t) /\ waits' = waits /\ t \in Nat /\ Running("download")
      BY <1>7, FloodWaitAssumption DEF Chunk, InTime
    <2>2. /\ phase' = phase /\ calls' \in Nat /\ retries' \in 0..MaxRetries
          /\ firstErr' \in {"nil", "set"} /\ outcome' \in Outcomes \cup {"none"} /\ outcome' # "timeout"
      BY <1>7, FloodWaitAssumption DEF Chunk, Running, NextCall, Finish, TypeOK, Outcomes
    <2> QED
      BY <2>1, <2>2, TakesTime, SamePhase DEF TypeOK
  <1>8. ASSUME NEW t \in Latencies, Refused(t) PROVE IInv'
    <2>1. TypeOK /\ Running(phase) /\ CallFailed /\ Takes(t) /\ waits' = waits /\ t \in Nat
      BY <1>8, FloodWaitAssumption DEF Refused, InTime
    <2> QED
      BY <2>1, CallFails, TakesTime, SamePhase DEF TypeOK
  <1>9. ASSUME NEW t \in Latencies, NEW d \in Delays, FloodError(t, d) PROVE IInv'
    <2>1. TypeOK /\ Running(phase) /\ CallFailed /\ Takes(t) /\ waits' = waits /\ t \in Nat
      BY <1>9, FloodWaitAssumption DEF FloodError, InTime
    <2> QED
      BY <2>1, CallFails, TakesTime, SamePhase DEF TypeOK
  <1>10. ASSUME NEW t \in Latencies, NEW d \in Delays, FloodWait(t, d) PROVE IInv'
    <2>1. /\ t \in Nat /\ d \in Nat /\ d <= MaxDelay /\ retries < MaxRetries
          /\ t + clock < Deadline /\ waits' = waits + 1 /\ network' = network + t
          /\ clock' = Within(clock + t + d + SafetyDelay)
      BY <1>10, FloodWaitAssumption DEF FloodWait, MayWait
    <2>2. waits * Longest \in Nat /\ waits' * Longest = waits * Longest + Longest
      BY <1>1, <2>1, OneMoreWait DEF TypeOK
    <2>3. /\ clock' \in (t + clock)..Deadline
          /\ clock' <= clock + t + Longest
      BY <1>1, <2>1, FloodWaitAssumption DEF TypeOK, Within, Longest
    <2>4. /\ clock' \in 0..Deadline /\ network' \in 0..clock' /\ waits' \in Nat
          /\ clock' <= network' + waits' * Longest
      BY <1>1, <2>1, <2>2, <2>3 DEF TypeOK
    <2>5. CASE clock' < Deadline
      <3>1. retries' = retries + 1 /\ UNCHANGED <<phase, calls, firstErr, outcome>>
        BY <1>10, <2>5 DEF FloodWait
      <3>2. outcome = "none"
        BY <1>10 DEF FloodWait, Running
      <3> QED
        BY <2>1, <2>4, <3>1, <3>2, SamePhase, FloodWaitAssumption DEF TypeOK
    <2>6. CASE ~(clock' < Deadline)
      <3>1. TypeOK /\ Running(phase) /\ CallFailed
        BY <1>10, <2>6 DEF FloodWait
      <3> QED
        BY <2>4, <3>1, CallFails, SamePhase
    <2> QED
      BY <2>5, <2>6
  <1> QED
    BY <1>2, <1>3, <1>4, <1>5, <1>6, <1>7, <1>8, <1>9, <1>10 DEF Next

\* What the invariant says of a timeout.
LEMMA InvariantExplains == IInv => TimeoutIsExplained
  <1> SUFFICES ASSUME IInv, outcome = "timeout", waits <= MaxRetries
               PROVE  network >= Work(phase)
    BY FloodWaitAssumption DEF TimeoutIsExplained, IInv, TypeOK
  <1>1. Longest \in Nat /\ Work(phase) \in Nat
    BY FloodWaitAssumption DEF Longest, Work
  <1>2. waits * Longest <= MaxRetries * Longest
    BY <1>1, BudgetCovers, FloodWaitAssumption DEF IInv, TypeOK
  <1>3. waits * Longest \in Nat /\ MaxRetries * Longest \in Nat
    BY <1>1, OneMoreWait, FloodWaitAssumption DEF IInv, TypeOK
  <1>4. clock = Work(phase) + MaxRetries * Longest
    BY DEF IInv, Deadline, RetryBudget, Longest
  <1> QED
    BY <1>1, <1>2, <1>3, <1>4 DEF IInv, TypeOK

-----------------------------------------------------------------------------
\* TypeOK holds for all limits: in particular the clock of a phase never passes
\* its deadline and no call is repeated beyond the limit.
THEOREM TypeCorrect == Spec => []TypeOK
  <1>1. IInv => TypeOK
    BY DEF IInv
  <1> QED
    BY InitHolds, StepHolds, <1>1, PTL DEF Spec

\* TimeoutIsExplained holds for all limits: postboxRemoteMessageTimeout and
\* telegramMediaDownloadTimeout reserve enough for the retries of one call.
THEOREM BudgetCoversOneCall == Spec => []TimeoutIsExplained
  BY InitHolds, StepHolds, InvariantExplains, PTL DEF Spec
=============================================================================
