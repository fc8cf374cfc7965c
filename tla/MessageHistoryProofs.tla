------------------------ MODULE MessageHistoryProofs ------------------------
(***************************************************************************)
(* Proofs about MessageHistory, for any number of archives and texts and   *)
(* histories of any length: whatever the archives pull from each other,    *)
(* their histories are closed under predecessors and explain their rows.   *)
(* What a loop computes is shown by its first round that were wrong.       *)
(***************************************************************************)
EXTENDS MessageHistory, FiniteSetTheorems, WellFoundedInduction, TLAPS

-----------------------------------------------------------------------------
(***************************************************************************)
(* The inductive invariant: an archive, and the snapshot as if it were one *)
(* more archive, at the time "now".                                        *)
(***************************************************************************)
Payloads == [text : Texts \cup {NoText}, edit : Nat, del : Nat,
             why : {"none", "message", "chat"}]

Events == [type : {"created", "edited", "deleted", "observed"}, at : Nat, payload : Payloads]

Revisions == [chain : Seq(Events) \ {<<>>}, seen : Nat]

Deleted(now) == {0} \cup (Sent + 1) .. now

RowFits(m, now) ==
    /\ m \in Payloads
    /\ m.edit \in 0 .. now
    /\ m.del \in Deleted(now)
    /\ Dead(m) <=> m.why \in {"message", "chat"}

HistoryFits(revs, now) ==
    /\ revs \in Seq(Revisions)
    /\ \A i \in DOMAIN revs : EventAt(revs[i]) \in Sent .. now

\* HistoryIsClosed of one history.
Closed(revs) ==
    \A i \in DOMAIN revs :
       /\ Len(revs[i].chain) > 1 => Front(revs[i].chain) \in Chains(revs)
       /\ \A j \in DOMAIN revs : revs[i].chain = revs[j].chain => i = j

\* RowIsRecorded of one row.
Explains(chain, m) ==
    IF Dead(m) THEN Last(chain).type = "deleted" /\ Last(chain).at = m.del
    ELSE Last(chain).payload = m

Explained(m, revs) == Stored(m) => \E chain \in Chains(revs) : Explains(chain, m)

ArchiveFits(m, deleted, revs, now) ==
    /\ RowFits(m, now)
    /\ deleted \in Deleted(now)
    /\ HistoryFits(revs, now)
    /\ Closed(revs)
    /\ Explained(m, revs)

TelegramFits == telegram \in {Message(text, edit) : text \in Texts, edit \in 0 .. clock}

SnapshotFits ==
    /\ ArchiveFits(snapshot.row, snapshot.chat, snapshot.history, clock)
    /\ snapshot.at \in Sent .. clock

ArchivesFit ==
    /\ row \in [Archives -> Payloads]
    /\ chat \in [Archives -> Nat]
    /\ history \in [Archives -> Seq(Revisions)]
    /\ \A a \in Archives : /\ ArchiveFits(row[a], chat[a], history[a], clock)
                           /\ Len(history[a]) <= MaxRevisions

IInv ==
    /\ clock \in Sent .. MaxTime
    /\ TelegramFits
    /\ SnapshotFits
    /\ ArchivesFit
-----------------------------------------------------------------------------
(***************************************************************************)
(* Loops.  Each recursive function of RevisionGraph is one: its values are *)
(* the states of a loop over 1 .. N, started at init.                      *)
(***************************************************************************)
Less == {ss \in Nat \X Nat : ss[1] < ss[2]}

\* A nonempty set of naturals has a least element.
LEMMA LeastExists ==
    ASSUME NEW S \in SUBSET Nat, S # {}
    PROVE  \E x \in S : \A y \in S : x <= y
<1>1. OpToRel(<, Nat) = Less
  BY Zenon DEF OpToRel, Less
<1>2. IsWellFoundedOn(Less, Nat)
  BY NatLessThanWellFounded, <1>1, Zenon
<1>3. PICK x \in S : \A y \in S : <<y, x>> \notin Less
  BY <1>2, WFMin
<1>4. ASSUME NEW y \in S PROVE x <= y
  <2>1. <<y, x>> \in Nat \X Nat /\ <<y, x>>[1] = y /\ <<y, x>>[2] = x
    OBVIOUS
  <2>2. ~ (y < x)
    BY <1>3, <2>1 DEF Less
  <2> QED
    BY <2>2
<1> QED
  BY <1>3, <1>4

\* What holds of round 0, and of a round if of the one before, holds of all.
LEMMA EveryRound ==
    ASSUME NEW N \in Nat, NEW P,
           0 \in P,
           \A n \in 1 .. N : n - 1 \in P => n \in P
    PROVE  0 .. N \subseteq P
<1> DEFINE Wrong == {n \in 0 .. N : n \notin P}
<1> SUFFICES ASSUME Wrong # {} PROVE FALSE
  OBVIOUS
<1>1. PICK n \in Wrong : \A m \in Wrong : n <= m
  <2>1. Wrong \in SUBSET Nat
    OBVIOUS
  <2> HIDE DEF Wrong
  <2> QED
    BY <2>1, LeastExists
<1>2. n \in 1 .. N
  BY <1>1
<1>3. n - 1 \in P
  <2>1. n - 1 \in 0 .. N /\ ~ (n <= n - 1)
    BY <1>2
  <2>2. n - 1 \notin Wrong
    BY <1>1, <2>1
  <2> QED
    BY <2>1, <2>2
<1> QED
  BY <1>1, <1>2, <1>3

IsRun(f, N, V, init, Step) ==
    /\ f \in [0 .. N -> V]
    /\ f[0] = init
    /\ \A n \in 1 .. N : f[n] = Step[n][f[n - 1]]

\* A loop whose body is the function Step runs to its last round.
LEMMA LoopRuns ==
    ASSUME NEW N \in Nat, NEW V, NEW init \in V,
           NEW Step, Step \in [1 .. N -> [V -> V]]
    PROVE  \E f : IsRun(f, N, V, init, Step)
<1> DEFINE Runs(f, m) == f[0] = init /\ \A n \in 1 .. m : f[n] = Step[n][f[n - 1]]
           P == {m \in 0 .. N : \E f \in [0 .. m -> V] : Runs(f, m)}
<1>1. 0 \in P
  <2> DEFINE f == [n \in 0 .. 0 |-> init]
  <2>1. f \in [0 .. 0 -> V] /\ Runs(f, 0)
    OBVIOUS
  <2> HIDE DEF f, Runs
  <2> QED
    BY <2>1
<1>2. ASSUME NEW m \in 1 .. N, m - 1 \in P PROVE m \in P
  <2>1. PICK g \in [0 .. m - 1 -> V] : Runs(g, m - 1)
    BY <1>2
  <2> DEFINE f == [n \in 0 .. m |-> IF n = m THEN Step[m][g[m - 1]] ELSE g[n]]
  <2>2. g[m - 1] \in V /\ Step[m][g[m - 1]] \in V
    <3>1. g[m - 1] \in V
      BY <2>1
    <3>2. Step[m] \in [V -> V]
      OBVIOUS
    <3> QED
      BY <3>1, <3>2
  <2>3. f \in [0 .. m -> V]
    <3>1. ASSUME NEW n \in 0 .. m, n # m PROVE n \in 0 .. m - 1
      BY <3>1
    <3> QED
      BY <2>1, <2>2, <3>1
  <2>4. f[0] = init
    BY <2>1
  <2>5. ASSUME NEW n \in 1 .. m PROVE f[n] = Step[n][f[n - 1]]
    <3>1. n - 1 \in 0 .. m /\ n - 1 # m /\ n - 1 \in 0 .. m - 1
      OBVIOUS
    <3>2. f[n - 1] = g[n - 1]
      BY <3>1
    <3>3. CASE n = m
      BY <3>2, <3>3
    <3>4. CASE n # m
      <4>1. n \in 1 .. m - 1 /\ f[n] = g[n]
        BY <3>4
      <4> QED
        BY <2>1, <3>2, <4>1
    <3> QED
      BY <3>3, <3>4
  <2>6. Runs(f, m)
    BY <2>4, <2>5
  <2> HIDE DEF f, Runs
  <2> QED
    BY <2>3, <2>6
<1>3. 0 .. N \subseteq P
  <2> HIDE DEF P
  <2> QED
    BY <1>1, <1>2, EveryRound
<1> QED
  BY <1>3 DEF IsRun

-----------------------------------------------------------------------------
(***************************************************************************)
(* The operators of RevisionGraph.                                         *)
(***************************************************************************)

\* Position n takes over from the best one before it, b.
Beats(revs, S, n, b) == n \in S /\ (b = 0 \/ Preferred(Order(revs[n]), Order(revs[b])))

LEMMA BestRuns ==
    ASSUME NEW revs \in Seq(Revisions), NEW S \in SUBSET DOMAIN revs
    PROVE  LET B == BestUpTo(revs, S)
           IN  /\ B[0] = 0
               /\ \A n \in 1 .. Len(revs) :
                     B[n] = IF Beats(revs, S, n, B[n - 1]) THEN n ELSE B[n - 1]
<1> DEFINE N == Len(revs)
           B == BestUpTo(revs, S)
           Body(f) == [n \in 0 .. N |-> IF n = 0 THEN 0
                                        ELSE IF Beats(revs, S, n, f[n - 1]) THEN n ELSE f[n - 1]]
<1>1. N \in Nat /\ DOMAIN revs = 1 .. N
  OBVIOUS
<1>2. \E f : f = Body(f)
  <2> DEFINE Step == [n \in 1 .. N |-> [b \in 0 .. N |-> IF Beats(revs, S, n, b) THEN n ELSE b]]
  <2>1. Step \in [1 .. N -> [0 .. N -> 0 .. N]]
    BY <1>1
  <2>2. PICK f : IsRun(f, N, 0 .. N, 0, Step)
    <3>1. 0 \in 0 .. N
      BY <1>1
    <3> HIDE DEF Step, N
    <3> QED
      BY <1>1, <2>1, <3>1, LoopRuns
  <2>3. ASSUME NEW n \in 0 .. N, n # 0
        PROVE  f[n] = IF Beats(revs, S, n, f[n - 1]) THEN n ELSE f[n - 1]
    <3>1. n \in 1 .. N /\ n - 1 \in 0 .. N
      BY <1>1, <2>3
    <3>2. f[n - 1] \in 0 .. N
      BY <2>2, <3>1 DEF IsRun
    <3> HIDE DEF N
    <3> QED
      BY <2>2, <3>1, <3>2 DEF IsRun
  <2>4. f = Body(f)
    <3> HIDE DEF N, Step
    <3> QED
      BY <2>2, <2>3 DEF IsRun
  <2> QED
    BY <2>4
<1>3. B = Body(B)
  BY <1>2 DEF BestUpTo, Beats
<1> HIDE DEF B
<1>4. B[0] = 0
  BY <1>1, <1>3
<1>5. ASSUME NEW n \in 1 .. N
      PROVE  B[n] = IF Beats(revs, S, n, B[n - 1]) THEN n ELSE B[n - 1]
  <2>1. n \in 0 .. N /\ n # 0
    BY <1>1
  <2> QED
    BY <1>3, <2>1
<1> QED
  BY <1>4, <1>5 DEF B

\* A loop that keeps the best candidate ends with one of the candidates.
LEMMA BestIsOne ==
    ASSUME NEW revs \in Seq(Revisions), NEW S \in SUBSET DOMAIN revs, S # {}
    PROVE  /\ \E i \in S : Best(revs, S) = revs[i]
           /\ \A n \in 0 .. Len(revs) : BestUpTo(revs, S)[n] \in {0} \cup S
<1> DEFINE N == Len(revs)
           B == BestUpTo(revs, S)
<1>1. N \in Nat /\ DOMAIN revs = 1 .. N
  OBVIOUS
<1>3. B[0] = 0 /\ \A n \in 1 .. N : B[n] = IF Beats(revs, S, n, B[n - 1]) THEN n ELSE B[n - 1]
  BY BestRuns
<1> HIDE DEF B
<1> DEFINE P == {n \in 0 .. N : B[n] \in {0} \cup S /\ \A i \in S : i <= n => B[n] \in S}
<1>4. 0 \in P
  BY <1>1, <1>3
<1>5. ASSUME NEW n \in 1 .. N, n - 1 \in P PROVE n \in P
  <2>1. n \in 0 .. N /\ B[n] = IF Beats(revs, S, n, B[n - 1]) THEN n ELSE B[n - 1]
    BY <1>1, <1>3
  <2>2. B[n - 1] \in {0} \cup S /\ \A i \in S : i <= n - 1 => B[n - 1] \in S
    BY <1>5
  <2>3. CASE Beats(revs, S, n, B[n - 1])
    <3>1. n \in S /\ B[n] = n
      BY <2>1, <2>3 DEF Beats
    <3> QED
      BY <2>1, <3>1
  <2>4. CASE ~ Beats(revs, S, n, B[n - 1])
    <3>1. B[n] = B[n - 1]
      BY <2>1, <2>4
    <3>2. ASSUME NEW i \in S, i <= n PROVE B[n - 1] \in S
      <4>1. CASE i = n
        BY <2>2, <2>4, <4>1 DEF Beats
      <4>2. CASE i # n
        <5>1. i <= n - 1
          BY <1>1, <3>2, <4>2
        <5> QED
          BY <2>2, <5>1
      <4> QED
        BY <4>1, <4>2
    <3> QED
      BY <2>1, <2>2, <3>1, <3>2
  <2> QED
    BY <2>3, <2>4
<1>6. 0 .. N \subseteq P
  <2> HIDE DEF P, N
  <2> QED
    BY <1>1, <1>4, <1>5, EveryRound
<1>7. N \in P
  <2>1. N \in 0 .. N
    BY <1>1
  <2> HIDE DEF P, N
  <2> QED
    BY <1>6, <2>1
<1>8. B[N] \in S
  BY <1>1, <1>7
<1>9. \A n \in 0 .. N : B[n] \in {0} \cup S
  BY <1>6
<1> QED
  BY <1>8, <1>9 DEF Best, B

Members(revs) == {revs[i] : i \in DOMAIN revs}

\* No event is there twice.
Distinct(revs) ==
    \A i, j \in DOMAIN revs : revs[i].chain = revs[j].chain => i = j

\* The order of a snapshot and of the index.
InTime(revs) == \A i, j \in DOMAIN revs : i < j => EventAt(revs[i]) <= EventAt(revs[j])

LEMMA TimeOfRevision ==
    ASSUME NEW r \in Revisions
    PROVE  EventAt(r) \in Nat
<1>1. r.chain \in Seq(Events) /\ Len(r.chain) \in DOMAIN r.chain
  BY DEF Revisions
<1>2. r.chain[Len(r.chain)] \in Events
  BY <1>1
<1> QED
  BY <1>2 DEF EventAt, Last, Events

LEMMA CountUpTo ==
    ASSUME NEW n \in Nat, NEW S \in SUBSET (1 .. n)
    PROVE  IsFiniteSet(S) /\ Cardinality(S) \in Nat /\ Cardinality(S) <= n
<1>1. IsFiniteSet(1 .. n) /\ Cardinality(1 .. n) = n
  BY FS_Interval
<1> QED
  BY <1>1, FS_Subset, FS_CardinalityType

LEMMA InsertedInOrderFacts ==
    ASSUME NEW s \in Seq(Revisions), NEW rev \in Revisions
    PROVE  LET t == InsertedInOrder(s, rev)
           IN  /\ t \in Seq(Revisions)
               /\ Members(t) = Members(s) \cup {rev}
               /\ Distinct(s) /\ rev.chain \notin Chains(s) => Distinct(t)
               /\ InTime(s) => InTime(t)
<1> DEFINE Before == {i \in DOMAIN s : Earlier(s[i], rev)}
           k == Cardinality(Before)
           t == SubSeq(s, 1, k) \o <<rev>> \o SubSeq(s, k + 1, Len(s))
<1>1. k \in 0 .. Len(s)
  <2>1. IsFiniteSet(1 .. Len(s)) /\ Cardinality(1 .. Len(s)) = Len(s)
    <3>1. Len(s) \in Nat
      OBVIOUS
    <3> QED
      BY <3>1, FS_Interval
  <2>2. Before \in SUBSET (1 .. Len(s))
    OBVIOUS
  <2> HIDE DEF Before
  <2>3. k \in Nat /\ k <= Len(s)
    BY <2>1, <2>2, FS_Subset, FS_CardinalityType
  <2> QED
    BY <2>3
<1>2. t = InsertedInOrder(s, rev)
  BY DEF InsertedInOrder
<1>7. ASSUME InTime(s), NEW i \in DOMAIN s
      PROVE  IF i <= k THEN EventAt(s[i]) <= EventAt(rev) ELSE EventAt(rev) <= EventAt(s[i])
  <2> DEFINE at(n) == EventAt(s[n])
             now == EventAt(rev)
  <2>1. now \in Nat /\ (\A n \in DOMAIN s : at(n) \in Nat) /\ DOMAIN s = 1 .. Len(s)
    BY TimeOfRevision
  <2>2. \A n \in DOMAIN s : (at(n) < now => n \in Before) /\ (n \in Before => at(n) <= now)
    BY <2>1 DEF Earlier
  <2>3. \A n \in DOMAIN s : (n < i => at(n) <= at(i)) /\ (i < n => at(i) <= at(n))
    BY <1>7 DEF InTime
  <2> HIDE DEF at, now, Before
  <2>4. ASSUME i <= k, now < at(i) PROVE FALSE
    <3>1. ASSUME NEW n \in Before, n \in DOMAIN s PROVE n \in 1 .. i - 1
      <4>1. at(n) < at(i)
        BY <2>1, <2>2, <2>4, <3>1
      <4>2. n # i /\ ~ (i < n)
        BY <2>1, <2>3, <3>1, <4>1
      <4> QED
        BY <2>1, <3>1, <4>2
    <3>2. Before \in SUBSET (1 .. i - 1)
      BY <3>1 DEF Before
    <3>3. k <= i - 1
      BY <2>1, <3>2, CountUpTo
    <3> QED
      BY <1>1, <2>1, <2>4, <3>3
  <2>5. ASSUME ~ (i <= k), at(i) < now PROVE FALSE
    <3>1. ASSUME NEW n \in 1 .. i PROVE n \in Before
      <4>1. n \in DOMAIN s /\ (n = i \/ n < i)
        BY <2>1
      <4>2. at(n) < now
        BY <2>1, <2>3, <2>5, <4>1
      <4> QED
        BY <2>2, <4>1, <4>2
    <3>2. 1 .. i \in SUBSET Before
      BY <3>1
    <3>3. IsFiniteSet(Before)
      <4>1. Before \in SUBSET (1 .. Len(s)) /\ Len(s) \in Nat
        BY DEF Before
      <4> QED
        BY <4>1, CountUpTo
    <3>4. Cardinality(1 .. i) = i
      BY <2>1, FS_Interval
    <3>5. i <= k
      BY <3>2, <3>3, <3>4, FS_Subset
    <3> HIDE DEF k
    <3> QED
      BY <2>5, <3>5
  <2> HIDE DEF k
  <2>6. IF i <= k THEN at(i) <= now ELSE now <= at(i)
    BY <2>1, <2>4, <2>5
  <2> QED
    BY <2>6 DEF at, now
<1> HIDE DEF k
<1>3. /\ t \in Seq(Revisions)
      /\ Len(t) = Len(s) + 1
      /\ \A i \in 1 .. Len(s) + 1 :
            t[i] = IF i <= k THEN s[i] ELSE IF i = k + 1 THEN rev ELSE s[i - 1]
  <2> DEFINE l == SubSeq(s, 1, k)
             r == SubSeq(s, k + 1, Len(s))
  <2>1. l \in Seq(Revisions) /\ Len(l) = k /\ \A i \in 1 .. k : l[i] = s[i]
    BY <1>1
  <2>2. /\ r \in Seq(Revisions)
        /\ Len(r) = Len(s) - k
        /\ \A i \in 1 .. Len(s) - k : r[i] = s[k + i]
    BY <1>1
  <2> HIDE DEF l, r
  <2>3. t = l \o <<rev>> \o r
    BY DEF l, r
  <2> HIDE DEF t
  <2>4. /\ l \o <<rev>> \in Seq(Revisions)
        /\ Len(l \o <<rev>>) = k + 1
        /\ \A i \in 1 .. k + 1 : (l \o <<rev>>)[i] = IF i <= k THEN s[i] ELSE rev
    BY <1>1, <2>1
  <2>5. t \in Seq(Revisions) /\ Len(t) = Len(s) + 1
    BY <1>1, <2>2, <2>3, <2>4
  <2>6. ASSUME NEW i \in 1 .. Len(s) + 1
        PROVE  t[i] = IF i <= k THEN s[i] ELSE IF i = k + 1 THEN rev ELSE s[i - 1]
    <3>1. CASE i <= k + 1
      <4>1. t[i] = (l \o <<rev>>)[i]
        BY <1>1, <2>2, <2>3, <2>4, <3>1
      <4> QED
        BY <1>1, <2>4, <3>1, <4>1
    <3>2. CASE i > k + 1
      <4>1. t[i] = r[i - (k + 1)]
        BY <1>1, <2>2, <2>3, <2>4, <3>2
      <4>2. i - (k + 1) \in 1 .. Len(s) - k /\ k + (i - (k + 1)) = i - 1
        BY <1>1, <3>2
      <4>3. r[i - (k + 1)] = s[i - 1]
        BY <2>2, <4>2
      <4> QED
        BY <1>1, <3>2, <4>1, <4>3
    <3> QED
      BY <1>1, <3>1, <3>2
  <2> QED
    BY <2>5, <2>6
<1> HIDE DEF t
<1>4. \A i \in DOMAIN t : \/ i = k + 1 /\ t[i] = rev
                          \/ i # k + 1 /\ i <= k /\ i \in DOMAIN s /\ t[i] = s[i]
                          \/ i # k + 1 /\ i > k /\ i - 1 \in DOMAIN s /\ t[i] = s[i - 1]
  BY <1>1, <1>3
<1>5. Members(t) = Members(s) \cup {rev}
  <2>1. Members(t) \subseteq Members(s) \cup {rev}
    BY <1>4 DEF Members
  <2>2. rev \in Members(t)
    <3>1. k + 1 \in DOMAIN t /\ t[k + 1] = rev
      BY <1>1, <1>3
    <3> QED
      BY <3>1 DEF Members
  <2>3. ASSUME NEW i \in DOMAIN s PROVE s[i] \in Members(t)
    <3>1. CASE i <= k
      <4>1. i \in DOMAIN t /\ t[i] = s[i]
        BY <1>1, <1>3, <3>1
      <4> QED
        BY <4>1 DEF Members
    <3>2. CASE i > k
      <4>1. i + 1 \in DOMAIN t /\ t[i + 1] = s[i]
        BY <1>1, <1>3, <3>2
      <4> QED
        BY <4>1 DEF Members
    <3> QED
      BY <1>1, <3>1, <3>2
  <2> QED
    BY <2>1, <2>2, <2>3 DEF Members
<1>6. ASSUME Distinct(s), rev.chain \notin Chains(s) PROVE Distinct(t)
  <2>1. \A i \in DOMAIN s : s[i].chain # rev.chain
    BY <1>6 DEF Chains
  <2> SUFFICES ASSUME NEW i \in DOMAIN t, NEW j \in DOMAIN t, t[i].chain = t[j].chain
               PROVE  i = j
    BY DEF Distinct
  <2> DEFINE Was(n) == IF n <= k THEN n ELSE n - 1
  <2>2. i = k + 1 <=> j = k + 1
    BY <1>4, <2>1
  <2>3. ASSUME i # k + 1, j # k + 1 PROVE i = j
    <3>1. /\ Was(i) \in DOMAIN s /\ t[i] = s[Was(i)]
          /\ Was(j) \in DOMAIN s /\ t[j] = s[Was(j)]
      BY <1>1, <1>3, <1>4, <2>3
    <3>2. Was(i) = Was(j)
      <4> HIDE DEF Was
      <4> QED
        BY <1>6, <3>1 DEF Distinct
    <3> QED
      BY <1>1, <1>3, <2>3, <3>2
  <2> QED
    BY <1>1, <1>3, <2>2, <2>3
<1>8. ASSUME InTime(s) PROVE InTime(t)
  <2> SUFFICES ASSUME NEW i \in DOMAIN t, NEW j \in DOMAIN t, i < j
               PROVE  EventAt(t[i]) <= EventAt(t[j])
    BY DEF InTime
  <2>1. /\ EventAt(rev) \in Nat /\ \A n \in DOMAIN s : EventAt(s[n]) \in Nat
        /\ DOMAIN s = 1 .. Len(s) /\ DOMAIN t = 1 .. Len(s) + 1
    BY <1>3, TimeOfRevision
  <2>2. \A n \in DOMAIN s : /\ n <= k => EventAt(s[n]) <= EventAt(rev)
                            /\ ~ (n <= k) => EventAt(rev) <= EventAt(s[n])
    BY <1>7, <1>8
  <2>3. \A n, m \in DOMAIN s : n < m => EventAt(s[n]) <= EventAt(s[m])
    BY <1>8 DEF InTime
  <2>4. CASE j <= k
    <3>1. i \in DOMAIN s /\ j \in DOMAIN s /\ t[i] = s[i] /\ t[j] = s[j]
      BY <1>1, <1>3, <2>1, <2>4
    <3> QED
      BY <2>3, <3>1
  <2>5. CASE j = k + 1
    <3>1. i \in DOMAIN s /\ i <= k /\ t[i] = s[i] /\ t[j] = rev
      BY <1>1, <1>3, <2>1, <2>5
    <3> QED
      BY <2>2, <3>1
  <2>6. CASE j > k + 1
    <3>1. j - 1 \in DOMAIN s /\ ~ (j - 1 <= k) /\ t[j] = s[j - 1]
      BY <1>1, <1>3, <2>1, <2>6
    <3>2. EventAt(rev) <= EventAt(s[j - 1])
      BY <2>2, <3>1
    <3>3. CASE i <= k
      <4>1. i \in DOMAIN s /\ t[i] = s[i] /\ i < j - 1
        BY <1>1, <1>3, <2>1, <2>6, <3>3
      <4> QED
        BY <2>3, <3>1, <4>1
    <3>4. CASE i = k + 1
      <4>1. t[i] = rev
        BY <1>1, <1>3, <2>1, <3>4
      <4> QED
        BY <3>1, <3>2, <4>1
    <3>5. CASE i > k + 1
      <4>1. i - 1 \in DOMAIN s /\ t[i] = s[i - 1] /\ i - 1 < j - 1
        BY <1>1, <1>3, <2>1, <3>5
      <4> QED
        BY <2>3, <3>1, <4>1
    <3> QED
      BY <1>1, <2>1, <3>3, <3>4, <3>5
  <2> QED
    BY <1>1, <2>1, <2>4, <2>5, <2>6
<1> QED
  BY <1>2, <1>3, <1>5, <1>6, <1>8

\* Sorting keeps the revisions, each as often as before.
LEMMA ByEventTimeFacts ==
    ASSUME NEW revs \in Seq(Revisions)
    PROVE  /\ ByEventTime(revs) \in Seq(Revisions)
           /\ Members(ByEventTime(revs)) = Members(revs)
           /\ Distinct(revs) => Distinct(ByEventTime(revs))
           /\ InTime(ByEventTime(revs))
<1> DEFINE N == Len(revs)
           V == Seq(Revisions)
           B == SortedUpTo(revs)
           Body(f) == [n \in 0 .. N |-> IF n = 0 THEN <<>> ELSE InsertedInOrder(f[n - 1], revs[n])]
<1>1. N \in Nat /\ DOMAIN revs = 1 .. N
  OBVIOUS
<1>2. \E f : f = Body(f)
  <2> DEFINE Step == [n \in 1 .. N |-> [s \in V |-> InsertedInOrder(s, revs[n])]]
  <2>1. Step \in [1 .. N -> [V -> V]]
    <3>1. ASSUME NEW n \in 1 .. N, NEW s \in V PROVE InsertedInOrder(s, revs[n]) \in V
      BY <1>1, InsertedInOrderFacts
    <3> HIDE DEF V, N
    <3> QED
      BY <3>1
  <2>2. PICK f : IsRun(f, N, V, <<>>, Step)
    <3>1. <<>> \in V
      OBVIOUS
    <3> HIDE DEF Step, V, N
    <3> QED
      BY <1>1, <2>1, <3>1, LoopRuns
  <2>3. ASSUME NEW n \in 0 .. N, n # 0 PROVE f[n] = InsertedInOrder(f[n - 1], revs[n])
    <3>1. n \in 1 .. N /\ n - 1 \in 0 .. N
      BY <1>1, <2>3
    <3>2. f[n - 1] \in V
      BY <2>2, <3>1 DEF IsRun
    <3> HIDE DEF N, V
    <3> QED
      BY <2>2, <3>1, <3>2 DEF IsRun
  <2>4. f = Body(f)
    <3> HIDE DEF N, V, Step
    <3> QED
      BY <2>2, <2>3 DEF IsRun
  <2> QED
    BY <2>4
<1>3. B = Body(B)
  BY <1>2 DEF SortedUpTo
<1> HIDE DEF B
<1> DEFINE P == {n \in 0 .. N : /\ B[n] \in V
                                /\ Members(B[n]) = {revs[i] : i \in 1 .. n}
                                /\ Distinct(revs) => Distinct(B[n])
                                /\ InTime(B[n])}
<1>4. 0 \in P
  <2>1. B[0] = <<>>
    BY <1>1, <1>3
  <2>2. <<>> \in V /\ Members(<<>>) = {} /\ Distinct(<<>>) /\ InTime(<<>>)
    BY DEF Members, Distinct, InTime
  <2>3. {revs[i] : i \in 1 .. 0} = {} /\ 0 \in 0 .. N
    BY <1>1
  <2> QED
    BY <2>1, <2>2, <2>3
<1>5. ASSUME NEW n \in 1 .. N, n - 1 \in P PROVE n \in P
  <2> DEFINE s == B[n - 1]
  <2>1. n \in 0 .. N /\ B[n] = InsertedInOrder(s, revs[n])
    <3>1. n \in 0 .. N /\ n # 0
      BY <1>1
    <3> QED
      BY <1>3, <3>1
  <2>2. s \in V /\ revs[n] \in Revisions
    BY <1>1, <1>5
  <2>3. Members(s) = {revs[i] : i \in 1 .. n - 1}
    BY <1>5
  <2>4. Distinct(revs) => Distinct(s)
    BY <1>5
  <2> HIDE DEF s
  <2>5. B[n] \in V /\ Members(B[n]) = Members(s) \cup {revs[n]}
    BY <2>1, <2>2, InsertedInOrderFacts
  <2>8. InTime(B[n])
    <3>1. InTime(s)
      BY <1>5 DEF s
    <3> QED
      BY <2>1, <2>2, <3>1, InsertedInOrderFacts
  <2>6. Members(B[n]) = {revs[i] : i \in 1 .. n}
    <3>1. \A i \in 1 .. n : i \in 1 .. n - 1 \/ i = n
      BY <1>1
    <3>2. \A i \in 1 .. n - 1 : i \in 1 .. n
      BY <1>1
    <3>3. n \in 1 .. n
      BY <1>1
    <3> QED
      BY <2>3, <2>5, <3>1, <3>2, <3>3
  <2>7. ASSUME Distinct(revs) PROVE Distinct(B[n])
    <3>1. revs[n].chain \notin Chains(s)
      <4> SUFFICES ASSUME NEW i \in DOMAIN s, revs[n].chain = s[i].chain PROVE FALSE
        BY DEF Chains
      <4>1. s[i] \in Members(s)
        BY DEF Members
      <4>2. PICK j \in 1 .. n - 1 : s[i] = revs[j]
        BY <2>3, <4>1
      <4>3. j \in DOMAIN revs /\ n \in DOMAIN revs /\ j # n
        BY <1>1, <4>2
      <4> QED
        BY <2>7, <4>2, <4>3 DEF Distinct
    <3> QED
      BY <2>1, <2>2, <2>4, <2>7, <3>1, InsertedInOrderFacts
  <2> QED
    BY <2>1, <2>5, <2>6, <2>7, <2>8
<1>6. N \in P
  <2>1. 0 .. N \subseteq P
    <3> HIDE DEF P, N
    <3> QED
      BY <1>1, <1>4, <1>5, EveryRound
  <2>2. N \in 0 .. N
    BY <1>1
  <2> HIDE DEF P
  <2> QED
    BY <2>1, <2>2
<1>7. ByEventTime(revs) = B[N]
  BY DEF ByEventTime, B
<1>8. Members(revs) = {revs[i] : i \in 1 .. N}
  BY <1>1 DEF Members
<1> QED
  BY <1>6, <1>7, <1>8

LEMMA InsertedFacts ==
    ASSUME NEW revs \in Seq(Revisions), NEW rev \in Revisions
    PROVE  /\ Inserted(revs, rev) \in Seq(Revisions)
           /\ Members(revs) \subseteq Members(Inserted(revs, rev))
           /\ Members(Inserted(revs, rev)) \subseteq Members(revs) \cup {rev}
           /\ Chains(Inserted(revs, rev)) = Chains(revs) \cup {rev.chain}
           /\ Distinct(revs) => Distinct(Inserted(revs, rev))
<1> DEFINE t == Append(revs, rev)
<1>1. CASE rev.chain \in Chains(revs)
  BY <1>1 DEF Inserted
<1>2. CASE rev.chain \notin Chains(revs)
  <2>1. /\ t \in Seq(Revisions)
        /\ Len(t) = Len(revs) + 1
        /\ \A i \in DOMAIN revs : i \in DOMAIN t /\ t[i] = revs[i]
        /\ Len(t) \in DOMAIN t /\ t[Len(t)] = rev
    OBVIOUS
  <2>2. \A i \in DOMAIN t : i \in DOMAIN revs \/ i = Len(t)
    OBVIOUS
  <2>3. Inserted(revs, rev) = t
    BY <1>2 DEF Inserted
  <2> HIDE DEF t
  <2>4. Members(t) = Members(revs) \cup {rev}
    BY <2>1, <2>2 DEF Members
  <2>5. Chains(t) = Chains(revs) \cup {rev.chain}
    BY <2>1, <2>2 DEF Chains
  <2>6. ASSUME Distinct(revs) PROVE Distinct(t)
    <3>1. \A i \in DOMAIN revs : revs[i].chain # rev.chain
      BY <1>2 DEF Chains
    <3> QED
      BY <2>1, <2>2, <2>6, <3>1 DEF Distinct
  <2> QED
    BY <2>1, <2>3, <2>4, <2>5, <2>6
<1> QED
  BY <1>1, <1>2

\* A pull adds the events it brings and takes none away.
LEMMA InsertedAllFacts ==
    ASSUME NEW revs \in Seq(Revisions), NEW more \in Seq(Revisions)
    PROVE  /\ InsertedAll(revs, more) \in Seq(Revisions)
           /\ Members(revs) \subseteq Members(InsertedAll(revs, more))
           /\ Members(InsertedAll(revs, more)) \subseteq Members(revs) \cup Members(more)
           /\ Chains(InsertedAll(revs, more)) = Chains(revs) \cup Chains(more)
           /\ Distinct(revs) => Distinct(InsertedAll(revs, more))
<1> DEFINE N == Len(more)
           V == Seq(Revisions)
           B == InsertedUpTo(revs, more)
           Body(f) == [n \in 0 .. N |-> IF n = 0 THEN revs ELSE Inserted(f[n - 1], more[n])]
<1>1. N \in Nat /\ DOMAIN more = 1 .. N
  OBVIOUS
<1>2. \E f : f = Body(f)
  <2> DEFINE Step == [n \in 1 .. N |-> [s \in V |-> Inserted(s, more[n])]]
  <2>1. Step \in [1 .. N -> [V -> V]]
    <3>1. ASSUME NEW n \in 1 .. N, NEW s \in V PROVE Inserted(s, more[n]) \in V
      BY <1>1, InsertedFacts
    <3> HIDE DEF V, N
    <3> QED
      BY <3>1
  <2>2. PICK f : IsRun(f, N, V, revs, Step)
    <3> HIDE DEF Step, N
    <3> QED
      BY <1>1, <2>1, LoopRuns
  <2>3. ASSUME NEW n \in 0 .. N, n # 0 PROVE f[n] = Inserted(f[n - 1], more[n])
    <3>1. n \in 1 .. N /\ n - 1 \in 0 .. N
      BY <1>1, <2>3
    <3>2. f[n - 1] \in V
      BY <2>2, <3>1 DEF IsRun
    <3> HIDE DEF N, V
    <3> QED
      BY <2>2, <3>1, <3>2 DEF IsRun
  <2>4. f = Body(f)
    <3> HIDE DEF N, V, Step
    <3> QED
      BY <2>2, <2>3 DEF IsRun
  <2> QED
    BY <2>4
<1>3. B = Body(B)
  BY <1>2 DEF InsertedUpTo
<1> HIDE DEF B
<1> DEFINE P == {n \in 0 .. N : /\ B[n] \in V
                                /\ Members(revs) \subseteq Members(B[n])
                                /\ Members(B[n]) \subseteq Members(revs) \cup Members(more)
                                /\ Chains(B[n]) = Chains(revs) \cup {more[i].chain : i \in 1 .. n}
                                /\ Distinct(revs) => Distinct(B[n])}
<1>4. 0 \in P
  <2>1. B[0] = revs
    BY <1>1, <1>3
  <2>2. {more[i].chain : i \in 1 .. 0} = {} /\ 0 \in 0 .. N
    BY <1>1
  <2> QED
    BY <2>1, <2>2
<1>5. ASSUME NEW n \in 1 .. N, n - 1 \in P PROVE n \in P
  <2> DEFINE s == B[n - 1]
  <2>1. n \in 0 .. N /\ B[n] = Inserted(s, more[n])
    <3>1. n \in 0 .. N /\ n # 0
      BY <1>1
    <3> QED
      BY <1>3, <3>1
  <2>2. s \in V /\ more[n] \in Revisions
    BY <1>1, <1>5
  <2>3. /\ Members(revs) \subseteq Members(s)
        /\ Members(s) \subseteq Members(revs) \cup Members(more)
    BY <1>5
  <2>4. Chains(s) = Chains(revs) \cup {more[i].chain : i \in 1 .. n - 1}
    BY <1>5
  <2>5. Distinct(revs) => Distinct(s)
    BY <1>5
  <2> HIDE DEF s
  <2>6. B[n] \in V /\ (Distinct(revs) => Distinct(B[n]))
    BY <2>1, <2>2, <2>5, InsertedFacts
  <2>7. /\ Members(revs) \subseteq Members(B[n])
        /\ Members(B[n]) \subseteq Members(revs) \cup Members(more)
    <3>1. more[n] \in Members(more)
      BY <1>1 DEF Members
    <3>2. Members(s) \subseteq Members(B[n]) /\ Members(B[n]) \subseteq Members(s) \cup {more[n]}
      BY <2>1, <2>2, InsertedFacts
    <3> QED
      BY <2>3, <3>1, <3>2
  <2>8. Chains(B[n]) = Chains(revs) \cup {more[i].chain : i \in 1 .. n}
    <3>1. \A i \in 1 .. n : i \in 1 .. n - 1 \/ i = n
      BY <1>1
    <3>2. \A i \in 1 .. n - 1 : i \in 1 .. n
      BY <1>1
    <3>3. n \in 1 .. n
      BY <1>1
    <3>4. Chains(B[n]) = Chains(s) \cup {more[n].chain}
      BY <2>1, <2>2, InsertedFacts
    <3>5. {more[i].chain : i \in 1 .. n} = {more[i].chain : i \in 1 .. n - 1} \cup {more[n].chain}
      BY <3>1, <3>2, <3>3
    <3> QED
      BY <2>4, <3>4, <3>5
  <2> QED
    BY <2>1, <2>6, <2>7, <2>8
<1>6. N \in P
  <2>1. 0 .. N \subseteq P
    <3> HIDE DEF P, N
    <3> QED
      BY <1>1, <1>4, <1>5, EveryRound
  <2>2. N \in 0 .. N
    BY <1>1
  <2> HIDE DEF P
  <2> QED
    BY <2>1, <2>2
<1>7. InsertedAll(revs, more) = B[N]
  BY DEF InsertedAll, B
<1>8. Chains(more) = {more[i].chain : i \in 1 .. N}
  BY <1>1 DEF Chains
<1> QED
  BY <1>6, <1>7, <1>8

\* The predecessor of a new event is a revision that is there, or there is none.
LEMMA TipOfFacts ==
    ASSUME NEW s \in Seq(Revisions), NEW S \in SUBSET DOMAIN s
    PROVE  IF s = <<>> THEN TipOf(s, S) = <<>> ELSE TipOf(s, S) \in Chains(s)
<1>1. CASE s = <<>>
  BY <1>1 DEF TipOf
<1>2. CASE s # <<>>
  <2> DEFINE C == IF S # {} THEN S ELSE DOMAIN s
  <2>1. C \in SUBSET DOMAIN s /\ C # {}
    <3>1. 1 \in DOMAIN s
      BY <1>2
    <3> QED
      BY <3>1
  <2>2. TipOf(s, S) = Best(s, C).chain
    BY <1>2 DEF TipOf
  <2> HIDE DEF C
  <2>3. PICK i \in C : Best(s, C) = s[i]
    BY <2>1, BestIsOne
  <2> QED
    BY <1>2, <2>1, <2>2, <2>3 DEF Chains
<1> QED
  BY <1>1, <1>2

LEMMA SameMembers ==
    ASSUME NEW s \in Seq(Revisions), NEW t \in Seq(Revisions), Members(s) = Members(t)
    PROVE  Chains(s) = Chains(t) /\ (s = <<>> <=> t = <<>>)
<1>1. Chains(s) = {r.chain : r \in Members(s)} /\ Chains(t) = {r.chain : r \in Members(t)}
  BY DEF Chains, Members
<1>2. (s = <<>> <=> Members(s) = {}) /\ (t = <<>> <=> Members(t) = {})
  BY DEF Members
<1> QED
  BY <1>1, <1>2

LEMMA TipFacts ==
    ASSUME NEW revs \in Seq(Revisions)
    PROVE  IF revs = <<>> THEN Tip(revs) = <<>> ELSE Tip(revs) \in Chains(revs)
<1> DEFINE s == ByEventTime(revs)
<1>1. s \in Seq(Revisions) /\ Chains(s) = Chains(revs) /\ (s = <<>> <=> revs = <<>>)
  BY ByEventTimeFacts, SameMembers
<1>2. Tip(revs) = TipOf(s, {})
  BY DEF Tip
<1>3. {} \in SUBSET DOMAIN s
  OBVIOUS
<1> HIDE DEF s
<1> QED
  BY <1>1, <1>2, <1>3, TipOfFacts

LEMMA PredecessorFacts ==
    ASSUME NEW revs \in Seq(Revisions), NEW payload
    PROVE  IF revs = <<>> THEN Predecessor(revs, payload) = <<>>
                          ELSE Predecessor(revs, payload) \in Chains(revs)
<1> DEFINE s == ByEventTime(revs)
           S == WithPayload(s, payload)
<1>1. s \in Seq(Revisions) /\ Chains(s) = Chains(revs) /\ (s = <<>> <=> revs = <<>>)
  BY ByEventTimeFacts, SameMembers
<1>2. Predecessor(revs, payload) = TipOf(s, S)
  BY DEF Predecessor
<1>3. S \in SUBSET DOMAIN s
  BY DEF WithPayload
<1> HIDE DEF s, S
<1> QED
  BY <1>1, <1>2, <1>3, TipOfFacts

-----------------------------------------------------------------------------
(***************************************************************************)
(* Histories.                                                              *)
(***************************************************************************)
ClosedUnderFront(C) == \A chain \in C : Len(chain) > 1 => Front(chain) \in C

LEMMA ClosedMeans ==
    ASSUME NEW revs
    PROVE  Closed(revs) <=> Distinct(revs) /\ ClosedUnderFront(Chains(revs))
  BY DEF Closed, Distinct, ClosedUnderFront, Chains

LEMMA HistoryFitsMeans ==
    ASSUME NEW revs, NEW now
    PROVE  HistoryFits(revs, now) <=> /\ revs \in Seq(Revisions)
                                      /\ \A r \in Members(revs) : EventAt(r) \in Sent .. now
  BY DEF HistoryFits, Members

\* The event that follows tip, observed at seen.
After(tip, event, seen) == [chain |-> Append(tip, event), seen |-> seen]

LEMMA AfterFacts ==
    ASSUME NEW tip \in Seq(Events), NEW event \in Events, NEW seen \in Nat
    PROVE  /\ After(tip, event, seen) \in Revisions
           /\ Last(After(tip, event, seen).chain) = event
           /\ EventAt(After(tip, event, seen)) = event.at
           /\ Front(After(tip, event, seen).chain) = tip
           /\ Len(After(tip, event, seen).chain) > 1 => tip # <<>>
<1> DEFINE c == Append(tip, event)
<1>1. /\ c \in Seq(Events) /\ Len(c) = Len(tip) + 1 /\ c[Len(c)] = event
      /\ \A i \in 1 .. Len(tip) : c[i] = tip[i]
  OBVIOUS
<1>2. c # <<>> /\ (Len(c) > 1 => tip # <<>>)
  BY <1>1
<1>3. After(tip, event, seen).chain = c /\ After(tip, event, seen).seen = seen
  BY DEF After
<1>4. After(tip, event, seen) \in Revisions
  BY <1>1, <1>2 DEF After, Revisions
<1> HIDE DEF c
<1>5. Front(c) = tip
  <2> DEFINE f == SubSeq(c, 1, Len(tip))
  <2>1. f \in Seq(Events) /\ Len(f) = Len(tip) /\ \A i \in 1 .. Len(tip) : f[i] = c[i]
    BY <1>1
  <2> HIDE DEF f
  <2>2. f = tip
    BY <1>1, <2>1
  <2> QED
    BY <1>1, <2>2 DEF f, Front
<1> QED
  BY <1>1, <1>2, <1>3, <1>4, <1>5 DEF Last, EventAt

\* A new event after one that is there leaves a history closed.
LEMMA HistoryGrows ==
    ASSUME NEW now \in Nat, NEW revs, HistoryFits(revs, now), Closed(revs),
           NEW tip, IF revs = <<>> THEN tip = <<>> ELSE tip \in Chains(revs),
           NEW event \in Events, event.at \in Sent .. now, NEW seen \in Nat
    PROVE  LET new == Inserted(revs, After(tip, event, seen))
           IN  /\ HistoryFits(new, now)
               /\ Closed(new)
               /\ Chains(revs) \subseteq Chains(new)
               /\ \E chain \in Chains(new) : Last(chain) = event
<1> DEFINE rev == After(tip, event, seen)
           new == Inserted(revs, rev)
<1>1. revs \in Seq(Revisions) /\ \A r \in Members(revs) : EventAt(r) \in Sent .. now
  BY HistoryFitsMeans
<1>2. tip \in Seq(Events) /\ (tip # <<>> => tip \in Chains(revs))
  <2>1. CASE revs = <<>>
    BY <2>1
  <2>2. CASE revs # <<>>
    <3>1. PICK i \in DOMAIN revs : tip = revs[i].chain
      BY <2>2 DEF Chains
    <3>2. revs[i] \in Revisions
      BY <1>1, <3>1
    <3> QED
      BY <2>2, <3>1, <3>2 DEF Revisions
  <2> QED
    BY <2>1, <2>2
<1>3. /\ rev \in Revisions
      /\ Last(rev.chain) = event
      /\ EventAt(rev) = event.at
      /\ Front(rev.chain) = tip
      /\ Len(rev.chain) > 1 => tip # <<>>
  BY <1>2, AfterFacts
<1> HIDE DEF rev
<1>4. /\ new \in Seq(Revisions)
      /\ Members(new) \subseteq Members(revs) \cup {rev}
      /\ Chains(new) = Chains(revs) \cup {rev.chain}
      /\ Distinct(revs) => Distinct(new)
  BY <1>1, <1>3, InsertedFacts
<1>5. Distinct(revs) /\ ClosedUnderFront(Chains(revs))
  BY ClosedMeans
<1> HIDE DEF new
<1>6. HistoryFits(new, now)
  BY <1>1, <1>3, <1>4, HistoryFitsMeans
<1>7. ClosedUnderFront(Chains(new))
  BY <1>2, <1>3, <1>4, <1>5 DEF ClosedUnderFront
<1>8. Closed(new)
  BY <1>4, <1>5, <1>7, ClosedMeans
<1> QED
  BY <1>3, <1>4, <1>6, <1>8 DEF new, rev

-----------------------------------------------------------------------------
(***************************************************************************)
(* Rows, and what recording them adds to a history.                        *)
(***************************************************************************)
LEMMA DeadRow ==
    ASSUME NEW m, NEW now \in Nat, RowFits(m, now), Dead(m)
    PROVE  m.del \in Sent .. now /\ m.del \in (Sent + 1) .. now /\ Stored(m)
<1>1. m.del \in Nat /\ m.del # 0 /\ m.del \in Deleted(now)
  BY DEF RowFits, Payloads, Dead
<1>2. m.del \in (Sent + 1) .. now
  BY <1>1 DEF Deleted
<1>3. m # NoMessage
  BY <1>1 DEF NoMessage
<1> QED
  BY <1>2, <1>3 DEF Sent, Stored

LEMMA MessageFits ==
    ASSUME NEW now \in Nat, NEW text \in Texts, NEW edit \in 0 .. now
    PROVE  /\ RowFits(Message(text, edit), now)
           /\ Message(text, edit) \in Payloads
           /\ Stored(Message(text, edit))
           /\ ~ Dead(Message(text, edit))
<1>1. NoText \notin Texts
  BY HistoryAssumption
<1> QED
  BY <1>1 DEF RowFits, Message, Payloads, Deleted, Stored, NoMessage, Dead

LEMMA NoMessageFits ==
    ASSUME NEW now \in Nat
    PROVE  RowFits(NoMessage, now) /\ ~ Stored(NoMessage) /\ ~ Dead(NoMessage)
  BY DEF RowFits, NoMessage, Payloads, Deleted, Stored, Dead

LEMMA DeletionFits ==
    ASSUME NEW m \in Payloads
    PROVE  Deletion(m) \in Payloads
  BY DEF Deletion, Payloads

Tombstoned(m, del, why) == [m EXCEPT !.del = del, !.why = why]

\* A deletion leaves the rest of a row alone.
LEMMA DeletedRowFits ==
    ASSUME NEW m, NEW now \in Nat, RowFits(m, now),
           NEW del \in (Sent + 1) .. now, NEW why \in {"message", "chat"}
    PROVE  LET d == Tombstoned(m, del, why)
           IN  RowFits(d, now) /\ Dead(d) /\ d.del = del
<1> DEFINE d == [m EXCEPT !.del = del, !.why = why]
<1>1. m \in Payloads /\ m.edit \in 0 .. now
  BY DEF RowFits
<1>2. del \in Nat /\ del # 0 /\ del \in Deleted(now)
  BY DEF Sent, Deleted
<1>3. d \in Payloads /\ d.edit = m.edit /\ d.del = del /\ d.why = why
  BY <1>1, <1>2 DEF Payloads
<1> HIDE DEF d
<1>4. RowFits(d, now) /\ Dead(d)
  BY <1>1, <1>2, <1>3 DEF RowFits, Dead
<1> QED
  BY <1>3, <1>4 DEF d, Tombstoned

LEMMA PropagatedFits ==
    ASSUME NEW m, NEW now \in Nat, RowFits(m, now), NEW chatDel \in Deleted(now)
    PROVE  /\ RowFits(Propagated(m, chatDel), now)
           /\ Propagated(m, chatDel) = m \/ Dead(Propagated(m, chatDel))
           /\ Stored(Propagated(m, chatDel)) => Stored(m)
<1>1. CASE Stored(m) /\ ~ Dead(m) /\ chatDel # 0
  <2>1. chatDel \in (Sent + 1) .. now
    BY <1>1 DEF Deleted
  <2>2. Propagated(m, chatDel) = Tombstoned(m, chatDel, "chat")
    BY <1>1 DEF Propagated, Tombstoned
  <2> QED
    BY <1>1, <2>1, <2>2, DeletedRowFits
<1>2. CASE ~ (Stored(m) /\ ~ Dead(m) /\ chatDel # 0)
  <2>1. Propagated(m, chatDel) = m
    BY <1>2 DEF Propagated
  <2> QED
    BY <2>1
<1> QED
  BY <1>1, <1>2

LEMMA OverlaidFits ==
    ASSUME NEW current, NEW m, NEW now \in Nat, RowFits(current, now), RowFits(m, now)
    PROVE  /\ RowFits(Overlaid(current, m), now)
           /\ \/ Overlaid(current, m) = m
              \/ /\ Dead(m) /\ Dead(Overlaid(current, m))
                 /\ Overlaid(current, m).del = m.del
<1>1. CASE Stored(current) /\ Dead(m)
  <2>1. m.del \in (Sent + 1) .. now
    BY <1>1, DeadRow
  <2>2. m.why \in {"message", "chat"}
    BY <1>1 DEF RowFits
  <2>3. Overlaid(current, m) = Tombstoned(current, m.del, m.why)
    BY <1>1 DEF Overlaid, Tombstoned
  <2> QED
    BY <1>1, <2>1, <2>2, <2>3, DeletedRowFits
<1>2. CASE ~ (Stored(current) /\ Dead(m))
  <2>1. Overlaid(current, m) = m
    BY <1>2 DEF Overlaid
  <2> QED
    BY <2>1
<1> QED
  BY <1>1, <1>2

Recording(revs, now) == HistoryFits(revs, now) /\ Closed(revs)

LEMMA ExplainedByMore ==
    ASSUME NEW m, NEW revs, NEW more, Chains(revs) \subseteq Chains(more), Explained(m, revs)
    PROVE  Explained(m, more)
  BY DEF Explained

LEMMA ObservedFacts ==
    ASSUME NEW now \in Nat, Sent <= now, NEW revs, Recording(revs, now),
           NEW current, Explained(current, revs),
           NEW m, RowFits(m, now), NEW seen \in Nat
    PROVE  LET new == Observed(revs, current, m, seen)
           IN  Recording(new, now) /\ Explained(m, new)
<1>1. CASE m = current
  BY <1>1 DEF Observed
<1>2. CASE m # current
  <2> DEFINE event == Observation(m, current, revs)
             tip == Predecessor(revs, current)
             new == Inserted(revs, After(tip, event, seen))
  <2>1. event \in Events /\ event.at \in Sent .. now /\ Explains(<<event>>, m)
    <3>1. m \in Payloads /\ m.edit \in 0 .. now
      BY DEF RowFits
    <3>2. CASE Dead(m)
      <4>1. event = Event("deleted", m.del, m) /\ m.del \in Sent .. now /\ m.del \in Nat
        BY <3>1, <3>2, DeadRow DEF Observation, Payloads
      <4> QED
        BY <3>1, <3>2, <4>1 DEF Event, Events, Explains, Last
    <3>3. CASE ~ Dead(m) /\ ~ Stored(current) /\ revs = <<>>
      <4>1. event = Event("created", Sent, m)
        BY <3>3 DEF Observation
      <4> QED
        BY <3>1, <3>3, <4>1 DEF Event, Events, Explains, Last, Sent
    <3>4. CASE ~ Dead(m) /\ ~ (~ Stored(current) /\ revs = <<>>)
      <4>1. event = Event("edited", IF m.edit # 0 THEN m.edit ELSE Sent, m)
        BY <3>4 DEF Observation
      <4> QED
        BY <3>1, <3>4, <4>1 DEF Event, Events, Explains, Last, Sent
    <3> QED
      BY <3>2, <3>3, <3>4
  <2>2. Observed(revs, current, m, seen) = new
    BY <1>2 DEF Observed, After
  <2>3. revs \in Seq(Revisions)
    BY DEF Recording, HistoryFits
  <2>4. IF revs = <<>> THEN tip = <<>> ELSE tip \in Chains(revs)
    BY <2>3, PredecessorFacts
  <2> HIDE DEF event, tip
  <2>5. Recording(new, now) /\ \E chain \in Chains(new) : Last(chain) = event
    BY <2>1, <2>4, HistoryGrows DEF Recording
  <2>6. Last(<<event>>) = event
    BY DEF Last
  <2> HIDE DEF new
  <2>7. Explained(m, new)
    BY <2>1, <2>5, <2>6 DEF Explained, Explains
  <2> QED
    BY <2>2, <2>5, <2>7
<1> QED
  BY <1>1, <1>2

LEMMA RecordedFacts ==
    ASSUME NEW now \in Nat, NEW revs, Recording(revs, now),
           NEW m, RowFits(m, now), Dead(m) \/ Explained(m, revs), NEW seen \in Nat
    PROVE  LET new == Recorded(revs, m, seen)
           IN  Recording(new, now) /\ Explained(m, new)
<1> DEFINE tip == Tip(revs)
           event == Event("deleted", m.del, Deletion(m))
           new == Inserted(revs, After(tip, event, seen))
<1>1. CASE ~ Dead(m)
  BY <1>1 DEF Recorded
<1>2. IF revs = <<>> THEN tip = <<>> ELSE tip \in Chains(revs)
  BY TipFacts DEF Recording, HistoryFits
<1>3. CASE Dead(m) /\ tip # <<>> /\ Last(tip).type = "deleted" /\ Last(tip).at = m.del
  <2>1. Explains(tip, m) /\ tip \in Chains(revs)
    BY <1>2, <1>3 DEF Explains
  <2> QED
    BY <1>3, <2>1 DEF Recorded, Explained
<1>4. CASE Dead(m) /\ ~ (tip # <<>> /\ Last(tip).type = "deleted" /\ Last(tip).at = m.del)
  <2>1. Recorded(revs, m, seen) = new
    BY <1>4 DEF Recorded, After
  <2>2. event \in Events /\ event.type = "deleted" /\ event.at = m.del
    <3>1. Deletion(m) \in Payloads /\ m.del \in Nat
      BY DeletionFits DEF RowFits, Payloads
    <3> QED
      BY <3>1 DEF Event, Events
  <2>3. event.at \in Sent .. now
    BY <1>4, <2>2, DeadRow
  <2> HIDE DEF event, tip
  <2>4. Recording(new, now) /\ \E chain \in Chains(new) : Last(chain) = event
    BY <1>2, <2>2, <2>3, HistoryGrows DEF Recording
  <2> HIDE DEF new
  <2>5. Explained(m, new)
    BY <1>4, <2>2, <2>4 DEF Explained, Explains
  <2> QED
    BY <2>1, <2>4, <2>5
<1> QED
  BY <1>1, <1>3, <1>4

LEMMA SeededFacts ==
    ASSUME NEW now \in Nat, Sent <= now, NEW revs, Recording(revs, now),
           NEW m, RowFits(m, now), revs # <<>> => Explained(m, revs), NEW seen \in Nat
    PROVE  LET new == Seeded(revs, m, seen)
           IN  Recording(new, now) /\ Explained(m, new)
<1>1. CASE revs # <<>> \/ ~ Stored(m)
  BY <1>1 DEF Seeded, Explained
<1>2. CASE revs = <<>> /\ Stored(m)
  <2> DEFINE event == IF Dead(m) THEN Event("deleted", m.del, m) ELSE Event("observed", Sent, m)
             new == Inserted(revs, After(<<>>, event, seen))
  <2>1. event \in Events /\ event.at \in Sent .. now /\ Explains(<<event>>, m)
    <3>1. m \in Payloads /\ m.del \in Nat
      BY DEF RowFits, Payloads
    <3>2. Dead(m) => m.del \in Sent .. now
      BY DeadRow
    <3> QED
      BY <3>1, <3>2 DEF Event, Events, Explains, Last, Sent
  <2>2. Seeded(revs, m, seen) = new
    <3>1. Inserted(<<>>, After(<<>>, event, seen)) = <<After(<<>>, event, seen)>>
      <4> HIDE DEF event
      <4> QED
        BY DEF Inserted, Chains
    <3>2. Append(<<>>, event) = <<event>>
      <4> HIDE DEF event
      <4> QED
        OBVIOUS
    <3> QED
      BY <1>2, <3>1, <3>2 DEF Seeded, After
  <2> HIDE DEF event
  <2>3. Recording(new, now) /\ \E chain \in Chains(new) : Last(chain) = event
    BY <1>2, <2>1, HistoryGrows DEF Recording
  <2>4. Last(<<event>>) = event
    BY DEF Last
  <2> HIDE DEF new
  <2>5. Explained(m, new)
    BY <2>1, <2>3, <2>4 DEF Explained, Explains
  <2> QED
    BY <2>2, <2>3, <2>5
<1> QED
  BY <1>1, <1>2

-----------------------------------------------------------------------------
(***************************************************************************)
(* Archives: a pull, an export, and time that passes.                      *)
(***************************************************************************)
LEMMA PulledTogether ==
    ASSUME NEW now \in Nat, NEW revs, NEW more, Recording(revs, now), Recording(more, now)
    PROVE  /\ Recording(InsertedAll(revs, more), now)
           /\ Chains(revs) \subseteq Chains(InsertedAll(revs, more))
           /\ Chains(more) \subseteq Chains(InsertedAll(revs, more))
<1> DEFINE all == InsertedAll(revs, more)
<1>1. /\ revs \in Seq(Revisions) /\ \A r \in Members(revs) : EventAt(r) \in Sent .. now
      /\ more \in Seq(Revisions) /\ \A r \in Members(more) : EventAt(r) \in Sent .. now
  BY HistoryFitsMeans DEF Recording
<1>2. /\ Distinct(revs) /\ ClosedUnderFront(Chains(revs))
      /\ ClosedUnderFront(Chains(more))
  BY ClosedMeans DEF Recording
<1>3. /\ all \in Seq(Revisions)
      /\ Members(all) \subseteq Members(revs) \cup Members(more)
      /\ Chains(all) = Chains(revs) \cup Chains(more)
      /\ Distinct(revs) => Distinct(all)
  BY <1>1, InsertedAllFacts
<1> HIDE DEF all
<1>4. HistoryFits(all, now)
  BY <1>1, <1>3, HistoryFitsMeans
<1>5. ClosedUnderFront(Chains(all))
  BY <1>2, <1>3 DEF ClosedUnderFront
<1>6. Closed(all)
  BY <1>2, <1>3, <1>5, ClosedMeans
<1> QED
  BY <1>3, <1>4, <1>6 DEF Recording, all

LEMMA ExportedFacts ==
    ASSUME NEW now \in Nat, NEW revs, Recording(revs, now)
    PROVE  /\ Recording(ByEventTime(revs), now)
           /\ Chains(ByEventTime(revs)) = Chains(revs)
<1> DEFINE s == ByEventTime(revs)
<1>1. revs \in Seq(Revisions) /\ \A r \in Members(revs) : EventAt(r) \in Sent .. now
  BY HistoryFitsMeans DEF Recording
<1>2. s \in Seq(Revisions) /\ Members(s) = Members(revs) /\ (Distinct(revs) => Distinct(s))
  BY <1>1, ByEventTimeFacts
<1> HIDE DEF s
<1>3. Chains(s) = Chains(revs)
  BY <1>1, <1>2, SameMembers
<1>4. HistoryFits(s, now)
  BY <1>1, <1>2, HistoryFitsMeans
<1>5. Closed(s)
  BY <1>2, <1>3, ClosedMeans DEF Recording
<1> QED
  BY <1>3, <1>4, <1>5 DEF Recording, s

Taken(r, revs, s, restore) ==
    IF restore \/ Accepts(revs, r, s) THEN Overlaid(r, s.row) ELSE r

\* The row a pull keeps or takes is explained by what the two archives know.
LEMMA TakenFits ==
    ASSUME NEW now \in Nat, NEW r, RowFits(r, now),
           NEW revs, Recording(revs, now), Explained(r, revs),
           NEW s, ArchiveFits(s.row, s.chat, s.history, now), NEW restore
    PROVE  /\ Recording(InsertedAll(revs, s.history), now)
           /\ RowFits(Taken(r, revs, s, restore), now)
           /\ Explained(Taken(r, revs, s, restore), InsertedAll(revs, s.history))
<1> DEFINE taken   == Taken(r, revs, s, restore)
           pulled  == InsertedAll(revs, s.history)
           over    == Overlaid(r, s.row)
<1>1. RowFits(s.row, now) /\ Recording(s.history, now) /\ Explained(s.row, s.history)
  BY DEF ArchiveFits, Recording
<1>2. /\ Recording(pulled, now)
      /\ Chains(revs) \subseteq Chains(pulled) /\ Chains(s.history) \subseteq Chains(pulled)
  BY <1>1, PulledTogether
<1>3. Explained(r, pulled) /\ Explained(s.row, pulled)
  BY <1>1, <1>2, ExplainedByMore
<1>4. RowFits(over, now)
  BY <1>1, OverlaidFits
<1>5. over = s.row \/ (Dead(s.row) /\ Dead(over) /\ over.del = s.row.del)
  BY <1>1, OverlaidFits
<1>6. Dead(s.row) => Stored(s.row)
  BY <1>1, DeadRow
<1>7. taken = over \/ taken = r
  BY DEF Taken
<1> HIDE DEF over, taken, pulled
<1>8. Explained(over, pulled)
  BY <1>3, <1>5, <1>6 DEF Explained, Explains
<1>9. RowFits(taken, now) /\ Explained(taken, pulled)
  BY <1>3, <1>4, <1>7, <1>8
<1> QED
  BY <1>2, <1>9 DEF taken, pulled

LEMMA ImportFits ==
    ASSUME NEW now \in Nat, Sent <= now,
           NEW c \in Deleted(now), NEW r, RowFits(r, now),
           NEW revs, Recording(revs, now), Explained(r, revs),
           NEW s, ArchiveFits(s.row, s.chat, s.history, now), s.at \in Nat,
           NEW restore
    PROVE  LET new == Import(c, r, revs, s, restore)
           IN  ArchiveFits(new.row, new.chat, new.history, now)
<1> DEFINE taken   == Taken(r, revs, s, restore)
           chatDel == IF Stored(r) THEN c ELSE s.chat
           m       == Propagated(taken, chatDel)
           pulled  == InsertedAll(revs, s.history)
           all     == Seeded(pulled, taken, s.at)
           new     == Recorded(all, m, s.at)
<1>1. Recording(pulled, now) /\ RowFits(taken, now) /\ Explained(taken, pulled)
  BY TakenFits
<1>2. chatDel \in Deleted(now)
  BY DEF ArchiveFits
<1> HIDE DEF taken, chatDel, pulled
<1>3. Recording(all, now) /\ Explained(taken, all)
  BY <1>1, SeededFacts
<1> HIDE DEF all
<1>4. RowFits(m, now) /\ (m = taken \/ Dead(m))
  BY <1>1, <1>2, PropagatedFits
<1> HIDE DEF m
<1>5. Recording(new, now) /\ Explained(m, new)
  BY <1>3, <1>4, RecordedFacts
<1>6. Import(c, r, revs, s, restore) = [row |-> m, chat |-> chatDel, history |-> new]
  BY DEF Import, Taken, taken, chatDel, m, pulled, all
<1> HIDE DEF new
<1> QED
  BY <1>2, <1>4, <1>5, <1>6 DEF ArchiveFits, Recording

LEMMA FitsLater ==
    ASSUME NEW now \in Nat, NEW later \in Nat, now <= later,
           NEW m, NEW deleted, NEW revs, ArchiveFits(m, deleted, revs, now)
    PROVE  ArchiveFits(m, deleted, revs, later)
<1>1. 0 .. now \subseteq 0 .. later /\ Sent .. now \subseteq Sent .. later
  BY DEF Sent
<1>2. Deleted(now) \subseteq Deleted(later)
  BY DEF Deleted, Sent
<1>3. RowFits(m, later)
  BY <1>1, <1>2 DEF ArchiveFits, RowFits
<1>4. HistoryFits(revs, later)
  BY <1>1 DEF ArchiveFits, HistoryFits
<1> QED
  BY <1>2, <1>3, <1>4 DEF ArchiveFits

LEMMA EmptyFits ==
    ASSUME NEW now \in Nat
    PROVE  /\ ArchiveFits(NoMessage, 0, <<>>, now)
           /\ Recording(<<>>, now) /\ Explained(NoMessage, <<>>)
<1>1. HistoryFits(<<>>, now) /\ Closed(<<>>)
  BY DEF HistoryFits, Closed
<1>2. RowFits(NoMessage, now) /\ Explained(NoMessage, <<>>)
  BY NoMessageFits DEF Explained
<1> QED
  BY <1>1, <1>2 DEF ArchiveFits, Deleted, Recording

-----------------------------------------------------------------------------
(***************************************************************************)
(* The invariant.                                                          *)
(***************************************************************************)
LEMMA InitFits == Init => IInv
<1> SUFFICES ASSUME Init PROVE IInv
  OBVIOUS
<1>1. MaxTime \in Nat \ {0}
  BY HistoryAssumption
<1>2. clock = 1 /\ clock \in Sent .. MaxTime
  BY <1>1 DEF Init, Sent
<1>3. ArchiveFits(NoMessage, 0, <<>>, clock)
  BY <1>2, EmptyFits
<1>4. TelegramFits
  BY <1>2 DEF Init, TelegramFits
<1>5. SnapshotFits
  BY <1>2, <1>3 DEF Init, SnapshotFits, Sent
<1>6. ArchivesFit
  <2>1. NoMessage \in Payloads /\ <<>> \in Seq(Revisions)
    BY NoMessageFits, <1>2 DEF RowFits
  <2>2. Len(<<>>) <= MaxRevisions
    BY HistoryAssumption
  <2> QED
    BY <1>3, <2>1, <2>2 DEF Init, ArchivesFit
<1> QED
  BY <1>2, <1>4, <1>5, <1>6 DEF IInv

\* What an operation leaves of one archive, the others untouched.
LEMMA BecomesFits ==
    ASSUME IInv, clock' \in Nat, clock <= clock', NEW a \in Archives, NEW state,
           ArchiveFits(state.row, state.chat, state.history, clock'), Becomes(a, state)
    PROVE  ArchivesFit'
<1>1. /\ row \in [Archives -> Payloads] /\ chat \in [Archives -> Nat]
      /\ history \in [Archives -> Seq(Revisions)]
      /\ \A b \in Archives : /\ ArchiveFits(row[b], chat[b], history[b], clock)
                             /\ Len(history[b]) <= MaxRevisions
  BY DEF IInv, ArchivesFit
<1>2. clock \in Nat
  BY HistoryAssumption DEF IInv, Sent
<1>3. /\ Len(state.history) <= MaxRevisions
      /\ row' = [row EXCEPT ![a] = state.row]
      /\ chat' = [chat EXCEPT ![a] = state.chat]
      /\ history' = [history EXCEPT ![a] = state.history]
  BY DEF Becomes
<1>4. state.row \in Payloads /\ state.chat \in Nat /\ state.history \in Seq(Revisions)
  BY DEF ArchiveFits, RowFits, HistoryFits, Deleted, Sent
<1>5. /\ row' \in [Archives -> Payloads] /\ chat' \in [Archives -> Nat]
      /\ history' \in [Archives -> Seq(Revisions)]
  BY <1>1, <1>3, <1>4
<1>6. ASSUME NEW b \in Archives
      PROVE  ArchiveFits(row'[b], chat'[b], history'[b], clock') /\ Len(history'[b]) <= MaxRevisions
  <2>1. CASE b = a
    <3>1. row'[b] = state.row /\ chat'[b] = state.chat /\ history'[b] = state.history
      BY <1>1, <1>3, <2>1
    <3> QED
      BY <1>3, <3>1
  <2>2. CASE b # a
    <3>1. row'[b] = row[b] /\ chat'[b] = chat[b] /\ history'[b] = history[b]
      BY <1>1, <1>3, <2>2
    <3>2. ArchiveFits(row[b], chat[b], history[b], clock')
      BY <1>1, <1>2, FitsLater
    <3> QED
      BY <1>1, <3>1, <3>2
  <2> QED
    BY <2>1, <2>2
<1> QED
  BY <1>5, <1>6 DEF ArchivesFit

LEMMA NobodyTouched ==
    ASSUME IInv, clock' \in Nat, clock <= clock', UNCHANGED <<row, chat, history>>
    PROVE  ArchivesFit'
<1>1. clock \in Nat
  BY HistoryAssumption DEF IInv, Sent
<1>2. /\ row' = row /\ chat' = chat /\ history' = history
      /\ row \in [Archives -> Payloads] /\ chat \in [Archives -> Nat]
      /\ history \in [Archives -> Seq(Revisions)]
      /\ \A b \in Archives : /\ ArchiveFits(row[b], chat[b], history[b], clock)
                             /\ Len(history[b]) <= MaxRevisions
  BY DEF IInv, ArchivesFit
<1>3. \A b \in Archives : ArchiveFits(row[b], chat[b], history[b], clock')
  BY <1>1, <1>2, FitsLater
<1> QED
  BY <1>2, <1>3 DEF ArchivesFit

LEMMA SnapshotUntouched ==
    ASSUME IInv, clock' \in Nat, clock <= clock', UNCHANGED snapshot
    PROVE  SnapshotFits'
<1>1. clock \in Nat
  BY HistoryAssumption DEF IInv, Sent
<1>2. /\ snapshot' = snapshot /\ snapshot.at \in Sent .. clock
      /\ ArchiveFits(snapshot.row, snapshot.chat, snapshot.history, clock)
  BY DEF IInv, SnapshotFits
<1>3. ArchiveFits(snapshot.row, snapshot.chat, snapshot.history, clock')
  BY <1>1, <1>2, FitsLater
<1>4. snapshot.at \in Sent .. clock'
  BY <1>1, <1>2 DEF Sent
<1> QED
  BY <1>2, <1>3, <1>4 DEF SnapshotFits

LEMMA TelegramUntouched ==
    ASSUME IInv, clock' \in Nat, clock <= clock', UNCHANGED telegram
    PROVE  TelegramFits'
<1>1. clock \in Nat
  BY HistoryAssumption DEF IInv, Sent
<1>2. PICK text \in Texts, edit \in 0 .. clock : telegram = Message(text, edit)
  BY DEF IInv, TelegramFits
<1>3. edit \in 0 .. clock'
  BY <1>1
<1> QED
  BY <1>2, <1>3 DEF TelegramFits

LEMMA IInvMeans ==
    ASSUME IInv
    PROVE  /\ clock \in Nat /\ Sent <= clock /\ clock <= MaxTime /\ MaxTime \in Nat
           /\ RowFits(telegram, clock) /\ Stored(telegram) /\ ~ Dead(telegram)
           /\ \E text \in Texts, edit \in 0 .. clock : telegram = Message(text, edit)
           /\ \A a \in Archives : /\ RowFits(row[a], clock) /\ chat[a] \in Deleted(clock)
                                  /\ Recording(history[a], clock)
                                  /\ Explained(row[a], history[a])
<1>1. clock \in Nat /\ Sent <= clock /\ clock <= MaxTime /\ MaxTime \in Nat
  BY HistoryAssumption DEF IInv, Sent
<1>2. PICK text \in Texts, edit \in 0 .. clock : telegram = Message(text, edit)
  BY DEF IInv, TelegramFits
<1>3. RowFits(telegram, clock) /\ Stored(telegram) /\ ~ Dead(telegram)
  BY <1>1, <1>2, MessageFits
<1>4. \A a \in Archives : /\ RowFits(row[a], clock) /\ chat[a] \in Deleted(clock)
                          /\ Recording(history[a], clock) /\ Explained(row[a], history[a])
  BY DEF IInv, ArchivesFit, ArchiveFits, Recording
<1> QED
  BY <1>1, <1>2, <1>3, <1>4

LEMMA Ticked ==
    ASSUME IInv, Tick
    PROVE  /\ clock' \in Nat /\ clock <= clock' /\ clock' \in Sent .. MaxTime
           /\ clock' = clock + 1
  BY IInvMeans DEF Tick, Sent

\* An operation on one archive that only changes the archive.
LEMMA ArchiveStep ==
    ASSUME IInv, clock' \in Sent .. MaxTime, clock <= clock', UNCHANGED <<telegram, snapshot>>,
           NEW a \in Archives, NEW state, Becomes(a, state),
           ArchiveFits(state.row, state.chat, state.history, clock')
    PROVE  IInv'
<1>1. clock' \in Nat
  BY HistoryAssumption DEF Sent
<1>2. ArchivesFit'
  BY <1>1, BecomesFits
<1>3. SnapshotFits' /\ TelegramFits'
  BY <1>1, SnapshotUntouched, TelegramUntouched
<1> QED
  BY <1>2, <1>3 DEF IInv

LEMMA TelegramSteps ==
    ASSUME IInv, TelegramEdit \/ TelegramChange
    PROVE  IInv'
<1>1. clock' \in Nat /\ clock <= clock' /\ clock' \in Sent .. MaxTime
  BY Ticked, IInvMeans DEF TelegramEdit, TelegramChange, IInv
<1>2. TelegramFits'
  <2>1. CASE TelegramEdit
    <3>1. PICK text \in Texts : telegram' = Message(text, clock')
      BY <2>1 DEF TelegramEdit
    <3>2. clock' \in 0 .. clock'
      BY <1>1
    <3> QED
      BY <3>1, <3>2 DEF TelegramFits
  <2>2. CASE TelegramChange
    <3>1. PICK text \in Texts : telegram' = [telegram EXCEPT !.text = text]
      BY <2>2 DEF TelegramChange
    <3>2. PICK old \in Texts, edit \in 0 .. clock : telegram = Message(old, edit)
      BY IInvMeans
    <3>3. telegram' = Message(text, edit)
      BY <3>1, <3>2 DEF Message
    <3>4. edit \in 0 .. clock'
      BY <1>1, IInvMeans
    <3> QED
      BY <3>3, <3>4 DEF TelegramFits
  <2> QED
    BY <2>1, <2>2
<1>3. UNCHANGED <<row, chat, history, snapshot>>
  BY DEF TelegramEdit, TelegramChange
<1>4. ArchivesFit' /\ SnapshotFits'
  BY <1>1, <1>3, NobodyTouched, SnapshotUntouched
<1> QED
  BY <1>1, <1>2, <1>4 DEF IInv

LEMMA FetchSteps ==
    ASSUME IInv, NEW a \in Archives, Fetch(a) \/ Replace(a) \/ Migrate(a)
    PROVE  IInv'
<1>1. /\ clock' = clock /\ clock \in Nat /\ clock' \in Sent .. MaxTime
      /\ UNCHANGED <<telegram, snapshot>>
  BY IInvMeans DEF Fetch, Replace, Migrate, IInv
<1>2. RowFits(telegram, clock) /\ Stored(telegram) /\ 0 \in Deleted(clock) /\ Sent <= clock
  BY IInvMeans DEF Deleted
<1>3. /\ Recording(history[a], clock) /\ Explained(row[a], history[a])
      /\ Recording(<<>>, clock) /\ Explained(NoMessage, <<>>)
  BY <1>1, IInvMeans, EmptyFits
<1>4. ASSUME NEW revs, Recording(revs, clock), Explained(telegram, revs),
             Becomes(a, [row |-> telegram, chat |-> 0, history |-> revs])
      PROVE  IInv'
  <2> DEFINE state == [row |-> telegram, chat |-> 0, history |-> revs]
  <2>1. ArchiveFits(state.row, state.chat, state.history, clock')
    BY <1>1, <1>2, <1>4 DEF ArchiveFits, Recording
  <2> HIDE DEF state
  <2>2. Becomes(a, state)
    BY <1>4 DEF state
  <2> QED
    BY <1>1, <2>1, <2>2, ArchiveStep
<1>5. CASE Fetch(a)
  <2> DEFINE revs == Observed(history[a], row[a], telegram, clock)
  <2>1. Recording(revs, clock) /\ Explained(telegram, revs)
    BY <1>1, <1>2, <1>3, ObservedFacts
  <2> QED
    BY <1>4, <1>5, <2>1 DEF Fetch
<1>6. CASE Replace(a)
  <2> DEFINE revs == Observed(<<>>, NoMessage, telegram, clock)
  <2>1. Recording(revs, clock) /\ Explained(telegram, revs)
    BY <1>1, <1>2, <1>3, ObservedFacts
  <2> QED
    BY <1>4, <1>6, <2>1 DEF Replace
<1>7. CASE Migrate(a)
  <2> DEFINE revs == Seeded(<<>>, telegram, clock)
  <2>1. Recording(revs, clock) /\ Explained(telegram, revs)
    BY <1>1, <1>2, <1>3, SeededFacts
  <2> QED
    BY <1>4, <1>7, <2>1 DEF Migrate
<1> QED
  BY <1>5, <1>6, <1>7

LEMMA DeletionSteps ==
    ASSUME IInv, NEW a \in Archives, DeleteMessage(a) \/ DeleteChat(a)
    PROVE  IInv'
<1>1. Tick /\ UNCHANGED <<telegram, snapshot>>
  BY DEF DeleteMessage, DeleteChat
<1>2. /\ clock' \in Nat /\ clock <= clock' /\ clock' \in Sent .. MaxTime /\ clock' = clock + 1
      /\ clock \in Nat /\ Sent <= clock /\ Sent <= clock'
  BY <1>1, Ticked, IInvMeans DEF Sent
<1>3. clock' \in (Sent + 1) .. clock' /\ clock' \in Deleted(clock')
  BY <1>2 DEF Sent, Deleted
<1>4. ArchiveFits(row[a], chat[a], history[a], clock')
  BY <1>2, FitsLater DEF IInv, ArchivesFit
<1>5. /\ RowFits(row[a], clock') /\ chat[a] \in Deleted(clock')
      /\ Recording(history[a], clock') /\ Explained(row[a], history[a])
  BY <1>4 DEF ArchiveFits, Recording
<1>6. CASE DeleteMessage(a)
  <2> DEFINE m == [row[a] EXCEPT !.del = clock', !.why = "message"]
             seen == Observed(history[a], row[a], m, clock')
             revs == Recorded(seen, m, clock')
             state == [row |-> m, chat |-> chat[a], history |-> revs]
  <2>1. Becomes(a, state)
    BY <1>6 DEF DeleteMessage
  <2>2. m = Tombstoned(row[a], clock', "message")
    BY DEF Tombstoned
  <2> HIDE DEF m
  <2>3. RowFits(m, clock') /\ Dead(m)
    BY <1>2, <1>3, <1>5, <2>2, DeletedRowFits
  <2>4. Recording(seen, clock')
    BY <1>2, <1>5, <2>3, ObservedFacts
  <2> HIDE DEF seen
  <2>5. Recording(revs, clock') /\ Explained(m, revs)
    BY <1>2, <2>3, <2>4, RecordedFacts
  <2> HIDE DEF revs
  <2>6. ArchiveFits(state.row, state.chat, state.history, clock')
    BY <1>5, <2>3, <2>5 DEF ArchiveFits, Recording
  <2> HIDE DEF state
  <2> QED
    BY <1>1, <1>2, <2>1, <2>6, ArchiveStep
<1>7. CASE DeleteChat(a)
  <2> DEFINE m == Propagated(row[a], clock')
             revs == Recorded(history[a], m, clock')
             state == [row |-> m, chat |-> clock', history |-> revs]
  <2>1. Becomes(a, state)
    BY <1>7 DEF DeleteChat
  <2>2. RowFits(m, clock') /\ (m = row[a] \/ Dead(m))
    BY <1>2, <1>3, <1>5, PropagatedFits
  <2> HIDE DEF m
  <2>3. Recording(revs, clock') /\ Explained(m, revs)
    BY <1>2, <1>5, <2>2, RecordedFacts
  <2> HIDE DEF revs
  <2>4. ArchiveFits(state.row, state.chat, state.history, clock')
    BY <1>3, <2>2, <2>3 DEF ArchiveFits, Recording
  <2> HIDE DEF state
  <2> QED
    BY <1>1, <1>2, <2>1, <2>4, ArchiveStep
<1> QED
  BY <1>6, <1>7

LEMMA PushStep ==
    ASSUME IInv, NEW a \in Archives, Push(a)
    PROVE  IInv'
<1>1. /\ clock' = clock /\ clock \in Nat /\ clock' \in Sent .. MaxTime
      /\ UNCHANGED <<telegram, row, chat, history>>
  BY IInvMeans DEF Push, IInv
<1>2. ArchivesFit' /\ TelegramFits'
  BY <1>1, NobodyTouched, TelegramUntouched
<1>3. snapshot' = [row |-> row[a], chat |-> chat[a],
                   history |-> ByEventTime(history[a]), at |-> clock]
  BY DEF Push
<1>4. /\ Recording(ByEventTime(history[a]), clock)
      /\ Chains(ByEventTime(history[a])) = Chains(history[a])
  BY <1>1, IInvMeans, ExportedFacts
<1>5. ArchiveFits(row[a], chat[a], ByEventTime(history[a]), clock)
  BY <1>4, IInvMeans, ExplainedByMore DEF ArchiveFits, Recording
<1>6. SnapshotFits'
  BY <1>1, <1>3, <1>5, IInvMeans DEF SnapshotFits
<1> QED
  BY <1>1, <1>2, <1>6 DEF IInv

LEMMA PullSteps ==
    ASSUME IInv, NEW a \in Archives, MergeSnapshot(a) \/ RestoreSnapshot(a)
    PROVE  IInv'
<1>1. /\ clock' = clock /\ clock \in Nat /\ clock' \in Sent .. MaxTime
      /\ Sent <= clock /\ UNCHANGED <<telegram, snapshot>>
  BY IInvMeans DEF MergeSnapshot, RestoreSnapshot, IInv
<1>2. /\ ArchiveFits(snapshot.row, snapshot.chat, snapshot.history, clock)
      /\ snapshot.at \in Nat
  BY <1>1 DEF IInv, SnapshotFits, Sent
<1>3. ASSUME NEW c \in Deleted(clock), NEW r, RowFits(r, clock),
             NEW revs, Recording(revs, clock), Explained(r, revs), NEW restore,
             Becomes(a, Import(c, r, revs, snapshot, restore))
      PROVE  IInv'
  <2> DEFINE state == Import(c, r, revs, snapshot, restore)
  <2>1. ArchiveFits(state.row, state.chat, state.history, clock')
    BY <1>1, <1>2, <1>3, ImportFits
  <2>2. Becomes(a, state)
    BY <1>3
  <2> HIDE DEF state
  <2> QED
    BY <1>1, <2>1, <2>2, ArchiveStep
<1>4. CASE MergeSnapshot(a)
  <2>1. Becomes(a, Import(chat[a], row[a], history[a], snapshot, FALSE))
    BY <1>4 DEF MergeSnapshot, Merged
  <2>2. /\ RowFits(row[a], clock) /\ chat[a] \in Deleted(clock)
        /\ Recording(history[a], clock) /\ Explained(row[a], history[a])
    BY IInvMeans
  <2> QED
    BY <1>3, <2>1, <2>2
<1>5. CASE RestoreSnapshot(a)
  <2>1. Becomes(a, Import(0, NoMessage, <<>>, snapshot, TRUE))
    BY <1>5 DEF RestoreSnapshot
  <2>2. /\ RowFits(NoMessage, clock) /\ 0 \in Deleted(clock)
        /\ Recording(<<>>, clock) /\ Explained(NoMessage, <<>>)
    BY <1>1, NoMessageFits, EmptyFits DEF Deleted
  <2> QED
    BY <1>3, <2>1, <2>2
<1> QED
  BY <1>4, <1>5

LEMMA StepFits == IInv /\ [Next]_vars => IInv'
<1> SUFFICES ASSUME IInv, [Next]_vars PROVE IInv'
  OBVIOUS
<1>1. CASE TelegramEdit \/ TelegramChange
  BY <1>1, TelegramSteps
<1>2. ASSUME NEW a \in Archives,
             \/ Fetch(a) \/ Replace(a) \/ DeleteMessage(a) \/ DeleteChat(a) \/ Migrate(a)
             \/ Push(a) \/ MergeSnapshot(a) \/ RestoreSnapshot(a)
      PROVE  IInv'
  BY <1>2, FetchSteps, DeletionSteps, PushStep, PullSteps
<1>3. CASE UNCHANGED vars
  BY <1>3 DEF vars, IInv, TelegramFits, SnapshotFits, ArchivesFit
<1> QED
  BY <1>1, <1>2, <1>3 DEF Next

LEMMA AlwaysFits == Spec => []IInv
<1> QED
  BY InitFits, StepFits, PTL DEF Spec

-----------------------------------------------------------------------------
(***************************************************************************)
(* Edits.  What every archive knows of Telegram's edits is in step with    *)
(* Telegram: no payload has a later edit, edit times grow along a chain,   *)
(* and what was seen before the first edit was seen before all of them.    *)
(***************************************************************************)
Live(event) == ~ Dead(event.payload)
Edit(event) == event.payload.edit

\* The revisions that are anywhere.
World ==
    {r \in Revisions : \/ r \in Members(snapshot.history)
                       \/ \E a \in Archives : r \in Members(history[a])}

\* The time of the event of a live payload.
LiveEventFits(event) ==
    /\ event.at = IF event.type = "edited" /\ Edit(event) # 0 THEN Edit(event) ELSE Sent
    /\ Edit(event) # Sent

\* The time of the event of a tombstone.
DeadEventFits(event) == event.type = "deleted" /\ event.at = event.payload.del

ChainFits(chain, lastEdit) ==
    /\ \A i \in DOMAIN chain : Live(chain[i]) => LiveEventFits(chain[i]) /\ Edit(chain[i]) <= lastEdit
    /\ \A i \in DOMAIN chain : ~ Live(chain[i]) => DeadEventFits(chain[i])
    /\ \A i, j \in DOMAIN chain :
          i < j /\ Live(chain[i]) /\ Live(chain[j]) => Edit(chain[i]) <= Edit(chain[j])

\* A live payload that has no edit time.
Unedited(r) == Live(Last(r.chain)) /\ Edit(Last(r.chain)) = 0

\* A live payload is seen after all that its chain tells of.
SeenLast(r) ==
    Live(Last(r.chain)) =>
        /\ Edit(Last(r.chain)) <= r.seen
        /\ \A i \in DOMAIN r.chain : r.chain[i].at <= r.seen

EditsFit(W, lastEdit, now) ==
    /\ \A r \in W : r.seen <= now /\ ChainFits(r.chain, lastEdit) /\ SeenLast(r)
    /\ \A r \in W : \A i \in DOMAIN r.chain : r.chain[i].at <= now
    /\ \A r \in W : Unedited(r) /\ lastEdit # 0 => r.seen < lastEdit
    /\ \A r, q \in W : /\ Unedited(r)
                       /\ Live(Last(q.chain))
                       /\ Edit(Last(q.chain)) # 0
                       => r.seen < Edit(Last(q.chain))

EditInv ==
    /\ IInv
    /\ telegram.edit # Sent
    /\ EditsFit(World, telegram.edit, clock)

LEMMA LastOfChain ==
    ASSUME NEW r \in Revisions
    PROVE  /\ Len(r.chain) \in DOMAIN r.chain /\ Last(r.chain) = r.chain[Len(r.chain)]
           /\ Last(r.chain) \in Events /\ r.seen \in Nat
           /\ Edit(Last(r.chain)) \in Nat
<1>1. r.chain \in Seq(Events) /\ r.chain # <<>> /\ r.seen \in Nat
  BY DEF Revisions
<1>2. Len(r.chain) \in DOMAIN r.chain /\ Last(r.chain) = r.chain[Len(r.chain)]
  BY <1>1 DEF Last
<1>3. Last(r.chain) \in Events
  BY <1>1, <1>2
<1>4. Edit(Last(r.chain)) \in Nat
  BY <1>3 DEF Edit, Events, Payloads
<1> QED
  BY <1>1, <1>2, <1>3, <1>4

LEMMA EventsOfChain ==
    ASSUME NEW r \in Revisions
    PROVE  \A i \in DOMAIN r.chain : /\ r.chain[i] \in Events /\ r.chain[i].at \in Nat
                                     /\ Edit(r.chain[i]) \in Nat
<1>1. r.chain \in Seq(Events)
  BY DEF Revisions
<1>2. \A i \in DOMAIN r.chain : r.chain[i] \in Events
  BY <1>1
<1> QED
  BY <1>2 DEF Edit, Events, Payloads

LEMMA EditsOfFewer ==
    ASSUME NEW lastEdit, NEW now, NEW W, EditsFit(W, lastEdit, now), NEW V \in SUBSET W
    PROVE  EditsFit(V, lastEdit, now)
  BY DEF EditsFit

LEMMA EditsLater ==
    ASSUME NEW lastEdit \in Nat, NEW now \in Nat, NEW later \in Nat, now <= later,
           NEW W \in SUBSET Revisions, EditsFit(W, lastEdit, now)
    PROVE  EditsFit(W, lastEdit, later)
<1>1. \A r \in W : r.seen \in Nat
  BY LastOfChain
<1>2. \A r \in W : r.seen <= later
  BY <1>1 DEF EditsFit
<1>3. \A r \in W : \A i \in DOMAIN r.chain : r.chain[i].at <= later
  <2> SUFFICES ASSUME NEW r \in W, NEW i \in DOMAIN r.chain PROVE r.chain[i].at <= later
    OBVIOUS
  <2>1. r.chain[i].at \in Nat /\ r.chain[i].at <= now
    BY EventsOfChain DEF EditsFit
  <2> QED
    BY <2>1
<1> QED
  BY <1>2, <1>3 DEF EditsFit

\* An edit is later than all that was seen before.
LEMMA EditsAfterEdit ==
    ASSUME NEW lastEdit \in Nat, NEW now \in Nat, lastEdit <= now,
           NEW W \in SUBSET Revisions, EditsFit(W, lastEdit, now)
    PROVE  EditsFit(W, now + 1, now + 1)
<1>1. \A r \in W : r.seen \in Nat /\ r.seen <= now
  BY LastOfChain DEF EditsFit
<1>2. ASSUME NEW r \in W PROVE ChainFits(r.chain, now + 1)
  <2>1. ChainFits(r.chain, lastEdit) /\ r.chain \in Seq(Events)
    BY DEF EditsFit, Revisions
  <2>2. \A i \in DOMAIN r.chain : Edit(r.chain[i]) \in Nat
    BY EventsOfChain
  <2>3. \A i \in DOMAIN r.chain : Edit(r.chain[i]) <= lastEdit => Edit(r.chain[i]) <= now + 1
    BY <2>2
  <2> QED
    BY <2>1, <2>3 DEF ChainFits
<1>3. \A r \in W : r.seen <= now + 1 /\ r.seen < now + 1
  BY <1>1
<1>4. \A r, q \in W : /\ Unedited(r) /\ Live(Last(q.chain)) /\ Edit(Last(q.chain)) # 0
                      => r.seen < Edit(Last(q.chain))
  BY DEF EditsFit
<1>5. \A r \in W : SeenLast(r)
  BY DEF EditsFit
<1>6. \A r \in W : \A i \in DOMAIN r.chain : r.chain[i].at <= now + 1
  <2>1. EditsFit(W, lastEdit, now + 1)
    BY EditsLater
  <2> QED
    BY <2>1 DEF EditsFit
<1> QED
  BY <1>2, <1>3, <1>4, <1>5, <1>6 DEF EditsFit

\* What may follow: a deletion, or Telegram's copy as it is now.
Follows(event, seen, lastEdit, now) ==
    /\ event.at <= now
    /\ Live(event) => LiveEventFits(event) /\ Edit(event) = lastEdit /\ seen = now
    /\ ~ Live(event) => DeadEventFits(event)

LEMMA EditsGrow ==
    ASSUME NEW lastEdit \in Nat, NEW now \in Nat, lastEdit <= now,
           NEW W \in SUBSET Revisions, EditsFit(W, lastEdit, now),
           NEW tip \in Seq(Events), tip # <<>> => \E r \in W : tip = r.chain,
           NEW event \in Events, NEW seen \in Nat, seen <= now,
           Follows(event, seen, lastEdit, now)
    PROVE  EditsFit(W \cup {After(tip, event, seen)}, lastEdit, now)
<1> DEFINE new == After(tip, event, seen)
           c == Append(tip, event)
<1>1. /\ c \in Seq(Events) /\ DOMAIN c = 1 .. Len(tip) + 1 /\ c[Len(tip) + 1] = event
      /\ DOMAIN tip = 1 .. Len(tip) /\ \A i \in DOMAIN tip : c[i] = tip[i]
  OBVIOUS
<1>2. new \in Revisions /\ new.chain = c /\ new.seen = seen /\ Last(new.chain) = event
  BY AfterFacts DEF After
<1> HIDE DEF new, c
<1>3. ChainFits(tip, lastEdit)
  <2>1. CASE tip = <<>>
    <3>1. DOMAIN tip = {}
      BY <2>1
    <3> QED
      BY <3>1 DEF ChainFits
  <2>2. CASE tip # <<>>
    BY <2>2 DEF EditsFit
  <2> QED
    BY <2>1, <2>2
<1>4. ChainFits(c, lastEdit)
  <2>1. \A i \in DOMAIN c : i \in DOMAIN tip \/ (i = Len(tip) + 1 /\ c[i] = event)
    BY <1>1
  <2>2. Live(event) => LiveEventFits(event) /\ Edit(event) <= lastEdit /\ Edit(event) = lastEdit
    BY DEF Follows
  <2>3. \A i \in DOMAIN tip : Live(tip[i]) => LiveEventFits(tip[i]) /\ Edit(tip[i]) <= lastEdit
    BY <1>3 DEF ChainFits
  <2>4. \A i \in DOMAIN c : Live(c[i]) => LiveEventFits(c[i]) /\ Edit(c[i]) <= lastEdit
    BY <1>1, <2>1, <2>2, <2>3
  <2>5. ASSUME NEW i \in DOMAIN c, NEW j \in DOMAIN c, i < j, Live(c[i]), Live(c[j])
        PROVE  Edit(c[i]) <= Edit(c[j])
    <3>1. i \in DOMAIN tip
      BY <1>1, <2>5
    <3>2. CASE j \in DOMAIN tip
      BY <1>1, <1>3, <2>5, <3>1, <3>2 DEF ChainFits
    <3>3. CASE j \notin DOMAIN tip
      <4>1. c[j] = event
        BY <2>1, <3>3
      <4> QED
        BY <2>2, <2>4, <2>5, <4>1
    <3> QED
      BY <3>2, <3>3
  <2>6. \A i \in DOMAIN c : ~ Live(c[i]) => DeadEventFits(c[i])
    BY <1>1, <1>3, <2>1 DEF ChainFits, Follows
  <2> QED
    BY <2>4, <2>5, <2>6 DEF ChainFits
<1>5. ASSUME NEW q \in W, Live(Last(q.chain)) PROVE Edit(Last(q.chain)) <= lastEdit
  <2>1. Len(q.chain) \in DOMAIN q.chain /\ Last(q.chain) = q.chain[Len(q.chain)]
    BY LastOfChain
  <2> QED
    BY <1>5, <2>1 DEF EditsFit, ChainFits
<1>6. \A q \in W : Edit(Last(q.chain)) \in Nat
  BY LastOfChain
<1>7. Unedited(new) => lastEdit = 0
  BY <1>2 DEF Unedited, Follows
<1>8. ASSUME NEW r \in W \cup {new}, NEW q \in W \cup {new},
             Unedited(r), Live(Last(q.chain)), Edit(Last(q.chain)) # 0
      PROVE  r.seen < Edit(Last(q.chain))
  <2>1. CASE r \in W /\ q \in W
    BY <1>8, <2>1 DEF EditsFit
  <2>2. CASE r \in W /\ q = new
    <3>1. Edit(Last(q.chain)) = lastEdit
      BY <1>2, <1>8, <2>2 DEF Follows
    <3> QED
      BY <1>8, <2>2, <3>1 DEF EditsFit
  <2>3. CASE r = new /\ q \in W
    BY <1>5, <1>6, <1>7, <1>8, <2>3
  <2>4. CASE r = new /\ q = new
    BY <1>2, <1>7, <1>8, <2>4 DEF Follows
  <2> QED
    BY <2>1, <2>2, <2>3, <2>4
<1>9. \A i \in DOMAIN c : c[i].at <= now
  <2>1. ASSUME NEW i \in DOMAIN tip PROVE tip[i].at <= now
    <3>1. tip # <<>>
      BY <1>1
    <3> QED
      BY <2>1, <3>1 DEF EditsFit
  <2>2. \A i \in DOMAIN c : i \in DOMAIN tip \/ (i = Len(tip) + 1 /\ c[i] = event)
    BY <1>1
  <2> QED
    BY <1>1, <2>1, <2>2 DEF Follows
<1>11. SeenLast(new)
  BY <1>2, <1>9 DEF SeenLast, Follows
<1>12. \A r \in W \cup {new} : r.seen <= now /\ ChainFits(r.chain, lastEdit) /\ SeenLast(r)
  BY <1>2, <1>4, <1>11 DEF EditsFit
<1>13. \A r \in W \cup {new} : \A i \in DOMAIN r.chain : r.chain[i].at <= now
  BY <1>2, <1>9 DEF EditsFit
<1>10. \A r \in W \cup {new} : Unedited(r) /\ lastEdit # 0 => r.seen < lastEdit
  BY <1>7 DEF EditsFit
<1> QED
  BY <1>8, <1>10, <1>12, <1>13 DEF EditsFit, new

\* W, with the revisions of a history that only it and what follows are from.
LEMMA EditsInserted ==
    ASSUME NEW lastEdit \in Nat, NEW now \in Nat, lastEdit <= now,
           NEW W \in SUBSET Revisions, EditsFit(W, lastEdit, now),
           NEW revs \in Seq(Revisions), Members(revs) \subseteq W,
           NEW tip, IF revs = <<>> THEN tip = <<>> ELSE tip \in Chains(revs),
           NEW event \in Events, NEW seen \in Nat, seen <= now,
           Follows(event, seen, lastEdit, now)
    PROVE  LET new == Inserted(revs, After(tip, event, seen))
           IN  /\ EditsFit(W \cup Members(new), lastEdit, now)
               /\ new \in Seq(Revisions)
<1> DEFINE rev == After(tip, event, seen)
           new == Inserted(revs, rev)
<1>1. tip \in Seq(Events) /\ (tip # <<>> => \E r \in W : tip = r.chain)
  <2>1. CASE revs = <<>>
    BY <2>1
  <2>2. CASE revs # <<>>
    <3>1. PICK i \in DOMAIN revs : tip = revs[i].chain
      BY <2>2 DEF Chains
    <3>2. revs[i] \in Revisions /\ revs[i] \in W
      BY <3>1 DEF Members
    <3> QED
      BY <3>1, <3>2 DEF Revisions
  <2> QED
    BY <2>1, <2>2
<1>2. EditsFit(W \cup {rev}, lastEdit, now)
  BY <1>1, EditsGrow
<1>3. rev \in Revisions
  BY <1>1, AfterFacts
<1> HIDE DEF rev
<1>4. new \in Seq(Revisions) /\ Members(new) \subseteq Members(revs) \cup {rev}
  BY <1>3, InsertedFacts
<1> HIDE DEF new
<1>5. W \cup Members(new) \in SUBSET (W \cup {rev})
  BY <1>4
<1>6. EditsFit(W \cup Members(new), lastEdit, now)
  BY <1>2, <1>5, EditsOfFewer
<1> QED
  BY <1>4, <1>6 DEF new, rev

\* A row that may be recorded: dead, or Telegram's copy.
Recordable(m, lastEdit, now) ==
    RowFits(m, now) /\ (Dead(m) \/ (m.edit = lastEdit /\ lastEdit # Sent))

LEMMA EditsObserved ==
    ASSUME NEW lastEdit \in Nat, NEW now \in Nat, lastEdit <= now, Sent <= now,
           NEW W \in SUBSET Revisions, EditsFit(W, lastEdit, now),
           NEW revs, Recording(revs, now), Members(revs) \subseteq W, NEW current,
           NEW m, Recordable(m, lastEdit, now), NEW seen \in Nat, seen <= now,
           Dead(m) \/ seen = now
    PROVE  LET new == Observed(revs, current, m, seen)
           IN  EditsFit(W \cup Members(new), lastEdit, now) /\ new \in Seq(Revisions)
<1>1. revs \in Seq(Revisions)
  BY DEF Recording, HistoryFits
<1>2. CASE m = current
  <2>1. Observed(revs, current, m, seen) = revs /\ W \cup Members(revs) = W
    BY <1>2 DEF Observed
  <2> QED
    BY <1>1, <2>1
<1>3. CASE m # current
  <2> DEFINE event == Observation(m, current, revs)
             tip == Predecessor(revs, current)
  <2>1. event \in Events /\ Follows(event, seen, lastEdit, now)
    <3>1. m \in Payloads /\ m.edit \in Nat /\ m.del \in Nat /\ m.edit <= now
      BY DEF Recordable, RowFits, Payloads
    <3>2. CASE Dead(m)
      <4>1. event = Event("deleted", m.del, m) /\ m.del <= now
        BY <3>2, DeadRow DEF Observation, Recordable
      <4> QED
        BY <3>1, <3>2, <4>1 DEF Event, Events, Follows, Live, DeadEventFits
    <3>3. CASE ~ Dead(m) /\ ~ Stored(current) /\ revs = <<>>
      <4>1. event = Event("created", Sent, m)
        BY <3>3 DEF Observation
      <4> QED
        BY <3>1, <3>3, <4>1
           DEF Event, Events, Follows, Live, LiveEventFits, Edit, Sent, Recordable
    <3>4. CASE ~ Dead(m) /\ ~ (~ Stored(current) /\ revs = <<>>)
      <4>1. event = Event("edited", IF m.edit # 0 THEN m.edit ELSE Sent, m)
        BY <3>4 DEF Observation
      <4> QED
        BY <3>1, <3>4, <4>1
           DEF Event, Events, Follows, Live, LiveEventFits, Edit, Sent, Recordable
    <3> QED
      BY <3>2, <3>3, <3>4
  <2>2. Observed(revs, current, m, seen) = Inserted(revs, After(tip, event, seen))
    BY <1>3 DEF Observed, After
  <2>3. IF revs = <<>> THEN tip = <<>> ELSE tip \in Chains(revs)
    BY <1>1, PredecessorFacts
  <2> HIDE DEF event, tip
  <2> QED
    BY <1>1, <2>1, <2>2, <2>3, EditsInserted
<1> QED
  BY <1>2, <1>3

LEMMA EditsRecorded ==
    ASSUME NEW lastEdit \in Nat, NEW now \in Nat, lastEdit <= now,
           NEW W \in SUBSET Revisions, EditsFit(W, lastEdit, now),
           NEW revs \in Seq(Revisions), Members(revs) \subseteq W,
           NEW m, RowFits(m, now), NEW seen \in Nat, seen <= now
    PROVE  LET new == Recorded(revs, m, seen)
           IN  EditsFit(W \cup Members(new), lastEdit, now) /\ new \in Seq(Revisions)
<1> DEFINE tip == Tip(revs)
           event == Event("deleted", m.del, Deletion(m))
           Skipped == \/ ~ Dead(m)
                      \/ tip # <<>> /\ Last(tip).type = "deleted" /\ Last(tip).at = m.del
<1>1. CASE Skipped
  <2>1. Recorded(revs, m, seen) = revs /\ W \cup Members(revs) = W
    BY <1>1 DEF Recorded
  <2> QED
    BY <2>1
<1>2. CASE ~ Skipped
  <2>1. Recorded(revs, m, seen) = Inserted(revs, After(tip, event, seen))
    BY <1>2 DEF Recorded, After
  <2>2. Dead(m) /\ m \in Payloads
    BY <1>2 DEF RowFits
  <2>3. event \in Events /\ Follows(event, seen, lastEdit, now)
    <3>1. /\ Deletion(m) \in Payloads /\ m.del \in Nat
          /\ Dead(Deletion(m)) /\ Deletion(m).del = m.del
      BY <2>2, DeletionFits DEF Payloads, Deletion, Dead
    <3>2. m.del <= now
      BY <2>2, DeadRow
    <3> QED
      BY <3>1, <3>2 DEF Event, Events, Follows, Live, DeadEventFits
  <2>4. IF revs = <<>> THEN tip = <<>> ELSE tip \in Chains(revs)
    BY TipFacts
  <2> HIDE DEF event, tip, Skipped
  <2> QED
    BY <2>1, <2>3, <2>4, EditsInserted
<1> QED
  BY <1>1, <1>2

\* Seeding an archive that has no revision, with what Open finds.
LEMMA EditsSeeded ==
    ASSUME NEW lastEdit \in Nat, NEW now \in Nat, lastEdit <= now, Sent <= now,
           NEW W \in SUBSET Revisions, EditsFit(W, lastEdit, now),
           NEW revs \in Seq(Revisions), Members(revs) \subseteq W,
           NEW m, NEW seen \in Nat, seen <= now,
           \/ revs # <<>>
           \/ ~ Stored(m)
           \/ Recordable(m, lastEdit, now) /\ (Dead(m) \/ seen = now)
    PROVE  LET new == Seeded(revs, m, seen)
           IN  EditsFit(W \cup Members(new), lastEdit, now) /\ new \in Seq(Revisions)
<1>1. CASE revs # <<>> \/ ~ Stored(m)
  <2>1. Seeded(revs, m, seen) = revs /\ W \cup Members(revs) = W
    BY <1>1 DEF Seeded
  <2> QED
    BY <2>1
<1>2. CASE revs = <<>> /\ Stored(m)
  <2> DEFINE event == IF Dead(m) THEN Event("deleted", m.del, m) ELSE Event("observed", Sent, m)
  <2>1. event \in Events /\ Follows(event, seen, lastEdit, now)
    <3>1. m \in Payloads /\ m.del \in Nat /\ m.edit \in Nat
      BY <1>2 DEF Recordable, RowFits, Payloads
    <3>2. Dead(m) \/ (m.edit = lastEdit /\ lastEdit # Sent)
      BY <1>2 DEF Recordable
    <3>3. Dead(m) => m.del <= now
      BY <1>2, DeadRow DEF Recordable
    <3> QED
      BY <1>2, <3>1, <3>2, <3>3 DEF Event, Events, Follows, Live, LiveEventFits, DeadEventFits, Edit, Sent
  <2>2. Seeded(revs, m, seen) = Inserted(revs, After(<<>>, event, seen))
    <3>1. Inserted(<<>>, After(<<>>, event, seen)) = <<After(<<>>, event, seen)>>
      <4> HIDE DEF event
      <4> QED
        BY DEF Inserted, Chains
    <3>2. Append(<<>>, event) = <<event>>
      <4> HIDE DEF event
      <4> QED
        OBVIOUS
    <3> QED
      BY <1>2, <3>1, <3>2 DEF Seeded, After
  <2> HIDE DEF event
  <2> DEFINE tip == <<>>
  <2>3. IF revs = <<>> THEN tip = <<>> ELSE tip \in Chains(revs)
    BY <1>2
  <2>4. Seeded(revs, m, seen) = Inserted(revs, After(tip, event, seen))
    BY <2>2
  <2> HIDE DEF tip
  <2> QED
    BY <2>1, <2>3, <2>4, EditsInserted
<1> QED
  BY <1>1, <1>2

\* Where an operation on one archive may leave new revisions.
LEMMA WorldOfArchive ==
    ASSUME IInv, NEW a \in Archives, NEW state, Becomes(a, state), UNCHANGED snapshot
    PROVE  World' \subseteq World \cup Members(state.history)
<1>1. /\ history \in [Archives -> Seq(Revisions)]
      /\ history' = [history EXCEPT ![a] = state.history] /\ snapshot' = snapshot
  BY DEF IInv, ArchivesFit, Becomes
<1>2. ASSUME NEW r \in Revisions, NEW b \in Archives, r \in Members(history'[b])
      PROVE  r \in World \cup Members(state.history)
  <2>1. CASE b = a
    <3>1. history'[b] = state.history
      BY <1>1, <2>1
    <3> QED
      BY <1>2, <3>1
  <2>2. CASE b # a
    <3>1. history'[b] = history[b]
      BY <1>1, <2>2
    <3> QED
      BY <1>2, <3>1 DEF World
  <2> QED
    BY <2>1, <2>2
<1> QED
  BY <1>1, <1>2 DEF World

LEMMA EditInvMeans ==
    ASSUME EditInv
    PROVE  /\ IInv /\ clock \in Nat /\ Sent <= clock
           /\ telegram.edit \in Nat /\ telegram.edit <= clock /\ telegram.edit # Sent
           /\ Recordable(telegram, telegram.edit, clock)
           /\ World \in SUBSET Revisions /\ EditsFit(World, telegram.edit, clock)
           /\ Members(snapshot.history) \subseteq World
           /\ snapshot.history \in Seq(Revisions) /\ snapshot.at \in Nat /\ snapshot.at <= clock
           /\ \A a \in Archives : Members(history[a]) \subseteq World
                                  /\ history[a] \in Seq(Revisions)
<1>1. IInv /\ clock \in Nat /\ Sent <= clock
  BY IInvMeans DEF EditInv
<1>2. RowFits(telegram, clock) /\ telegram.edit # Sent /\ EditsFit(World, telegram.edit, clock)
  BY IInvMeans DEF EditInv
<1>3. telegram.edit \in Nat /\ telegram.edit <= clock
  BY <1>1, <1>2 DEF RowFits
<1>4. World \in SUBSET Revisions
  BY DEF World
<1>5. snapshot.history \in Seq(Revisions) /\ snapshot.at \in Nat /\ snapshot.at <= clock
  BY <1>1 DEF IInv, SnapshotFits, ArchiveFits, HistoryFits, Sent
<1>6. \A a \in Archives : history[a] \in Seq(Revisions)
  BY <1>1 DEF IInv, ArchivesFit
<1>7. Members(snapshot.history) \subseteq World
  BY <1>5 DEF Members, World
<1>8. ASSUME NEW a \in Archives PROVE Members(history[a]) \subseteq World
  <2>1. Members(history[a]) \subseteq Revisions
    BY <1>6 DEF Members
  <2> QED
    BY <2>1 DEF World
<1> QED
  BY <1>1, <1>2, <1>3, <1>4, <1>5, <1>6, <1>7, <1>8 DEF Recordable

LEMMA EditsInit == Init => EditInv
<1> SUFFICES ASSUME Init PROVE EditInv
  OBVIOUS
<1>1. IInv
  BY InitFits
<1>2. telegram.edit # Sent
  BY DEF Init, Message, Sent
<1>3. World = {}
  <2>1. snapshot.history = <<>> /\ \A a \in Archives : history[a] = <<>>
    BY DEF Init
  <2>2. Members(<<>>) = {}
    BY DEF Members
  <2> QED
    BY <2>1, <2>2 DEF World
<1> QED
  BY <1>1, <1>2, <1>3 DEF EditInv, EditsFit

\* An operation on one archive that only records what is recordable.
LEMMA EditsArchiveStep ==
    ASSUME EditInv, IInv', clock' \in Nat, UNCHANGED <<telegram, snapshot>>,
           NEW a \in Archives, NEW state, Becomes(a, state),
           NEW W, EditsFit(W, telegram.edit, clock'), World \cup Members(state.history) \subseteq W
    PROVE  EditInv'
<1>1. World' \subseteq W
  BY EditInvMeans, WorldOfArchive
<1>2. EditsFit(World', telegram.edit, clock')
  BY <1>1, EditsOfFewer
<1>3. telegram' = telegram /\ telegram.edit # Sent
  BY EditInvMeans
<1>4. EditsFit(World', telegram'.edit, clock') /\ telegram'.edit # Sent
  BY <1>2, <1>3
<1> QED
  BY <1>4 DEF EditInv

LEMMA EditsTelegramSteps ==
    ASSUME EditInv, TelegramEdit \/ TelegramChange
    PROVE  EditInv'
<1>1. IInv' /\ IInv
  BY EditInvMeans, TelegramSteps
<1>2. World' = World
  BY DEF TelegramEdit, TelegramChange, World
<1>3. CASE TelegramEdit
  <2>1. clock' = clock + 1
    BY <1>1, <1>3, Ticked DEF TelegramEdit
  <2>2. telegram'.edit = clock + 1
    BY <1>3, <2>1 DEF TelegramEdit, Message
  <2>3. EditsFit(World, clock + 1, clock + 1)
    BY EditInvMeans, EditsAfterEdit
  <2>4. clock + 1 # Sent
    BY EditInvMeans DEF Sent
  <2> QED
    BY <1>1, <1>2, <2>1, <2>2, <2>3, <2>4 DEF EditInv
<1>4. CASE TelegramChange
  <2>1. PICK text \in Texts : telegram' = [telegram EXCEPT !.text = text]
    BY <1>4 DEF TelegramChange
  <2>2. PICK old \in Texts, edit \in 0 .. clock : telegram = Message(old, edit)
    BY <1>1, IInvMeans
  <2>3. telegram'.edit = telegram.edit
    BY <2>1, <2>2 DEF Message
  <2>4. clock' = clock
    BY <1>4 DEF TelegramChange
  <2> QED
    BY <1>1, <1>2, <2>3, <2>4, EditInvMeans DEF EditInv
<1> QED
  BY <1>3, <1>4

LEMMA EditsFetchSteps ==
    ASSUME EditInv, NEW a \in Archives, Fetch(a) \/ Replace(a) \/ Migrate(a)
    PROVE  EditInv'
<1>1. IInv' /\ clock' = clock /\ clock \in Nat /\ clock' \in Nat /\ UNCHANGED <<telegram, snapshot>>
  BY EditInvMeans, FetchSteps DEF Fetch, Replace, Migrate
<1>2. /\ Sent <= clock /\ clock <= clock /\ telegram.edit \in Nat /\ telegram.edit <= clock
      /\ World \in SUBSET Revisions /\ EditsFit(World, telegram.edit, clock)
      /\ Recordable(telegram, telegram.edit, clock)
      /\ Members(history[a]) \subseteq World /\ Recording(history[a], clock)
  BY EditInvMeans, IInvMeans
<1>3. Members(<<>>) \subseteq World /\ Recording(<<>>, clock) /\ <<>> \in Seq(Revisions)
  BY <1>1, EmptyFits DEF Members
<1>4. ASSUME NEW revs, EditsFit(World \cup Members(revs), telegram.edit, clock),
             Becomes(a, [row |-> telegram, chat |-> 0, history |-> revs])
      PROVE  EditInv'
  <2> DEFINE state == [row |-> telegram, chat |-> 0, history |-> revs]
             W == World \cup Members(revs)
  <2>1. World \cup Members(state.history) \subseteq W /\ EditsFit(W, telegram.edit, clock')
    BY <1>1, <1>4
  <2>2. Becomes(a, state)
    BY <1>4
  <2> HIDE DEF state, W
  <2> QED
    BY <1>1, <2>1, <2>2, EditsArchiveStep
<1>5. CASE Fetch(a)
  <2> DEFINE revs == Observed(history[a], row[a], telegram, clock)
  <2>1. EditsFit(World \cup Members(revs), telegram.edit, clock)
    BY <1>1, <1>2, EditsObserved
  <2> QED
    BY <1>4, <1>5, <2>1 DEF Fetch
<1>6. CASE Replace(a)
  <2> DEFINE revs == Observed(<<>>, NoMessage, telegram, clock)
  <2>1. EditsFit(World \cup Members(revs), telegram.edit, clock)
    BY <1>1, <1>2, <1>3, EditsObserved
  <2> QED
    BY <1>4, <1>6, <2>1 DEF Replace
<1>7. CASE Migrate(a)
  <2> DEFINE revs == Seeded(<<>>, telegram, clock)
  <2>1. EditsFit(World \cup Members(revs), telegram.edit, clock)
    BY <1>1, <1>2, <1>3, EditsSeeded
  <2> QED
    BY <1>4, <1>7, <2>1 DEF Migrate
<1> QED
  BY <1>5, <1>6, <1>7

LEMMA EditsDeletionSteps ==
    ASSUME EditInv, NEW a \in Archives, DeleteMessage(a) \/ DeleteChat(a)
    PROVE  EditInv'
<1>1. Tick /\ UNCHANGED <<telegram, snapshot>> /\ IInv' /\ IInv
  BY EditInvMeans, DeletionSteps DEF DeleteMessage, DeleteChat
<1>2. /\ clock' \in Nat /\ clock <= clock' /\ clock' = clock + 1 /\ clock' <= clock'
      /\ clock \in Nat /\ Sent <= clock /\ Sent <= clock'
  BY <1>1, Ticked, IInvMeans DEF Sent
<1>3. clock' \in (Sent + 1) .. clock' /\ clock' \in Deleted(clock')
  BY <1>2 DEF Sent, Deleted
<1>4. /\ telegram.edit \in Nat /\ telegram.edit <= clock /\ World \in SUBSET Revisions
      /\ EditsFit(World, telegram.edit, clock')
      /\ Members(history[a]) \subseteq World /\ history[a] \in Seq(Revisions)
  BY <1>2, EditInvMeans, EditsLater
<1>8. telegram.edit <= clock'
  BY <1>2, <1>4
<1>5. RowFits(row[a], clock') /\ Recording(history[a], clock')
  <2>1. ArchiveFits(row[a], chat[a], history[a], clock')
    BY <1>1, <1>2, FitsLater DEF IInv, ArchivesFit
  <2> QED
    BY <2>1 DEF ArchiveFits, Recording
<1>6. CASE DeleteMessage(a)
  <2> DEFINE m == [row[a] EXCEPT !.del = clock', !.why = "message"]
             seen == Observed(history[a], row[a], m, clock')
             revs == Recorded(seen, m, clock')
             state == [row |-> m, chat |-> chat[a], history |-> revs]
             V == World \cup Members(seen)
             W == V \cup Members(revs)
  <2>1. Becomes(a, state)
    BY <1>6 DEF DeleteMessage
  <2>2. m = Tombstoned(row[a], clock', "message")
    BY DEF Tombstoned
  <2> HIDE DEF m
  <2>3. RowFits(m, clock') /\ Dead(m)
    BY <1>2, <1>3, <1>5, <2>2, DeletedRowFits
  <2>4. EditsFit(V, telegram.edit, clock') /\ seen \in Seq(Revisions)
    BY <1>2, <1>4, <1>5, <1>8, <2>3, EditsObserved DEF Recordable
  <2> HIDE DEF seen
  <2>5. V \in SUBSET Revisions /\ Members(seen) \subseteq V
    BY <1>4, <2>4 DEF Members
  <2> HIDE DEF V
  <2>6. EditsFit(W, telegram.edit, clock')
    BY <1>2, <1>4, <1>8, <2>3, <2>4, <2>5, EditsRecorded
  <2>7. World \cup Members(state.history) \subseteq W
    BY DEF V
  <2> HIDE DEF W, state
  <2> QED
    BY <1>1, <1>2, <2>1, <2>6, <2>7, EditsArchiveStep
<1>7. CASE DeleteChat(a)
  <2> DEFINE m == Propagated(row[a], clock')
             revs == Recorded(history[a], m, clock')
             state == [row |-> m, chat |-> clock', history |-> revs]
             W == World \cup Members(revs)
  <2>1. Becomes(a, state)
    BY <1>7 DEF DeleteChat
  <2>2. RowFits(m, clock')
    BY <1>2, <1>3, <1>5, PropagatedFits
  <2> HIDE DEF m
  <2>3. EditsFit(W, telegram.edit, clock')
    BY <1>2, <1>4, <1>8, <2>2, EditsRecorded
  <2>4. World \cup Members(state.history) \subseteq W
    OBVIOUS
  <2> HIDE DEF W, state
  <2> QED
    BY <1>1, <1>2, <2>1, <2>3, <2>4, EditsArchiveStep
<1> QED
  BY <1>6, <1>7

LEMMA EditsPushStep ==
    ASSUME EditInv, NEW a \in Archives, Push(a)
    PROVE  EditInv'
<1>1. IInv' /\ clock' = clock /\ UNCHANGED <<telegram, history>>
  BY PushStep DEF EditInv, Push
<1>2. /\ EditsFit(World, telegram.edit, clock) /\ telegram.edit # Sent
      /\ Members(history[a]) \subseteq World /\ history[a] \in Seq(Revisions)
  BY EditInvMeans
<1>3. snapshot'.history = ByEventTime(history[a])
  BY DEF Push
<1>4. Members(snapshot'.history) \subseteq World
  BY <1>2, <1>3, ByEventTimeFacts
<1>5. World' \subseteq World
  BY <1>1, <1>4 DEF World
<1>6. EditsFit(World', telegram.edit, clock)
  BY <1>2, <1>5, EditsOfFewer
<1>7. EditsFit(World', telegram'.edit, clock') /\ telegram'.edit # Sent
  BY <1>1, <1>2, <1>6
<1> QED
  BY <1>1, <1>7 DEF EditInv

LEMMA EditsPullSteps ==
    ASSUME EditInv, NEW a \in Archives, MergeSnapshot(a) \/ RestoreSnapshot(a)
    PROVE  EditInv'
<1>1. /\ IInv' /\ IInv /\ clock' = clock /\ clock' \in Nat /\ UNCHANGED <<telegram, snapshot>>
  BY EditInvMeans, PullSteps DEF MergeSnapshot, RestoreSnapshot
<1>2. /\ clock \in Nat /\ Sent <= clock /\ telegram.edit \in Nat /\ telegram.edit <= clock
      /\ World \in SUBSET Revisions /\ EditsFit(World, telegram.edit, clock)
      /\ snapshot.history \in Seq(Revisions) /\ Members(snapshot.history) \subseteq World
      /\ snapshot.at \in Nat /\ snapshot.at <= clock
  BY EditInvMeans
<1>3. ArchiveFits(snapshot.row, snapshot.chat, snapshot.history, clock)
  BY <1>1 DEF IInv, SnapshotFits
<1>4. ASSUME NEW c \in Deleted(clock), NEW r, RowFits(r, clock),
             NEW revs \in Seq(Revisions), Members(revs) \subseteq World,
             Recording(revs, clock), Explained(r, revs), NEW restore,
             Becomes(a, Import(c, r, revs, snapshot, restore))
      PROVE  EditInv'
  <2> DEFINE taken   == Taken(r, revs, snapshot, restore)
             chatDel == IF Stored(r) THEN c ELSE snapshot.chat
             m       == Propagated(taken, chatDel)
             pulled  == InsertedAll(revs, snapshot.history)
             all     == Seeded(pulled, taken, snapshot.at)
             new     == Recorded(all, m, snapshot.at)
             V       == World \cup Members(all)
             W       == V \cup Members(new)
             state   == Import(c, r, revs, snapshot, restore)
  <2>1. Recording(pulled, clock) /\ RowFits(taken, clock) /\ Explained(taken, pulled)
    BY <1>2, <1>3, <1>4, TakenFits
  <2>2. pulled \in Seq(Revisions) /\ Members(pulled) \subseteq World
    BY <1>2, <1>4, InsertedAllFacts
  <2>3. chatDel \in Deleted(clock)
    BY <1>3, <1>4 DEF ArchiveFits
  <2>4. state = [row |-> m, chat |-> chatDel, history |-> new]
    BY DEF Import, Taken
  <2> HIDE DEF taken, pulled, chatDel, state
  <2>5. pulled # <<>> \/ ~ Stored(taken)
    BY <2>1 DEF Explained, Chains
  <2>6. EditsFit(V, telegram.edit, clock) /\ all \in Seq(Revisions)
    BY <1>2, <2>2, <2>5, EditsSeeded
  <2> HIDE DEF all
  <2>7. V \in SUBSET Revisions /\ Members(all) \subseteq V
    BY <1>2, <2>6 DEF Members
  <2>8. RowFits(m, clock)
    BY <1>2, <2>1, <2>3, PropagatedFits
  <2> HIDE DEF V, m
  <2>9. EditsFit(W, telegram.edit, clock)
    BY <1>2, <2>6, <2>7, <2>8, EditsRecorded
  <2>10. World \cup Members(state.history) \subseteq W
    BY <2>4 DEF V
  <2>11. Becomes(a, state) /\ EditsFit(W, telegram.edit, clock')
    BY <1>1, <1>4, <2>9 DEF state
  <2> HIDE DEF W
  <2> QED
    BY <1>1, <2>10, <2>11, EditsArchiveStep
<1>5. CASE MergeSnapshot(a)
  <2>1. Becomes(a, Import(chat[a], row[a], history[a], snapshot, FALSE))
    BY <1>5 DEF MergeSnapshot, Merged
  <2>2. /\ RowFits(row[a], clock) /\ chat[a] \in Deleted(clock)
        /\ Recording(history[a], clock) /\ Explained(row[a], history[a])
        /\ history[a] \in Seq(Revisions) /\ Members(history[a]) \subseteq World
    BY IInvMeans, EditInvMeans
  <2> QED
    BY <1>4, <2>1, <2>2
<1>6. CASE RestoreSnapshot(a)
  <2>1. Becomes(a, Import(0, NoMessage, <<>>, snapshot, TRUE))
    BY <1>6 DEF RestoreSnapshot
  <2>2. /\ RowFits(NoMessage, clock) /\ 0 \in Deleted(clock)
        /\ Recording(<<>>, clock) /\ Explained(NoMessage, <<>>)
        /\ <<>> \in Seq(Revisions) /\ Members(<<>>) \subseteq World
    BY <1>2, NoMessageFits, EmptyFits DEF Deleted, Members
  <2> QED
    BY <1>4, <2>1, <2>2
<1> QED
  BY <1>5, <1>6

LEMMA EditsStep == EditInv /\ [Next]_vars => EditInv'
<1> SUFFICES ASSUME EditInv, [Next]_vars PROVE EditInv'
  OBVIOUS
<1>1. CASE TelegramEdit \/ TelegramChange
  BY <1>1, EditsTelegramSteps
<1>2. ASSUME NEW a \in Archives,
             \/ Fetch(a) \/ Replace(a) \/ DeleteMessage(a) \/ DeleteChat(a) \/ Migrate(a)
             \/ Push(a) \/ MergeSnapshot(a) \/ RestoreSnapshot(a)
      PROVE  EditInv'
  BY <1>2, EditsFetchSteps, EditsDeletionSteps, EditsPushStep, EditsPullSteps
<1>3. CASE UNCHANGED vars
  <2>1. IInv'
    BY StepFits DEF EditInv
  <2>2. World' = World /\ telegram' = telegram /\ clock' = clock
    BY <1>3 DEF vars, World
  <2> QED
    BY <2>1, <2>2 DEF EditInv
<1> QED
  BY <1>1, <1>2, <1>3 DEF Next

LEMMA AlwaysEdits == Spec => []EditInv
<1> QED
  BY EditsInit, EditsStep, PTL DEF Spec

-----------------------------------------------------------------------------
(***************************************************************************)
(* Which of two live rows a pull keeps.                                    *)
(***************************************************************************)

\* The order of a live row is that of a revision with its payload, at its edit.
LEMMA LiveOrder ==
    ASSUME EditInv, NEW revs \in Seq(Revisions), Members(revs) \subseteq World,
           NEW m \in Payloads, ~ Dead(m), Stored(m), Explained(m, revs)
    PROVE  /\ HasPayload(revs, m) /\ revs # <<>>
           /\ \E r \in World :
                 LET o == CurrentOrder(revs, m)
                 IN  /\ r \in Members(revs)
                     /\ Last(r.chain).payload = m
                     /\ o.chain = r.chain
                     /\ m.edit # Sent
                     /\ o.at = IF m.edit # 0 THEN m.edit
                               ELSE IF EventType(r) = "edited" /\ r.seen > Sent THEN r.seen
                               ELSE Sent
<1> DEFINE S == WithPayload(revs, m)
<1>1. S \in SUBSET DOMAIN revs /\ S # {}
  <2>1. PICK chain \in Chains(revs) : Last(chain).payload = m
    BY DEF Explained, Explains
  <2>2. PICK i \in DOMAIN revs : chain = revs[i].chain
    BY DEF Chains
  <2> QED
    BY <2>1, <2>2 DEF WithPayload, Payload
<1>2. HasPayload(revs, m) /\ revs # <<>>
  BY <1>1 DEF HasPayload
<1>3. CurrentOrder(revs, m) = CanonicalOrder(Best(revs, S), m)
  BY <1>2 DEF CurrentOrder
<1>4. \A i \in S : Payload(revs[i]) = m /\ revs[i] \in Members(revs) /\ revs[i] \in World
  BY DEF WithPayload, Members
<1> HIDE DEF S
<1>5. PICK i \in S : Best(revs, S) = revs[i]
  BY <1>1, BestIsOne
<1> DEFINE r == revs[i]
           e == Last(r.chain)
           o == CanonicalOrder(r, m)
<1>6. r \in World /\ r \in Members(revs) /\ r \in Revisions /\ e.payload = m /\ o = CurrentOrder(revs, m)
  BY <1>3, <1>4, <1>5, EditInvMeans DEF Payload
<1> HIDE DEF r
<1>7. LiveEventFits(e) /\ r.seen \in Nat /\ m.edit \in Nat
  <2>1. Len(r.chain) \in DOMAIN r.chain /\ e = r.chain[Len(r.chain)] /\ r.seen \in Nat
    BY <1>6, LastOfChain
  <2>2. ChainFits(r.chain, telegram.edit)
    BY <1>6, EditInvMeans DEF EditsFit
  <2>3. Live(e)
    BY <1>6 DEF Live
  <2> QED
    BY <2>1, <2>2, <2>3 DEF ChainFits, Payloads
<1>8. /\ m.edit # Sent
      /\ EventAt(r) = IF EventType(r) = "edited" /\ m.edit # 0 THEN m.edit ELSE Sent
  BY <1>6, <1>7 DEF LiveEventFits, Edit, EventAt, EventType
<1>9. o.chain = r.chain
  BY DEF CanonicalOrder, Order
<1>10. o.at = IF m.edit > EventAt(r) THEN m.edit
              ELSE IF m.edit = 0 /\ EventType(r) = "edited" /\ r.seen > EventAt(r) THEN r.seen
              ELSE EventAt(r)
  BY DEF CanonicalOrder, Order
<1>11. o.at = IF m.edit # 0 THEN m.edit
              ELSE IF EventType(r) = "edited" /\ r.seen > Sent THEN r.seen
              ELSE Sent
  <2>1. CASE m.edit # 0
    <3>1. m.edit > Sent
      BY <1>7, <1>8, <2>1 DEF Sent
    <3> QED
      BY <1>7, <1>8, <1>10, <2>1, <3>1 DEF Sent
  <2>2. CASE m.edit = 0
    <3>1. EventAt(r) = Sent /\ ~ (m.edit > EventAt(r))
      BY <1>8, <2>2 DEF Sent
    <3> QED
      BY <1>10, <2>2, <3>1
  <2> QED
    BY <2>1, <2>2
<1> QED
  BY <1>2, <1>6, <1>8, <1>9, <1>11

\* An event that comes later in a chain carries no older edit.
LEMMA NewerDownTheChain ==
    ASSUME EditInv, NEW q \in World, NEW p \in World, Descends(q.chain, p.chain),
           Live(Last(q.chain)), Live(Last(p.chain))
    PROVE  Edit(Last(p.chain)) <= Edit(Last(q.chain))
<1> DEFINE x == q.chain
           y == p.chain
<1>1. q \in Revisions /\ p \in Revisions /\ x \in Seq(Events) /\ y \in Seq(Events)
  BY EditInvMeans DEF Revisions
<1>2. /\ Len(x) \in DOMAIN x /\ Last(x) = x[Len(x)]
      /\ Len(y) \in DOMAIN y /\ Last(y) = y[Len(y)]
  BY <1>1, LastOfChain
<1>3. ChainFits(x, telegram.edit)
  BY EditInvMeans DEF EditsFit
<1>4. IsPrefix(y, x) /\ y # x
  BY DEF Descends, IsStrictPrefix
<1> HIDE DEF x, y
<1>5. Len(y) <= Len(x) /\ \A i \in 1 .. Len(y) : y[i] = x[i]
  BY <1>1, <1>4 DEF IsPrefix
<1>6. Len(y) # Len(x)
  BY <1>1, <1>4, <1>5
<1>7. Len(y) \in DOMAIN x /\ Len(y) < Len(x) /\ x[Len(y)] = Last(y)
  BY <1>1, <1>2, <1>5, <1>6
<1>8. Live(x[Len(y)]) /\ Live(x[Len(x)])
  BY <1>2, <1>7 DEF x, y
<1>9. Edit(x[Len(y)]) <= Edit(x[Len(x)])
  BY <1>2, <1>3, <1>7, <1>8 DEF ChainFits
<1> QED
  BY <1>2, <1>7, <1>9 DEF x, y

\* The order of a live row loses to that of one with a later edit.
LEMMA LaterEditWins ==
    ASSUME EditInv,
           NEW revs \in Seq(Revisions), Members(revs) \subseteq World,
           NEW m \in Payloads, ~ Dead(m), Stored(m), Explained(m, revs),
           NEW more \in Seq(Revisions), Members(more) \subseteq World,
           NEW n \in Payloads, ~ Dead(n), Stored(n), Explained(n, more),
           n.edit < m.edit
    PROVE  ~ Preferred(CurrentOrder(more, n), CurrentOrder(revs, m))
<1> DEFINE x == CurrentOrder(more, n)
           y == CurrentOrder(revs, m)
<1>1. PICK p \in World : /\ Last(p.chain).payload = m /\ y.chain = p.chain
                         /\ m.edit # Sent /\ (m.edit # 0 => y.at = m.edit)
  BY LiveOrder
<1>2. PICK q \in World :
         /\ Last(q.chain).payload = n /\ x.chain = q.chain /\ n.edit # Sent
         /\ x.at = IF n.edit # 0 THEN n.edit
                   ELSE IF EventType(q) = "edited" /\ q.seen > Sent THEN q.seen ELSE Sent
  BY LiveOrder
<1> HIDE DEF x, y
<1>3. m.edit \in Nat /\ n.edit \in Nat /\ m.edit # 0 /\ Sent < m.edit
  BY <1>1 DEF Payloads, Sent
<1>4. /\ Live(Last(p.chain)) /\ Edit(Last(p.chain)) = m.edit
      /\ Live(Last(q.chain)) /\ Edit(Last(q.chain)) = n.edit
  BY <1>1, <1>2 DEF Live, Edit
<1>5. ~ Descends(x.chain, y.chain)
  BY <1>1, <1>2, <1>3, <1>4, NewerDownTheChain
<1>6. n.edit = 0 => q.seen < m.edit
  BY <1>3, <1>4, EditInvMeans DEF EditsFit, Unedited
<1>7. q.seen \in Nat
  BY <1>2, EditInvMeans, LastOfChain
<1>8. x.at < y.at /\ x.at \in Nat /\ y.at \in Nat
  BY <1>1, <1>2, <1>3, <1>6, <1>7 DEF Sent
<1>9. ~ (x.at > y.at) /\ x.at # y.at
  BY <1>8
<1> QED
  BY <1>5, <1>9 DEF Preferred, x, y

\* A live row after a pull is the archive's own or the snapshot's, and all that
\* the snapshot knows is inserted, nothing else.
LEMMA PulledLive ==
    ASSUME EditInv, NEW a \in Archives, MergeSnapshot(a), ~ Dead(row'[a])
    PROVE  /\ row'[a] = IF Accepts(history[a], row[a], snapshot) THEN snapshot.row ELSE row[a]
           /\ history'[a] = InsertedAll(history[a], snapshot.history)
<1> DEFINE r == row[a]
           revs == history[a]
           s == snapshot
           taken == Taken(r, revs, s, FALSE)
           chatDel == IF Stored(r) THEN chat[a] ELSE s.chat
           over == Overlaid(r, s.row)
           pulled == InsertedAll(revs, s.history)
           all == Seeded(pulled, taken, s.at)
<1>1. /\ RowFits(r, clock) /\ Recording(revs, clock) /\ Explained(r, revs)
      /\ chat[a] \in Deleted(clock) /\ clock \in Nat /\ IInv
      /\ revs \in Seq(Revisions)
  BY EditInvMeans, IInvMeans
<1>2. ArchiveFits(s.row, s.chat, s.history, clock) /\ Stored(s.row)
  BY <1>1 DEF IInv, SnapshotFits, MergeSnapshot
<1>3. /\ row'[a] = Propagated(taken, chatDel)
      /\ history'[a] = Recorded(all, Propagated(taken, chatDel), s.at)
  <2> DEFINE state == Import(chat[a], r, revs, s, FALSE)
  <2>1. /\ state.row = Propagated(taken, chatDel)
        /\ state.history = Recorded(all, Propagated(taken, chatDel), s.at)
    BY DEF Import, Taken
  <2>2. /\ row' = [row EXCEPT ![a] = state.row]
        /\ history' = [history EXCEPT ![a] = state.history]
    BY DEF MergeSnapshot, Merged, Becomes
  <2>3. row \in [Archives -> Payloads] /\ history \in [Archives -> Seq(Revisions)]
    BY <1>1 DEF IInv, ArchivesFit
  <2> HIDE DEF state, taken, chatDel, all
  <2> QED
    BY <2>1, <2>2, <2>3
<1>4. /\ RowFits(taken, clock) /\ chatDel \in Deleted(clock)
      /\ Explained(taken, pulled)
  BY <1>1, <1>2, TakenFits DEF ArchiveFits
<1>5. taken = IF Accepts(revs, r, s) THEN over ELSE r
  BY DEF Taken
<1>6. over = s.row \/ Dead(over)
  BY <1>1, <1>2, OverlaidFits DEF ArchiveFits
<1> HIDE DEF taken, pulled
<1>7. Stored(taken) => pulled # <<>>
  BY <1>4 DEF Explained, Chains
<1>8. all = pulled
  BY <1>7 DEF Seeded
<1> HIDE DEF chatDel, over, all
<1>9. row'[a] = taken
  BY <1>1, <1>3, <1>4, PropagatedFits
<1>10. history'[a] = pulled
  BY <1>3, <1>8, <1>9 DEF Recorded
<1> QED
  BY <1>5, <1>6, <1>9, <1>10 DEF pulled

LEMMA PullKeepsNewerEdit ==
    ASSUME EditInv, NEW a \in Archives, MergeSnapshot(a),
           row'[a].edit < row[a].edit, ~ Dead(row[a]), ~ Dead(row'[a])
    PROVE  FALSE
<1> DEFINE r == row[a]
           revs == history[a]
           s == snapshot
<1>1. /\ RowFits(r, clock) /\ Explained(r, revs) /\ IInv
      /\ revs \in Seq(Revisions) /\ Members(revs) \subseteq World
      /\ s.history \in Seq(Revisions) /\ Members(s.history) \subseteq World
  BY EditInvMeans, IInvMeans
<1>2. RowFits(s.row, clock) /\ Explained(s.row, s.history) /\ Stored(s.row)
  BY <1>1 DEF IInv, SnapshotFits, ArchiveFits, MergeSnapshot
<1>3. r \in Payloads /\ s.row \in Payloads /\ r.edit \in Nat /\ s.row.edit \in Nat
  BY <1>1, <1>2 DEF RowFits, Payloads
<1>4. Accepts(revs, r, s) /\ ~ Dead(s.row) /\ s.row.edit < r.edit
  BY <1>3, PulledLive
<1>5. Stored(r) /\ s.row # r
  BY <1>3, <1>4 DEF Stored, NoMessage
<1>6. revs # <<>> /\ HasPayload(s.history, s.row)
  BY <1>1, <1>2, <1>3, <1>4, <1>5, LiveOrder
<1>7. ~ Preferred(CurrentOrder(s.history, s.row), CurrentOrder(revs, r))
  BY <1>1, <1>2, <1>3, <1>4, <1>5, LaterEditWins
<1> HIDE DEF r, revs, s
<1> QED
  BY <1>4, <1>5, <1>6, <1>7 DEF Accepts, IncomingKnown, r

-----------------------------------------------------------------------------
(***************************************************************************)
(* Which event brings a deleted message back.                              *)
(***************************************************************************)

\* The order of a row is that of a revision of its history.
LEMMA CurrentOrderIsOne ==
    ASSUME NEW revs \in Seq(Revisions), revs # <<>>, NEW m
    PROVE  \E i \in DOMAIN revs : /\ CurrentOrder(revs, m).chain = revs[i].chain
                                  /\ HasPayload(revs, m) => Payload(revs[i]) = m
<1> DEFINE S == IF HasPayload(revs, m) THEN WithPayload(revs, m) ELSE DOMAIN revs
<1>1. 1 \in DOMAIN revs
  OBVIOUS
<1>2. /\ S \in SUBSET DOMAIN revs /\ S # {}
      /\ HasPayload(revs, m) => \A i \in S : Payload(revs[i]) = m
  BY <1>1 DEF HasPayload, WithPayload
<1>3. CurrentOrder(revs, m) = CanonicalOrder(Best(revs, S), m)
  BY DEF CurrentOrder
<1> HIDE DEF S
<1>4. PICK i \in S : Best(revs, S) = revs[i]
  BY <1>2, BestIsOne
<1>5. CanonicalOrder(revs[i], m).chain = revs[i].chain
  BY DEF CanonicalOrder, Order
<1> QED
  BY <1>2, <1>3, <1>4, <1>5

LEMMA PullResurrects ==
    ASSUME EditInv, NEW a \in Archives, MergeSnapshot(a), Dead(row[a]), ~ Dead(row'[a])
    PROVE  \E x \in Chains(history'[a]), y \in Chains(history[a]) :
              /\ Last(x).payload = row'[a]
              /\ Descends(x, y)
              /\ HasPayload(history[a], row[a]) =>
                    Last(y).type = "deleted" /\ Last(y).payload = row[a]
<1> DEFINE r == row[a]
           revs == history[a]
           s == snapshot
<1>1. /\ RowFits(r, clock) /\ Recording(revs, clock) /\ clock \in Nat /\ IInv
      /\ revs \in Seq(Revisions) /\ Members(revs) \subseteq World
      /\ s.history \in Seq(Revisions)
  BY EditInvMeans, IInvMeans
<1>2. Recording(s.history, clock)
  BY <1>1 DEF IInv, SnapshotFits, ArchiveFits, Recording
<1>3. /\ row'[a] = s.row /\ Accepts(revs, r, s)
      /\ history'[a] = InsertedAll(revs, s.history)
  BY PulledLive
<1>4. Stored(r) /\ s.row # r
  BY <1>1, <1>3, DeadRow
<1>5. /\ revs # <<>> /\ HasPayload(s.history, s.row)
      /\ Descends(CurrentOrder(s.history, s.row).chain, CurrentOrder(revs, r).chain)
  BY <1>3, <1>4 DEF Accepts
<1>6. s.history # <<>>
  BY <1>5 DEF HasPayload, WithPayload
<1>7. PICK i \in DOMAIN s.history : /\ CurrentOrder(s.history, s.row).chain = s.history[i].chain
                                    /\ Payload(s.history[i]) = s.row
  BY <1>1, <1>5, <1>6, CurrentOrderIsOne
<1>8. PICK j \in DOMAIN revs : /\ CurrentOrder(revs, r).chain = revs[j].chain
                               /\ HasPayload(revs, r) => Payload(revs[j]) = r
  BY <1>1, <1>5, CurrentOrderIsOne
<1>9. s.history[i].chain \in Chains(history'[a]) /\ revs[j].chain \in Chains(revs)
  <2>1. Chains(s.history) \subseteq Chains(history'[a])
    BY <1>1, <1>2, <1>3, PulledTogether
  <2> QED
    BY <2>1 DEF Chains
<1>10. HasPayload(revs, r) => Last(revs[j].chain).type = "deleted"
  <2>1. revs[j] \in Revisions /\ revs[j] \in World
    BY <1>1, EditInvMeans DEF Members
  <2>2. /\ Len(revs[j].chain) \in DOMAIN revs[j].chain
        /\ Last(revs[j].chain) = revs[j].chain[Len(revs[j].chain)]
    BY <2>1, LastOfChain
  <2>3. ChainFits(revs[j].chain, telegram.edit)
    BY <2>1, EditInvMeans DEF EditsFit
  <2> QED
    BY <1>8, <2>2, <2>3 DEF ChainFits, DeadEventFits, Live, Payload
<1> HIDE DEF r, revs, s
<1> QED
  BY <1>3, <1>5, <1>7, <1>8, <1>9, <1>10 DEF Payload, r, revs

-----------------------------------------------------------------------------
(***************************************************************************)
(* Late tips.  The tip of an archive that holds the message as deleted is  *)
(* no earlier than the deletion: the index serves the events in their      *)
(* order of time, so that once the deletion was met only a later event, or *)
(* one that succeeds the deletion, takes over.                             *)
(***************************************************************************)

\* The loop over revisions in order of time ends no earlier than any of them,
\* unless with a descendant of it.
LEMMA BestIsLate ==
    ASSUME NEW s \in Seq(Revisions), InTime(s), NEW k \in DOMAIN s
    PROVE  LET b == Best(s, DOMAIN s)
           IN  /\ b \in Members(s)
               /\ EventAt(s[k]) <= EventAt(b) \/ Descends(b.chain, s[k].chain)
<1> DEFINE N == Len(s)
           S == DOMAIN s
           B == BestUpTo(s, S)
           Good(b) == EventAt(s[k]) <= EventAt(s[b]) \/ Descends(s[b].chain, s[k].chain)
           P == {n \in 0 .. N : k <= n => B[n] \in S /\ Good(B[n])}
<1>1. N \in Nat /\ S = 1 .. N /\ S \in SUBSET S
  OBVIOUS
<1>2. /\ B[0] = 0
      /\ \A n \in 1 .. N : B[n] = IF Beats(s, S, n, B[n - 1]) THEN n ELSE B[n - 1]
  BY <1>1, BestRuns
<1>3. \A n \in 0 .. N : B[n] \in {0} \cup S
  BY <1>1, BestIsOne
<1>4. \A n \in S : EventAt(s[n]) \in Nat
  BY TimeOfRevision
<1> HIDE DEF B
<1>5. 0 \in P
  BY <1>1
<1>6. ASSUME NEW n \in 1 .. N, n - 1 \in P PROVE n \in P
  <2> SUFFICES ASSUME k <= n PROVE B[n] \in S /\ Good(B[n])
    BY <1>1
  <2>1. n \in S /\ n - 1 \in 0 .. N /\ k \in 1 .. N
    BY <1>1
  <2>2. B[n] = IF Beats(s, S, n, B[n - 1]) THEN n ELSE B[n - 1]
    BY <1>2
  <2>3. CASE Beats(s, S, n, B[n - 1])
    <3>1. B[n] = n /\ (k = n \/ k < n)
      BY <2>1, <2>2, <2>3
    <3>2. EventAt(s[k]) <= EventAt(s[n])
      BY <1>4, <2>1, <3>1 DEF InTime
    <3> QED
      BY <2>1, <3>1, <3>2
  <2>4. CASE ~ Beats(s, S, n, B[n - 1]) /\ k < n
    <3>1. k <= n - 1 /\ B[n] = B[n - 1]
      BY <2>1, <2>2, <2>4
    <3> HIDE DEF Good
    <3> QED
      BY <1>6, <3>1
  <2>5. CASE ~ Beats(s, S, n, B[n - 1]) /\ k = n
    <3> DEFINE b == B[n - 1]
    <3>1. B[n] = b /\ b \in S /\ ~ Preferred(Order(s[k]), Order(s[b]))
      BY <1>3, <2>1, <2>2, <2>5 DEF Beats
    <3>2. EventAt(s[k]) \in Nat /\ EventAt(s[b]) \in Nat
      BY <1>4, <3>1
    <3> HIDE DEF b
    <3>3. \/ Descends(s[b].chain, s[k].chain)
          \/ ~ (EventAt(s[k]) > EventAt(s[b]))
      BY <3>1 DEF Preferred, Order
    <3> QED
      BY <3>1, <3>2, <3>3
  <2> QED
    BY <2>1, <2>3, <2>4, <2>5
<1>7. 0 .. N \subseteq P
  <2> HIDE DEF P, N
  <2> QED
    BY <1>1, <1>5, <1>6, EveryRound
<1>8. N \in P /\ k <= N
  <2>1. N \in 0 .. N /\ k <= N
    BY <1>1
  <2> HIDE DEF P, N
  <2> QED
    BY <1>7, <2>1
<1>9. B[N] \in S /\ Good(B[N])
  BY <1>8
<1> HIDE DEF S
<1> QED
  BY <1>9 DEF Best, B, Members, S

\* In a closed history every event down a chain is there.
LEMMA AncestorsAreThere ==
    ASSUME NEW C \in SUBSET (Seq(Events) \ {<<>>}), ClosedUnderFront(C),
           NEW y \in C, NEW x \in Seq(Events), x # <<>>, Descends(y, x)
    PROVE  x \in C
<1>1. IsPrefix(x, y) /\ y \in Seq(Events)
  BY DEF Descends, IsStrictPrefix
<1>2. /\ Len(x) \in Nat \ {0} /\ Len(y) \in Nat /\ Len(x) <= Len(y)
      /\ SubSeq(y, 1, Len(x)) = x /\ SubSeq(y, 1, Len(y)) = y
  BY <1>1 DEF IsPrefix
<1> DEFINE N == Len(y) - Len(x)
           P == {n \in 0 .. N : SubSeq(y, 1, Len(y) - n) \in C}
<1>3. 0 \in P
  <2>1. 0 \in 0 .. N /\ Len(y) - 0 = Len(y)
    BY <1>2
  <2> QED
    BY <1>2, <2>1
<1>4. ASSUME NEW n \in 1 .. N, n - 1 \in P PROVE n \in P
  <2> DEFINE m == Len(y) - (n - 1)
             z == SubSeq(y, 1, m)
  <2>1. m \in Nat /\ 1 < m /\ m <= Len(y) /\ Len(y) - n = m - 1 /\ n \in 0 .. N
    BY <1>2
  <2>2. z \in C
    BY <1>4
  <2> HIDE DEF m
  <2>3. z \in Seq(Events) /\ Len(z) = m /\ \A i \in 1 .. m : z[i] = y[i]
    BY <1>1, <2>1
  <2> HIDE DEF z
  <2>4. Front(z) \in C
    BY <2>1, <2>2, <2>3 DEF ClosedUnderFront
  <2>5. SubSeq(z, 1, m - 1) = SubSeq(y, 1, m - 1)
    BY <1>1, <2>1, <2>3
  <2> QED
    BY <2>1, <2>3, <2>4, <2>5 DEF Front
<1>5. N \in Nat
  BY <1>2
<1>6. 0 .. N \subseteq P
  <2> HIDE DEF P, N
  <2> QED
    BY <1>3, <1>4, <1>5, EveryRound
<1>7. N \in P
  <2>1. N \in 0 .. N
    BY <1>5
  <2> HIDE DEF P, N
  <2> QED
    BY <1>6, <2>1
<1>8. SubSeq(y, 1, Len(y) - N) \in C
  BY <1>7
<1>9. Len(y) - N = Len(x)
  BY <1>2
<1> HIDE DEF N
<1> QED
  BY <1>2, <1>8, <1>9

LEMMA ChainsAreSequences ==
    ASSUME NEW revs \in Seq(Revisions)
    PROVE  Chains(revs) \in SUBSET (Seq(Events) \ {<<>>})
<1> SUFFICES ASSUME NEW i \in DOMAIN revs PROVE revs[i].chain \in Seq(Events) \ {<<>>}
  BY DEF Chains
<1>1. revs[i] \in Revisions
  OBVIOUS
<1> QED
  BY <1>1 DEF Revisions

LEMMA TipIsBest ==
    ASSUME NEW revs \in Seq(Revisions), revs # <<>>
    PROVE  Tip(revs) = LET s == ByEventTime(revs) IN Best(s, DOMAIN s).chain
<1> DEFINE s == ByEventTime(revs)
<1>1. s # <<>>
  BY ByEventTimeFacts, SameMembers
<1> QED
  BY <1>1 DEF Tip, TipOf

\* A chain does not descend from one that is longer.
LEMMA NoOwnAncestor ==
    ASSUME NEW tip \in Seq(Events), NEW event \in Events
    PROVE  ~ Descends(tip, Append(tip, event))
<1>1. Len(Append(tip, event)) = Len(tip) + 1 /\ Len(tip) \in Nat
  OBVIOUS
<1> QED
  BY <1>1 DEF Descends, IsStrictPrefix, IsPrefix

\* A chain has the events of its ancestors where they have them.
LEMMA AncestorsAreParts ==
    ASSUME NEW y \in Seq(Events), NEW x \in Seq(Events), Descends(y, x)
    PROVE  \A i \in DOMAIN x : i \in DOMAIN y /\ y[i] = x[i]
<1>1. IsPrefix(x, y)
  BY DEF Descends, IsStrictPrefix
<1> QED
  BY <1>1 DEF IsPrefix

LateTip(m, sorted) == Dead(m) => m.del <= EventAt(Best(sorted, DOMAIN sorted))

\* Recording a deletion leaves a tip that is no earlier.
LEMMA RecordedIsLate ==
    ASSUME NEW now \in Nat, NEW revs, Recording(revs, now),
           NEW m, RowFits(m, now), NEW seen \in Nat
    PROVE  LateTip(m, ByEventTime(Recorded(revs, m, seen)))
<1> SUFFICES ASSUME Dead(m)
             PROVE  LET s == ByEventTime(Recorded(revs, m, seen))
                    IN  m.del <= EventAt(Best(s, DOMAIN s))
  BY DEF LateTip
<1> DEFINE new == Recorded(revs, m, seen)
           s == ByEventTime(new)
           b == Best(s, DOMAIN s)
           tip == Tip(revs)
           event == Event("deleted", m.del, Deletion(m))
           rev == After(tip, event, seen)
           Known == tip # <<>> /\ Last(tip).type = "deleted" /\ Last(tip).at = m.del
<1>1. /\ revs \in Seq(Revisions) /\ ClosedUnderFront(Chains(revs))
      /\ m.del \in Nat /\ m \in Payloads
  BY ClosedMeans, DeadRow DEF Recording, HistoryFits, RowFits, Payloads
<1>2. CASE Known
  <2>1. new = revs
    BY <1>2 DEF Recorded
  <2>2. revs # <<>>
    BY <1>1, <1>2, TipFacts
  <2>3. tip = b.chain
    <3> HIDE DEF new
    <3> QED
      BY <1>1, <2>1, <2>2, TipIsBest
  <2> QED
    BY <1>1, <1>2, <2>3 DEF EventAt
<1>3. CASE ~ Known
  <2>1. new = Inserted(revs, rev)
    BY <1>3 DEF Recorded, After
  <2>2. /\ event \in Events /\ tip \in Seq(Events)
        /\ tip # <<>> => tip \in Chains(revs)
    <3>1. event \in Events
      BY <1>1, DeletionFits DEF Event, Events
    <3>2. IF revs = <<>> THEN tip = <<>> ELSE tip \in Chains(revs)
      BY <1>1, TipFacts
    <3> HIDE DEF event, tip
    <3>3. Chains(revs) \in SUBSET (Seq(Events) \ {<<>>})
      BY <1>1, ChainsAreSequences
    <3>4. CASE revs = <<>>
      <4>1. tip = <<>>
        BY <3>2, <3>4
      <4>2. <<>> \in Seq(Events)
        OBVIOUS
      <4> QED
        BY <3>1, <4>1, <4>2
    <3>5. CASE revs # <<>>
      <4>1. tip \in Chains(revs)
        BY <3>2, <3>5
      <4> QED
        BY <3>1, <3>3, <4>1
    <3> QED
      BY <3>4, <3>5
  <2> HIDE DEF event, tip
  <2>3. rev \in Revisions /\ rev.chain = Append(tip, event) /\ EventAt(rev) = m.del
    BY <2>2, AfterFacts DEF After, event, Event
  <2> HIDE DEF rev
  <2>4. new \in Seq(Revisions) /\ Chains(new) = Chains(revs) \cup {rev.chain}
    BY <1>1, <2>1, <2>3, InsertedFacts
  <2> HIDE DEF new
  <2>5. s \in Seq(Revisions) /\ Chains(s) = Chains(new) /\ InTime(s)
    BY <2>4, ByEventTimeFacts, SameMembers
  <2>6. PICK k \in DOMAIN s : s[k].chain = rev.chain
    BY <2>4, <2>5 DEF Chains
  <2> HIDE DEF s
  <2>7. EventAt(s[k]) = m.del
    BY <2>3, <2>6 DEF EventAt
  <2>8. /\ b \in Members(s)
        /\ m.del <= EventAt(b) \/ Descends(b.chain, rev.chain)
    BY <2>5, <2>6, <2>7, BestIsLate
  <2>9. ASSUME Descends(b.chain, rev.chain), ~ (m.del <= EventAt(b)) PROVE FALSE
    <3>1. b.chain \in Chains(new) /\ b.chain # rev.chain
      BY <2>5, <2>8, <2>9 DEF Members, Chains, Descends, IsStrictPrefix
    <3>2. b.chain \in Chains(revs)
      BY <2>4, <3>1
    <3>3. rev.chain \in Seq(Events) /\ rev.chain # <<>>
      BY <2>3 DEF Revisions
    <3>4. rev.chain \in Chains(revs)
      BY <1>1, <2>9, <3>2, <3>3, ChainsAreSequences, AncestorsAreThere
    <3>5. new = revs
      BY <2>1, <3>4 DEF Inserted
    <3>6. tip = b.chain
      <4>1. revs # <<>>
        BY <3>2 DEF Chains
      <4> QED
        BY <1>1, <3>5, <4>1, TipIsBest DEF tip, s
    <3> QED
      BY <2>2, <2>3, <2>9, <3>6, NoOwnAncestor
  <2> QED
    BY <2>8, <2>9 DEF s, new
<1> QED
  BY <1>2, <1>3

\* The row and the tip that an import leaves.
LEMMA ImportIsLate ==
    ASSUME NEW now \in Nat, Sent <= now,
           NEW c \in Deleted(now), NEW r, RowFits(r, now),
           NEW revs, Recording(revs, now), Explained(r, revs),
           NEW s, ArchiveFits(s.row, s.chat, s.history, now), s.at \in Nat,
           NEW restore
    PROVE  LET new == Import(c, r, revs, s, restore)
           IN  LateTip(new.row, ByEventTime(new.history))
<1> DEFINE taken   == Taken(r, revs, s, restore)
           chatDel == IF Stored(r) THEN c ELSE s.chat
           m       == Propagated(taken, chatDel)
           pulled  == InsertedAll(revs, s.history)
           all     == Seeded(pulled, taken, s.at)
           new     == Recorded(all, m, s.at)
<1>1. Recording(pulled, now) /\ RowFits(taken, now) /\ Explained(taken, pulled)
  BY TakenFits
<1>2. chatDel \in Deleted(now)
  BY DEF ArchiveFits
<1>3. Import(c, r, revs, s, restore) = [row |-> m, chat |-> chatDel, history |-> new]
  BY DEF Import, Taken
<1> HIDE DEF taken, chatDel, pulled
<1>4. Recording(all, now)
  BY <1>1, SeededFacts
<1> HIDE DEF all
<1>5. RowFits(m, now)
  BY <1>1, <1>2, PropagatedFits
<1> HIDE DEF m
<1>6. LateTip(m, ByEventTime(new))
  BY <1>4, <1>5, RecordedIsLate
<1> HIDE DEF new
<1> QED
  BY <1>3, <1>6

LateTips ==
    /\ LateTip(snapshot.row, snapshot.history)
    /\ \A a \in Archives : LateTip(row[a], ByEventTime(history[a]))

LEMMA BecomesLate ==
    ASSUME IInv, LateTips, NEW a \in Archives, NEW state, Becomes(a, state), UNCHANGED snapshot,
           LateTip(state.row, ByEventTime(state.history))
    PROVE  LateTips'
<1>1. /\ row' = [row EXCEPT ![a] = state.row] /\ row \in [Archives -> Payloads]
      /\ history' = [history EXCEPT ![a] = state.history]
      /\ history \in [Archives -> Seq(Revisions)]
  BY DEF Becomes, IInv, ArchivesFit
<1>2. ASSUME NEW b \in Archives PROVE LateTip(row'[b], ByEventTime(history'[b]))
  <2>1. CASE b = a
    <3>1. row'[b] = state.row /\ history'[b] = state.history
      BY <1>1, <2>1
    <3> QED
      BY <3>1
  <2>2. CASE b # a
    <3>1. row'[b] = row[b] /\ history'[b] = history[b]
      BY <1>1, <2>2
    <3> QED
      BY <3>1 DEF LateTips
  <2> QED
    BY <2>1, <2>2
<1>3. LateTip(snapshot'.row, snapshot'.history)
  BY DEF LateTips
<1> QED
  BY <1>2, <1>3 DEF LateTips

LEMMA LateStep ==
    ASSUME IInv, LateTips, [Next]_vars
    PROVE  LateTips'
<1>1. CASE TelegramEdit \/ TelegramChange \/ UNCHANGED vars
  <2>1. UNCHANGED <<row, history, snapshot>>
    BY <1>1 DEF TelegramEdit, TelegramChange, vars
  <2> QED
    BY <2>1 DEF LateTips
<1>2. ASSUME NEW a \in Archives, Fetch(a) \/ Replace(a) \/ Migrate(a) PROVE LateTips'
  <2>1. PICK revs : Becomes(a, [row |-> telegram, chat |-> 0, history |-> revs])
    BY <1>2 DEF Fetch, Replace, Migrate
  <2> DEFINE state == [row |-> telegram, chat |-> 0, history |-> revs]
  <2>2. LateTip(state.row, ByEventTime(state.history))
    BY IInvMeans DEF LateTip
  <2>3. UNCHANGED snapshot
    BY <1>2 DEF Fetch, Replace, Migrate
  <2>4. Becomes(a, state)
    BY <2>1
  <2> HIDE DEF state
  <2> QED
    BY <2>2, <2>3, <2>4, BecomesLate
<1>3. ASSUME NEW a \in Archives, DeleteMessage(a) \/ DeleteChat(a) PROVE LateTips'
  <2>1. Tick /\ UNCHANGED snapshot
    BY <1>3 DEF DeleteMessage, DeleteChat
  <2>2. /\ clock' \in Nat /\ clock <= clock' /\ clock' = clock + 1 /\ clock' <= clock'
        /\ clock \in Nat /\ Sent <= clock /\ Sent <= clock'
    BY <2>1, Ticked, IInvMeans DEF Sent
  <2>3. clock' \in (Sent + 1) .. clock' /\ clock' \in Deleted(clock')
    BY <2>2 DEF Sent, Deleted
  <2>4. /\ RowFits(row[a], clock') /\ Recording(history[a], clock')
        /\ Explained(row[a], history[a])
    <3>1. ArchiveFits(row[a], chat[a], history[a], clock')
      BY <2>2, FitsLater DEF IInv, ArchivesFit
    <3> QED
      BY <3>1 DEF ArchiveFits, Recording
  <2>5. CASE DeleteMessage(a)
    <3> DEFINE m == [row[a] EXCEPT !.del = clock', !.why = "message"]
               seen == Observed(history[a], row[a], m, clock')
               revs == Recorded(seen, m, clock')
               state == [row |-> m, chat |-> chat[a], history |-> revs]
    <3>1. Becomes(a, state)
      BY <2>5 DEF DeleteMessage
    <3>2. m = Tombstoned(row[a], clock', "message")
      BY DEF Tombstoned
    <3> HIDE DEF m
    <3>3. RowFits(m, clock')
      BY <2>2, <2>3, <2>4, <3>2, DeletedRowFits
    <3>4. Recording(seen, clock')
      BY <2>2, <2>4, <3>3, ObservedFacts
    <3> HIDE DEF seen
    <3>5. LateTip(m, ByEventTime(revs))
      BY <2>2, <3>3, <3>4, RecordedIsLate
    <3> HIDE DEF revs
    <3>6. LateTip(state.row, ByEventTime(state.history))
      BY <3>5
    <3> HIDE DEF state
    <3> QED
      BY <2>1, <3>1, <3>6, BecomesLate
  <2>6. CASE DeleteChat(a)
    <3> DEFINE m == Propagated(row[a], clock')
               revs == Recorded(history[a], m, clock')
               state == [row |-> m, chat |-> clock', history |-> revs]
    <3>1. Becomes(a, state)
      BY <2>6 DEF DeleteChat
    <3>2. RowFits(m, clock')
      BY <2>2, <2>3, <2>4, PropagatedFits
    <3> HIDE DEF m
    <3>3. LateTip(m, ByEventTime(revs))
      BY <2>2, <2>4, <3>2, RecordedIsLate
    <3> HIDE DEF revs
    <3>4. LateTip(state.row, ByEventTime(state.history))
      BY <3>3
    <3> HIDE DEF state
    <3> QED
      BY <2>1, <3>1, <3>4, BecomesLate
  <2> QED
    BY <1>3, <2>5, <2>6
<1>4. ASSUME NEW a \in Archives, Push(a) PROVE LateTips'
  <2>1. /\ snapshot'.row = row[a] /\ snapshot'.history = ByEventTime(history[a])
        /\ UNCHANGED <<row, history>>
    BY <1>4 DEF Push
  <2> QED
    BY <2>1 DEF LateTips
<1>5. ASSUME NEW a \in Archives, MergeSnapshot(a) \/ RestoreSnapshot(a) PROVE LateTips'
  <2>1. /\ clock \in Nat /\ Sent <= clock /\ UNCHANGED snapshot
        /\ ArchiveFits(snapshot.row, snapshot.chat, snapshot.history, clock)
        /\ snapshot.at \in Nat
    <3>1. clock \in Nat /\ Sent <= clock
      BY IInvMeans
    <3>2. UNCHANGED snapshot
      BY <1>5 DEF MergeSnapshot, RestoreSnapshot
    <3> QED
      BY <3>1, <3>2 DEF IInv, SnapshotFits, Sent
  <2>2. ASSUME NEW c \in Deleted(clock), NEW r, RowFits(r, clock),
               NEW revs, Recording(revs, clock), Explained(r, revs), NEW restore,
               Becomes(a, Import(c, r, revs, snapshot, restore))
        PROVE  LateTips'
    <3> DEFINE state == Import(c, r, revs, snapshot, restore)
    <3>1. LateTip(state.row, ByEventTime(state.history))
      BY <2>1, <2>2, ImportIsLate
    <3>2. Becomes(a, state)
      BY <2>2
    <3> HIDE DEF state
    <3> QED
      BY <2>1, <3>1, <3>2, BecomesLate
  <2>3. CASE MergeSnapshot(a)
    <3>1. Becomes(a, Import(chat[a], row[a], history[a], snapshot, FALSE))
      BY <2>3 DEF MergeSnapshot, Merged
    <3>2. /\ RowFits(row[a], clock) /\ chat[a] \in Deleted(clock)
          /\ Recording(history[a], clock) /\ Explained(row[a], history[a])
      BY IInvMeans
    <3> QED
      BY <2>2, <3>1, <3>2
  <2>4. CASE RestoreSnapshot(a)
    <3>1. Becomes(a, Import(0, NoMessage, <<>>, snapshot, TRUE))
      BY <2>4 DEF RestoreSnapshot
    <3>2. /\ RowFits(NoMessage, clock) /\ 0 \in Deleted(clock)
          /\ Recording(<<>>, clock) /\ Explained(NoMessage, <<>>)
      BY <2>1, NoMessageFits, EmptyFits DEF Deleted
    <3> QED
      BY <2>2, <3>1, <3>2
  <2> QED
    BY <1>5, <2>3, <2>4
<1> QED
  BY <1>1, <1>2, <1>3, <1>4, <1>5 DEF Next

LEMMA LateInit == Init => LateTips
  BY DEF Init, LateTips, LateTip, NoMessage, Dead

LEMMA AlwaysLate == Spec => []LateTips
<1>1. Spec => []IInv
  BY AlwaysFits
<1>2. IInv /\ LateTips /\ [Next]_vars => LateTips'
  BY LateStep
<1> QED
  BY <1>1, <1>2, LateInit, PTL DEF Spec

-----------------------------------------------------------------------------
(***************************************************************************)
(* Which deletions a pull ignores.                                         *)
(***************************************************************************)

\* The order of a tombstone is that of an event no earlier than the deletion.
LEMMA DeadOrder ==
    ASSUME EditInv, NEW revs \in Seq(Revisions), Members(revs) \subseteq World, revs # <<>>,
           NEW m \in Payloads, Dead(m), LateTip(m, revs)
    PROVE  LET o == CurrentOrder(revs, m)
           IN  \E r \in Revisions : /\ o.chain = r.chain
                                   /\ o.at \in Nat
                                   /\ m.del <= EventAt(r) /\ EventAt(r) <= o.at
<1> DEFINE S == IF HasPayload(revs, m) THEN WithPayload(revs, m) ELSE DOMAIN revs
           r == Best(revs, S)
<1>1. /\ S \in SUBSET DOMAIN revs /\ S # {}
      /\ HasPayload(revs, m) => \A i \in S : Payload(revs[i]) = m
  <2>1. 1 \in DOMAIN revs
    OBVIOUS
  <2> QED
    BY <2>1 DEF HasPayload, WithPayload
<1>2. CurrentOrder(revs, m) = CanonicalOrder(r, m)
  BY DEF CurrentOrder
<1>3. ~ HasPayload(revs, m) => m.del <= EventAt(r)
  BY DEF LateTip
<1> HIDE DEF S
<1>4. PICK i \in S : r = revs[i]
  BY <1>1, BestIsOne
<1> HIDE DEF r
<1>5. r \in Revisions /\ r \in World
  BY <1>1, <1>4, EditInvMeans DEF Members
<1>6. EventAt(r) \in Nat /\ r.seen \in Nat /\ m.edit \in Nat /\ m.del \in Nat
  BY <1>5, TimeOfRevision, LastOfChain DEF Payloads
<1>7. HasPayload(revs, m) => EventAt(r) = m.del
  <2>1. HasPayload(revs, m) => Last(r.chain).payload = m
    BY <1>1, <1>4 DEF Payload
  <2>2. Len(r.chain) \in DOMAIN r.chain /\ Last(r.chain) = r.chain[Len(r.chain)]
    BY <1>5, LastOfChain
  <2>3. ChainFits(r.chain, telegram.edit)
    BY <1>5, EditInvMeans DEF EditsFit
  <2> QED
    BY <2>1, <2>2, <2>3 DEF ChainFits, DeadEventFits, Live, EventAt
<1>8. LET o == CanonicalOrder(r, m)
      IN  o.chain = r.chain /\ o.at \in {EventAt(r), m.edit, r.seen} /\ EventAt(r) <= o.at
  BY <1>6 DEF CanonicalOrder, Order
<1>9. CanonicalOrder(r, m).at \in Nat
  BY <1>6, <1>8
<1> QED
  BY <1>2, <1>3, <1>5, <1>6, <1>7, <1>8, <1>9

LEMMA PullYieldsToLater ==
    ASSUME EditInv, LateTips, NEW a \in Archives, MergeSnapshot(a),
           Dead(snapshot.row), Stored(row[a]), ~ Dead(row'[a])
    PROVE  \E i \in DOMAIN history[a] : /\ Payload(history[a][i]) = row[a]
                                        /\ history[a][i].seen >= snapshot.row.del
<1> DEFINE r == row[a]
           revs == history[a]
           s == snapshot
           x == CurrentOrder(s.history, s.row)
           y == CurrentOrder(revs, r)
<1>1. /\ RowFits(r, clock) /\ Explained(r, revs) /\ IInv /\ clock \in Nat
      /\ revs \in Seq(Revisions) /\ Members(revs) \subseteq World
      /\ s.history \in Seq(Revisions) /\ Members(s.history) \subseteq World
  BY EditInvMeans, IInvMeans
<1>2. /\ RowFits(s.row, clock) /\ Explained(s.row, s.history) /\ Stored(s.row)
      /\ LateTip(s.row, s.history)
  BY <1>1 DEF IInv, SnapshotFits, ArchiveFits, MergeSnapshot, LateTips
<1>3. /\ ~ Accepts(revs, r, s) /\ ~ Dead(r) /\ s.row # r
      /\ r \in Payloads /\ s.row \in Payloads /\ s.row.del \in (Sent + 1) .. clock
  BY <1>1, <1>2, PulledLive, DeadRow DEF RowFits
<1>4. s.history # <<>>
  BY <1>2 DEF Explained, Chains
<1>5. /\ revs # <<>>
      /\ \E p \in World : /\ p \in Members(revs) /\ Last(p.chain).payload = r
                          /\ y.chain = p.chain
                          /\ y.at = IF r.edit # 0 THEN r.edit
                                    ELSE IF EventType(p) = "edited" /\ p.seen > Sent THEN p.seen
                                    ELSE Sent
  BY <1>1, <1>3, LiveOrder
<1>6. PICK p \in World : /\ p \in Members(revs) /\ Last(p.chain).payload = r
                         /\ y.chain = p.chain
                         /\ y.at = IF r.edit # 0 THEN r.edit
                                   ELSE IF EventType(p) = "edited" /\ p.seen > Sent THEN p.seen
                                   ELSE Sent
  BY <1>5
<1>7. PICK d \in Revisions : /\ x.chain = d.chain /\ x.at \in Nat
                             /\ s.row.del <= EventAt(d) /\ EventAt(d) <= x.at
  BY <1>1, <1>2, <1>3, <1>4, DeadOrder
<1> HIDE DEF x, y
<1>8. ~ Preferred(x, y)
  BY <1>3, <1>4, <1>5 DEF Accepts, IncomingKnown, x, y
<1>9. p \in Revisions /\ p.seen \in Nat /\ EventAt(d) \in Nat /\ r.edit \in Nat
  BY <1>3, EditInvMeans, LastOfChain, TimeOfRevision DEF Payloads
<1>10. r.edit <= p.seen /\ \A i \in DOMAIN p.chain : p.chain[i].at <= p.seen
  <2>1. SeenLast(p)
    BY EditInvMeans DEF EditsFit
  <2> QED
    BY <1>3, <1>6, <2>1 DEF SeenLast, Live, Edit
<1>11. s.row.del <= p.seen
  <2>1. CASE Descends(p.chain, d.chain)
    <3>1. /\ Len(d.chain) \in DOMAIN d.chain /\ Last(d.chain) = d.chain[Len(d.chain)]
          /\ d.chain \in Seq(Events) /\ p.chain \in Seq(Events)
      BY <1>9, LastOfChain DEF Revisions
    <3>2. /\ Len(d.chain) \in DOMAIN p.chain
          /\ p.chain[Len(d.chain)] = d.chain[Len(d.chain)]
      BY <2>1, <3>1, AncestorsAreParts
    <3>3. EventAt(d) <= p.seen
      BY <1>10, <3>1, <3>2 DEF EventAt
    <3> QED
      BY <1>3, <1>7, <1>9, <3>3 DEF Sent
  <2>2. CASE ~ Descends(p.chain, d.chain)
    <3>1. ~ (x.at > y.at)
      BY <1>6, <1>7, <1>8, <2>2 DEF Preferred
    <3>2. y.at \in Nat
      BY <1>6, <1>9 DEF Sent
    <3>3. s.row.del <= y.at
      BY <1>3, <1>7, <1>9, <3>1, <3>2 DEF Sent
    <3>4. y.at # Sent
      BY <1>3, <3>3 DEF Sent
    <3> QED
      BY <1>3, <1>6, <1>9, <1>10, <3>2, <3>3, <3>4 DEF Sent
  <2> QED
    BY <2>1, <2>2
<1> HIDE DEF s, r
<1>12. p.seen >= s.row.del
  BY <1>3, <1>9, <1>11 DEF Sent
<1>13. PICK i \in DOMAIN revs : revs[i] = p
  BY <1>6 DEF Members
<1> QED
  BY <1>6, <1>12, <1>13 DEF Payload, r, s

-----------------------------------------------------------------------------
(***************************************************************************)
(* The theorems.                                                           *)
(***************************************************************************)

\* The columns of a row hold their types and an event's time is one the clock
\* has shown, whatever is recorded, propagated, pulled or restored.
THEOREM TypeCorrect == Spec => []TypeOK
<1>1. IInv => TypeOK
  <2> SUFFICES ASSUME IInv PROVE TypeOK
    OBVIOUS
  <2>1. /\ clock \in Sent .. MaxTime /\ clock \in Nat
        /\ clock <= MaxTime /\ MaxTime \in Nat
    BY IInvMeans DEF IInv
  <2>2. telegram \in {Message(text, edit) : text \in Texts, edit \in 0 .. MaxTime}
    <3>1. PICK text \in Texts, edit \in 0 .. clock : telegram = Message(text, edit)
      BY IInvMeans
    <3>2. edit \in 0 .. MaxTime
      BY <2>1
    <3> QED
      BY <3>1, <3>2
  <2>3. ASSUME NEW a \in Archives
        PROVE  /\ row[a].text \in Texts \cup {NoText}
               /\ row[a].edit \in 0 .. clock
               /\ row[a].del \in {0} \cup (Sent + 1) .. clock
               /\ Dead(row[a]) <=> row[a].why \in {"message", "chat"}
    BY IInvMeans DEF RowFits, Payloads, Deleted
  <2>4. ASSUME NEW a \in Archives
        PROVE  /\ chat[a] \in 0 .. clock
               /\ Len(history[a]) <= MaxRevisions
               /\ \A i \in DOMAIN history[a] : EventAt(history[a][i]) \in Sent .. clock
    <3>1. chat[a] \in {0} \cup (Sent + 1) .. clock /\ HistoryFits(history[a], clock)
      BY IInvMeans DEF Recording, Deleted
    <3>2. Len(history[a]) <= MaxRevisions
      BY DEF IInv, ArchivesFit
    <3> QED
      BY <2>1, <3>1, <3>2 DEF HistoryFits, Sent
  <2> QED
    BY <2>1, <2>2, <2>3, <2>4 DEF TypeOK
<1> QED
  BY <1>1, AlwaysFits, PTL

\* Whatever an archive fetched, migrated, pulled or deleted, its message_revisions
\* hold the event that made its row: the payload of a live row, the deletion of a
\* tombstone (insertMessages, recordPropagatedMessageDeletions, importSnapshot).
THEOREM RowsAreRecorded == Spec => []RowIsRecorded
<1>1. IInv => RowIsRecorded
  <2> SUFFICES ASSUME IInv, NEW a \in Archives, Stored(row[a])
               PROVE  \E i \in DOMAIN history[a] :
                         IF Dead(row[a])
                         THEN /\ EventType(history[a][i]) = "deleted"
                              /\ EventAt(history[a][i]) = row[a].del
                         ELSE Payload(history[a][i]) = row[a]
    BY DEF RowIsRecorded
  <2>1. PICK chain \in Chains(history[a]) : Explains(chain, row[a])
    BY IInvMeans DEF Explained
  <2>2. PICK i \in DOMAIN history[a] : chain = history[a][i].chain
    BY DEF Chains
  <2> QED
    BY <2>1, <2>2 DEF Explains, EventType, EventAt, Payload
<1> QED
  BY <1>1, AlwaysFits, PTL

\* Every archive's message_revisions hold each event once and with it the whole
\* chain of its predecessors, in whatever order the archives pull from each other
\* (insertMessageRevision, messageRevisionPredecessor, revisionDescendsFrom).
THEOREM HistoriesAreClosed == Spec => []HistoryIsClosed
<1>1. IInv => HistoryIsClosed
  BY IInvMeans DEF HistoryIsClosed, Recording, Closed
<1> QED
  BY <1>1, AlwaysFits, PTL

\* However edits, pulls and fetches interleave: of two live versions, pulling a
\* snapshot never takes the one with the older Telegram edit
\* (mergeableSnapshotMessages, preferRevisionOrder, canonicalRevisionOrder).
THEOREM NewerEditsSurvive == Spec => MergeKeepsNewerEdit
<1> DEFINE Keeps == \A a \in Archives :
                       row'[a].edit < row[a].edit /\ ~ Dead(row[a]) /\ ~ Dead(row'[a])
                       => ~ MergeSnapshot(a)
<1>1. EditInv => Keeps
  BY PullKeepsNewerEdit
<1>2. Spec => [][Keeps]_vars
  BY <1>1, AlwaysEdits, PTL DEF Spec
<1> QED
  BY <1>2 DEF MergeKeepsNewerEdit

\* Whatever was exchanged before: a pull that revives a message the archive holds
\* as deleted does it by an event recorded after one of the archive's, and after
\* the deletion itself where that was recorded with the row
\* (mergeableSnapshotMessages, revisionDescendsFrom).
THEOREM ResurrectionHasACause == Spec => ResurrectionIsCausal
<1> DEFINE Caused == \A a \in Archives :
                        Dead(row[a]) /\ ~ Dead(row'[a]) /\ MergeSnapshot(a) =>
                           \E x \in Chains(history'[a]), y \in Chains(history[a]) :
                              /\ Last(x).payload = row'[a]
                              /\ Descends(x, y)
                              /\ HasPayload(history[a], row[a]) =>
                                    Last(y).type = "deleted" /\ Last(y).payload = row[a]
<1>1. EditInv => Caused
  BY PullResurrects
<1>2. Spec => [][Caused]_vars
  BY <1>1, AlwaysEdits, PTL DEF Spec
<1> QED
  BY <1>2 DEF ResurrectionIsCausal

\* Whatever was exchanged before: a pull that leaves a message live although the
\* snapshot holds it as deleted leaves the archive's own version, and that was
\* observed no earlier than the deletion
\* (mergeableSnapshotMessages, messageRevisionPredecessor, queryAllMessageRevisions).
THEOREM DeletionsYieldOnlyToLater == Spec => DeletionYieldsOnlyToLater
<1> DEFINE Yields == \A a \in Archives :
                        Dead(snapshot.row) /\ Stored(row[a]) /\ ~ Dead(row'[a])
                        /\ MergeSnapshot(a) =>
                           \E i \in DOMAIN history[a] :
                              /\ Payload(history[a][i]) = row[a]
                              /\ history[a][i].seen >= snapshot.row.del
<1>1. EditInv /\ LateTips => Yields
  BY PullYieldsToLater
<1>2. Spec => [][Yields]_vars
  BY <1>1, AlwaysEdits, AlwaysLate, PTL DEF Spec
<1> QED
  BY <1>2 DEF DeletionYieldsOnlyToLater

=============================================================================
