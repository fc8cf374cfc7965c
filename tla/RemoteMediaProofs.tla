------------------------- MODULE RemoteMediaProofs -------------------------
(***************************************************************************)
(* Proofs about RemoteMedia, for any number of messages and accounts: the  *)
(* counts of an import are true however many sessions it took, and each    *)
(* message has the file of its own.  The invariant says what is counted    *)
(* and what is tried at each step on the way.                              *)
(***************************************************************************)
EXTENDS RemoteMedia, FiniteSetTheorems, WellFoundedInduction, TLAPS

-----------------------------------------------------------------------------
(***************************************************************************)
(* The inductive invariant.                                                *)
(***************************************************************************)
\* The counts of t are those of the messages in S, each of which is counted once.
Counts(t, S, f) ==
    /\ t.downloaded + t.unavailable + t.failed = Cardinality(S)
    /\ t.attempted <= Cardinality(S)
    /\ t.downloaded <= Cardinality({m \in S : f[m] # NoFile})

\* The accounts whose messages have not been dealt with, and the messages of the others.
Waiting == accounts \cup IF pc \in {"session", "message"} THEN {account} ELSE {}

Settled ==
    IF pc \in {"clear", "finish", "done"} THEN candidates
    ELSE {m \in candidates : Record[m].account \notin Waiting}

StatsFit ==
    /\ pc = "share" => candidates = {}
    /\ pc \in {"share", "none"} => stats = Zero
    /\ Counts(stats, Settled, file)

\* Another session is only tried when the own one is not there or broke.
SessionFits ==
    /\ pc \in {"session", "message"} => account \in Account \ accounts
    /\ pc = "session" => tried \subseteq broken
    /\ pc = "message" =>
          /\ session \in tried /\ tried \ {session} \subseteq broken
          /\ session # account => account \in broken \cup (Account \ sessions)
          /\ todo \subseteq Indexes(account)
          /\ Counts(tally, Indexes(account) \ todo, file)

IInv ==
    /\ TypeOK
    /\ StatsFit
    /\ SessionFits
    /\ OwnMedia

-----------------------------------------------------------------------------
(***************************************************************************)
(* The least of the accounts, and of the messages with a file.             *)
(***************************************************************************)
Less == {ss \in Nat \X Nat : ss[1] < ss[2]}

LEMMA LessWellFounded == IsWellFoundedOn(Less, Nat)
<1>1. OpToRel(<, Nat) = Less
  BY Zenon DEF OpToRel, Less
<1> QED
  BY NatLessThanWellFounded, <1>1, Zenon

LEMMA LeastIsMember ==
    ASSUME NEW S \in SUBSET Nat, S # {}
    PROVE  Min(S) \in S
<1>1. PICK x \in S : \A y \in S : <<y, x>> \notin Less
  BY LessWellFounded, WFMin
<1>2. ASSUME NEW y \in S PROVE x <= y
  <2>1. <<y, x>> \in Nat \X Nat /\ <<y, x>>[1] = y /\ <<y, x>>[2] = x
    OBVIOUS
  <2>2. ~ (y < x)
    BY <1>1, <2>1 DEF Less
  <2> QED
    BY <2>2
<1> QED
  BY <1>1, <1>2 DEF Min

-----------------------------------------------------------------------------
(***************************************************************************)
(* What sharing does to the files.                                         *)
(***************************************************************************)
Files == [Message -> File \cup {NoFile}]

LEMMA SeenIsFile ==
    ASSUME NEW m \in Message, NEW by \in Account
    PROVE  Seen(by, m) \in File /\ Seen(by, m) # NoFile
BY RemoteMediaAssumption DEF Seen, File, RecordType

LEMMA OwnIsFile ==
    ASSUME NEW m \in Message
    PROVE  Own(m) \in File /\ Own(m) # NoFile /\ Record[m].account \in Account
<1>1. Record[m].account \in Account
  BY RemoteMediaAssumption DEF RecordType
<1> QED
  BY <1>1, SeenIsFile DEF Own

LEMMA RelatedFacts ==
    ASSUME NEW m \in Message
    PROVE  /\ Related[m] \subseteq Message
           /\ m \in Related[m]
           /\ \A k \in Twins[m] \cup Sharers[m] : k \in Message /\ Related[k] \subseteq Related[m]
<1>1. Twins[m] \cup Sharers[m] \subseteq Message
  BY DEF Twins, Sharers
<1>2. ASSUME NEW k \in Twins[m] \cup Sharers[m], NEW n \in Related[k],
             NEW S \in SUBSET Message, m \in S, Sharing(S)
      PROVE  n \in S
  BY <1>1, <1>2 DEF Sharing, Related
<1> QED
  BY <1>1, <1>2 DEF Related

LEMMA SharedFromFacts ==
    ASSUME NEW others \in [Message -> SUBSET Message], NEW f \in Files
    PROVE  /\ SharedFrom(others, f) \in Files
           /\ \A m \in Message : f[m] # NoFile => SharedFrom(others, f)[m] = f[m]
           /\ \A m \in Message : \E n \in others[m] \cup {m} : SharedFrom(others, f)[m] = f[n]
<1> DEFINE having(m) == {n \in others[m] : f[n] # NoFile}
<1>1. ASSUME NEW m \in Message, having(m) # {}
      PROVE  Min(having(m)) \in having(m) /\ having(m) \subseteq Message
  BY <1>1, LeastIsMember DEF Message
<1>2. ASSUME NEW m \in Message
      PROVE  SharedFrom(others, f)[m] =
               IF f[m] = NoFile /\ m \in typed /\ having(m) # {} THEN f[Min(having(m))] ELSE f[m]
  BY DEF SharedFrom
<1>3. ASSUME NEW m \in Message
      PROVE  \E n \in others[m] \cup {m} : n \in Message /\ SharedFrom(others, f)[m] = f[n]
  BY <1>1, <1>2
<1>4. SharedFrom(others, f) \in Files
  <2>1. \A m \in Message : SharedFrom(others, f)[m] \in File \cup {NoFile}
    BY <1>3 DEF Files
  <2>2. SharedFrom(others, f) = [m \in Message |-> SharedFrom(others, f)[m]]
    BY DEF SharedFrom
  <2> QED
    BY <2>1, <2>2 DEF Files
<1> QED
  BY <1>2, <1>3, <1>4

\* Sharing gives a message the file of a related one, and takes none away.
LEMMA SharedFacts ==
    ASSUME NEW f \in Files
    PROVE  /\ Shared(f) \in Files
           /\ \A m \in Message : f[m] # NoFile => Shared(f)[m] # NoFile
           /\ \A m \in Message : \E n \in Related[m] : Shared(f)[m] = f[n]
<1> DEFINE g == SharedFrom(Twins, f)
<1>1. Twins \in [Message -> SUBSET Message] /\ Sharers \in [Message -> SUBSET Message]
  BY DEF Twins, Sharers
<1>2. /\ g \in Files
      /\ \A m \in Message : f[m] # NoFile => g[m] = f[m]
      /\ \A m \in Message : \E n \in Twins[m] \cup {m} : g[m] = f[n]
  BY <1>1, SharedFromFacts
<1> HIDE DEF g
<1>3. /\ SharedFrom(Sharers, g) \in Files
      /\ \A m \in Message : g[m] # NoFile => SharedFrom(Sharers, g)[m] = g[m]
      /\ \A m \in Message : \E n \in Sharers[m] \cup {m} : SharedFrom(Sharers, g)[m] = g[n]
  BY <1>1, <1>2, SharedFromFacts
<1>4. ASSUME NEW m \in Message
      PROVE  \E n \in Related[m] : SharedFrom(Sharers, g)[m] = f[n]
  <2>1. PICK k \in Sharers[m] \cup {m} : SharedFrom(Sharers, g)[m] = g[k]
    BY <1>3
  <2>2. k \in Message /\ Related[k] \subseteq Related[m]
    BY RelatedFacts
  <2>3. PICK n \in Twins[k] \cup {k} : g[k] = f[n]
    BY <1>2, <2>2
  <2>4. n \in Message /\ n \in Related[n] /\ Related[n] \subseteq Related[k]
    BY <2>2, <2>3, RelatedFacts
  <2> QED
    BY <2>1, <2>2, <2>3, <2>4
<1> QED
  BY <1>2, <1>3, <1>4 DEF Shared, g

\* OwnMedia, of any files.
Owned(f) ==
    \A m \in Message : f[m] # NoFile =>
        \E n \in Related[m] :
            \/ f[m] = Own(n)
            \/ /\ f[m].key = Record[n].key
               /\ Record[n].account \in broken \cup (Account \ sessions)

LEMMA SharedIsOwned ==
    ASSUME NEW f \in Files, Owned(f)
    PROVE  Owned(Shared(f))
<1> SUFFICES ASSUME NEW m \in Message, Shared(f)[m] # NoFile
             PROVE  \E n \in Related[m] :
                      \/ Shared(f)[m] = Own(n)
                      \/ /\ Shared(f)[m].key = Record[n].key
                         /\ Record[n].account \in broken \cup (Account \ sessions)
  BY DEF Owned
<1>1. PICK k \in Related[m] : Shared(f)[m] = f[k]
  BY SharedFacts
<1>2. k \in Message /\ Related[k] \subseteq Related[m]
  BY <1>1, RelatedFacts DEF Related
<1> QED
  BY <1>1, <1>2 DEF Owned

\* The messages of a set that have a file, and still have one.
Keeps(f, g) == \A m \in Message : f[m] # NoFile => g[m] # NoFile

-----------------------------------------------------------------------------
(***************************************************************************)
(* Counting.                                                               *)
(***************************************************************************)
LEMMA MessagesFinite ==
    ASSUME NEW S \in SUBSET Message
    PROVE  IsFiniteSet(S) /\ Cardinality(S) \in Nat /\ Cardinality(S) <= Messages
<1>1. IsFiniteSet(Message) /\ Cardinality(Message) = Messages
  BY FS_Interval, RemoteMediaAssumption DEF Message
<1> QED
  BY <1>1, FS_Subset, FS_CardinalityType

\* Of the messages with a file, no more are counted than there are.
LEMMA MissingBound ==
    ASSUME NEW f, NEW media \in SUBSET Message
    PROVE  MissingCount(f, media) \in 0 .. Messages
<1> DEFINE S == Wanting(f, media)
           T == {DuplicateKey(m) : m \in S}
           key == [m \in S |-> DuplicateKey(m)]
<1>1. S \subseteq Message
  BY DEF Wanting
<1>2. IsFiniteSet(S) /\ Cardinality(S) \in Nat /\ Cardinality(S) <= Messages
  BY <1>1, MessagesFinite
<1>3. key \in Surjection(S, T)
  BY DEF Surjection
<1>4. IsFiniteSet(T) /\ Cardinality(T) <= Cardinality(S)
  BY <1>2, <1>3, FS_Surjection
<1>5. Cardinality(T) \in Nat
  BY <1>4, FS_CardinalityType
<1> QED
  BY <1>2, <1>4, <1>5, RemoteMediaAssumption DEF MissingCount

LEMMA UnionCount ==
    ASSUME NEW S \in SUBSET Message, NEW T \in SUBSET Message, S \cap T = {}
    PROVE  Cardinality(S \cup T) = Cardinality(S) + Cardinality(T)
<1>1. IsFiniteSet(S) /\ IsFiniteSet(T) /\ Cardinality(S) \in Nat /\ Cardinality(T) \in Nat
  BY MessagesFinite
<1>2. Cardinality(S \cap T) = 0
  BY FS_EmptySet
<1>3. Cardinality(S \cup T) = Cardinality(S) + Cardinality(T) - Cardinality(S \cap T)
  BY <1>1, FS_Union
<1> QED
  BY <1>1, <1>2, <1>3

LEMMA CountsZero == ASSUME NEW f PROVE Counts(Zero, {}, f)
<1>1. {m \in {} : f[m] # NoFile} = {}
  OBVIOUS
<1> QED
  BY <1>1, FS_EmptySet DEF Counts, Zero

\* Two sets of messages that have been counted apart.
LEMMA CountsAdd ==
    ASSUME NEW f, NEW t \in Tally, NEW u \in Tally,
           NEW S \in SUBSET Message, NEW T \in SUBSET Message, S \cap T = {},
           Counts(t, S, f), Counts(u, T, f)
    PROVE  Sum(t, u) \in Tally /\ Counts(Sum(t, u), S \cup T, f)
<1> DEFINE FS == {m \in S : f[m] # NoFile}
           FT == {m \in T : f[m] # NoFile}
<1>1. Cardinality(S \cup T) = Cardinality(S) + Cardinality(T)
  BY UnionCount
<1>2. Cardinality(FS \cup FT) = Cardinality(FS) + Cardinality(FT)
  <2>1. FS \cap FT = {}
    OBVIOUS
  <2>2. FS \in SUBSET Message /\ FT \in SUBSET Message
    OBVIOUS
  <2> HIDE DEF FS, FT
  <2> QED
    BY <2>1, <2>2, UnionCount
<1>3. {m \in S \cup T : f[m] # NoFile} = FS \cup FT
  OBVIOUS
<1>4. /\ Cardinality(S) \in Nat /\ Cardinality(T) \in Nat
      /\ Cardinality(FS) \in Nat /\ Cardinality(FT) \in Nat
  BY MessagesFinite
<1>5. /\ Sum(t, u).attempted = t.attempted + u.attempted
      /\ Sum(t, u).downloaded = t.downloaded + u.downloaded
      /\ Sum(t, u).unavailable = t.unavailable + u.unavailable
      /\ Sum(t, u).failed = t.failed + u.failed
      /\ Sum(t, u) \in Tally
  BY DEF Sum, Tally
<1> HIDE DEF FS, FT
<1>6. /\ t.attempted \in Nat /\ t.downloaded \in Nat /\ t.unavailable \in Nat /\ t.failed \in Nat
      /\ u.attempted \in Nat /\ u.downloaded \in Nat /\ u.unavailable \in Nat /\ u.failed \in Nat
  BY DEF Tally
<1>7. /\ t.downloaded + t.unavailable + t.failed = Cardinality(S)
      /\ t.attempted <= Cardinality(S) /\ t.downloaded <= Cardinality(FS)
      /\ u.downloaded + u.unavailable + u.failed = Cardinality(T)
      /\ u.attempted <= Cardinality(T) /\ u.downloaded <= Cardinality(FT)
  BY DEF Counts, FS, FT
<1>8. /\ Sum(t, u).downloaded + Sum(t, u).unavailable + Sum(t, u).failed = Cardinality(S \cup T)
      /\ Sum(t, u).attempted <= Cardinality(S \cup T)
      /\ Sum(t, u).downloaded <= Cardinality(FS \cup FT)
  BY <1>1, <1>2, <1>4, <1>5, <1>6, <1>7
<1> QED
  BY <1>3, <1>5, <1>8 DEF Counts

\* Counts stay true as long as no file goes away.
LEMMA CountsKept ==
    ASSUME NEW f, NEW g, Keeps(f, g), NEW t \in Tally, NEW S \in SUBSET Message, Counts(t, S, f)
    PROVE  Counts(t, S, g)
<1> DEFINE F == {m \in S : f[m] # NoFile}
           G == {m \in S : g[m] # NoFile}
<1>1. F \subseteq G /\ G \subseteq Message /\ F \subseteq Message
  BY DEF Keeps
<1>2. Cardinality(F) <= Cardinality(G)
  BY <1>1, MessagesFinite, FS_Subset
<1>3. Cardinality(F) \in Nat /\ Cardinality(G) \in Nat /\ t.downloaded \in Nat
  BY <1>1, MessagesFinite DEF Tally
<1>4. t.downloaded <= Cardinality(F)
  BY DEF Counts
<1> HIDE DEF F, G
<1>5. t.downloaded <= Cardinality(G)
  BY <1>2, <1>3, <1>4
<1> QED
  BY <1>5 DEF Counts, G

LEMMA CountsOne ==
    ASSUME NEW f, NEW m \in Message, NEW result \in {Downloaded, Unavailable, Failed},
           result = Downloaded => f[m] # NoFile
    PROVE  result \in Tally /\ Counts(result, {m}, f)
<1>1. Cardinality({m}) = 1
  BY FS_Singleton
<1>3. result \in Tally
  BY DEF Downloaded, Unavailable, Failed, Tally
<1> DEFINE F == {n \in {m} : f[n] # NoFile}
<1>4. Cardinality(F) \in Nat /\ (result = Downloaded => Cardinality(F) = 1)
  <2>1. result = Downloaded => F = {m}
    OBVIOUS
  <2> QED
    BY <1>1, <2>1, MessagesFinite
<1>5. /\ result.downloaded + result.unavailable + result.failed = 1
      /\ result.attempted = 1
      /\ result.downloaded \in {0, 1}
      /\ result.downloaded = 1 => result = Downloaded
  BY DEF Downloaded, Unavailable, Failed
<1> HIDE DEF F
<1>6. result.downloaded <= Cardinality(F)
  BY <1>4, <1>5
<1>7. result.attempted <= Cardinality({m})
  BY <1>1, <1>5
<1> QED
  BY <1>1, <1>3, <1>5, <1>6, <1>7 DEF Counts, F

-----------------------------------------------------------------------------
(***************************************************************************)
(* The invariant at first, and after each step.                            *)
(***************************************************************************)
LEMMA OwnedIsOwn == OwnMedia <=> Owned(file)
BY DEF OwnMedia, Owned

\* Files that are of each message's own account belong to it.
LEMMA OwnOfIsOwned ==
    ASSUME NEW some \in SUBSET Message
    PROVE  OwnOf(some) \in Files /\ Owned(OwnOf(some))
<1>1. OwnOf(some) \in Files
  BY OwnIsFile DEF OwnOf, Files
<1>2. \A m \in Message : m \in Related[m]
  BY RelatedFacts
<1> QED
  BY <1>1, <1>2 DEF OwnOf, Owned

LEMMA InitFits == Init => IInv
<1> SUFFICES ASSUME Init PROVE IInv
  OBVIOUS
<1>1. PICK cached \in SUBSET Message, archived \in SUBSET Message :
        file = [m \in Message |->
                  IF Shared(OwnOf(cached))[m] # NoFile
                  THEN Shared(OwnOf(cached))[m] ELSE OwnOf(archived)[m]]
  BY DEF Init
<1> DEFINE local == Shared(OwnOf(cached))
<1>2. local \in Files /\ Owned(local)
  BY OwnOfIsOwned, SharedFacts, SharedIsOwned
<1>3. OwnOf(archived) \in Files /\ Owned(OwnOf(archived))
  BY OwnOfIsOwned
<1> HIDE DEF local
<1>4. file \in [Message -> File \cup {NoFile}] /\ Owned(file)
  BY <1>1, <1>2, <1>3 DEF Files, Owned, local
<1>5. TypeOK
  <2>1. Zero \in Tally
    BY DEF Zero, Tally
  <2>2. missing \in 0 .. Messages
    BY RemoteMediaAssumption DEF Init
  <2> QED
    BY <1>4, <2>1, <2>2 DEF Init, TypeOK
<1>6. StatsFit
  <2>1. Settled = {}
    BY DEF Init, Settled
  <2> QED
    BY <2>1, CountsZero DEF Init, StatsFit
<1>7. SessionFits
  BY DEF Init, SessionFits
<1> QED
  BY <1>4, <1>5, <1>6, <1>7, OwnedIsOwn DEF IInv

\* What is counted are messages.
LEMMA CountedMessages ==
    ASSUME TypeOK
    PROVE  /\ Settled \in SUBSET Message
           /\ \A a : Indexes(a) \in SUBSET Message
           /\ file \in Files
BY DEF TypeOK, Settled, Indexes, Files

LEMMA StartFits ==
    ASSUME IInv, Start
    PROVE  IInv'
<1> DEFINE found == {m \in Wanting(file', typed) : ~Record[m].old}
<1>1. /\ pc = "share" /\ file' = Shared(Shared(file))
      /\ candidates' = found /\ accounts' = {Record[m].account : m \in found}
      /\ missing' = MissingCount(file', typed)
      /\ pc' \in {"finish", "none", "account"}
      /\ pc' = "finish" => found = {}
      /\ UNCHANGED <<typed, sessions, account, session, tried, todo, tally, stats, broken>>
  BY DEF Start, Goto
<1>2. file \in Files /\ Owned(file) /\ stats = Zero /\ candidates = {}
  BY <1>1, CountedMessages, OwnedIsOwn DEF IInv, StatsFit
<1>3. file' \in Files /\ Owned(file')
  BY <1>1, <1>2, SharedFacts, SharedIsOwned
<1>4. found \subseteq Message /\ typed \subseteq Message
  BY DEF Wanting, IInv, TypeOK
<1>5. missing' \in 0 .. Messages
  BY <1>1, <1>4, MissingBound
<1>6. accounts' \subseteq Account
  BY <1>1, <1>4, OwnIsFile
<1>7. todo = {}
  BY <1>2 DEF IInv, TypeOK
<1> HIDE DEF found
<1>8. TypeOK'
  BY <1>1, <1>3, <1>4, <1>5, <1>6, <1>7 DEF IInv, TypeOK, Files
<1>9. Settled' = {}
  BY <1>1 DEF Settled, Waiting
<1>10. Counts(Zero, {}, file')
  BY CountsZero
<1>11. StatsFit'
  BY <1>1, <1>2, <1>9, <1>10 DEF StatsFit
<1>12. SessionFits'
  BY <1>1 DEF SessionFits
<1>13. OwnMedia'
  BY <1>1, <1>3 DEF OwnMedia, Owned
<1> QED
  BY <1>8, <1>11, <1>12, <1>13 DEF IInv

LEMMA NoSessionsFits ==
    ASSUME IInv, NoSessions
    PROVE  IInv'
<1> DEFINE n == Cardinality(candidates)
<1>1. /\ pc = "none" /\ pc' = "finish"
      /\ typed' = Typed(file) /\ missing' = MissingCount(file, typed')
      /\ stats' = [stats EXCEPT !.unavailable = n]
      /\ UNCHANGED <<file, given, round, broken>>
  BY DEF NoSessions, Goto
<1>2. stats = Zero /\ candidates \in SUBSET Message
  BY <1>1 DEF IInv, StatsFit, TypeOK
<1>3. n \in Nat
  BY <1>2, MessagesFinite
<1> HIDE DEF n
<1>4. stats' = [attempted |-> 0, downloaded |-> 0, unavailable |-> n, failed |-> 0]
  BY <1>1, <1>2 DEF Zero
<1>5. typed' \in SUBSET Message
  BY <1>1 DEF Typed, IInv, TypeOK
<1>6. missing' \in 0 .. Messages
  BY <1>1, <1>5, MissingBound
<1>7. stats' \in Tally
  BY <1>3, <1>4 DEF Tally
<1>8. TypeOK'
  BY <1>1, <1>5, <1>6, <1>7 DEF IInv, TypeOK, given, round
<1>9. Settled' = candidates
  BY <1>1 DEF Settled, given
<1>10. Counts(stats', candidates, file')
  <2> DEFINE F == {m \in candidates : file'[m] # NoFile}
  <2>1. Cardinality(F) \in Nat
    BY <1>2, MessagesFinite
  <2>2. /\ stats'.downloaded + stats'.unavailable + stats'.failed = n
        /\ stats'.attempted <= n /\ stats'.downloaded = 0
    BY <1>3, <1>4
  <2> HIDE DEF F
  <2>3. stats'.downloaded <= Cardinality(F)
    BY <2>1, <2>2
  <2> QED
    BY <2>2, <2>3 DEF Counts, F, n
<1>11. StatsFit' /\ SessionFits'
  BY <1>1, <1>9, <1>10 DEF StatsFit, SessionFits
<1>12. OwnMedia'
  BY <1>1 DEF IInv, OwnMedia, given
<1> QED
  BY <1>8, <1>11, <1>12 DEF IInv

-----------------------------------------------------------------------------
(***************************************************************************)
(* The steps for the messages of one account.                              *)
(***************************************************************************)
LEMMA NextAccountFits ==
    ASSUME IInv, NextAccount
    PROVE  IInv'
<1>1. PICK a \in accounts : accounts' = accounts \ {a} /\ account' = a
  BY DEF NextAccount
<1>2. /\ pc = "account" /\ pc' = "session" /\ tried' = {}
      /\ UNCHANGED <<file, typed, given, session, todo, tally, stats, missing, broken>>
  BY DEF NextAccount, Goto
<1>3. TypeOK'
  BY <1>1, <1>2 DEF IInv, TypeOK, given
<1>4. Settled' = Settled
  BY <1>1, <1>2 DEF Settled, Waiting, given
<1>5. StatsFit'
  BY <1>2, <1>4 DEF IInv, StatsFit
<1>6. SessionFits'
  BY <1>1, <1>2, <1>3 DEF IInv, TypeOK, SessionFits
<1>7. OwnMedia'
  BY <1>2 DEF IInv, OwnMedia, given
<1> QED
  BY <1>3, <1>5, <1>6, <1>7 DEF IInv

LEMMA PreferredFacts ==
    ASSUME TypeOK, sessions \ tried # {}
    PROVE  /\ Preferred \in sessions \ tried
           /\ account \in sessions \ tried => Preferred = account
<1>1. sessions \ tried \in SUBSET Nat
  BY DEF TypeOK, Account
<1>2. Min(sessions \ tried) \in sessions \ tried
  BY <1>1, LeastIsMember
<1> QED
  BY <1>2 DEF Preferred

LEMMA NextSessionFits ==
    ASSUME IInv, NextSession
    PROVE  IInv'
<1>1. /\ pc = "session" /\ pc' = "message" /\ sessions \ tried # {}
      /\ session' = Preferred /\ tried' = tried \cup {session'}
      /\ todo' = Indexes(account) /\ tally' = Zero
      /\ UNCHANGED <<file, typed, given, accounts, account, stats, missing, broken>>
  BY DEF NextSession, Goto
<1>2. session' \in sessions \ tried /\ (account \in sessions \ tried => session' = account)
  BY <1>1, PreferredFacts DEF IInv
<1>3. account \in Account \ accounts /\ tried \subseteq broken
  BY <1>1 DEF IInv, SessionFits
<1>4. Zero \in Tally
  BY DEF Zero, Tally
<1>5. Indexes(account) \subseteq candidates
  BY DEF Indexes
<1>6. TypeOK'
  BY <1>1, <1>2, <1>4, <1>5 DEF IInv, TypeOK, given
<1>7. Settled' = Settled
  BY <1>1 DEF Settled, Waiting, given
<1>8. StatsFit'
  BY <1>1, <1>7 DEF IInv, StatsFit
<1>9. SessionFits'
  <2>1. Indexes(account)' = Indexes(account)
    BY <1>1 DEF Indexes, given
  <2>2. Counts(Zero, {}, file') /\ (Indexes(account) \ todo)' = {}
    BY <1>1, <2>1, CountsZero
  <2>3. session' # account => account \in broken \cup (Account \ sessions)
    BY <1>2, <1>3
  <2>4. session' \in tried' /\ tried' \ {session'} \subseteq broken
    BY <1>1, <1>3
  <2> QED
    BY <1>1, <1>3, <2>1, <2>2, <2>3, <2>4 DEF SessionFits, given
<1>10. OwnMedia'
  BY <1>1 DEF IInv, OwnMedia, given
<1> QED
  BY <1>6, <1>8, <1>9, <1>10 DEF IInv

\* The messages of an account that is no longer waiting are settled.
LEMMA AccountSettled ==
    ASSUME IInv, pc \in {"session", "message"}, pc' = "shared",
           UNCHANGED <<candidates, accounts, account>>
    PROVE  /\ Settled' = Settled \cup Indexes(account)
           /\ Settled \cap Indexes(account) = {}
<1>1. account \notin accounts
  BY DEF IInv, SessionFits
<1>2. Settled = {m \in candidates : Record[m].account \notin accounts \cup {account}}
  BY DEF Settled, Waiting
<1>3. Settled' = {m \in candidates : Record[m].account \notin accounts}
  BY DEF Settled, Waiting
<1> QED
  BY <1>1, <1>2, <1>3 DEF Indexes

LEMMA NotHandledFits ==
    ASSUME IInv, NotHandled
    PROVE  IInv'
<1> DEFINE n == Cardinality(Indexes(account))
           u == [attempted |-> 0, downloaded |-> 0, unavailable |-> n, failed |-> 0]
<1>1. /\ pc = "session" /\ pc' = "shared"
      /\ stats' = [stats EXCEPT !.unavailable = stats.unavailable + n]
      /\ UNCHANGED <<file, typed, given, round, missing, broken>>
  BY DEF NotHandled, Goto
<1>2. /\ Settled \in SUBSET Message /\ Indexes(account) \in SUBSET Message
      /\ stats \in Tally
  BY CountedMessages DEF IInv, TypeOK
<1>3. n \in Nat
  BY <1>2, MessagesFinite
<1>4. u \in Tally
  BY <1>3 DEF Tally
<1>5. Counts(u, Indexes(account), file)
  <2> DEFINE F == {m \in Indexes(account) : file[m] # NoFile}
  <2>1. Cardinality(F) \in Nat
    BY <1>2, MessagesFinite
  <2> HIDE DEF F
  <2>2. /\ u.downloaded + u.unavailable + u.failed = n
        /\ u.attempted <= n /\ u.downloaded <= Cardinality(F)
    BY <1>3, <2>1
  <2> QED
    BY <2>2 DEF Counts, F
<1>6. stats' = Sum(stats, u)
  <2>1. stats' = [attempted |-> stats.attempted, downloaded |-> stats.downloaded,
                  unavailable |-> stats.unavailable + n, failed |-> stats.failed]
    BY <1>1, <1>2 DEF Tally
  <2> HIDE DEF n
  <2>2. /\ stats.attempted + 0 = stats.attempted /\ stats.downloaded + 0 = stats.downloaded
        /\ stats.failed + 0 = stats.failed
    BY <1>2 DEF Tally
  <2> QED
    BY <2>1, <2>2 DEF Sum
<1> HIDE DEF u, n
<1>7. /\ Settled' = Settled \cup Indexes(account)
      /\ Settled \cap Indexes(account) = {}
  BY <1>1, AccountSettled DEF given, round
<1>8. stats' \in Tally /\ Counts(stats', Settled', file)
  BY <1>2, <1>4, <1>5, <1>6, <1>7, CountsAdd DEF IInv, StatsFit
<1>9. TypeOK'
  BY <1>1, <1>8 DEF IInv, TypeOK, given, round
<1>10. StatsFit' /\ SessionFits'
  BY <1>1, <1>8 DEF StatsFit, SessionFits
<1>11. OwnMedia'
  BY <1>1 DEF IInv, OwnMedia, given
<1> QED
  BY <1>9, <1>10, <1>11 DEF IInv

\* A message that is counted, whatever came of it.
LEMMA CountFits ==
    ASSUME IInv, pc = "message", NEW m \in todo,
           NEW result \in {Downloaded, Unavailable, Failed}, Count(m, result),
           file' \in Files, Keeps(file, file'), OwnMedia',
           result = Downloaded => file'[m] # NoFile
    PROVE  IInv'
<1>1. /\ todo' = todo \ {m} /\ tally' = Sum(tally, result)
      /\ UNCHANGED <<typed, given, pc, accounts, account, session, tried, stats, missing, broken>>
  BY DEF Count
<1>2. /\ tally \in Tally /\ stats \in Tally /\ todo \subseteq Indexes(account) /\ m \in Message
      /\ Settled \in SUBSET Message /\ Indexes(account) \in SUBSET Message
      /\ Counts(tally, Indexes(account) \ todo, file) /\ Counts(stats, Settled, file)
  BY CountedMessages DEF IInv, TypeOK, SessionFits, StatsFit
<1>3. Counts(tally, Indexes(account) \ todo, file') /\ Counts(stats, Settled, file')
  BY <1>2, CountsKept
<1>4. result \in Tally /\ Counts(result, {m}, file')
  BY <1>2, CountsOne
<1>5. /\ Indexes(account) \ todo' = (Indexes(account) \ todo) \cup {m}
      /\ (Indexes(account) \ todo) \cap {m} = {}
  BY <1>1, <1>2
<1>6. tally' \in Tally /\ Counts(tally', Indexes(account) \ todo', file')
  BY <1>1, <1>2, <1>3, <1>4, <1>5, CountsAdd
<1>7. TypeOK'
  BY <1>1, <1>6 DEF IInv, TypeOK, Files, given
<1>8. Settled' = Settled /\ Indexes(account)' = Indexes(account)
  BY <1>1 DEF Settled, Waiting, Indexes, given
<1>9. StatsFit'
  BY <1>1, <1>3, <1>8 DEF StatsFit
<1>10. SessionFits'
  BY <1>1, <1>2, <1>6, <1>8 DEF IInv, SessionFits, given
<1> QED
  BY <1>7, <1>9, <1>10 DEF IInv

LEMMA DownloadFits ==
    ASSUME IInv, Download
    PROVE  IInv'
<1>1. PICK m \in todo : file' = [file EXCEPT ![m] = Seen(session, m)] /\ Count(m, Downloaded)
  BY DEF Download
<1>2. /\ pc = "message" /\ m \in Indexes(account) /\ m \in Message
      /\ session \in tried /\ session \in Account /\ file \in Files
      /\ session # account => account \in broken \cup (Account \ sessions)
  BY <1>1, CountedMessages DEF Download, IInv, TypeOK, SessionFits
<1>3. Seen(session, m) \in File /\ Seen(session, m) # NoFile
  BY <1>2, SeenIsFile
<1>4. file' \in Files /\ Keeps(file, file') /\ file'[m] = Seen(session, m)
  BY <1>1, <1>2, <1>3 DEF Files, Keeps
<1>5. UNCHANGED <<broken, sessions>>
  BY <1>1 DEF Count, given
<1>6. OwnMedia'
  <2> SUFFICES ASSUME NEW k \in Message, file'[k] # NoFile
               PROVE  \E n \in Related[k] :
                        \/ file'[k] = Own(n)
                        \/ /\ file'[k].key = Record[n].key
                           /\ Record[n].account \in broken \cup (Account \ sessions)
    BY <1>5 DEF OwnMedia
  <2>1. CASE k # m
    BY <1>1, <1>2, <2>1 DEF Files, IInv, OwnMedia
  <2>2. CASE k = m
    <3>1. Record[m].account = account /\ m \in Related[m]
      BY <1>2, RelatedFacts DEF Indexes
    <3>2. CASE session = account \/ Record[m].channel
      BY <1>4, <2>2, <3>1, <3>2 DEF Own, Seen
    <3>3. CASE session # account
      <4>1. file'[m].key = Record[m].key
        BY <1>4 DEF Seen
      <4> QED
        BY <1>2, <2>2, <3>1, <3>3, <4>1
    <3> QED
      BY <3>2, <3>3
  <2> QED
    BY <2>1, <2>2
<1> QED
  BY <1>1, <1>2, <1>3, <1>4, <1>6, CountFits

LEMMA NoDownloadFits ==
    ASSUME IInv, NoDownload
    PROVE  IInv'
<1>1. PICK m \in todo, result \in {Unavailable, Failed} : Count(m, result)
  BY DEF NoDownload
<1>2. pc = "message" /\ file' = file /\ file \in Files
  BY CountedMessages DEF NoDownload, IInv
<1>3. OwnMedia'
  BY <1>1, <1>2 DEF Count, given, IInv, OwnMedia
<1>4. result # Downloaded /\ Keeps(file, file')
  BY <1>2 DEF Downloaded, Unavailable, Failed, Keeps
<1> QED
  BY <1>1, <1>2, <1>3, <1>4, CountFits

LEMMA BreakFits ==
    ASSUME IInv, Break
    PROVE  IInv'
<1>1. /\ pc = "message" /\ pc' = "session" /\ broken' = broken \cup {session}
      /\ UNCHANGED <<file, typed, given, round, stats, missing>>
  BY DEF Break, Goto
<1>2. session \in tried /\ tried \ {session} \subseteq broken /\ account \in Account \ accounts
  BY <1>1 DEF IInv, SessionFits
<1>3. TypeOK'
  BY <1>1, <1>2 DEF IInv, TypeOK, given, round
<1>4. Settled' = Settled
  BY <1>1 DEF Settled, Waiting, given, round
<1>5. StatsFit' /\ SessionFits'
  BY <1>1, <1>2, <1>4 DEF IInv, StatsFit, SessionFits, round
<1>6. OwnMedia'
  BY <1>1 DEF IInv, OwnMedia, given
<1> QED
  BY <1>3, <1>5, <1>6 DEF IInv

LEMMA HandledFits ==
    ASSUME IInv, Handled
    PROVE  IInv'
<1>1. /\ pc = "message" /\ pc' = "shared" /\ todo = {} /\ stats' = Sum(stats, tally)
      /\ UNCHANGED <<file, typed, given, round, missing, broken>>
  BY DEF Handled, Goto
<1>2. /\ Settled \in SUBSET Message /\ Indexes(account) \in SUBSET Message
      /\ stats \in Tally /\ tally \in Tally
      /\ Counts(stats, Settled, file) /\ Counts(tally, Indexes(account), file)
  BY <1>1, CountedMessages DEF IInv, TypeOK, StatsFit, SessionFits
<1>3. /\ Settled' = Settled \cup Indexes(account)
      /\ Settled \cap Indexes(account) = {}
  BY <1>1, AccountSettled DEF given, round
<1>4. stats' \in Tally /\ Counts(stats', Settled', file)
  BY <1>1, <1>2, <1>3, CountsAdd
<1>5. TypeOK'
  BY <1>1, <1>4 DEF IInv, TypeOK, given, round
<1>6. StatsFit' /\ SessionFits'
  BY <1>1, <1>4 DEF StatsFit, SessionFits
<1>7. OwnMedia'
  BY <1>1 DEF IInv, OwnMedia, given
<1> QED
  BY <1>5, <1>6, <1>7 DEF IInv

-----------------------------------------------------------------------------
(***************************************************************************)
(* The steps that end an account, and the import of media.                 *)
(***************************************************************************)
\* Sharing on the way keeps files where they are and whose they are.
LEMMA SharedFile ==
    ASSUME IInv
    PROVE  /\ Shared(file) \in Files /\ Keeps(file, Shared(file)) /\ Owned(Shared(file))
           /\ Counts(stats, Settled, Shared(file))
<1>1. file \in Files /\ Settled \in SUBSET Message /\ Owned(file) /\ stats \in Tally
      /\ Counts(stats, Settled, file)
  BY CountedMessages, OwnedIsOwn DEF IInv, TypeOK, StatsFit
<1>2. Shared(file) \in Files /\ Keeps(file, Shared(file)) /\ Owned(Shared(file))
  BY <1>1, SharedFacts, SharedIsOwned DEF Keeps
<1> QED
  BY <1>1, <1>2, CountsKept

LEMMA ShareFits ==
    ASSUME IInv, Share
    PROVE  IInv'
<1>1. /\ pc = "shared" /\ file' = Shared(file)
      /\ pc' = IF accounts = {} THEN "clear" ELSE "account"
      /\ UNCHANGED <<typed, given, round, stats, missing, broken>>
  BY DEF Share, Goto
<1>2. file' \in Files /\ Owned(file') /\ Counts(stats, Settled, file')
  BY <1>1, SharedFile DEF Owned
<1>3. TypeOK'
  BY <1>1, <1>2 DEF IInv, TypeOK, Files, given, round
<1>4. Settled' = Settled
  BY <1>1 DEF Settled, Waiting, given, round
<1>5. StatsFit' /\ SessionFits'
  BY <1>1, <1>2, <1>4 DEF StatsFit, SessionFits
<1>6. OwnMedia'
  BY <1>1, <1>2 DEF OwnMedia, Owned, given
<1> QED
  BY <1>3, <1>5, <1>6 DEF IInv

LEMMA ClearFits ==
    ASSUME IInv, Clear
    PROVE  IInv'
<1>1. /\ pc = "clear" /\ pc' = "finish"
      /\ typed' = Typed(file) /\ missing' = MissingCount(file, typed')
      /\ UNCHANGED <<file, given, round, stats, broken>>
  BY DEF Clear, Goto
<1>2. typed' \in SUBSET Message
  BY <1>1 DEF Typed, IInv, TypeOK
<1>3. missing' \in 0 .. Messages
  BY <1>1, <1>2, MissingBound
<1>4. TypeOK'
  BY <1>1, <1>2, <1>3 DEF IInv, TypeOK, given, round
<1>5. Settled' = Settled
  BY <1>1 DEF Settled, given
<1>6. StatsFit' /\ SessionFits'
  BY <1>1, <1>5 DEF IInv, StatsFit, SessionFits
<1>7. OwnMedia'
  BY <1>1 DEF IInv, OwnMedia, given
<1> QED
  BY <1>4, <1>6, <1>7 DEF IInv

LEMMA FinishFits ==
    ASSUME IInv, Finish
    PROVE  IInv'
<1>1. /\ pc = "finish" /\ pc' = "done"
      /\ file' = Shared(file) /\ typed' = Typed(file')
      /\ UNCHANGED <<given, round, stats, missing, broken>>
  BY DEF Finish, Goto
<1>2. file' \in Files /\ Owned(file') /\ Counts(stats, Settled, file')
  BY <1>1, SharedFile DEF Owned
<1>3. typed' \in SUBSET Message
  BY <1>1 DEF Typed, IInv, TypeOK
<1>4. TypeOK'
  BY <1>1, <1>2, <1>3 DEF IInv, TypeOK, Files, given, round
<1>5. Settled' = Settled
  BY <1>1 DEF Settled, given
<1>6. StatsFit' /\ SessionFits'
  BY <1>1, <1>2, <1>5 DEF StatsFit, SessionFits
<1>7. OwnMedia'
  BY <1>1, <1>2 DEF OwnMedia, Owned, given
<1> QED
  BY <1>4, <1>6, <1>7 DEF IInv

-----------------------------------------------------------------------------
LEMMA Invariance == Spec => []IInv
<1>1. ASSUME IInv, UNCHANGED vars PROVE IInv'
  <2>1. TypeOK' /\ OwnMedia'
    BY <1>1 DEF IInv, vars, TypeOK, OwnMedia, given, round
  <2>2. Settled' = Settled /\ Indexes(account)' = Indexes(account)
    BY <1>1 DEF vars, Settled, Waiting, Indexes, given, round
  <2>3. StatsFit' /\ SessionFits'
    BY <1>1, <2>2 DEF IInv, vars, StatsFit, SessionFits, given, round
  <2> QED
    BY <2>1, <2>3 DEF IInv
<1>2. IInv /\ [Next]_vars => IInv'
  BY <1>1, StartFits, NoSessionsFits, NextAccountFits, NextSessionFits, NotHandledFits,
     DownloadFits, NoDownloadFits, BreakFits, HandledFits, ShareFits, ClearFits, FinishFits
     DEF Next
<1> QED
  BY <1>2, InitFits, PTL DEF Spec

(***************************************************************************)
(* The state of an import of media is always one of those that the model   *)
(* describes (downloadPostboxRemoteMedia and its statistics).              *)
(***************************************************************************)
THEOREM TypeCorrect == Spec => []TypeOK
<1>1. IInv => TypeOK
  BY DEF IInv
<1> QED
  BY <1>1, Invariance, PTL

(***************************************************************************)
(* However many sessions broke and were followed by another, and in        *)
(* whatever order the accounts came: each candidate is counted once, and   *)
(* none is counted as downloaded that has no file                          *)
(* (addPostboxRemoteMediaStats, downloadPostboxRemoteMediaForSession).     *)
(***************************************************************************)
THEOREM CountsOfEveryImport == Spec => []CountsAreTrue
<1>1. IInv => CountsAreTrue
  BY DEF IInv, StatsFit, Settled, Counts, CountsAreTrue
<1> QED
  BY <1>1, Invariance, PTL

(***************************************************************************)
(* A message gets the file of another account's message only if the        *)
(* session of its own account is missing or broke                          *)
(* (preferredPostboxSessions), however the files were shared before and    *)
(* after (sharePostboxDuplicateMedia, sharePostboxResourceMedia).          *)
(***************************************************************************)
THEOREM MediaOfOwnSession == Spec => []OwnMedia
<1>1. IInv => OwnMedia
  BY DEF IInv
<1> QED
  BY <1>1, Invariance, PTL

-----------------------------------------------------------------------------
(***************************************************************************)
(* What the passes over shared files leave.  Twins have one resource, if   *)
(* any of them has one.  Nothing in the code ensures it; without it files  *)
(* could be shared along chains longer than there are passes.              *)
(***************************************************************************)
SameMedia ==
    \A m \in Message : \A n \in Twins[m] :
        Record[m].resources # {} /\ Record[n].resources # {} =>
            Record[m].resources = Record[n].resources

\* After a pass a message lacks what another has only if that is a twin of it,
\* and it has no resource of its own.
OnceShared(f) ==
    \A m \in typed : f[m] = NoFile =>
        /\ \A n \in Sharers[m] : f[n] = NoFile
        /\ \A n \in Twins[m] : f[n] # NoFile => Record[m].resources = {}

FullyShared(f) ==
    \A m \in typed : f[m] = NoFile => \A n \in Twins[m] \cup Sharers[m] : f[n] = NoFile

SharingFits ==
    /\ pc \in {"none", "clear", "finish"} => OnceShared(file)
    /\ pc \in {"finish", "done"} => missing >= MissingCount(file, typed)
    /\ pc = "done" => FullyShared(file)

LEMMA TwinsAndSharers ==
    /\ \A m \in Message : Twins[m] \subseteq Message /\ Sharers[m] \subseteq Message
    /\ \A m \in Message : \A n \in Twins[m] : m \in Twins[n] /\ Twins[n] \subseteq Twins[m]
    /\ \A m \in Message : \A n \in Sharers[m] :
          Record[n].resources = Record[m].resources /\ Record[m].resources # {}
<1>1. \A m \in Message : Twins[m] \subseteq Message /\ Sharers[m] \subseteq Message
  BY DEF Twins, Sharers
<1>2. ASSUME NEW m \in Message, NEW n \in Twins[m]
      PROVE  m \in Twins[n] /\ Twins[n] \subseteq Twins[m]
  <2>1. n \in Message /\ Record[m].key # NoKey /\ DuplicateKey(n) = DuplicateKey(m)
    BY DEF Twins
  <2>2. Record[n].key = Record[m].key
    BY <2>1 DEF DuplicateKey
  <2>3. \A k \in Message : k \in Twins[n] <=> DuplicateKey(k) = DuplicateKey(n)
    BY <2>1, <2>2 DEF Twins
  <2>4. \A k \in Message : k \in Twins[m] <=> DuplicateKey(k) = DuplicateKey(m)
    BY <2>1 DEF Twins
  <2> QED
    BY <1>1, <2>1, <2>3, <2>4
<1>3. ASSUME NEW m \in Message, NEW n \in Sharers[m]
      PROVE  Record[n].resources = Record[m].resources /\ Record[m].resources # {}
  <2>1. n \in Message /\ Record[n].resources \cap Record[m].resources # {}
    BY DEF Sharers
  <2>2. /\ Record[n].resources \in {{}} \cup {{r} : r \in Resource}
        /\ Record[m].resources \in {{}} \cup {{r} : r \in Resource}
    BY <2>1, RemoteMediaAssumption DEF RecordType
  <2> QED
    BY <2>1, <2>2
<1> QED
  BY <1>1, <1>2, <1>3

\* A message has a file after a pass if it had one, or one of the others had.
LEMMA PassFacts ==
    ASSUME NEW others \in [Message -> SUBSET Message], NEW f \in Files, NEW m \in Message
    PROVE  SharedFrom(others, f)[m] # NoFile
              <=> f[m] # NoFile \/ (m \in typed /\ \E n \in others[m] : f[n] # NoFile)
<1> DEFINE having == {n \in others[m] : f[n] # NoFile}
<1>1. SharedFrom(others, f)[m] =
          IF f[m] = NoFile /\ m \in typed /\ having # {} THEN f[Min(having)] ELSE f[m]
  BY DEF SharedFrom
<1>2. having # {} => Min(having) \in having
  <2>1. having \in SUBSET Nat
    BY DEF Message
  <2> HIDE DEF having
  <2> QED
    BY <2>1, LeastIsMember
<1>3. having # {} => f[Min(having)] # NoFile
  BY <1>2
<1> QED
  BY <1>1, <1>3

LEMMA TwoPasses ==
    ASSUME NEW f \in Files, NEW m \in Message
    PROVE  LET g == SharedFrom(Twins, f)
           IN  /\ g \in Files
               /\ g[m] # NoFile
                     <=> f[m] # NoFile \/ (m \in typed /\ \E n \in Twins[m] : f[n] # NoFile)
               /\ Shared(f)[m] # NoFile
                     <=> g[m] # NoFile \/ (m \in typed /\ \E n \in Sharers[m] : g[n] # NoFile)
<1> DEFINE g == SharedFrom(Twins, f)
<1>1. Twins \in [Message -> SUBSET Message] /\ Sharers \in [Message -> SUBSET Message]
  BY DEF Twins, Sharers
<1>2. g \in Files
  BY <1>1, SharedFromFacts
<1>3. g[m] # NoFile <=> f[m] # NoFile \/ (m \in typed /\ \E n \in Twins[m] : f[n] # NoFile)
  BY <1>1, PassFacts
<1>4. Shared(f) = SharedFrom(Sharers, g)
  BY DEF Shared
<1> HIDE DEF g
<1>5. SharedFrom(Sharers, g)[m] # NoFile
          <=> g[m] # NoFile \/ (m \in typed /\ \E n \in Sharers[m] : g[n] # NoFile)
  BY <1>1, <1>2, PassFacts
<1> QED
  BY <1>2, <1>3, <1>4, <1>5 DEF g

LEMMA SharedOnce ==
    ASSUME SameMedia, typed \subseteq Message, NEW f \in Files
    PROVE  OnceShared(Shared(f))
<1> DEFINE g == SharedFrom(Twins, f)
           h == Shared(f)
<1>1. \A m \in Message :
        /\ g[m] # NoFile <=> f[m] # NoFile \/ (m \in typed /\ \E n \in Twins[m] : f[n] # NoFile)
        /\ h[m] # NoFile <=> g[m] # NoFile \/ (m \in typed /\ \E n \in Sharers[m] : g[n] # NoFile)
  BY TwoPasses
<1> HIDE DEF g, h
<1> SUFFICES ASSUME NEW m \in typed, h[m] = NoFile
             PROVE  /\ \A n \in Sharers[m] : h[n] = NoFile
                    /\ \A n \in Twins[m] : h[n] # NoFile => Record[m].resources = {}
  BY DEF OnceShared, h
<1>2. m \in Message
  OBVIOUS
<1>3. f[m] = NoFile /\ g[m] = NoFile /\ (\A n \in Twins[m] : f[n] = NoFile)
      /\ \A n \in Sharers[m] : g[n] = NoFile
  BY <1>1, <1>2
<1>4. ASSUME NEW n \in Sharers[m] PROVE h[n] = NoFile
  <2>1. n \in Message /\ Record[n].resources = Record[m].resources
    BY <1>2, TwinsAndSharers
  <2>2. Sharers[n] = Sharers[m]
    BY <1>2, <2>1 DEF Sharers
  <2> QED
    BY <1>1, <1>3, <2>1, <2>2
<1>5. ASSUME NEW n \in Twins[m], h[n] # NoFile PROVE Record[m].resources = {}
  <2>1. n \in Message /\ Twins[n] \subseteq Twins[m]
    BY <1>2, TwinsAndSharers
  <2>2. g[n] = NoFile
    BY <1>1, <1>3, <2>1
  <2>3. PICK k \in Sharers[n] : g[k] # NoFile
    BY <1>1, <1>5, <2>1, <2>2
  <2>4. Record[n].resources # {}
    BY <2>1, TwinsAndSharers
  <2>5. Record[m].resources # {} => Record[m].resources = Record[n].resources
    BY <1>2, <2>4 DEF SameMedia
  <2>6. Record[m].resources = Record[n].resources => k \in Sharers[m]
    BY <1>2, <2>1 DEF Sharers
  <2> QED
    BY <1>3, <2>3, <2>5, <2>6
<1> QED
  BY <1>4, <1>5

LEMMA SharedTwice ==
    ASSUME typed \subseteq Message, NEW f \in Files, OnceShared(f)
    PROVE  FullyShared(Shared(f))
<1> DEFINE g == SharedFrom(Twins, f)
           h == Shared(f)
<1>1. \A m \in Message :
        /\ g[m] # NoFile <=> f[m] # NoFile \/ (m \in typed /\ \E n \in Twins[m] : f[n] # NoFile)
        /\ h[m] # NoFile <=> g[m] # NoFile \/ (m \in typed /\ \E n \in Sharers[m] : g[n] # NoFile)
  BY TwoPasses
<1> HIDE DEF g, h
<1>2. ASSUME NEW n \in Message, f[n] = NoFile, g[n] # NoFile
      PROVE  n \in typed /\ Record[n].resources = {}
  BY <1>1, <1>2 DEF OnceShared
\* The pass over resources has nothing left to do.
<1>3. ASSUME NEW m \in typed, g[m] = NoFile
      PROVE  \A n \in Sharers[m] : g[n] = NoFile
  <2>1. f[m] = NoFile /\ \A n \in Sharers[m] : f[n] = NoFile
    BY <1>1, <1>3 DEF OnceShared
  <2> QED
    BY <1>2, <2>1, TwinsAndSharers
<1>4. \A m \in Message : h[m] # NoFile <=> g[m] # NoFile
  BY <1>1, <1>3
<1>5. ASSUME NEW m \in typed, g[m] = NoFile, NEW n \in Twins[m] PROVE g[n] = NoFile
  <2>1. n \in Message /\ Twins[n] \subseteq Twins[m]
    BY TwinsAndSharers
  <2> QED
    BY <1>1, <1>5, <2>1
<1>6. \A m \in typed : Twins[m] \cup Sharers[m] \subseteq Message
  BY TwinsAndSharers
<1>7. FullyShared(h)
  BY <1>3, <1>4, <1>5, <1>6 DEF FullyShared
<1> QED
  BY <1>7 DEF h

\* With more files and fewer messages to have one, no more are missing.
LEMMA MissingShrinks ==
    ASSUME NEW f, NEW g, Keeps(f, g), NEW media \in SUBSET Message, NEW rest \in SUBSET media
    PROVE  MissingCount(g, rest) <= MissingCount(f, media)
<1> DEFINE S == Wanting(f, media)
           T == {DuplicateKey(m) : m \in S}
           U == {DuplicateKey(m) : m \in Wanting(g, rest)}
           key == [m \in S |-> DuplicateKey(m)]
<1>1. Wanting(g, rest) \subseteq S /\ S \in SUBSET Message
  BY DEF Wanting, Keeps
<1>2. U \subseteq T
  BY <1>1
<1>3. IsFiniteSet(S)
  BY <1>1, MessagesFinite
<1>4. key \in Surjection(S, T)
  BY DEF Surjection
<1>5. IsFiniteSet(T)
  BY <1>3, <1>4, FS_Surjection
<1>6. Cardinality(U) <= Cardinality(T)
  BY <1>2, <1>5, FS_Subset
<1> QED
  BY <1>6 DEF MissingCount

\* Messages that drop out lose nothing.
LEMMA FewerTyped ==
    ASSUME IInv, NEW f
    PROVE  Typed(f) \subseteq typed /\ Typed(f) \subseteq Message
BY DEF IInv, TypeOK, Typed

LEMMA SharingStarts ==
    ASSUME SameMedia, IInv, Start
    PROVE  SharingFits'
<1>1. /\ file' = Shared(Shared(file)) /\ typed' = typed /\ missing' = MissingCount(file', typed)
      /\ pc' \in {"finish", "none", "account"}
  BY DEF Start, Goto
<1>2. file \in Files /\ typed \subseteq Message
  BY DEF IInv, TypeOK, Files
<1>3. Shared(file) \in Files
  BY <1>2, SharedFacts
<1>4. OnceShared(Shared(Shared(file)))
  BY <1>2, <1>3, SharedOnce
<1>5. OnceShared(file)'
  BY <1>1, <1>4 DEF OnceShared
<1>6. missing' >= MissingCount(file, typed)'
  <2>1. MissingCount(file', typed) \in 0 .. Messages
    BY <1>2, MissingBound
  <2>2. MissingCount(file, typed)' = MissingCount(file', typed)
    BY <1>1 DEF MissingCount, Wanting
  <2> QED
    BY <1>1, <2>1, <2>2
<1> QED
  BY <1>1, <1>5, <1>6 DEF SharingFits

\* NoSessions and Clear: placeholders without a file drop out.
LEMMA SharingDrops ==
    ASSUME IInv, OnceShared(file), file' = file, typed' = Typed(file), pc' = "finish",
           missing' = MissingCount(file, typed')
    PROVE  SharingFits'
<1>1. OnceShared(file)'
  BY DEF OnceShared, Typed
<1>2. MissingCount(file, typed') \in 0 .. Messages
  BY FewerTyped, MissingBound
<1>3. MissingCount(file, typed)' = MissingCount(file, typed')
  BY DEF MissingCount, Wanting
<1>4. missing' >= MissingCount(file, typed)'
  BY <1>2, <1>3
<1> QED
  BY <1>1, <1>4 DEF SharingFits

LEMMA SharingFinishes ==
    ASSUME IInv, SharingFits, Finish
    PROVE  SharingFits'
<1>1. /\ pc = "finish" /\ pc' = "done" /\ missing' = missing
      /\ file' = Shared(file) /\ typed' = Typed(file')
  BY DEF Finish, Goto
<1>2. file \in Files /\ typed \subseteq Message /\ missing \in Nat
  BY DEF IInv, TypeOK, Files
<1>3. OnceShared(file) /\ missing >= MissingCount(file, typed)
  BY <1>1 DEF SharingFits
<1>4. FullyShared(Shared(file))
  BY <1>2, <1>3, SharedTwice
<1>5. typed' \subseteq typed
  BY <1>1 DEF Typed
<1>6. FullyShared(file)'
  BY <1>1, <1>4, <1>5 DEF FullyShared
<1>7. missing' >= MissingCount(file, typed)'
  <2>1. Keeps(file, file')
    BY <1>1, <1>2, SharedFacts DEF Keeps
  <2>2. MissingCount(file', typed') <= MissingCount(file, typed)
    BY <1>2, <1>5, <2>1, MissingShrinks
  <2>3. /\ MissingCount(file', typed') \in 0 .. Messages
        /\ MissingCount(file, typed) \in 0 .. Messages
    BY <1>2, <1>5, MissingBound
  <2>4. MissingCount(file, typed)' = MissingCount(file', typed')
    BY DEF MissingCount, Wanting
  <2> QED
    BY <1>1, <1>2, <1>3, <2>2, <2>3, <2>4
<1> QED
  BY <1>1, <1>6, <1>7 DEF SharingFits

LEMMA SharingStep ==
    ASSUME SameMedia, IInv, SharingFits, [Next]_vars
    PROVE  SharingFits'
<1>1. CASE Start
  BY <1>1, SharingStarts
<1>2. CASE NoSessions
  BY <1>2, SharingDrops DEF NoSessions, Goto, SharingFits
<1>3. CASE Share
  <2>1. /\ file' = Shared(file) /\ typed' = typed /\ pc' \in {"clear", "account"}
    BY <1>3 DEF Share, Goto
  <2>2. OnceShared(Shared(file))
    BY SharedOnce DEF IInv, TypeOK, Files
  <2>3. OnceShared(file)'
    BY <2>1, <2>2 DEF OnceShared
  <2> QED
    BY <2>1, <2>3 DEF SharingFits
<1>4. CASE Clear
  BY <1>4, SharingDrops DEF Clear, Goto, SharingFits
<1>5. CASE Finish
  BY <1>5, SharingFinishes
<1>6. CASE NextAccount \/ NextSession \/ NotHandled \/ Download \/ NoDownload \/ Break \/ Handled
  <2>1. pc' \in {"session", "message", "shared"}
    BY <1>6 DEF NextAccount, NextSession, NotHandled, Download, NoDownload, Break, Handled,
                Count, Goto
  <2> QED
    BY <2>1 DEF SharingFits
<1>7. CASE UNCHANGED vars
  <2>1. file' = file /\ typed' = typed /\ pc' = pc /\ missing' = missing
    BY <1>7 DEF vars
  <2>2. MissingCount(file, typed)' = MissingCount(file, typed)
    BY <2>1 DEF MissingCount, Wanting
  <2>3. OnceShared(file) => OnceShared(file)'
    BY <2>1 DEF OnceShared
  <2>4. FullyShared(file) => FullyShared(file)'
    BY <2>1 DEF FullyShared
  <2> QED
    BY <2>1, <2>2, <2>3, <2>4 DEF SharingFits
<1> QED
  BY <1>1, <1>2, <1>3, <1>4, <1>5, <1>6, <1>7 DEF Next

(***************************************************************************)
(* Where records of one message name one resource, if any (SameMedia), the *)
(* passes of importPostboxGo and downloadPostboxRemoteMedia are enough,    *)
(* for any number of messages: no file is left unshared, and the missing   *)
(* ones are not underestimated (sharePostboxDuplicateMedia,                *)
(* sharePostboxResourceMedia, postboxRemoteMediaMissingCount).             *)
(***************************************************************************)
THEOREM NothingLeftUnshared == SameMedia /\ Spec => []NothingIsOverlooked
<1> DEFINE Fits == SameMedia /\ SharingFits
<1>1. SameMedia /\ Init => Fits
  BY DEF Init, SharingFits
<1>2. IInv /\ Fits /\ [Next]_vars => Fits'
  BY SharingStep DEF SameMedia
<1>3. Fits => NothingIsOverlooked
  BY DEF SharingFits, FullyShared, NothingIsOverlooked
<1> QED
  <2> HIDE DEF Fits
  <2> QED
    BY <1>1, <1>2, <1>3, Invariance, PTL DEF Spec
=============================================================================
