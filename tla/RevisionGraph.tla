---------------------------- MODULE RevisionGraph ----------------------------
(***************************************************************************)
(* The revisions of one message and the order the store puts on them       *)
(* (tombstone.go, snapshot_import.go).  A revision's event_id hashes the   *)
(* message, type, event time, payload and the predecessor's event_id, so   *)
(* an id stands for the whole chain of events down to it: here it is that  *)
(* chain, a nonempty sequence of events, and its predecessor is the Front. *)
(***************************************************************************)
EXTENDS Naturals, Sequences, SequencesExt, FiniteSets

CONSTANT HashBefore(_, _)   \* the string order of two event ids

\* A row of message_revisions: its chain, and observed_at.
EventAt(rev) == Last(rev.chain).at
EventType(rev) == Last(rev.chain).type
Payload(rev) == Last(rev.chain).payload

\* What preferRevisionOrder compares: event_at may be a corrected one.
Order(rev) == [chain |-> rev.chain, at |-> EventAt(rev)]

\* revisionDescendsFrom follows predecessors up to the ancestor.
Descends(chain, ancestor) == IsStrictPrefix(ancestor, chain)

\* A slip of preferRevisionOrder: no event time.
PreferredByHash(x, y) ==
    \/ Descends(x.chain, y.chain)
    \/ ~Descends(y.chain, x.chain) /\ HashBefore(y.chain, x.chain)

\* preferRevisionOrder: ancestry first, then the event time, then the id.
Preferred(x, y) ==
    \/ Descends(x.chain, y.chain)
    \/ /\ ~Descends(y.chain, x.chain)
       /\ \/ x.at > y.at
          \/ x.at = y.at /\ HashBefore(y.chain, x.chain)

\* canonicalRevisionOrder: a later edit time, or for an untimed edit a later
\* observation, stands for the event time.
CanonicalOrder(rev, message) ==
    LET o == Order(rev) IN
    IF message.edit > o.at THEN [o EXCEPT !.at = message.edit]
    ELSE IF message.edit = 0 /\ EventType(rev) = "edited" /\ rev.seen > o.at
         THEN [o EXCEPT !.at = rev.seen]
         ELSE o

\* The candidate a loop over revs keeps, of those at the positions S: the first,
\* until one is preferred to it.  BestUpTo is its position after n rounds, or 0.
BestUpTo(revs, S) ==
    LET best[n \in 0..Len(revs)] ==
          IF n = 0 THEN 0
          ELSE LET b == best[n - 1]
               IN  IF n \in S /\ (b = 0 \/ Preferred(Order(revs[n]), Order(revs[b]))) THEN n ELSE b
    IN  best

Best(revs, S) == revs[BestUpTo(revs, S)[Len(revs)]]

WithPayload(revs, payload) == {i \in DOMAIN revs : Payload(revs[i]) = payload}

\* "order by event_at, event_id": exports, shards, and the index on
\* message_revisions that serves messageRevisionPredecessor.
Earlier(x, y) == \/ EventAt(x) < EventAt(y)
                 \/ EventAt(x) = EventAt(y) /\ HashBefore(x.chain, y.chain)

InsertedInOrder(s, rev) ==
    LET k == Cardinality({i \in DOMAIN s : Earlier(s[i], rev)})
    IN  SubSeq(s, 1, k) \o <<rev>> \o SubSeq(s, k + 1, Len(s))

SortedUpTo(revs) ==
    LET sorted[n \in 0..Len(revs)] ==
          IF n = 0 THEN <<>> ELSE InsertedInOrder(sorted[n - 1], revs[n])
    IN  sorted

ByEventTime(revs) == SortedUpTo(revs)[Len(revs)]

Chains(revs) == {revs[i].chain : i \in DOMAIN revs}

\* messageRevisionPredecessor: the best revision with the canonical payload,
\* or the best of all of them, as a chain; no chain when there is none.
TipOf(revs, S) == IF revs = <<>> THEN <<>> ELSE Best(revs, IF S # {} THEN S ELSE DOMAIN revs).chain

Tip(revs) == TipOf(ByEventTime(revs), {})

Predecessor(revs, payload) ==
    LET sorted == ByEventTime(revs) IN TipOf(sorted, WithPayload(sorted, payload))

\* insertMessageRevision: "on conflict(event_id) do nothing".
InsertedAlways(revs, rev) == Append(revs, rev)

Inserted(revs, rev) ==
    IF rev.chain \in Chains(revs) THEN revs ELSE Append(revs, rev)

InsertedUpTo(revs, more) ==
    LET inserted[n \in 0..Len(more)] ==
          IF n = 0 THEN revs ELSE Inserted(inserted[n - 1], more[n])
    IN  inserted

InsertedAll(revs, more) == InsertedUpTo(revs, more)[Len(more)]
=============================================================================
