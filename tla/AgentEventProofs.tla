--------------------------- MODULE AgentEventProofs ----------------------------
(***************************************************************************)
(* Proofs about the feed of agent events, for any listeners, any length of *)
(* the list and any number of events: types, the list is a window, the     *)
(* table has the newest events, the list and its listeners implement the   *)
(* feed of module EventFeed, and duplicates come only after trimming.      *)
(***************************************************************************)
EXTENDS AgentEvent, SequenceTheorems, FiniteSetTheorems, FunctionTheorems, TLAPS

--------------------------------------------------------------------------------
(* The inductive invariant *)

\* The index of the first entry of the list.
First == LastIndex - Len(list) + 1

\* The last index before the batch of a publisher, and the last of the batch: what the
\* list has up to the one, the handler has taken.
Ahead(l) ==
    IF publisher[l].batch = <<>> THEN publisher[l].offset ELSE publisher[l].batch[1].index - 1
BatchEnd(l) == Ahead(l) + Len(publisher[l].batch)

\* The batch has no gap and ends at or above the offset, which is at its end as long as
\* nothing has been trimmed; then nothing above Ahead has been taken either.
Given(l) ==
    /\ \A k \in 1..Len(publisher[l].batch) : publisher[l].batch[k].index = Ahead(l) + k
    /\ publisher[l].offset <= BatchEnd(l) /\ BatchEnd(l) <= LastIndex
    /\ \A j \in First..Ahead(l) : j \in got[l]
    /\ First = 1 => publisher[l].offset = BatchEnd(l) /\ got[l] \subseteq 1..Ahead(l)

\* Events are inserted as they are read.
Stored ==
    /\ table \subseteq inserted /\ inserted \subseteq 1..consumer.event
    /\ TableHasTheNewest

IInv == TypeOK /\ ListIsWindow /\ Stored /\ \A l \in Listeners : Given(l)

--------------------------------------------------------------------------------
(* Ranks: the n newest of a set *)

Newer(S, e) == {f \in S : f > e}

\* Different events have different ranks, all below the number of events.
LEMMA Ranks ==
    ASSUME NEW S, IsFiniteSet(S), S \subseteq Nat
    PROVE  /\ Cardinality(S) \in Nat
           /\ \A e \in S : Cardinality(Newer(S, e)) \in 0..(Cardinality(S) - 1)
           /\ \A e, f \in S : e < f => Cardinality(Newer(S, f)) < Cardinality(Newer(S, e))
<1>1. \A e : IsFiniteSet(Newer(S, e)) /\ Cardinality(Newer(S, e)) \in Nat
  BY FS_Subset, FS_CardinalityType, Zenon DEF Newer
<1>2. Cardinality(S) \in Nat
  BY FS_CardinalityType
<1>3. ASSUME NEW e \in S
      PROVE  Cardinality(Newer(S, e)) < Cardinality(S)
  <2>1. Newer(S, e) \subseteq S /\ Newer(S, e) # S
    BY <1>3 DEF Newer
  <2>. QED
    BY <1>1, <1>2, <2>1, FS_Subset
<1>4. ASSUME NEW e \in S, NEW f \in S, e < f
      PROVE  Cardinality(Newer(S, f)) < Cardinality(Newer(S, e))
  <2>1. e \in Nat /\ f \in Nat /\ \A g \in S : g \in Nat
    OBVIOUS
  <2>2. Newer(S, f) \subseteq Newer(S, e)
    <3>1. \A g \in S : g > f => g > e
      BY <1>4, <2>1
    <3>. QED
      BY <3>1 DEF Newer
  <2>3. f \in Newer(S, e) /\ f \notin Newer(S, f)
    BY <1>4, <2>1 DEF Newer
  <2>4. Newer(S, f) # Newer(S, e)
    BY <2>3
  <2>. QED
    BY <1>1, <2>2, <2>4, FS_Subset
<1>. QED
  BY <1>1, <1>2, <1>3, <1>4

\* Every rank has its event.
LEMMA RankHasEvent ==
    ASSUME NEW S, IsFiniteSet(S), S \subseteq Nat, NEW r \in 0..(Cardinality(S) - 1)
    PROVE  \E e \in S : Cardinality(Newer(S, e)) = r
<1>. DEFINE T == 0..(Cardinality(S) - 1)
            rank == [e \in S |-> Cardinality(Newer(S, e))]
<1>0. /\ Cardinality(S) \in Nat
      /\ \A e \in S : Cardinality(Newer(S, e)) \in T
      /\ \A e, f \in S : e < f => Cardinality(Newer(S, f)) < Cardinality(Newer(S, e))
  BY Ranks
<1>1. Cardinality(S) \in Nat /\ rank \in [S -> T]
  BY <1>0
<1>2. \A a, b \in S : rank[a] = rank[b] => a = b
  <2>1. ASSUME NEW a \in S, NEW b \in S, rank[a] = rank[b], a # b
        PROVE  FALSE
    <3>1. a < b \/ b < a
      BY <2>1
    <3>2. Cardinality(Newer(S, a)) = Cardinality(Newer(S, b)) /\ Cardinality(Newer(S, a)) \in T
      BY <1>0, <2>1
    <3>. QED
      BY <1>0, <3>1, <3>2
  <2>. QED
    BY <2>1
<1>3. rank \in Injection(S, T)
  BY <1>1, <1>2, Fun_IsInj
<1>4. IsFiniteSet(T) /\ Cardinality(T) = Cardinality(S)
  BY <1>1, FS_Interval
<1>5. rank \in Surjection(S, T)
  <2>. HIDE DEF rank, T
  <2>. QED
    BY <1>3, <1>4, FS_Injection
<1>6. \E e \in S : rank[e] = r
  <2>1. r \in T
    OBVIOUS
  <2>. HIDE DEF rank, T
  <2>2. \A t \in T : \E e \in S : rank[e] = t
    BY <1>5, Fun_SurjectionProperties
  <2>. QED
    BY <2>1, <2>2
<1>. QED
  BY <1>6

\* The n newest events are at most n.
LEMMA NewestBounded ==
    ASSUME NEW S, IsFiniteSet(S), S \subseteq Nat, NEW n \in Nat
    PROVE  /\ IsFiniteSet(Newest(S, n)) /\ Newest(S, n) \subseteq S
           /\ Cardinality(Newest(S, n)) \in 0..n
<1>. DEFINE N == Newest(S, n)
            T == 0..(n - 1)
            rank == [e \in N |-> Cardinality(Newer(S, e))]
<1>1. N \subseteq S /\ IsFiniteSet(N) /\ Cardinality(N) \in Nat
  BY FS_Subset, FS_CardinalityType, Zenon DEF Newest
<1>2. \A e \in N : Cardinality(Newer(S, e)) < n
  BY DEF Newest, Newer
<1>0. /\ \A e \in S : Cardinality(Newer(S, e)) \in Nat
      /\ \A e, f \in S : e < f => Cardinality(Newer(S, f)) < Cardinality(Newer(S, e))
  <2>. HIDE DEF N, T, rank
  <2>1. /\ Cardinality(S) \in Nat
        /\ \A e \in S : Cardinality(Newer(S, e)) \in 0..(Cardinality(S) - 1)
        /\ \A e, f \in S : e < f => Cardinality(Newer(S, f)) < Cardinality(Newer(S, e))
    BY Ranks
  <2>. QED
    BY <2>1
<1>3. rank \in [N -> T]
  <2>1. ASSUME NEW e \in N
        PROVE  Cardinality(Newer(S, e)) \in T
    <3>1. e \in S
      BY <1>1, Zenon
    <3>2. Cardinality(Newer(S, e)) \in Nat
      BY <1>0, <3>1, Zenon
    <3>3. Cardinality(Newer(S, e)) < n
      BY <1>2, Zenon
    <3>. HIDE DEF N
    <3>. QED
      BY <3>2, <3>3
  <2>. HIDE DEF T, N
  <2>. QED
    BY <2>1
<1>4. \A a, b \in N : rank[a] = rank[b] => a = b
  <2>1. ASSUME NEW a \in N, NEW b \in N, rank[a] = rank[b], a # b
        PROVE  FALSE
    <3>1. a \in S /\ b \in S
      BY <1>1, Zenon
    <3>2. a < b \/ b < a
      BY <2>1, <3>1
    <3>3. Cardinality(Newer(S, a)) = Cardinality(Newer(S, b))
      BY <2>1, Zenon
    <3>. QED
      BY <1>0, <3>1, <3>2, <3>3
  <2>. QED
    BY <2>1
<1>5. rank \in Injection(N, T)
  BY <1>3, <1>4, Fun_IsInj
<1>6. IsFiniteSet(T) /\ Cardinality(T) = n
  BY FS_Interval
<1>7. Cardinality(N) <= n
  <2>. HIDE DEF rank, T, N
  <2>. QED
    BY <1>5, <1>6, FS_Injection
<1>. QED
  BY <1>1, <1>7

\* The list loaded of a set of events has each of them, numbered from 1.
LEMMA LoadedIsList ==
    ASSUME NEW S, S \subseteq Events, IsFiniteSet(S)
    PROVE  /\ Loaded(S) \in Seq(EntryType)
           /\ Len(Loaded(S)) = Cardinality(S)
           /\ \A k \in 1..Cardinality(S) : Loaded(S)[k].index = k
<1>1. S \subseteq Nat /\ Cardinality(S) \in Nat
  BY FS_CardinalityType DEF Events
<1>2. ASSUME NEW i \in 1..Cardinality(S)
      PROVE  (CHOOSE e \in S : Cardinality({f \in S : f > e}) = i - 1) \in Events
  <2>0. i - 1 \in 0..(Cardinality(S) - 1)
    BY <1>1
  <2>1. \E e \in S : Cardinality({f \in S : f > e}) = i - 1
    BY <1>1, <2>0, RankHasEvent DEF Newer
  <2>. QED
    BY <2>1
<1>3. \A i \in 1..Cardinality(S) : Loaded(S)[i] \in EntryType /\ Loaded(S)[i].index = i
  BY <1>1, <1>2 DEF Loaded, Entry, EntryType
<1>4. Loaded(S) = [i \in 1..Cardinality(S) |-> Loaded(S)[i]]
  BY DEF Loaded
<1>. HIDE DEF Loaded
<1>5. Loaded(S) \in [1..Cardinality(S) -> EntryType]
  BY <1>3, <1>4, Zenon
<1>6. Loaded(S) \in Seq(EntryType) /\ Len(Loaded(S)) = Cardinality(S)
  BY <1>1, <1>5, LenProperties, IsASeq
<1>. QED
  BY <1>3, <1>6

--------------------------------------------------------------------------------
(* Reading the list *)

\* The numbers of the list.
LEMMA ListNumbers ==
    ASSUME TypeOK, ListIsWindow
    PROVE  /\ Len(list) \in Nat /\ LastIndex \in Nat /\ First \in Nat \ {0}
           /\ LastIndex = First + Len(list) - 1 /\ Len(list) <= maxMessageLen + 1
           /\ \A k \in 1..Len(list) : list[k] \in EntryType /\ list[k].index = First + k - 1
           /\ DOMAIN list = 1..Len(list)
<1>1. list \in Seq(EntryType) /\ eventOffset \in Nat
  BY DEF TypeOK
<1>2. Len(list) \in Nat /\ DOMAIN list = 1..Len(list) /\ \A k \in 1..Len(list) : list[k] \in EntryType
  BY <1>1, LenProperties, ElementOfSeq
<1>3. LastIndex \in Nat
  BY <1>1 DEF LastIndex
<1>. HIDE DEF LastIndex
<1>4. /\ Len(list) <= maxMessageLen + 1
      /\ \A k \in 1..Len(list) : list[k].index = LastIndex - Len(list) + k
  BY <1>2 DEF ListIsWindow
<1>5. First \in Nat \ {0} /\ LastIndex = First + Len(list) - 1
  <2>1. Len(list) \in Nat
    BY <1>2
  <2>2. Len(list) <= LastIndex
    BY DEF ListIsWindow
  <2>. QED
    BY <1>3, <2>1, <2>2 DEF First
<1>6. ASSUME NEW k \in 1..Len(list)
      PROVE  list[k].index = First + k - 1
  <2>1. k \in Int /\ First + k - 1 = LastIndex - Len(list) + k
    BY <1>2, <1>3 DEF First
  <2>. QED
    BY <1>4, <2>1
<1>. QED
  BY <1>2, <1>3, <1>4, <1>5, <1>6

\* The walk from the back stops at the last entry that is not above the offset.
LEMMA ReachedAt ==
    ASSUME TypeOK, ListIsWindow, NEW offset \in Nat, offset <= LastIndex
    PROVE  Reached(offset) = IF offset < First THEN 0 ELSE offset - First + 1
<1>. DEFINE K == IF offset < First THEN 0 ELSE offset - First + 1
            P(k) == /\ k # 0 => list[k].index <= offset
                    /\ \A i \in (k + 1)..Len(list) : list[i].index > offset
<1>1. /\ Len(list) \in Nat /\ LastIndex \in Nat /\ First \in Nat \ {0}
      /\ LastIndex = First + Len(list) - 1
      /\ \A k \in 1..Len(list) : list[k].index = First + k - 1
  BY ListNumbers
<1>2. K \in 0..Len(list) /\ P(K)
  BY <1>1
<1>3. ASSUME NEW k \in 0..Len(list), P(k)
      PROVE  k = K
  <2>1. CASE k > K
    BY <1>1, <1>3, <2>1
  <2>2. CASE k < K
    <3>1. K \in (k + 1)..Len(list) /\ K \in 1..Len(list)
      BY <1>1, <1>2, <2>2
    <3>2. list[K].index > offset
      BY <1>3, <3>1
    <3>. QED
      BY <1>1, <2>2, <3>1, <3>2
  <2>. QED
    BY <1>2, <2>1, <2>2
<1>4. (CHOOSE k \in 0..Len(list) : P(k)) = K
  <2>. HIDE DEF K, P
  <2>. QED
    BY <1>2, <1>3
<1>. QED
  BY <1>4 DEF Reached

\* What getEvents returns goes on from the offset, or from the first entry when that is
\* above it, to the last.
LEMMA EventsAbove ==
    ASSUME TypeOK, ListIsWindow, NEW offset \in Nat, offset <= LastIndex
    PROVE  \E base \in Nat :
             /\ base = IF offset < First THEN First - 1 ELSE offset
             /\ getEvents(offset) \in Seq(EntryType)
             /\ Len(getEvents(offset)) = LastIndex - base
             /\ \A k \in 1..Len(getEvents(offset)) : getEvents(offset)[k].index = base + k
<1>. DEFINE base == IF offset < First THEN First - 1 ELSE offset
            m == Reached(offset) + 1
<1>1. /\ Len(list) \in Nat /\ LastIndex \in Nat /\ First \in Nat \ {0}
      /\ LastIndex = First + Len(list) - 1
      /\ \A k \in 1..Len(list) : list[k] \in EntryType /\ list[k].index = First + k - 1
  BY ListNumbers
<1>2. m \in 1..(Len(list) + 1) /\ m = base - First + 2 /\ base \in Nat
  BY <1>1, ReachedAt
<1>. HIDE DEF base, m
<1>3. \A i \in m..Len(list) : list[i] \in EntryType
  BY <1>1, <1>2
<1>4. m \in Int /\ Len(list) \in Int
  BY <1>1, <1>2
<1>5. /\ SubSeq(list, m, Len(list)) \in Seq(EntryType)
      /\ Len(SubSeq(list, m, Len(list))) = IF m <= Len(list) THEN Len(list) - m + 1 ELSE 0
      /\ \A i \in 1..(Len(list) - m + 1) : SubSeq(list, m, Len(list))[i] = list[m + i - 1]
  BY <1>3, <1>4, SubSeqProperties
<1>6. getEvents(offset) = SubSeq(list, m, Len(list))
  BY DEF getEvents, m
<1>. DEFINE batch == getEvents(offset)
<1>. HIDE DEF batch
<1>7. batch \in Seq(EntryType) /\ Len(batch) = LastIndex - base
  BY <1>1, <1>2, <1>5, <1>6 DEF batch
<1>8. ASSUME NEW k \in 1..Len(batch)
      PROVE  batch[k].index = base + k
  <2>1. k \in 1..(Len(list) - m + 1) /\ m + k - 1 \in 1..Len(list)
    BY <1>1, <1>2, <1>7
  <2>2. batch[k] = list[m + k - 1]
    BY <1>5, <1>6, <2>1 DEF batch
  <2>. QED
    BY <1>1, <1>2, <2>1, <2>2
<1>9. base = IF offset < First THEN First - 1 ELSE offset
  BY DEF base
<1>. QED
  BY <1>2, <1>7, <1>8, <1>9 DEF batch

--------------------------------------------------------------------------------
(* The consumer *)

\* What concerns the listeners when the list does not change.
LEMMA SameGiven ==
    ASSUME UNCHANGED <<list, LastIndex, got>>,
           \A l \in Listeners : /\ publisher'[l].batch = publisher[l].batch
                                /\ publisher'[l].offset = publisher[l].offset,
           NEW l \in Listeners, Given(l)
    PROVE  Given(l)'
<1>1. Ahead(l)' = Ahead(l) /\ First' = First
  BY DEF Ahead, First
<1>2. BatchEnd(l)' = BatchEnd(l)
  BY <1>1 DEF BatchEnd
<1>. QED
  BY <1>1, <1>2 DEF Given

\* Reading and inserting an event, and cleaning the table.
LEMMA ReadKeepsInv ==
    ASSUME IInv, Read \/ Insert \/ InsertFails
    PROVE  IInv' /\ LastIndex' = LastIndex
<1>1. /\ consumer \in [pc : ConsumerPcs, event : 0..MaxEvents]
      /\ consumer.pc # "read" => consumer.event \in Events
      /\ table \subseteq Events /\ inserted \subseteq Events
      /\ table \subseteq inserted /\ inserted \subseteq 1..consumer.event
  BY DEF IInv, TypeOK, Stored
<1>2. UNCHANGED <<list, eventOffset, publisher, handler, got, restarts>>
  BY DEF Read, Insert, InsertFails, clients
<1>3. /\ consumer'.pc \in ConsumerPcs \ {"count"} /\ consumer.pc # "count"
      /\ consumer' \in [pc : ConsumerPcs, event : 0..MaxEvents]
      /\ consumer'.pc # "read" => consumer'.event \in Events
      /\ consumer'.event >= consumer.event
  BY <1>1, SizesAssumption DEF Read, Insert, InsertFails, ConsumerPcs, Events
<1>4. LastIndex' = LastIndex
  BY <1>2, <1>3 DEF LastIndex
<1>5. /\ table' \subseteq Events /\ inserted' \subseteq Events
      /\ table' \subseteq inserted' /\ inserted' \subseteq 1..consumer'.event
  <2>1. CASE Read \/ InsertFails
    BY <1>1, <1>3, <2>1 DEF Read, InsertFails
  <2>2. CASE Insert
    BY <1>1, <2>2 DEF Insert, Events
  <2>. QED
    BY <2>1, <2>2
<1>6. TypeOK'
  BY <1>2, <1>3, <1>4, <1>5 DEF IInv, TypeOK
<1>7. ListIsWindow'
  BY <1>2, <1>4 DEF IInv, ListIsWindow
<1>8. TableHasTheNewest'
  <2>1. CASE Read \/ InsertFails
    BY <2>1 DEF IInv, Stored, TableHasTheNewest, Read, InsertFails
  <2>2. CASE Insert
    <3>1. ASSUME NEW f \in table', NEW e \in inserted', e > f
          PROVE  e \in table'
      <4>1. table' = table \cup {consumer.event} /\ inserted' = inserted \cup {consumer.event}
        BY <2>2 DEF Insert
      <4>2. CASE e = consumer.event
        BY <4>1, <4>2
      <4>3. CASE e \in inserted
        <5>1. f # consumer.event
          BY <1>1, <3>1, <4>3 DEF Events
        <5>. QED
          BY <3>1, <4>1, <4>3, <5>1 DEF IInv, Stored, TableHasTheNewest
      <4>. QED
        BY <4>1, <4>2, <4>3
    <3>. QED
      BY <3>1 DEF TableHasTheNewest
  <2>. QED
    BY <2>1, <2>2
<1>9. ASSUME NEW l \in Listeners
      PROVE  Given(l)'
  BY <1>2, <1>4, SameGiven DEF IInv
<1>. QED
  BY <1>4, <1>5, <1>6, <1>7, <1>8, <1>9 DEF IInv, Stored

\* The monthly clean takes a lower part of the table.
LEMMA CleanKeepsInv ==
    ASSUME IInv, Clean
    PROVE  IInv'
<1>1. UNCHANGED <<consumer, list, eventOffset, publisher, handler, got, restarts, inserted>>
  BY DEF Clean, clients
<1>2. table \subseteq Events /\ IsFiniteSet(table)
  <2>1. table \subseteq 1..MaxEvents /\ MaxEvents \in Nat
    BY SizesAssumption DEF IInv, TypeOK, Events
  <2>2. IsFiniteSet(1..MaxEvents)
    BY <2>1, FS_Interval
  <2>3. IsFiniteSet(table)
    BY <2>1, <2>2, FS_Subset
  <2>. QED
    BY <2>1, <2>3 DEF Events
<1>3. /\ table' \subseteq table
      /\ \A f \in table', e \in table : e > f => e \in table'
  <2>1. PICK cut \in 1..(MaxEvents + 1) :
          LET kept == {e \in table : e >= cut} IN
          table' = IF Cardinality(kept) <= maxMessageLen THEN kept
                   ELSE kept \ {e \in kept : Cardinality({f \in kept : f < e}) < maxMessageLen}
    BY DEF Clean
  <2>. DEFINE kept == {e \in table : e >= cut}
              below(e) == {f \in kept : f < e}
  <2>2. \/ table' = kept
        \/ table' = kept \ {e \in kept : Cardinality(below(e)) < maxMessageLen}
    BY <2>1
  <2>3. kept \subseteq table /\ IsFiniteSet(kept)
    BY <1>2, FS_Subset
  <2>4. ASSUME NEW f \in kept, NEW e \in table, e > f
        PROVE  e \in kept /\ below(f) \subseteq below(e)
    <3>1. cut \in Nat /\ f \in Nat /\ e \in Nat /\ f >= cut /\ f \in table
      BY <1>2, SizesAssumption DEF Events
    <3>2. \A g \in kept : g \in Nat /\ (g < f => g < e)
      BY <1>2, <2>4, <3>1 DEF Events
    <3>3. e >= cut
      BY <2>4, <3>1
    <3>. QED
      BY <3>2, <3>3
  <2>5. ASSUME NEW e
        PROVE  IsFiniteSet(below(e)) /\ Cardinality(below(e)) \in Nat
    <3>1. below(e) \in SUBSET kept
      OBVIOUS
    <3>. HIDE DEF below, kept
    <3>. QED
      BY <2>3, <3>1, FS_Subset, FS_CardinalityType
  <2>6. ASSUME NEW f \in kept, NEW e \in table, e > f, Cardinality(below(e)) < maxMessageLen
        PROVE  Cardinality(below(f)) < maxMessageLen
    <3>1. below(f) \subseteq below(e) /\ IsFiniteSet(below(e))
          /\ Cardinality(below(e)) \in Nat /\ Cardinality(below(f)) \in Nat
      BY <2>4, <2>5, <2>6
    <3>. HIDE DEF below, kept
    <3>2. Cardinality(below(f)) <= Cardinality(below(e))
      BY <3>1, FS_Subset
    <3>. QED
      BY <2>6, <3>1, <3>2, SizesAssumption
  <2>7. table' \subseteq kept
    BY <2>2
  <2>8. ASSUME NEW f \in table', NEW e \in table, e > f
        PROVE  e \in table'
    <3>1. f \in kept /\ e \in kept
      BY <2>4, <2>7, <2>8
    <3>2. CASE table' = kept
      BY <3>1, <3>2
    <3>3. CASE table' = kept \ {d \in kept : Cardinality(below(d)) < maxMessageLen}
      <4>. HIDE DEF below, kept
      <4>1. ~(Cardinality(below(f)) < maxMessageLen)
        BY <2>8, <3>1, <3>3
      <4>2. ~(Cardinality(below(e)) < maxMessageLen)
        BY <2>6, <2>8, <3>1, <4>1
      <4>. QED
        BY <3>1, <3>3, <4>2
    <3>. QED
      BY <2>2, <3>2, <3>3
  <2>. QED
    BY <2>3, <2>7, <2>8
<1>4. TableHasTheNewest'
  BY <1>1, <1>3 DEF IInv, Stored, TableHasTheNewest
<1>5. LastIndex' = LastIndex
  BY <1>1 DEF LastIndex
<1>6. TypeOK' /\ ListIsWindow'
  BY <1>1, <1>3, <1>5 DEF IInv, TypeOK, ListIsWindow
<1>7. ASSUME NEW l \in Listeners
      PROVE  Given(l)'
  BY <1>1, <1>5, SameGiven DEF IInv
<1>. QED
  BY <1>1, <1>3, <1>4, <1>6, <1>7 DEF IInv, Stored

\* A push appends the next index and takes one entry at most.
LEMMA PushedList ==
    ASSUME IInv, Push
    PROVE  /\ list' \in Seq(EntryType) /\ ListIsWindow'
           /\ LastIndex' = LastIndex + 1 /\ First' \in {First, First + 1}
           /\ Len(list') <= maxMessageLen + 1
<1>. DEFINE entry == Entry(eventOffset + 1, consumer.event)
            rest == IF Len(list) > maxMessageLen THEN Tail(list) ELSE list
<1>1. /\ list \in Seq(EntryType) /\ eventOffset \in Nat
      /\ Len(list) \in Nat /\ LastIndex \in Nat /\ First \in Nat \ {0}
      /\ LastIndex = First + Len(list) - 1
      /\ Len(list) <= maxMessageLen + 1
      /\ \A k \in 1..Len(list) : list[k].index = First + k - 1
  BY ListNumbers DEF IInv, TypeOK
<1>2. consumer.pc = "push" /\ consumer'.pc = "count" /\ eventOffset' = eventOffset
  BY DEF Push, IInv, TypeOK
<1>3. LastIndex = eventOffset /\ LastIndex' = eventOffset + 1
  BY <1>2 DEF LastIndex
<1>4. entry \in EntryType /\ entry.index = eventOffset + 1
  <2>1. consumer.event \in Events
    BY <1>2 DEF IInv, TypeOK
  <2>. QED
    BY <1>1, <2>1 DEF Entry, EntryType
<1>5. PICK start \in {First, First + 1} :
        /\ rest \in Seq(EntryType)
        /\ Len(rest) = LastIndex - start + 1 /\ Len(rest) \in 0..maxMessageLen
        /\ \A k \in 1..Len(rest) : rest[k].index = start + k - 1
  <2>1. CASE Len(list) > maxMessageLen
    <3>1. list # <<>>
      BY <1>1, <2>1, SizesAssumption
    <3>2. /\ Tail(list) \in Seq(EntryType) /\ Len(Tail(list)) = Len(list) - 1
          /\ \A k \in 1..Len(Tail(list)) : Tail(list)[k] = list[k + 1]
      BY <1>1, <3>1, HeadTailProperties
    <3>3. Len(Tail(list)) = LastIndex - (First + 1) + 1 /\ Len(Tail(list)) \in 0..maxMessageLen
      BY <1>1, <2>1, <3>2, SizesAssumption
    <3>4. \A k \in 1..Len(Tail(list)) : Tail(list)[k].index = (First + 1) + k - 1
      BY <1>1, <3>2
    <3>. QED
      BY <2>1, <3>2, <3>3, <3>4
  <2>2. CASE ~(Len(list) > maxMessageLen)
    <3>1. Len(list) \in 0..maxMessageLen /\ Len(list) = LastIndex - First + 1
      BY <1>1, <2>2, SizesAssumption
    <3>. QED
      BY <1>1, <2>2, <3>1
  <2>. QED
    BY <2>1, <2>2
<1>6. list' = Append(rest, entry)
  BY DEF Push
<1>. HIDE DEF rest, entry
<1>7. /\ list' \in Seq(EntryType) /\ Len(list') = Len(rest) + 1
      /\ \A i \in 1..Len(rest) : list'[i] = rest[i]
      /\ list'[Len(rest) + 1] = entry
  BY <1>4, <1>5, <1>6, AppendProperties
<1>8. Len(list') = LastIndex' - start + 1 /\ Len(list') <= maxMessageLen + 1 /\ Len(list') \in Nat
  BY <1>1, <1>3, <1>5, <1>7, SizesAssumption
<1>9. First' = start
  BY <1>1, <1>3, <1>8 DEF First
<1>10. ASSUME NEW k \in 1..Len(list')
       PROVE  list'[k].index = start + k - 1
  <2>1. CASE k \in 1..Len(rest)
    BY <1>5, <1>7, <2>1
  <2>2. CASE k = Len(rest) + 1
    <3>1. list'[k].index = eventOffset + 1
      BY <1>4, <1>7, <2>2
    <3>. QED
      BY <1>1, <1>3, <1>5, <2>2, <3>1
  <2>. QED
    BY <1>5, <1>7, <2>1, <2>2
<1>11. DOMAIN list' = 1..Len(list')
  BY <1>7, LenProperties
<1>12. \A k \in DOMAIN list' : list'[k].index = LastIndex' - Len(list') + k
  BY <1>1, <1>3, <1>8, <1>10, <1>11
<1>13. Len(list') <= LastIndex'
  BY <1>1, <1>3, <1>5, <1>8
<1>14. ListIsWindow'
  BY <1>8, <1>12, <1>13 DEF ListIsWindow
<1>. QED
  BY <1>3, <1>7, <1>8, <1>9, <1>14

\* A batch has numbers before and at its end.
LEMMA BatchNumbers ==
    ASSUME TypeOK, NEW l \in Listeners
    PROVE  /\ Len(publisher[l].batch) \in Nat /\ Ahead(l) \in Int /\ BatchEnd(l) \in Int
           /\ publisher[l].batch # <<>> =>
                /\ 1 \in 1..Len(publisher[l].batch)
                /\ publisher[l].batch[1].index \in Nat \ {0}
                /\ Ahead(l) = publisher[l].batch[1].index - 1
<1>1. publisher[l].offset \in Nat /\ publisher[l].batch \in Seq(EntryType)
  BY DEF TypeOK
<1>2. Len(publisher[l].batch) \in Nat
  BY <1>1, LenProperties
<1>3. CASE publisher[l].batch = <<>>
  <2>1. Ahead(l) = publisher[l].offset
    BY <1>3 DEF Ahead
  <2>. QED
    BY <1>1, <1>2, <1>3, <2>1 DEF BatchEnd
<1>4. CASE publisher[l].batch # <<>>
  <2>1. 1 \in 1..Len(publisher[l].batch)
    BY <1>1, <1>4, EmptySeq
  <2>2. publisher[l].batch[1] \in EntryType
    BY <1>1, <2>1, ElementOfSeq
  <2>3. publisher[l].batch[1].index \in Nat \ {0}
    BY <2>2 DEF EntryType
  <2>4. Ahead(l) = publisher[l].batch[1].index - 1
    BY <1>4 DEF Ahead
  <2>. QED
    BY <1>2, <2>1, <2>3, <2>4 DEF BatchEnd
<1>. QED
  BY <1>3, <1>4

\* What concerns a listener when the list moves on.
LEMMA LaterGiven ==
    ASSUME IInv, UNCHANGED <<publisher, got>>, NEW l \in Listeners,
           LastIndex' \in Nat, LastIndex' >= LastIndex, First' \in {First, First + 1}
    PROVE  Given(l)' /\ publisher[l].offset <= LastIndex'
<1>1. /\ Given(l) /\ publisher[l].offset \in Nat /\ publisher[l].batch \in Seq(EntryType)
      /\ publisher[l].offset <= LastIndex /\ LastIndex \in Nat /\ First \in Nat \ {0}
  BY ListNumbers DEF IInv, TypeOK
<1>2. Ahead(l)' = Ahead(l) /\ BatchEnd(l)' = BatchEnd(l)
  BY DEF Ahead, BatchEnd
<1>3. Ahead(l) \in Int /\ BatchEnd(l) \in Int
  BY BatchNumbers DEF IInv
<1>4. /\ \A k \in 1..Len(publisher[l].batch) : publisher[l].batch[k].index = Ahead(l) + k
      /\ publisher[l].offset <= BatchEnd(l) /\ BatchEnd(l) <= LastIndex
      /\ \A j \in First..Ahead(l) : j \in got[l]
      /\ First = 1 => publisher[l].offset = BatchEnd(l) /\ got[l] \subseteq 1..Ahead(l)
  BY <1>1 DEF Given
<1>5. BatchEnd(l) <= LastIndex' /\ publisher[l].offset <= LastIndex'
  BY <1>1, <1>3, <1>4
<1>6. \A j \in First'..Ahead(l) : j \in got[l]
  <2>1. \A j \in First'..Ahead(l) : j \in First..Ahead(l)
    BY <1>1, <1>3
  <2>. QED
    BY <1>4, <2>1
<1>7. First' = 1 => First = 1
  BY <1>1
<1>. QED
  BY <1>2, <1>4, <1>5, <1>6, <1>7 DEF Given

\* addEventList: the push and, outside the lock, the counter.
LEMMA PushKeepsInv ==
    ASSUME IInv, Push \/ Count
    PROVE  IInv' /\ LastIndex' = IF Push THEN LastIndex + 1 ELSE LastIndex
<1>1. UNCHANGED <<table, publisher, handler, got, restarts, inserted>>
  BY DEF Push, Count, clients
<1>2. /\ consumer.pc = IF Push THEN "push" ELSE "count"
      /\ consumer' \in [pc : ConsumerPcs, event : 0..MaxEvents]
      /\ consumer'.event = consumer.event /\ consumer'.event \in Events
  BY DEF Push, Count, IInv, TypeOK, ConsumerPcs
<1>3. LastIndex \in Nat
  BY ListNumbers DEF IInv
<1>4. /\ list' \in Seq(EntryType) /\ ListIsWindow' /\ eventOffset' \in Nat
      /\ LastIndex' = (IF Push THEN LastIndex + 1 ELSE LastIndex) /\ First' \in {First, First + 1}
  <2>1. CASE Push
    <3>1. eventOffset' \in Nat
      BY <2>1 DEF Push, IInv, TypeOK
    <3>. QED
      BY <2>1, <3>1, PushedList
  <2>2. CASE ~Push
    <3>1. consumer.pc = "count" /\ consumer'.pc = "broadcast" /\ eventOffset' = eventOffset + 1
          /\ list' = list
      BY <2>2 DEF Count, IInv, TypeOK
    <3>2. LastIndex' = LastIndex
      BY <3>1 DEF LastIndex
    <3>3. eventOffset' \in Nat /\ list' \in Seq(EntryType)
      BY <3>1 DEF IInv, TypeOK
    <3>4. First' = First /\ ListIsWindow'
      BY <3>1, <3>2 DEF First, IInv, ListIsWindow
    <3>. QED
      BY <2>2, <3>2, <3>3, <3>4
  <2>. QED
    BY <2>1, <2>2
<1>5. ASSUME NEW l \in Listeners
      PROVE  Given(l)' /\ publisher[l].offset <= LastIndex'
  BY <1>1, <1>3, <1>4, LaterGiven
<1>6. TypeOK'
  BY <1>1, <1>2, <1>4, <1>5 DEF IInv, TypeOK
<1>7. Stored'
  BY <1>1, <1>2 DEF IInv, Stored, TableHasTheNewest
<1>. QED
  BY <1>4, <1>5, <1>6, <1>7 DEF IInv

\* A broadcast moves the publishers that sleep.
LEMMA BroadcastKeepsInv ==
    ASSUME IInv, Broadcast
    PROVE  IInv' /\ LastIndex' = LastIndex
<1>1. /\ consumer.pc = "broadcast" /\ consumer'.pc = "read" /\ consumer'.event = consumer.event
      /\ consumer' \in [pc : ConsumerPcs, event : 0..MaxEvents]
      /\ UNCHANGED <<table, list, eventOffset, handler, got, restarts, inserted>>
  BY DEF Broadcast, IInv, TypeOK, ConsumerPcs
<1>2. LastIndex' = LastIndex
  BY <1>1 DEF LastIndex
<1>3. ASSUME NEW l \in Listeners
      PROVE  /\ publisher'[l] \in [pc : PublisherPcs, offset : Nat, batch : Seq(EntryType)]
             /\ publisher'[l].batch = publisher[l].batch
             /\ publisher'[l].offset = publisher[l].offset
             /\ publisher'[l].pc = IF publisher[l].pc = "asleep" THEN "check" ELSE publisher[l].pc
  <2>1. publisher[l] \in [pc : PublisherPcs, offset : Nat, batch : Seq(EntryType)]
    BY DEF IInv, TypeOK
  <2>. QED
    BY <2>1 DEF Broadcast, PublisherPcs
<1>4. publisher' \in [Listeners -> [pc : PublisherPcs, offset : Nat, batch : Seq(EntryType)]]
  BY <1>3 DEF Broadcast
<1>5. TypeOK'
  <2>1. ASSUME NEW l \in Listeners
        PROVE  /\ publisher'[l].pc = "send" <=> publisher'[l].batch # <<>>
               /\ publisher'[l].pc = "off" <=> handler'[l] = "off"
               /\ publisher'[l].offset <= LastIndex'
    <3>1. /\ publisher[l].pc = "send" <=> publisher[l].batch # <<>>
          /\ publisher[l].pc = "off" <=> handler[l] = "off"
          /\ publisher[l].offset <= LastIndex
      BY DEF IInv, TypeOK
    <3>2. handler'[l] = handler[l]
      BY <1>1
    <3>. QED
      BY <1>2, <1>3, <3>1, <3>2
  <2>. QED
    BY <1>1, <1>4, <2>1 DEF IInv, TypeOK
<1>6. ListIsWindow' /\ Stored'
  BY <1>1, <1>2 DEF IInv, ListIsWindow, Stored, TableHasTheNewest
<1>7. ASSUME NEW l \in Listeners
      PROVE  Given(l)'
  BY <1>1, <1>2, <1>3, SameGiven DEF IInv
<1>. QED
  BY <1>2, <1>5, <1>6, <1>7 DEF IInv

\* A restart loads the newest events of the table and deletes the others.
LEMMA RestartKeepsInv ==
    ASSUME IInv, Restart
    PROVE  IInv' /\ First' = 1 /\ LastIndex' \in 0..maxMessageLen
<1>. DEFINE recent == Newest(table, maxMessageLen)
<1>1. /\ list' = Loaded(recent) /\ eventOffset' = Cardinality(recent)
      /\ \E cut \in 1..(MaxEvents + 1) : table' = {e \in recent : e >= cut}
      /\ restarts' \in 0..MaxRestarts
      /\ consumer'.pc = "read" /\ consumer'.event = consumer.event
      /\ consumer' \in [pc : ConsumerPcs, event : 0..MaxEvents]
      /\ inserted' = inserted
      /\ publisher' = [l \in Listeners |-> Off] /\ handler' = [l \in Listeners |-> "off"]
      /\ got' = [l \in Listeners |-> {}]
  <2>1. /\ list' = Loaded(recent) /\ eventOffset' = Cardinality(recent)
        /\ \E cut \in 1..(MaxEvents + 1) : table' = {e \in recent : e >= cut}
        /\ consumer' = [consumer EXCEPT !.pc = "read"] /\ inserted' = inserted
        /\ restarts < MaxRestarts /\ restarts' = restarts + 1
        /\ publisher' = [l \in Listeners |-> Off] /\ handler' = [l \in Listeners |-> "off"]
        /\ got' = [l \in Listeners |-> {}]
    BY Zenon DEF Restart
  <2>2. /\ consumer \in [pc : ConsumerPcs, event : 0..MaxEvents]
        /\ restarts \in 0..MaxRestarts
    BY DEF IInv, TypeOK
  <2>. HIDE DEF recent
  <2>3. restarts' \in 0..MaxRestarts
    BY <2>1, <2>2, SizesAssumption
  <2>4. /\ consumer'.pc = "read" /\ consumer'.event = consumer.event
        /\ consumer' \in [pc : ConsumerPcs, event : 0..MaxEvents]
    BY <2>1, <2>2 DEF ConsumerPcs
  <2>. QED
    BY <2>1, <2>3, <2>4
<1>2. table \subseteq Events /\ IsFiniteSet(table) /\ table \subseteq Nat
  <2>1. table \subseteq 1..MaxEvents /\ MaxEvents \in Nat
    BY SizesAssumption DEF IInv, TypeOK, Events
  <2>2. IsFiniteSet(1..MaxEvents)
    BY <2>1, FS_Interval
  <2>3. IsFiniteSet(table)
    BY <2>1, <2>2, FS_Subset
  <2>. QED
    BY <2>1, <2>3 DEF Events
<1>3. /\ IsFiniteSet(recent) /\ recent \subseteq table /\ Cardinality(recent) \in 0..maxMessageLen
  BY <1>2, NewestBounded, SizesAssumption
<1>4. \A f \in recent, e \in table : e > f => e \in recent
  <2>1. ASSUME NEW f \in recent, NEW e \in table, e > f
        PROVE  e \in recent
    <3>1. f \in table /\ f \in Nat /\ e \in Nat /\ Cardinality({g \in table : g > f}) < maxMessageLen
      BY <1>2, <1>3 DEF Newest
    <3>2. Cardinality(Newer(table, e)) < Cardinality(Newer(table, f))
          /\ Cardinality(Newer(table, e)) \in Int /\ Cardinality(Newer(table, f)) \in Int
      <4>1. /\ Cardinality(table) \in Nat
            /\ \A d \in table : Cardinality(Newer(table, d)) \in 0..(Cardinality(table) - 1)
            /\ \A d, g \in table : d < g => Cardinality(Newer(table, g)) < Cardinality(Newer(table, d))
        BY <1>2, Ranks
      <4>2. f < e
        BY <2>1, <3>1
      <4>. QED
        BY <3>1, <4>1, <4>2
    <3>3. Cardinality(Newer(table, e)) < maxMessageLen
      BY <3>1, <3>2, SizesAssumption DEF Newer
    <3>. QED
      BY <3>3 DEF Newest, Newer
  <2>. QED
    BY <2>1
<1>. HIDE DEF recent
<1>5. recent \subseteq Events
  BY <1>2, <1>3
<1>6. /\ list' \in Seq(EntryType) /\ Len(list') = Cardinality(recent)
      /\ \A k \in 1..Cardinality(recent) : list'[k].index = k
  BY <1>1, <1>3, <1>5, LoadedIsList
<1>7. LastIndex' = Cardinality(recent) /\ LastIndex' \in Nat
  BY <1>1, <1>3 DEF LastIndex
<1>8. First' = 1
  BY <1>6, <1>7 DEF First
<1>9. ListIsWindow'
  <2>1. DOMAIN list' = 1..Len(list')
    BY <1>6, LenProperties
  <2>2. Len(list') <= maxMessageLen + 1 /\ Len(list') <= LastIndex' /\ LastIndex' - Len(list') = 0
    BY <1>3, <1>6, <1>7, SizesAssumption
  <2>3. \A k \in DOMAIN list' : list'[k].index = LastIndex' - Len(list') + k
    BY <1>6, <2>1, <2>2
  <2>. QED
    BY <2>2, <2>3 DEF ListIsWindow
<1>10. PICK cut \in 1..(MaxEvents + 1) : table' = {e \in recent : e >= cut}
  BY <1>1
<1>11. Stored'
  <2>1. table' \subseteq table
    BY <1>3, <1>10
  <2>2. ASSUME NEW f \in table', NEW e \in inserted', e > f
        PROVE  e \in table'
    <3>1. f \in table /\ f \in recent /\ f >= cut /\ f \in Nat /\ cut \in Nat
      BY <1>2, <1>3, <1>10, SizesAssumption
    <3>2. e \in table /\ e \in Nat
      BY <1>1, <1>2, <2>2, <3>1 DEF IInv, Stored, TableHasTheNewest
    <3>3. e \in recent
      BY <1>4, <2>2, <3>1, <3>2
    <3>4. e >= cut
      BY <2>2, <3>1, <3>2
    <3>. QED
      BY <1>10, <3>3, <3>4
  <2>. QED
    BY <1>1, <2>1, <2>2 DEF IInv, Stored, TableHasTheNewest
<1>12. ASSUME NEW l \in Listeners
       PROVE  /\ publisher'[l] = Off /\ handler'[l] = "off" /\ got'[l] = {}
              /\ publisher'[l].offset <= LastIndex' /\ Given(l)'
  <2>1. publisher'[l] = Off /\ handler'[l] = "off" /\ got'[l] = {}
    BY <1>1
  <2>2. Ahead(l)' = 0 /\ BatchEnd(l)' = 0
    BY <2>1 DEF Ahead, BatchEnd, Off
  <2>3. Given(l)'
    BY <1>7, <1>8, <2>1, <2>2 DEF Given, Off
  <2>. QED
    BY <1>7, <2>1, <2>3 DEF Off
<1>13. TypeOK'
  <2>1. table' \subseteq Events /\ inserted' \subseteq Events /\ eventOffset' \in Nat
    BY <1>1, <1>3, <1>5, <1>10 DEF IInv, TypeOK
  <2>2. Off \in [pc : PublisherPcs, offset : Nat, batch : Seq(EntryType)]
    BY DEF Off, PublisherPcs
  <2>3. /\ publisher' \in [Listeners -> [pc : PublisherPcs, offset : Nat, batch : Seq(EntryType)]]
        /\ handler' \in [Listeners -> {"off", "recv", "write", "stop"}]
        /\ got' \in [Listeners -> SUBSET Nat]
    BY <1>1, <2>2
  <2>4. \A l \in Listeners : /\ publisher'[l].pc = "off" /\ publisher'[l].batch = <<>>
    BY <1>12 DEF Off
  <2>. QED
    BY <1>1, <1>6, <1>12, <2>1, <2>3, <2>4 DEF TypeOK
<1>. QED
  BY <1>3, <1>7, <1>8, <1>9, <1>11, <1>12, <1>13 DEF IInv

--------------------------------------------------------------------------------
(* The listeners *)

\* A step of one listener keeps the invariant when it keeps that listener's part of it.
LEMMA ListenerStep ==
    ASSUME IInv, NEW l \in Listeners,
           UNCHANGED <<consumer, table, list, eventOffset, restarts, inserted>>,
           publisher' \in [Listeners -> [pc : PublisherPcs, offset : Nat, batch : Seq(EntryType)]],
           handler' \in [Listeners -> {"off", "recv", "write", "stop"}],
           got' \in [Listeners -> SUBSET Nat],
           \A m \in Listeners \ {l} : /\ publisher'[m] = publisher[m]
                                      /\ handler'[m] = handler[m] /\ got'[m] = got[m],
           publisher'[l].pc = "send" <=> publisher'[l].batch # <<>>,
           publisher'[l].pc = "off" <=> handler'[l] = "off",
           publisher'[l].offset <= LastIndex,
           Given(l)'
    PROVE  IInv' /\ UNCHANGED <<First, LastIndex>>
<1>1. UNCHANGED <<First, LastIndex>>
  BY DEF First, LastIndex
<1>2. ASSUME NEW m \in Listeners
      PROVE  /\ publisher'[m].pc = "send" <=> publisher'[m].batch # <<>>
             /\ publisher'[m].pc = "off" <=> handler'[m] = "off"
             /\ publisher'[m].offset <= LastIndex'
  <2>1. CASE m = l
    BY <1>1, <2>1
  <2>2. CASE m # l
    <3>1. publisher'[m] = publisher[m] /\ handler'[m] = handler[m]
      BY <2>2
    <3>2. /\ publisher[m].pc = "send" <=> publisher[m].batch # <<>>
          /\ publisher[m].pc = "off" <=> handler[m] = "off"
          /\ publisher[m].offset <= LastIndex
      BY DEF IInv, TypeOK
    <3>. QED
      BY <1>1, <3>1, <3>2
  <2>. QED
    BY <2>1, <2>2
<1>3. TypeOK'
  BY <1>2 DEF IInv, TypeOK
<1>4. ListIsWindow' /\ Stored'
  BY <1>1 DEF IInv, ListIsWindow, Stored, TableHasTheNewest
<1>5. ASSUME NEW m \in Listeners
      PROVE  Given(m)'
  <2>1. CASE m # l
    <3>1. Given(m) /\ publisher'[m] = publisher[m] /\ got'[m] = got[m]
      BY <2>1 DEF IInv
    <3>2. Ahead(m)' = Ahead(m)
      BY <3>1 DEF Ahead
    <3>3. BatchEnd(m)' = BatchEnd(m)
      BY <3>1, <3>2 DEF BatchEnd
    <3>. QED
      BY <1>1, <3>1, <3>2, <3>3 DEF Given
  <2>. QED
    BY <2>1
<1>. QED
  BY <1>1, <1>3, <1>4, <1>5 DEF IInv

\* A listener that comes or goes starts from nothing.
LEMMA ComeAndGo ==
    ASSUME IInv, NEW l \in Listeners, OpenAgentEvent(l) \/ Stop(l)
    PROVE  IInv' /\ UNCHANGED <<First, LastIndex>> /\ got' = [got EXCEPT ![l] = {}]
<1>1. /\ UNCHANGED <<consumer, table, list, eventOffset, restarts, inserted>>
      /\ got' = [got EXCEPT ![l] = {}]
  BY DEF OpenAgentEvent, Stop
<1>2. LastIndex \in Nat /\ First \in Nat \ {0}
  BY ListNumbers DEF IInv
<1>3. PICK ppc \in {"check", "off"}, hpc \in {"recv", "off"} :
        /\ ppc = "off" <=> hpc = "off"
        /\ publisher' = [publisher EXCEPT ![l] = [pc |-> ppc, offset |-> 0, batch |-> <<>>]]
        /\ handler' = [handler EXCEPT ![l] = hpc]
  BY DEF OpenAgentEvent, Stop, Off
<1>4. /\ publisher \in [Listeners -> [pc : PublisherPcs, offset : Nat, batch : Seq(EntryType)]]
      /\ handler \in [Listeners -> {"off", "recv", "write", "stop"}]
      /\ got \in [Listeners -> SUBSET Nat]
  BY DEF IInv, TypeOK
<1>5. [pc |-> ppc, offset |-> 0, batch |-> <<>>]
        \in [pc : PublisherPcs, offset : Nat, batch : Seq(EntryType)]
  BY <1>3 DEF PublisherPcs
<1>6. /\ publisher' \in [Listeners -> [pc : PublisherPcs, offset : Nat, batch : Seq(EntryType)]]
      /\ handler' \in [Listeners -> {"off", "recv", "write", "stop"}]
      /\ got' \in [Listeners -> SUBSET Nat]
  BY <1>1, <1>3, <1>4, <1>5
<1>7. /\ publisher'[l].pc = ppc /\ publisher'[l].offset = 0 /\ publisher'[l].batch = <<>>
      /\ handler'[l] = hpc /\ got'[l] = {}
      /\ \A m \in Listeners \ {l} : /\ publisher'[m] = publisher[m]
                                    /\ handler'[m] = handler[m] /\ got'[m] = got[m]
  BY <1>1, <1>3, <1>4
<1>8. Ahead(l)' = 0 /\ BatchEnd(l)' = 0
  BY <1>7 DEF Ahead, BatchEnd
<1>9. UNCHANGED <<First, LastIndex>>
  BY <1>1 DEF First, LastIndex
<1>10. Given(l)'
  BY <1>2, <1>7, <1>8, <1>9 DEF Given
<1>11. /\ publisher'[l].pc = "send" <=> publisher'[l].batch # <<>>
       /\ publisher'[l].pc = "off" <=> handler'[l] = "off"
       /\ publisher'[l].offset <= LastIndex
  BY <1>2, <1>3, <1>7
<1>12. IInv'
  BY <1>1, <1>6, <1>7, <1>10, <1>11, ListenerStep
<1>. QED
  BY <1>1, <1>9, <1>12

\* Steps that look at neither the list nor the batch.
LEMMA WaitKeepsInv ==
    ASSUME IInv, NEW l \in Listeners, Check(l) \/ Sleep(l) \/ Write(l)
    PROVE  IInv' /\ UNCHANGED <<First, LastIndex, got>>
<1>1. UNCHANGED <<consumer, table, list, eventOffset, restarts, inserted, got>>
  BY DEF Check, Sleep, Write
<1>2. /\ publisher \in [Listeners -> [pc : PublisherPcs, offset : Nat, batch : Seq(EntryType)]]
      /\ handler \in [Listeners -> {"off", "recv", "write", "stop"}]
      /\ got \in [Listeners -> SUBSET Nat]
      /\ publisher[l].pc = "send" <=> publisher[l].batch # <<>>
      /\ publisher[l].pc = "off" <=> handler[l] = "off"
      /\ publisher[l].offset <= LastIndex /\ Given(l)
  BY DEF IInv, TypeOK
<1>3. PICK ppc \in PublisherPcs, hpc \in {"off", "recv", "write", "stop"} :
        /\ publisher' = [publisher EXCEPT ![l].pc = ppc]
        /\ handler' = [handler EXCEPT ![l] = hpc]
        /\ ppc = "send" <=> publisher[l].pc = "send"
        /\ ppc = "off" <=> hpc = "off"
  <2>1. CASE Check(l)
    <3>1. publisher' = [publisher EXCEPT ![l].pc = "get"] /\ handler' = [handler EXCEPT ![l] = handler[l]]
      BY <1>2, <2>1 DEF Check
    <3>. QED
      BY <1>2, <2>1, <3>1 DEF Check, PublisherPcs
  <2>2. CASE Sleep(l)
    <3>1. publisher' = [publisher EXCEPT ![l].pc = "asleep"] /\ handler' = [handler EXCEPT ![l] = handler[l]]
      BY <1>2, <2>2 DEF Sleep
    <3>. QED
      BY <1>2, <2>2, <3>1 DEF Sleep, PublisherPcs
  <2>3. CASE Write(l)
    <3>1. PICK pc \in {"recv", "stop"} : handler' = [handler EXCEPT ![l] = pc]
      BY <2>3 DEF Write
    <3>2. publisher' = [publisher EXCEPT ![l].pc = publisher[l].pc]
      BY <1>2, <2>3 DEF Write
    <3>3. publisher[l].pc # "off" /\ publisher[l].pc \in PublisherPcs
      BY <1>2, <2>3 DEF Write
    <3>. QED
      BY <3>1, <3>2, <3>3
  <2>. QED
    BY <2>1, <2>2, <2>3
<1>4. /\ publisher' \in [Listeners -> [pc : PublisherPcs, offset : Nat, batch : Seq(EntryType)]]
      /\ handler' \in [Listeners -> {"off", "recv", "write", "stop"}]
  BY <1>2, <1>3
<1>5. /\ publisher'[l].pc = ppc /\ publisher'[l].offset = publisher[l].offset
      /\ publisher'[l].batch = publisher[l].batch /\ handler'[l] = hpc
      /\ \A m \in Listeners \ {l} : publisher'[m] = publisher[m] /\ handler'[m] = handler[m]
  BY <1>2, <1>3
<1>6. UNCHANGED <<First, LastIndex>>
  BY <1>1 DEF First, LastIndex
<1>7. Given(l)'
  BY <1>1, <1>2, <1>5, <1>6, SameGiven
<1>8. /\ publisher'[l].pc = "send" <=> publisher'[l].batch # <<>>
      /\ publisher'[l].pc = "off" <=> handler'[l] = "off"
      /\ publisher'[l].offset <= LastIndex
  BY <1>2, <1>3, <1>5
<1>9. IInv'
  BY <1>1, <1>2, <1>4, <1>5, <1>7, <1>8, ListenerStep
<1>. QED
  BY <1>1, <1>6, <1>9

\* Reading the list: the batch is what the list has above the offset, and the offset
\* grows by the length of it.
LEMMA GetKeepsInv ==
    ASSUME IInv, NEW l \in Listeners, Get(l)
    PROVE  IInv' /\ UNCHANGED <<First, LastIndex, got>>
<1>. DEFINE events == getEvents(publisher[l].offset)
<1>1. /\ UNCHANGED <<consumer, table, list, eventOffset, handler, restarts, inserted, got>>
      /\ publisher[l].pc = "get"
      /\ publisher' = [publisher EXCEPT ![l] =
             [pc |-> IF events = <<>> THEN "sleep" ELSE "send",
              offset |-> publisher[l].offset + Len(events),
              batch |-> events]]
  BY DEF Get
<1>2. /\ publisher \in [Listeners -> [pc : PublisherPcs, offset : Nat, batch : Seq(EntryType)]]
      /\ handler \in [Listeners -> {"off", "recv", "write", "stop"}]
      /\ got \in [Listeners -> SUBSET Nat]
      /\ publisher[l].pc = "send" <=> publisher[l].batch # <<>>
      /\ publisher[l].pc = "off" <=> handler[l] = "off"
      /\ publisher[l].offset \in Nat /\ publisher[l].offset <= LastIndex
  BY DEF IInv, TypeOK
<1>3. LastIndex \in Nat /\ First \in Nat \ {0}
  BY ListNumbers DEF IInv
<1>4. PICK base \in Nat :
        /\ base = IF publisher[l].offset < First THEN First - 1 ELSE publisher[l].offset
        /\ events \in Seq(EntryType) /\ Len(events) = LastIndex - base
        /\ \A k \in 1..Len(events) : events[k].index = base + k
  <2>1. TypeOK /\ ListIsWindow
    BY DEF IInv
  <2>. QED
    BY <1>2, <2>1, EventsAbove
<1>. HIDE DEF events
<1>5. Len(events) \in Nat /\ (events = <<>> <=> Len(events) = 0)
  BY <1>4, LenProperties, EmptySeq
<1>6. /\ publisher'[l].pc = (IF events = <<>> THEN "sleep" ELSE "send")
      /\ publisher'[l].offset = publisher[l].offset + Len(events)
      /\ publisher'[l].batch = events
      /\ \A m \in Listeners \ {l} : publisher'[m] = publisher[m]
  BY <1>1, <1>2
<1>7. publisher' \in [Listeners -> [pc : PublisherPcs, offset : Nat, batch : Seq(EntryType)]]
  <2>1. [pc |-> IF events = <<>> THEN "sleep" ELSE "send",
         offset |-> publisher[l].offset + Len(events), batch |-> events]
          \in [pc : PublisherPcs, offset : Nat, batch : Seq(EntryType)]
    BY <1>2, <1>4, <1>5 DEF PublisherPcs
  <2>. QED
    BY <1>1, <1>2, <2>1
<1>8. UNCHANGED <<First, LastIndex>>
  BY <1>1 DEF First, LastIndex
<1>9. publisher[l].batch = <<>> /\ Ahead(l) = publisher[l].offset /\ BatchEnd(l) = publisher[l].offset
  <2>1. publisher[l].batch = <<>>
    BY <1>1, <1>2
  <2>2. Len(<<>>) = 0
    BY EmptySeq
  <2>. QED
    BY <1>2, <2>1, <2>2 DEF Ahead, BatchEnd
<1>10. /\ \A j \in First..publisher[l].offset : j \in got[l]
       /\ First = 1 => got[l] \subseteq 1..publisher[l].offset
  BY <1>9 DEF IInv, Given
<1>11. publisher[l].offset <= base /\ (First = 1 => base = publisher[l].offset)
  BY <1>2, <1>3, <1>4
<1>12. Ahead(l)' = (IF events = <<>> THEN publisher[l].offset ELSE base)
  <2>1. CASE events = <<>>
    BY <1>2, <1>5, <1>6, <2>1 DEF Ahead
  <2>2. CASE events # <<>>
    <3>1. 1 \in 1..Len(events)
      BY <1>5, <2>2
    <3>2. events[1].index = base + 1
      BY <1>4, <3>1
    <3>. QED
      BY <1>4, <1>6, <2>2, <3>2 DEF Ahead
  <2>. QED
    BY <2>1, <2>2
<1>13. BatchEnd(l)' = Ahead(l)' + Len(events)
  BY <1>6 DEF BatchEnd
<1>14. Given(l)'
  <2>1. \A k \in 1..Len(events) : events[k].index = Ahead(l)' + k
    BY <1>4, <1>5, <1>12
  <2>2. publisher'[l].offset <= BatchEnd(l)' /\ BatchEnd(l)' <= LastIndex
    <3>1. base \in Nat /\ LastIndex \in Nat /\ base + Len(events) = LastIndex
      BY <1>3, <1>4, <1>5
    <3>2. Len(events) \in Nat /\ publisher[l].offset \in Nat
      BY <1>2, <1>5
    <3>3. publisher'[l].offset = publisher[l].offset + Len(events)
      BY <1>6
    <3>4. CASE events = <<>>
      <4>1. Len(events) = 0 /\ Ahead(l)' = publisher[l].offset
        BY <1>5, <1>12, <3>4
      <4>2. publisher[l].offset <= LastIndex
        BY <1>2
      <4>. QED
        BY <1>13, <3>2, <3>3, <4>1, <4>2
    <3>5. CASE events # <<>>
      <4>1. Ahead(l)' = base
        BY <1>12, <3>5
      <4>. QED
        BY <1>11, <1>13, <3>1, <3>2, <3>3, <4>1
    <3>. QED
      BY <3>4, <3>5
  <2>3. \A j \in First..Ahead(l)' : j \in First..publisher[l].offset
    BY <1>2, <1>3, <1>4, <1>12
  <2>4. \A j \in First..Ahead(l)' : j \in got[l]
    BY <1>10, <2>3
  <2>5. First = 1 => publisher'[l].offset = BatchEnd(l)' /\ got[l] \subseteq 1..Ahead(l)'
    BY <1>5, <1>6, <1>10, <1>11, <1>12, <1>13
  <2>. QED
    BY <1>1, <1>6, <1>8, <2>1, <2>2, <2>4, <2>5 DEF Given
<1>15. /\ publisher'[l].pc = "send" <=> publisher'[l].batch # <<>>
       /\ publisher'[l].pc = "off" <=> handler'[l] = "off"
       /\ publisher'[l].offset <= LastIndex
  <2>1. publisher'[l].offset <= LastIndex
    BY <1>2, <1>3, <1>4, <1>6, <1>11
  <2>. QED
    BY <1>1, <1>2, <1>6, <2>1
<1>16. IInv'
  BY <1>1, <1>2, <1>6, <1>7, <1>14, <1>15, ListenerStep
<1>. QED
  BY <1>1, <1>8, <1>16

\* The handler takes the first event of the batch: the one behind all it has been given.
LEMMA SendKeepsInv ==
    ASSUME IInv, NEW l \in Listeners, Send(l)
    PROVE  /\ IInv' /\ UNCHANGED <<First, LastIndex>>
           /\ Ahead(l) + 1 \in 1..LastIndex
           /\ Head(publisher[l].batch).index = Ahead(l) + 1
           /\ got' = [got EXCEPT ![l] = got[l] \cup {Ahead(l) + 1}]
<1>. DEFINE batch == publisher[l].batch
            rest == Tail(batch)
            n == Ahead(l) + 1
<1>1. /\ UNCHANGED <<consumer, table, list, eventOffset, restarts, inserted>>
      /\ publisher[l].pc = "send" /\ handler[l] = "recv"
      /\ handler' = [handler EXCEPT ![l] = "write"]
      /\ publisher' = [publisher EXCEPT ![l].pc = IF rest = <<>> THEN "check" ELSE "send",
                                        ![l].batch = rest]
      /\ got' = [got EXCEPT ![l] = got[l] \cup {Head(batch).index}]
  BY DEF Send
<1>2. /\ publisher \in [Listeners -> [pc : PublisherPcs, offset : Nat, batch : Seq(EntryType)]]
      /\ handler \in [Listeners -> {"off", "recv", "write", "stop"}]
      /\ got \in [Listeners -> SUBSET Nat]
      /\ publisher[l].pc = "send" <=> batch # <<>>
      /\ publisher[l].offset \in Nat /\ publisher[l].offset <= LastIndex
      /\ batch \in Seq(EntryType)
  BY DEF IInv, TypeOK
<1>3. LastIndex \in Nat /\ First \in Nat \ {0}
  BY ListNumbers DEF IInv
<1>4. /\ Len(batch) \in Nat /\ 1 \in 1..Len(batch) /\ Ahead(l) \in Nat /\ BatchEnd(l) \in Int
      /\ batch[1].index = n /\ Ahead(l) + Len(batch) = BatchEnd(l)
  <2>1. TypeOK /\ batch # <<>>
    BY <1>1, <1>2 DEF IInv
  <2>2. /\ Len(batch) \in Nat /\ BatchEnd(l) \in Int
        /\ 1 \in 1..Len(batch) /\ batch[1].index \in Nat \ {0} /\ Ahead(l) = batch[1].index - 1
    BY <2>1, BatchNumbers
  <2>. QED
    BY <2>2 DEF BatchEnd
<1>5. /\ Head(batch) = batch[1] /\ rest \in Seq(EntryType) /\ Len(rest) = Len(batch) - 1
      /\ \A k \in 1..Len(rest) : rest[k] = batch[k + 1]
  <2>1. batch # <<>>
    BY <1>1, <1>2
  <2>. QED
    BY <1>2, <2>1, HeadTailProperties
<1>6. /\ \A k \in 1..Len(batch) : batch[k].index = Ahead(l) + k
      /\ publisher[l].offset <= BatchEnd(l) /\ BatchEnd(l) <= LastIndex
      /\ \A j \in First..Ahead(l) : j \in got[l]
      /\ First = 1 => publisher[l].offset = BatchEnd(l) /\ got[l] \subseteq 1..Ahead(l)
  BY DEF IInv, Given
<1>. HIDE DEF batch, rest
<1>7. rest = <<>> <=> Len(rest) = 0
  BY <1>5, EmptySeq
<1>8. /\ publisher'[l] = [pc |-> IF rest = <<>> THEN "check" ELSE "send",
                          offset |-> publisher[l].offset, batch |-> rest]
      /\ \A m \in Listeners \ {l} : publisher'[m] = publisher[m]
  BY <1>1, <1>2
<1>9. /\ publisher'[l].pc = (IF rest = <<>> THEN "check" ELSE "send")
      /\ publisher'[l].offset = publisher[l].offset /\ publisher'[l].batch = rest
  BY <1>8
<1>10. publisher' \in [Listeners -> [pc : PublisherPcs, offset : Nat, batch : Seq(EntryType)]]
  <2>1. publisher'[l] \in [pc : PublisherPcs, offset : Nat, batch : Seq(EntryType)]
    BY <1>2, <1>5, <1>8 DEF PublisherPcs
  <2>2. \A m \in Listeners : publisher'[m] \in [pc : PublisherPcs, offset : Nat, batch : Seq(EntryType)]
    BY <1>2, <1>8, <2>1
  <2>3. publisher' = [m \in Listeners |-> publisher'[m]]
    BY <1>1, <1>2
  <2>. QED
    BY <2>2, <2>3
<1>11. /\ got'[l] = got[l] \cup {n} /\ got' = [got EXCEPT ![l] = got[l] \cup {n}]
       /\ got' \in [Listeners -> SUBSET Nat]
       /\ \A m \in Listeners \ {l} : got'[m] = got[m]
  <2>1. n \in Nat /\ Head(batch).index = n
    BY <1>4, <1>5
  <2>. HIDE DEF n
  <2>. QED
    BY <1>1, <1>2, <2>1
<1>12. /\ handler' \in [Listeners -> {"off", "recv", "write", "stop"}] /\ handler'[l] = "write"
       /\ \A m \in Listeners \ {l} : handler'[m] = handler[m]
  BY <1>1, <1>2
<1>13. UNCHANGED <<First, LastIndex>>
  BY <1>1 DEF First, LastIndex
<1>14. ASSUME rest = <<>>
       PROVE  Given(l)'
  <2>1. Len(rest) = 0 /\ Ahead(l)' = publisher[l].offset /\ BatchEnd(l)' = publisher[l].offset
    BY <1>2, <1>7, <1>9, <1>14 DEF Ahead, BatchEnd
  <2>2. BatchEnd(l) = n /\ publisher[l].offset <= n
    <3>1. Len(batch) = 1
      BY <1>4, <1>5, <2>1
    <3>. QED
      BY <1>4, <1>6, <3>1
  <2>3. \A j \in First..publisher[l].offset : j \in First..Ahead(l) \/ j = n
    BY <1>2, <1>3, <1>4, <2>2
  <2>4. \A j \in First..publisher[l].offset : j \in got'[l]
    BY <1>6, <1>11, <2>3
  <2>5. First = 1 => publisher[l].offset = n /\ got'[l] \subseteq 1..n
    <3>1. \A j \in 1..Ahead(l) : j \in 1..n
      BY <1>4
    <3>2. n \in 1..n
      BY <1>4
    <3>. QED
      BY <1>6, <1>11, <2>2, <3>1, <3>2
  <2>. QED
    BY <1>2, <1>9, <1>13, <2>1, <2>4, <2>5 DEF Given
<1>15. ASSUME rest # <<>>
       PROVE  Given(l)'
  <2>1. Len(rest) \in Nat /\ 1 \in 1..Len(rest)
    BY <1>4, <1>5, <1>7, <1>15
  <2>2. \A k \in 1..Len(rest) : rest[k].index = n + k
    <3>1. ASSUME NEW k \in 1..Len(rest)
          PROVE  rest[k].index = n + k
      <4>1. k \in Nat /\ k + 1 \in 1..Len(batch) /\ Ahead(l) + (k + 1) = n + k
        <5>1. Len(batch) \in Nat /\ Ahead(l) \in Nat /\ Len(rest) = Len(batch) - 1
          BY <1>4, <1>5
        <5>. QED
          BY <2>1, <5>1
      <4>2. rest[k] = batch[k + 1]
        BY <1>5
      <4>3. batch[k + 1].index = Ahead(l) + (k + 1)
        BY <1>6, <4>1
      <4>. QED
        BY <4>1, <4>2, <4>3
    <3>. QED
      BY <3>1
  <2>3. rest[1].index = n + 1
    BY <2>1, <2>2
  <2>4. Ahead(l)' = n /\ BatchEnd(l)' = BatchEnd(l)
    <3>1. Ahead(l)' = n
      BY <1>4, <1>9, <1>15, <2>3 DEF Ahead
    <3>2. BatchEnd(l)' = n + Len(rest)
      BY <1>9, <3>1 DEF BatchEnd
    <3>. QED
      BY <1>4, <1>5, <3>1, <3>2
  <2>5. \A j \in First..n : j \in First..Ahead(l) \/ j = n
    BY <1>3, <1>4
  <2>6. \A j \in First..n : j \in got'[l]
    BY <1>6, <1>11, <2>5
  <2>7. First = 1 => publisher[l].offset = BatchEnd(l) /\ got'[l] \subseteq 1..n
    <3>1. \A j \in 1..Ahead(l) : j \in 1..n
      BY <1>4
    <3>2. n \in 1..n
      BY <1>4
    <3>. QED
      BY <1>6, <1>11, <3>1, <3>2
  <2>. QED
    BY <1>6, <1>9, <1>13, <2>2, <2>4, <2>6, <2>7 DEF Given
<1>16. /\ publisher'[l].pc = "send" <=> publisher'[l].batch # <<>>
       /\ publisher'[l].pc = "off" <=> handler'[l] = "off"
       /\ publisher'[l].offset <= LastIndex
  BY <1>2, <1>9, <1>12
<1>17. IInv'
  BY <1>1, <1>10, <1>8, <1>11, <1>12, <1>14, <1>15, <1>16, ListenerStep
<1>18. n \in 1..LastIndex /\ Head(batch).index = n
  BY <1>3, <1>4, <1>5, <1>6
<1>. QED
  BY <1>11, <1>13, <1>17, <1>18 DEF batch

--------------------------------------------------------------------------------
(* Theorems *)

\* The first start.
LEMMA InitInv == Init => IInv
<1>. SUFFICES ASSUME Init PROVE IInv
  OBVIOUS
<1>1. /\ LastIndex = 0 /\ Len(list) = 0 /\ DOMAIN list = {} /\ list = <<>>
      /\ list \in Seq(EntryType)
  BY EmptySeq DEF Init, LastIndex
<1>2. First = 1
  BY <1>1 DEF First
<1>3. ASSUME NEW l \in Listeners
      PROVE  /\ publisher[l] = Off /\ handler[l] = "off" /\ got[l] = {}
             /\ Given(l)
  <2>1. publisher[l] = Off /\ handler[l] = "off" /\ got[l] = {}
    BY DEF Init
  <2>2. publisher[l].batch = <<>> /\ publisher[l].offset = 0 /\ Len(<<>>) = 0
    BY <2>1, EmptySeq DEF Off
  <2>3. Ahead(l) = 0 /\ BatchEnd(l) = 0
    BY <2>2 DEF Ahead, BatchEnd
  <2>. QED
    BY <1>1, <1>2, <2>1, <2>2, <2>3 DEF Given
<1>4. TypeOK
  <2>1. Off \in [pc : PublisherPcs, offset : Nat, batch : Seq(EntryType)]
    BY DEF Off, PublisherPcs
  <2>2. consumer \in [pc : ConsumerPcs, event : 0..MaxEvents] /\ consumer.pc = "read"
    BY SizesAssumption DEF Init, ConsumerPcs
  <2>3. /\ publisher \in [Listeners -> [pc : PublisherPcs, offset : Nat, batch : Seq(EntryType)]]
        /\ handler \in [Listeners -> {"off", "recv", "write", "stop"}]
        /\ got \in [Listeners -> SUBSET Nat]
    BY <2>1 DEF Init
  <2>4. /\ table = {} /\ inserted = {} /\ eventOffset \in Nat /\ restarts \in 0..MaxRestarts
    BY SizesAssumption DEF Init
  <2>5. \A l \in Listeners : /\ publisher[l].pc = "off" /\ publisher[l].batch = <<>>
                             /\ publisher[l].offset = 0
    BY <1>3 DEF Off
  <2>. QED
    BY <1>1, <1>3, <2>2, <2>3, <2>4, <2>5 DEF TypeOK
<1>5. ListIsWindow
  BY <1>1, SizesAssumption DEF ListIsWindow
<1>6. Stored
  BY DEF Init, Stored, TableHasTheNewest
<1>. QED
  BY <1>3, <1>4, <1>5, <1>6 DEF IInv

\* Every step keeps the invariant and is a step of the feed or none.
LEMMA NextInv ==
    ASSUME IInv, [Next]_vars
    PROVE  IInv' /\ [Feed!Next]_Feed!feed
<1>1. /\ LastIndex \in Nat /\ First \in Nat \ {0} /\ Len(list) \in Nat
      /\ LastIndex = First + Len(list) - 1
      /\ got \in [Listeners -> SUBSET Nat]
  BY ListNumbers DEF IInv, TypeOK
<1>2. CASE UNCHANGED vars
  <2>1. UNCHANGED <<First, LastIndex>>
    BY <1>2 DEF vars, First, LastIndex
  <2>2. IInv'
    <3>1. TypeOK' /\ ListIsWindow' /\ Stored'
      BY <1>2, <2>1 DEF vars, IInv, TypeOK, ListIsWindow, Stored, TableHasTheNewest
    <3>2. \A l \in Listeners : Given(l)'
      BY <1>2, <2>1, SameGiven DEF vars, IInv
    <3>. QED
      BY <3>1, <3>2 DEF IInv
  <2>3. UNCHANGED Feed!feed
    BY <1>2, <2>1 DEF vars, Feed!feed, First
  <2>. QED
    BY <2>2, <2>3
<1>3. CASE Read \/ Insert \/ InsertFails
  <2>1. IInv' /\ LastIndex' = LastIndex
    BY <1>3, ReadKeepsInv
  <2>2. UNCHANGED <<list, got>>
    BY <1>3 DEF Read, Insert, InsertFails, clients
  <2>3. UNCHANGED Feed!feed
    BY <2>1, <2>2 DEF Feed!feed
  <2>. QED
    BY <2>1, <2>3
<1>4. CASE Clean
  <2>1. IInv'
    BY <1>4, CleanKeepsInv
  <2>2. UNCHANGED <<list, LastIndex, got>>
    BY <1>4 DEF Clean, clients, LastIndex
  <2>3. UNCHANGED Feed!feed
    BY <2>2 DEF Feed!feed
  <2>. QED
    BY <2>1, <2>3
<1>5. CASE Push
  <2>1. IInv' /\ LastIndex' = LastIndex + 1
    BY <1>5, PushKeepsInv
  <2>2. First' \in {First, First + 1} /\ Len(list') <= maxMessageLen + 1
    BY <1>5, PushedList
  <2>3. Len(list') \in Nat /\ LastIndex' = First' + Len(list') - 1 /\ First' \in Nat
    BY <1>1, <2>1, <2>2 DEF First, IInv, TypeOK
  <2>4. LastIndex' < First' + (maxMessageLen + 1)
    BY <2>2, <2>3, SizesAssumption
  <2>5. UNCHANGED got
    BY <1>5 DEF Push, clients
  <2>6. Feed!Add
    BY <2>1, <2>2, <2>4, <2>5 DEF Feed!Add, First
  <2>. QED
    BY <2>1, <2>6 DEF Feed!Next
<1>6. CASE Count
  <2>1. IInv' /\ LastIndex' = LastIndex
    <3>1. ~Push
      BY <1>6 DEF Push, Count
    <3>. QED
      BY <1>6, <3>1, PushKeepsInv
  <2>2. UNCHANGED <<list, got>>
    BY <1>6 DEF Count, clients
  <2>3. UNCHANGED Feed!feed
    BY <2>1, <2>2 DEF Feed!feed
  <2>. QED
    BY <2>1, <2>3
<1>7. CASE Broadcast
  <2>1. IInv' /\ LastIndex' = LastIndex
    BY <1>7, BroadcastKeepsInv
  <2>2. UNCHANGED <<list, got>>
    BY <1>7 DEF Broadcast
  <2>3. UNCHANGED Feed!feed
    BY <2>1, <2>2 DEF Feed!feed
  <2>. QED
    BY <2>1, <2>3
<1>8. CASE Restart
  <2>1. IInv' /\ First' = 1 /\ LastIndex' \in 0..maxMessageLen
    BY <1>8, RestartKeepsInv
  <2>2. got' = [l \in Listeners |-> {}]
    BY <1>8 DEF Restart
  <2>3. LastIndex' \in 0..(maxMessageLen + 1)
    BY <2>1, SizesAssumption
  <2>4. Feed!Reset
    BY <2>1, <2>2, <2>3 DEF Feed!Reset, First
  <2>. QED
    BY <2>1, <2>4 DEF Feed!Next
<1>9. ASSUME NEW l \in Listeners, OpenAgentEvent(l) \/ Stop(l)
      PROVE  IInv' /\ [Feed!Next]_Feed!feed
  <2>1. IInv' /\ UNCHANGED <<First, LastIndex>> /\ got' = [got EXCEPT ![l] = {}]
    BY <1>9, ComeAndGo
  <2>2. Feed!Leave(l)
    BY <2>1 DEF Feed!Leave, First
  <2>. QED
    BY <2>1, <2>2 DEF Feed!Next
<1>10. ASSUME NEW l \in Listeners, Check(l) \/ Sleep(l) \/ Write(l) \/ Get(l)
       PROVE  IInv' /\ [Feed!Next]_Feed!feed
  <2>1. IInv' /\ UNCHANGED <<First, LastIndex, got>>
    BY <1>10, WaitKeepsInv, GetKeepsInv
  <2>2. UNCHANGED Feed!feed
    BY <2>1 DEF Feed!feed, First
  <2>. QED
    BY <2>1, <2>2
<1>11. ASSUME NEW l \in Listeners, Send(l)
       PROVE  IInv' /\ [Feed!Next]_Feed!feed
  <2>. DEFINE i == Ahead(l) + 1
  <2>1. /\ IInv' /\ UNCHANGED <<First, LastIndex>>
        /\ i \in 1..LastIndex
        /\ got' = [got EXCEPT ![l] = got[l] \cup {i}]
    BY <1>11, SendKeepsInv
  <2>2. \A j \in First..(i - 1) : j \in got[l]
    <3>1. Ahead(l) \in Int
      BY BatchNumbers DEF IInv
    <3>2. i - 1 = Ahead(l)
      BY <3>1
    <3>3. \A j \in First..Ahead(l) : j \in got[l]
      BY DEF IInv, Given
    <3>. HIDE DEF i
    <3>. QED
      BY <3>2, <3>3
  <2>. HIDE DEF i
  <2>3. Feed!Deliver(l)
    BY <2>1, <2>2 DEF Feed!Deliver, First
  <2>. QED
    BY <2>1, <2>3 DEF Feed!Next
<1>. QED
  BY <1>2, <1>3, <1>4, <1>5, <1>6, <1>7, <1>8, <1>9, <1>10, <1>11 DEF Next, Consume, Publish

THEOREM Invariant == Spec => []IInv
<1>1. Init => IInv
  BY InitInv
<1>2. IInv /\ [Next]_vars => IInv'
  BY NextInv
<1>. QED
  BY <1>1, <1>2, PTL DEF Spec

\* Types, for any number of listeners, events and restarts: a publisher has something to
\* send exactly in its second select, it lives as long as its handler, and its offset is
\* never above the last index of the list.
THEOREM TypeCorrect == Spec => []TypeOK
<1>1. IInv => TypeOK
  BY DEF IInv
<1>. QED
  BY <1>1, Invariant, PTL

\* addEventList keeps the list a window: at most maxMessageLen + 1 entries, numbered
\* without a gap up to the last one pushed, for any maxMessageLen.
THEOREM ListStaysWindow == Spec => []ListIsWindow
<1>1. IInv => ListIsWindow
  BY DEF IInv
<1>. QED
  BY <1>1, Invariant, PTL

\* cleanAgentEventHistory and loadEventList only ever remove the oldest rows.
THEOREM TableKeepsNewest == Spec => []TableHasTheNewest
<1>1. IInv => TableHasTheNewest
  BY DEF IInv, Stored
<1>. QED
  BY <1>1, Invariant, PTL

\* The list, its trimming, the offsets of the publishers and their batches implement the
\* feed of module EventFeed: no listener is given an event that is kept before all kept
\* events that are older.
THEOREM ImplementsFeed == Spec => FeedSpec
<1>1. Init => Feed!Init
  <2>. SUFFICES ASSUME Init PROVE Feed!Init
    OBVIOUS
  <2>1. LastIndex = 0 /\ Len(list) = 0 /\ got = [l \in Listeners |-> {}]
    BY EmptySeq DEF Init, LastIndex
  <2>. QED
    BY <2>1 DEF Feed!Init
<1>2. IInv /\ [Next]_vars => [Feed!Next]_Feed!feed
  BY NextInv
<1>. QED
  BY <1>1, <1>2, Invariant, PTL DEF Spec, FeedSpec, Feed!Spec

\* A publisher hands its client no event a second time as long as the first event is in
\* the list: until then the offset, which counts events, is the index of the last one.
THEOREM NoDuplicateUntilTrimmed == Spec => ExactlyOnceUntilTrimmed
<1>. DEFINE Once == \A l \in Listeners :
                      Send(l) /\ 1 \in Indexes(list) => Head(publisher[l].batch).index \notin got[l]
<1>1. ASSUME IInv, NEW l \in Listeners, Send(l), 1 \in Indexes(list)
      PROVE  Head(publisher[l].batch).index \notin got[l]
  <2>1. /\ First \in Nat \ {0} /\ Len(list) \in Nat
        /\ \A k \in 1..Len(list) : list[k].index = First + k - 1
        /\ DOMAIN list = 1..Len(list)
    BY <1>1, ListNumbers DEF IInv
  <2>2. PICK k \in 1..Len(list) : list[k].index = 1
    BY <1>1, <2>1 DEF Indexes
  <2>3. First + k - 1 = 1
    BY <2>1, <2>2
  <2>4. First = 1
    BY <2>1, <2>3
  <2>5. got[l] \subseteq 1..Ahead(l)
    BY <1>1, <2>4 DEF IInv, Given
  <2>6. Head(publisher[l].batch).index = Ahead(l) + 1
    BY <1>1, SendKeepsInv
  <2>7. Ahead(l) \in Int
    BY <1>1, BatchNumbers DEF IInv
  <2>8. Ahead(l) + 1 \notin 1..Ahead(l)
    BY <2>7
  <2>. QED
    BY <2>5, <2>6, <2>8
<1>2. IInv => Once
  BY <1>1
<1>3. IInv /\ [Next]_vars => [Once]_vars
  BY <1>2
<1>. HIDE DEF Once
<1>4. Spec => [][Once]_vars
  BY <1>3, Invariant, PTL DEF Spec
<1>. QED
  BY <1>4 DEF Once, ExactlyOnceUntilTrimmed

================================================================================
