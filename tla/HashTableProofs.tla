-------------------------- MODULE HashTableProofs --------------------------
(***************************************************************************)
(* Proofs about HashTable for every set of keys and values, every initial  *)
(* capacity, every width of size_t and every hash function.                *)
(***************************************************************************)
EXTENDS HashTable, FiniteSetTheorems, TLAPS

Cap == Nat \ {0}
Table(cap) == [Slots(cap) -> Entry]

\* The home slot of a key (ht_get, ht_set_entry: hash & (capacity - 1)) is a
\* slot of the table.
LEMMA HomeSlot ==
  ASSUME NEW k \in Key \cup {0}, NEW cap \in Cap
  PROVE  Home(k, cap) \in Slots(cap)
BY HashTableAssumption DEF Home, Slots, Cap

\* The slot after a slot, with the wrap to 0, is a slot.
LEMMA SuccSlot ==
  ASSUME NEW cap \in Cap, NEW s \in Slots(cap)
  PROVE  Succ(s, cap) \in Slots(cap)
BY DEF Succ, Slots, Cap

\* A probe that starts has passed nothing.
LEMMA ProbeStarts ==
  ASSUME NEW cap \in Cap, NEW E \in Table(cap), NEW k \in Key \cup {0}
  PROVE  Passed(E, cap, k, Home(k, cap))
BY HomeSlot DEF Passed, Between, Slots, Cap

\* A probe that moves on from a slot holding another key has passed it.
LEMMA ProbeAdvances ==
  ASSUME NEW cap \in Cap, NEW E \in Table(cap), NEW k \in Key \cup {0},
         NEW idx \in Slots(cap),
         Passed(E, cap, k, idx), E[idx].key \notin {0, k}
  PROVE  Passed(E, cap, k, Succ(idx, cap))
<1> DEFINE h == Home(k, cap)
<1>1. h \in Slots(cap)
  BY HomeSlot
<1> SUFFICES ASSUME NEW s \in Slots(cap), Between(h, s, Succ(idx, cap))
             PROVE  E[s].key \notin {0, k}
  BY DEF Passed
<1>2. s = idx \/ Between(h, s, idx)
  <2> HIDE DEF h
  <2> QED BY <1>1 DEF Between, Succ, Slots, Cap
<1> QED
  BY <1>2 DEF Passed

\* A probe that meets an empty slot has shown that the key is in no slot.
LEMMA EmptyMeansAbsent ==
  ASSUME NEW cap \in Cap, NEW E \in Table(cap), NEW k \in Key,
         NEW idx \in Slots(cap),
         Reachable(E, cap), Passed(E, cap, k, idx), E[idx].key = 0
  PROVE  \A s \in Slots(cap) : E[s].key # k
<1> DEFINE h == Home(k, cap)
<1>1. h \in Slots(cap)
  BY HomeSlot
<1> SUFFICES ASSUME NEW j \in Slots(cap), E[j].key = k
             PROVE  FALSE
  OBVIOUS
<1>2. k # 0
  BY HashTableAssumption
<1>3. j # idx
  BY <1>2
<1>4. Between(h, j, idx) \/ Between(h, idx, j)
  <2> HIDE DEF h
  <2> QED BY <1>1, <1>3 DEF Between, Slots, Cap
<1>5. ~ Between(h, j, idx)
  BY DEF Passed
<1>6. j \in Occupied(E)
  BY <1>2 DEF Occupied, Table
<1>7. ~ Between(h, idx, j)
  BY <1>6 DEF Reachable
<1> QED
  BY <1>4, <1>5, <1>7

\* Filling the empty slot a probe ends at keeps keys unique and reachable.
LEMMA InsertKeeps ==
  ASSUME NEW cap \in Cap, NEW E \in Table(cap), NEW k \in Key,
         NEW v \in Val \cup {NULL}, NEW idx \in Slots(cap),
         UniqueKeys(E), Reachable(E, cap), Passed(E, cap, k, idx),
         E[idx].key = 0
  PROVE  LET F == [E EXCEPT ![idx] = [key |-> k, value |-> v]]
         IN  /\ F \in Table(cap)
             /\ UniqueKeys(F)
             /\ Reachable(F, cap)
<1> DEFINE F == [E EXCEPT ![idx] = [key |-> k, value |-> v]]
<1>1. F \in Table(cap)
  BY DEF Table, Entry
<1>2. \A s \in Slots(cap) : E[s].key # k
  BY EmptyMeansAbsent
<1>3. F[idx].key = k /\ \A s \in Slots(cap) : s # idx => F[s] = E[s]
  BY DEF Table
<1>4. k # 0
  BY HashTableAssumption
<1>5. DOMAIN F = Slots(cap) /\ DOMAIN E = Slots(cap)
  BY DEF Table
<1> HIDE DEF F
<1>6. Occupied(F) = Occupied(E) \cup {idx}
  BY <1>3, <1>4, <1>5 DEF Occupied
<1>7. UniqueKeys(F)
  BY <1>2, <1>3, <1>5, <1>6 DEF UniqueKeys, Occupied
<1>8. ASSUME NEW j \in Occupied(F), NEW s \in Slots(cap),
             Between(Home(F[j].key, cap), s, j)
      PROVE  F[s].key # 0
  <2>1. CASE j = idx
    <3>1. E[s].key # 0
      BY <1>3, <1>8, <2>1 DEF Passed
    <3> QED BY <3>1, <1>3, <1>4
  <2>2. CASE j # idx
    <3>1. j \in Occupied(E) /\ F[j] = E[j]
      BY <2>2, <1>3, <1>5, <1>6 DEF Occupied
    <3>2. E[s].key # 0
      BY <3>1, <1>8 DEF Reachable
    <3> QED BY <3>2, <1>3, <1>4
  <2> QED BY <2>1, <2>2
<1>9. Reachable(F, cap)
  BY <1>8 DEF Reachable
<1> QED
  BY <1>1, <1>7, <1>9 DEF F

\* Replacing the value of a stored key keeps keys unique and reachable.
LEMMA UpdateKeeps ==
  ASSUME NEW cap \in Cap, NEW E \in Table(cap), NEW F \in Table(cap),
         UniqueKeys(E), Reachable(E, cap),
         \A s \in Slots(cap) : F[s].key = E[s].key
  PROVE  /\ UniqueKeys(F)
         /\ Reachable(F, cap)
         /\ Occupied(F) = Occupied(E)
<1>1. DOMAIN F = Slots(cap) /\ DOMAIN E = Slots(cap)
  BY DEF Table
<1>2. Occupied(F) = Occupied(E)
  BY <1>1 DEF Occupied
<1>3. \A s \in Occupied(E) : s \in Slots(cap)
  BY <1>1 DEF Occupied
<1> QED
  BY <1>2, <1>3 DEF UniqueKeys, Reachable
-----------------------------------------------------------------------------
(* The inductive invariant *)

\* The probe in progress has passed only slots that hold other keys, and a
\* key that is being set is not NULL.
ProbeInv ==
  /\ pc \in {"set", "expand", "rehash", "reinsert"} => key # 0
  /\ pc \in {"get", "set"} => Passed(entries, capacity, key, index)
  /\ pc = "reinsert" =>
       /\ entries[i].key # 0
       /\ Passed(newEntries, 2 * capacity, entries[i].key, index)

TableInv == TypeOK /\ WellFormed /\ ProbeInv

\* An array fresh from calloc is a well-formed table.
LEMMA FreshTable ==
  ASSUME NEW cap \in Cap
  PROVE  /\ Fresh(cap) \in Table(cap)
         /\ Occupied(Fresh(cap)) = {}
         /\ UniqueKeys(Fresh(cap))
         /\ Reachable(Fresh(cap), cap)
<1>1. Fresh(cap) \in Table(cap)
  BY DEF Fresh, Table, Entry, Empty
<1>2. Occupied(Fresh(cap)) = {}
  BY DEF Occupied, Fresh, Empty
<1> QED
  BY <1>1, <1>2 DEF UniqueKeys, Reachable

\* ht_create leaves a table that satisfies the invariant.
LEMMA InitTable == Init => TableInv
<1> SUFFICES ASSUME Init PROVE TableInv
  OBVIOUS
<1>1. CAPACITY \in Cap /\ CAPACITY \in 2 .. SizeMod - 1
  BY HashTableAssumption DEF Cap
<1>2. /\ entries \in [Slots(capacity) -> Entry]
      /\ UniqueKeys(entries) /\ Reachable(entries, capacity)
  BY <1>1, FreshTable DEF Init, Table
<1>3. TypeOK
  BY <1>1, <1>2 DEF Init, TypeOK
<1> QED
  BY <1>2, <1>3 DEF Init, TableInv, WellFormed, ProbeInv

\* ht_expand goes on only when doubling did not overflow size_t.
LEMMA Doubling ==
  ASSUME capacity \in 2 .. SizeMod - 1, NewCapacity >= capacity
  PROVE  NewCapacity = 2 * capacity /\ 2 * capacity \in 2 .. SizeMod - 1
<1>1. SizeMod \in Nat /\ capacity \in Nat /\ SizeMod > capacity /\ capacity >= 2
  BY HashTableAssumption
<1>2. (capacity * 2) % SizeMod =
        IF capacity * 2 < SizeMod THEN capacity * 2 ELSE capacity * 2 - SizeMod
  BY <1>1
<1> QED
  BY <1>1, <1>2 DEF NewCapacity

\* Every step of every call keeps the table well formed.
LEMMA NextTable == TableInv /\ [Next]_vars => TableInv'
<1> SUFFICES ASSUME TableInv, [Next]_vars PROVE TableInv'
  OBVIOUS
<1> USE DEF TableInv
<1>1. /\ capacity \in Cap /\ 2 * capacity \in Cap
      /\ Live => entries \in Table(capacity)
      /\ pc \in {"rehash", "reinsert"} => newEntries \in Table(2 * capacity)
  BY DEF TypeOK, Cap, Table
<1>2. ASSUME NEW k \in Key \cup {0}, ht_get(k) PROVE TableInv'
  <2>1. /\ Home(k, capacity) \in Slots(capacity)
        /\ Passed(entries, capacity, k, Home(k, capacity))
    BY <1>1, <1>2, HomeSlot, ProbeStarts DEF ht_get, Live
  <2>2. TypeOK'
    BY <1>2, <2>1, HashTableAssumption DEF ht_get, TypeOK, Live, Slots, NewCapacity
  <2> QED
    BY <1>2, <2>1, <2>2 DEF ht_get, WellFormed, ProbeInv, Live
<1>3. ASSUME NEW k \in Key \cup {0}, NEW v \in Val \cup {NULL}, ht_set(k, v)
      PROVE  TableInv'
  <2>1. /\ Home(k, capacity) \in Slots(capacity)
        /\ Passed(entries, capacity, k, Home(k, capacity))
    BY <1>1, <1>3, HomeSlot, ProbeStarts DEF ht_set, Live
  <2>2. TypeOK'
    BY <1>3, <2>1, HashTableAssumption, SMTT(30) DEF ht_set, TypeOK, Live, Slots, NewCapacity
  <2> QED
    BY <1>3, <2>1, <2>2 DEF ht_set, WellFormed, ProbeInv, Live
<1>4. CASE GetMiss \/ GetHit \/ ExpandFail
  <2>1. pc \in {"get", "expand"} /\ pc' = "idle"
    BY <1>4 DEF GetMiss, GetHit, ExpandFail, Return
  <2>2. ret' \in Key \cup Val \cup {NULL}
    BY <1>4 DEF GetMiss, GetHit, ExpandFail, Return, TypeOK, Live, Entry
  <2>3. UNCHANGED <<entries, capacity, length, key, value, index, newEntries, i>>
    BY <1>4 DEF GetMiss, GetHit, ExpandFail
  <2> QED
    BY <2>1, <2>2, <2>3 DEF TypeOK, WellFormed, ProbeInv, Live, NewCapacity
<1>5. CASE GetProbe \/ SetProbe
  <2>1. /\ index' = Succ(index, capacity)
        /\ entries[index].key \notin {0, key}
        /\ pc \in {"get", "set"}
        /\ UNCHANGED <<entries, capacity, length, pc, key, value, newEntries, i, ret>>
    BY <1>5 DEF GetProbe, SetProbe
  <2>2. /\ index \in Slots(capacity)
        /\ Passed(entries, capacity, key, index)
        /\ key \in Key \cup {0}
        /\ entries \in Table(capacity)
    BY <2>1, <1>1 DEF TypeOK, ProbeInv, Live
  <2>3. /\ index' \in Slots(capacity)
        /\ Passed(entries, capacity, key, index')
    BY <1>1, <2>1, <2>2, SuccSlot, ProbeAdvances
  <2>4. TypeOK'
    BY <2>1, <2>3 DEF TypeOK, Live, NewCapacity, Slots
  <2> QED
    BY <2>1, <2>3, <2>4 DEF WellFormed, ProbeInv, Live
<1>6. CASE SetInsert
  <2>1. /\ entries \in Table(capacity)
        /\ key \in Key
        /\ value \in Val \cup {NULL}
        /\ index \in Slots(capacity)
        /\ UniqueKeys(entries) /\ Reachable(entries, capacity)
        /\ Passed(entries, capacity, key, index)
    BY <1>1, <1>6 DEF SetInsert, TypeOK, ProbeInv, WellFormed, Live
  <2>2. entries' \in Table(capacity) /\ UniqueKeys(entries') /\ Reachable(entries', capacity)
    BY <1>1, <1>6, <2>1, InsertKeeps, Zenon DEF SetInsert
  <2>3. TypeOK'
    BY <1>6, <2>1, <2>2 DEF SetInsert, Return, TypeOK, Live, Table, NewCapacity
  <2> QED
    BY <1>6, <2>2, <2>3 DEF SetInsert, Return, WellFormed, ProbeInv, Live
<1>7. CASE SetUpdate
  <2>1. /\ entries \in Table(capacity)
        /\ key \in Key
        /\ value \in Val \cup {NULL}
        /\ index \in Slots(capacity)
        /\ UniqueKeys(entries) /\ Reachable(entries, capacity)
    BY <1>1, <1>7 DEF SetUpdate, TypeOK, ProbeInv, WellFormed, Live
  <2>2. /\ entries' \in Table(capacity)
        /\ \A s \in Slots(capacity) : entries'[s].key = entries[s].key
    BY <1>7, <2>1 DEF SetUpdate, Table, Entry
  <2>3. UniqueKeys(entries') /\ Reachable(entries', capacity)
    BY <1>1, <2>1, <2>2, UpdateKeeps
  <2>4. TypeOK'
    BY <1>7, <2>1, <2>2 DEF SetUpdate, Return, TypeOK, Live, Table, NewCapacity
  <2> QED
    BY <1>7, <2>3, <2>4 DEF SetUpdate, Return, WellFormed, ProbeInv, Live
<1>8. CASE ExpandAlloc
  <2>1. NewCapacity = 2 * capacity
    BY <1>8, Doubling DEF ExpandAlloc, TypeOK
  <2>2. /\ newEntries' \in Table(2 * capacity)
        /\ UniqueKeys(newEntries') /\ Reachable(newEntries', 2 * capacity)
    BY <1>1, <1>8, <2>1, FreshTable DEF ExpandAlloc
  <2>3. TypeOK'
    BY <1>8, <2>1, <2>2 DEF ExpandAlloc, TypeOK, Live, Table, NewCapacity
  <2> QED
    BY <1>8, <2>2, <2>3 DEF ExpandAlloc, WellFormed, ProbeInv, Live
<1>9. CASE RehashSkip
  <2>1. TypeOK'
    BY <1>9 DEF RehashSkip, TypeOK, Live, NewCapacity
  <2> QED
    BY <1>9, <2>1 DEF RehashSkip, WellFormed, ProbeInv, Live
<1>10. CASE RehashEntry
  <2>1. /\ NewCapacity = 2 * capacity
        /\ i \in Slots(capacity)
        /\ entries[i].key \in Key
        /\ newEntries \in Table(2 * capacity)
    BY <1>1, <1>10 DEF RehashEntry, TypeOK, Live, Slots, Entry
  <2>2. /\ index' \in Slots(2 * capacity)
        /\ Passed(newEntries, 2 * capacity, entries[i].key, index')
    BY <1>1, <1>10, <2>1, HomeSlot, ProbeStarts DEF RehashEntry
  <2>3. TypeOK'
    BY <1>10, <2>2 DEF RehashEntry, TypeOK, Live, NewCapacity, Slots
  <2> QED
    BY <1>10, <2>2, <2>3 DEF RehashEntry, WellFormed, ProbeInv, Live
<1>11. CASE ReinsertProbe
  <2>1. /\ NewCapacity = 2 * capacity
        /\ i \in Slots(capacity)
        /\ entries[i].key \in Key
        /\ newEntries \in Table(2 * capacity)
        /\ index \in Slots(2 * capacity)
        /\ Passed(newEntries, 2 * capacity, entries[i].key, index)
    BY <1>1, <1>11 DEF ReinsertProbe, TypeOK, Live, Slots, Entry, ProbeInv
  <2>2. /\ index' \in Slots(2 * capacity)
        /\ Passed(newEntries, 2 * capacity, entries[i].key, index')
    BY <1>1, <1>11, <2>1, SuccSlot, ProbeAdvances DEF ReinsertProbe
  <2>3. TypeOK'
    BY <1>11, <2>2 DEF ReinsertProbe, TypeOK, Live, NewCapacity, Slots
  <2> QED
    BY <1>11, <2>2, <2>3 DEF ReinsertProbe, WellFormed, ProbeInv, Live
<1>12. CASE Reinsert
  <2>1. /\ i \in Slots(capacity)
        /\ entries[i] \in Entry
        /\ entries[i].key \in Key
        /\ newEntries \in Table(2 * capacity)
        /\ index \in Slots(2 * capacity)
        /\ Passed(newEntries, 2 * capacity, entries[i].key, index)
        /\ UniqueKeys(newEntries) /\ Reachable(newEntries, 2 * capacity)
    BY <1>1, <1>12 DEF Reinsert, TypeOK, Live, Slots, Entry, ProbeInv, WellFormed
  <2>2. newEntries' \in Table(2 * capacity)
    BY <1>12, <2>1 DEF Reinsert, Table
  <2>3. UniqueKeys(newEntries') /\ Reachable(newEntries', 2 * capacity)
    <3>1. CASE newEntries[index].key = 0
      <4>1. entries[i] = [key |-> entries[i].key, value |-> entries[i].value]
        BY <2>1 DEF Entry
      <4>2. entries[i].value \in Val \cup {NULL}
        BY <2>1 DEF Entry
      <4>3. newEntries' = [newEntries EXCEPT ![index] =
                             [key |-> entries[i].key, value |-> entries[i].value]]
        BY <1>12, <4>1, Zenon DEF Reinsert
      <4> QED
        BY <1>1, <2>1, <3>1, <4>2, <4>3, InsertKeeps, Zenon
    <3>2. CASE newEntries[index].key = entries[i].key
      <4>1. \A s \in Slots(2 * capacity) : newEntries'[s].key = newEntries[s].key
        BY <1>12, <2>1, <3>2 DEF Reinsert, Table
      <4> QED
        BY <1>1, <2>1, <2>2, <4>1, UpdateKeeps
    <3> QED
      BY <1>12, <3>1, <3>2 DEF Reinsert
  <2>4. TypeOK'
    BY <1>12, <2>1, <2>2 DEF Reinsert, TypeOK, Live, NewCapacity, Slots, Table
  <2> QED
    BY <1>12, <2>3, <2>4 DEF Reinsert, WellFormed, ProbeInv, Live
<1>13. CASE ExpandDone
  <2>1. /\ NewCapacity = 2 * capacity
        /\ newEntries \in Table(2 * capacity)
        /\ key \in Key
        /\ UniqueKeys(newEntries) /\ Reachable(newEntries, 2 * capacity)
    BY <1>1, <1>13 DEF ExpandDone, TypeOK, ProbeInv, WellFormed
  <2>2. 2 * capacity \in 2 .. SizeMod - 1
    BY <2>1, Doubling DEF TypeOK
  <2>3. /\ index' \in Slots(2 * capacity)
        /\ Passed(newEntries, 2 * capacity, key, index')
    BY <1>1, <1>13, <2>1, HomeSlot, ProbeStarts DEF ExpandDone
  <2>4. TypeOK'
    BY <1>13, <2>1, <2>2, <2>3 DEF ExpandDone, TypeOK, Live, Slots, Table
  <2> QED
    BY <1>13, <2>1, <2>3, <2>4 DEF ExpandDone, WellFormed, ProbeInv, Live
<1>14. CASE Stop \/ Scan \/ ht_destroy
  <2>1. TypeOK'
    BY <1>14 DEF Stop, Scan, ht_destroy, TypeOK, Live, NewCapacity
  <2> QED
    BY <1>14, <2>1 DEF Stop, Scan, ht_destroy, WellFormed, ProbeInv, Live
<1>15. CASE UNCHANGED vars
  BY <1>15 DEF vars, TypeOK, WellFormed, ProbeInv, Live, NewCapacity
<1> QED
  BY <1>2, <1>3, <1>4, <1>5, <1>6, <1>7, <1>8, <1>9, <1>10, <1>11, <1>12, SMTT(30),
     <1>13, <1>14, <1>15
  DEF Next, Step, Halted

\* Type correctness of the profiler's hash table.
THEOREM HashTableTypes == Spec => []TypeOK
<1>1. TableInv => TypeOK
  BY DEF TableInv
<1> QED
  BY <1>1, InitTable, NextTable, PTL DEF Spec

\* No function is ever in the table twice, and each is found from its home
\* slot, also half-way through ht_expand.
THEOREM HashTableWellFormed == Spec => []WellFormed
<1>1. TableInv => WellFormed
  BY DEF TableInv
<1> QED
  BY <1>1, InitTable, NextTable, PTL DEF Spec

\* ht_get answers NULL, and ht_set_entry fills a slot, only for a key that
\* is in no slot.
THEOREM HashTableMissMeansAbsent == Spec => []MissMeansAbsent
<1>1. TableInv => MissMeansAbsent
  <2> SUFFICES ASSUME TableInv PROVE MissMeansAbsent
    OBVIOUS
  <2> USE DEF TableInv
  <2>1. capacity \in Cap /\ 2 * capacity \in Cap
    BY DEF TypeOK, Cap
  <2>2. ASSUME pc \in {"get", "set"}, entries[index].key = 0, key # 0
        PROVE  \A s \in Slots(capacity) : entries[s].key # key
    <3>1. /\ entries \in Table(capacity)
          /\ key \in Key
          /\ index \in Slots(capacity)
          /\ Reachable(entries, capacity)
          /\ Passed(entries, capacity, key, index)
      BY <2>2 DEF TypeOK, WellFormed, ProbeInv, Live, Table
    <3> QED
      BY <2>1, <2>2, <3>1, EmptyMeansAbsent
  <2>3. ASSUME pc = "reinsert", newEntries[index].key = 0
        PROVE  \A s \in Slots(2 * capacity) : newEntries[s].key # entries[i].key
    <3>1. /\ newEntries \in Table(2 * capacity)
          /\ i \in Slots(capacity)
          /\ entries[i].key \in Key
          /\ index \in Slots(2 * capacity)
          /\ Reachable(newEntries, 2 * capacity)
          /\ Passed(newEntries, 2 * capacity, entries[i].key, index)
      BY <2>3 DEF TypeOK, WellFormed, ProbeInv, Live, Table, Slots, Entry
    <3> QED
      BY <2>1, <2>3, <3>1, EmptyMeansAbsent
  <2> QED
    BY <2>2, <2>3 DEF MissMeansAbsent
<1> QED
  BY <1>1, InitTable, NextTable, PTL DEF Spec
-----------------------------------------------------------------------------
(* Counting: the length field and the free slots *)

\* While ht_expand runs, the new array holds as many entries as the part of
\* the old one that has been copied.
LoadInv ==
  /\ LoadBound
  /\ RehashExact
  /\ pc \in {"rehash", "reinsert"} =>
       Cardinality(Occupied(newEntries)) = Cardinality(Below(entries, i))

\* The occupied slots of a table are finitely many.
LEMMA OccupiedFinite ==
  ASSUME NEW cap \in Cap, NEW E \in Table(cap)
  PROVE  /\ Occupied(E) \subseteq Slots(cap)
         /\ IsFiniteSet(Occupied(E))
         /\ Cardinality(Occupied(E)) \in Nat
         /\ \A n \in Nat : /\ IsFiniteSet(Below(E, n))
                           /\ Cardinality(Below(E, n)) \in Nat
                           /\ Cardinality(Below(E, n)) <= Cardinality(Occupied(E))
<1>1. Occupied(E) \subseteq Slots(cap)
  BY DEF Occupied, Table
<1>2. IsFiniteSet(Slots(cap))
  BY FS_Interval DEF Slots, Cap
<1>3. IsFiniteSet(Occupied(E))
  BY <1>1, <1>2, FS_Subset
<1>4. \A n \in Nat : Below(E, n) \in SUBSET Occupied(E)
  BY DEF Below
<1> QED
  BY <1>1, <1>3, <1>4, FS_Subset, FS_CardinalityType

\* One more slot of the old array has been looked at.
LEMMA BelowNext ==
  ASSUME NEW cap \in Cap, NEW E \in Table(cap), NEW n \in Slots(cap)
  PROVE  /\ E[n].key = 0 => Below(E, n + 1) = Below(E, n)
         /\ E[n].key # 0 =>
              /\ Below(E, n + 1) = Below(E, n) \cup {n}
              /\ Cardinality(Below(E, n + 1)) = Cardinality(Below(E, n)) + 1
<1>1. n \in Nat /\ Occupied(E) \subseteq Slots(cap)
  BY OccupiedFinite DEF Slots
<1>2. E[n].key = 0 => Below(E, n + 1) = Below(E, n)
  BY <1>1 DEF Below, Occupied, Slots, Cap
<1>3. E[n].key # 0 => Below(E, n + 1) = Below(E, n) \cup {n}
  BY <1>1 DEF Below, Occupied, Slots, Cap, Table
<1>4. n \notin Below(E, n)
  BY <1>1 DEF Below
<1> QED
  BY <1>1, <1>2, <1>3, <1>4, OccupiedFinite, FS_AddElement

\* An empty table has length 0.
LEMMA InitLoad == Init => LoadInv
<1> SUFFICES ASSUME Init PROVE LoadInv
  OBVIOUS
<1>1. CAPACITY \in Cap /\ CAPACITY >= 2
  BY HashTableAssumption DEF Cap
<1>2. Occupied(entries) = {} /\ Cardinality({}) = 0
  BY <1>1, FreshTable, FS_EmptySet DEF Init
<1> QED
  BY <1>1, <1>2 DEF Init, LoadInv, LoadBound, RehashExact, Cap

\* While an entry is reinserted, the new array does not hold its key yet.
LEMMA ReinsertIsFresh ==
  ASSUME TableInv, LoadInv, Reinsert
  PROVE  newEntries[index].key = 0
<1>1. /\ i \in Slots(capacity) /\ i \in Occupied(entries)
      /\ index \in Slots(2 * capacity)
      /\ newEntries \in [Slots(2 * capacity) -> Entry]
      /\ entries \in [Slots(capacity) -> Entry]
      /\ UniqueKeys(entries)
  BY DEF Reinsert, TableInv, TypeOK, Live, Slots, ProbeInv, WellFormed, Occupied
<1> SUFFICES ASSUME newEntries[index].key = entries[i].key, entries[i].key # 0
             PROVE  FALSE
  BY DEF Reinsert
<1>2. newEntries[index] \in {newEntries[s] : s \in Occupied(newEntries)}
  BY <1>1 DEF Occupied
<1>3. PICK t \in Occupied(entries) : t < i /\ newEntries[index] = entries[t]
  BY <1>2 DEF LoadInv, RehashExact, Reinsert, Below
<1>4. t = i
  BY <1>1, <1>3 DEF UniqueKeys
<1> QED
  BY <1>1, <1>3, <1>4 DEF Slots

\* Every step keeps length equal to the number of occupied slots, and at
\* least half of the slots empty.
LEMMA NextLoad == TableInv /\ LoadInv /\ [Next]_vars => LoadInv'
<1> SUFFICES ASSUME TableInv, LoadInv, [Next]_vars PROVE LoadInv'
  OBVIOUS
<1>1. /\ capacity \in Cap /\ 2 * capacity \in Cap
      /\ Live => entries \in Table(capacity)
      /\ pc \in {"rehash", "reinsert"} => newEntries \in Table(2 * capacity)
      /\ length \in Nat
  BY DEF TableInv, TypeOK, Cap, Table
<1>2. CASE /\ UNCHANGED <<entries, capacity, length>>
           /\ pc \notin {"rehash", "reinsert"} /\ pc' \notin {"rehash", "reinsert"}
           /\ pc # "destroyed"
           /\ pc' = "set" => pc = "set" \/ length < capacity \div 2
  BY <1>1, <1>2 DEF LoadInv, LoadBound, RehashExact, Live, Cap
<1>3. CASE SetInsert
  <2>1. /\ entries \in Table(capacity)
        /\ key \in Key
        /\ value \in Val \cup {NULL}
        /\ index \in Slots(capacity)
        /\ UniqueKeys(entries) /\ Reachable(entries, capacity)
        /\ Passed(entries, capacity, key, index)
    BY <1>1, <1>3 DEF SetInsert, TableInv, TypeOK, ProbeInv, WellFormed, Live
  <2>2. Occupied(entries') = Occupied(entries) \cup {index}
    <3>1. /\ entries'[index].key = key
          /\ \A s \in Slots(capacity) : s # index => entries'[s] = entries[s]
          /\ DOMAIN entries' = Slots(capacity) /\ DOMAIN entries = Slots(capacity)
      BY <1>3, <2>1 DEF SetInsert, Table
    <3>2. key # 0
      BY <2>1, HashTableAssumption
    <3> QED BY <2>1, <3>1, <3>2 DEF Occupied
  <2>3. index \notin Occupied(entries)
    BY <1>3 DEF SetInsert, Occupied
  <2>4. Cardinality(Occupied(entries')) = Cardinality(Occupied(entries)) + 1
    BY <1>1, <2>1, <2>2, <2>3, OccupiedFinite, FS_AddElement, Zenon
  <2> QED
    BY <1>1, <1>3, <2>4 DEF SetInsert, Return, LoadInv, LoadBound, RehashExact, Live, Cap
<1>4. CASE SetUpdate
  <2>1. /\ entries \in Table(capacity)
        /\ value \in Val \cup {NULL}
        /\ index \in Slots(capacity)
        /\ UniqueKeys(entries) /\ Reachable(entries, capacity)
    BY <1>1, <1>4 DEF SetUpdate, TableInv, TypeOK, ProbeInv, WellFormed, Live
  <2>2. /\ entries' \in Table(capacity)
        /\ \A s \in Slots(capacity) : entries'[s].key = entries[s].key
    BY <1>4, <2>1 DEF SetUpdate, Table, Entry
  <2>3. Occupied(entries') = Occupied(entries)
    BY <1>1, <2>1, <2>2, UpdateKeeps
  <2> QED
    BY <1>4, <2>3 DEF SetUpdate, Return, LoadInv, LoadBound, RehashExact, Live
<1>5. CASE ExpandAlloc
  <2>1. NewCapacity = 2 * capacity
    BY <1>5, Doubling DEF ExpandAlloc, TableInv, TypeOK
  <2>2. Occupied(newEntries') = {}
    BY <1>1, <1>5, <2>1, FreshTable DEF ExpandAlloc
  <2>3. Below(entries, 0) = {}
    BY <1>1, <1>5, OccupiedFinite DEF Below, Slots, ExpandAlloc, Live
  <2>4. {newEntries'[s] : s \in Occupied(newEntries')} = {entries[s] : s \in Below(entries, 0)}
    BY <2>2, <2>3
  <2>5. RehashExact'
    BY <1>5, <2>4 DEF ExpandAlloc, RehashExact
  <2> QED
    BY <1>1, <1>5, <2>2, <2>3, <2>5, FS_EmptySet DEF ExpandAlloc, LoadInv, LoadBound, Live, Cap
<1>6. CASE RehashSkip
  <2>1. entries \in Table(capacity) /\ i \in Slots(capacity) /\ i \in Nat
    BY <1>1, <1>6 DEF RehashSkip, TableInv, TypeOK, Live, Slots
  <2>2. Below(entries, i + 1) = Below(entries, i)
    BY <1>1, <1>6, <2>1, BelowNext DEF RehashSkip
  <2>3. RehashExact'
    BY <1>6, <2>2 DEF RehashSkip, LoadInv, RehashExact
  <2> QED
    BY <1>6, <2>2, <2>3 DEF RehashSkip, LoadInv, LoadBound, Live
<1>7. CASE RehashEntry \/ ReinsertProbe
  BY <1>7 DEF RehashEntry, ReinsertProbe, LoadInv, LoadBound, RehashExact, Live
<1>8. CASE Reinsert
  <2>1. /\ entries \in Table(capacity) /\ i \in Slots(capacity) /\ i \in Nat
        /\ entries[i].key # 0
        /\ newEntries \in Table(2 * capacity)
        /\ index \in Slots(2 * capacity)
    BY <1>1, <1>8 DEF Reinsert, TableInv, TypeOK, ProbeInv, Live, Slots
  <2>2. index \notin Occupied(newEntries)
    BY <1>8, ReinsertIsFresh DEF Occupied
  <2>3. /\ newEntries'[index] = entries[i]
        /\ \A s \in Slots(2 * capacity) : s # index => newEntries'[s] = newEntries[s]
        /\ DOMAIN newEntries' = Slots(2 * capacity)
        /\ DOMAIN newEntries = Slots(2 * capacity)
    BY <1>8, <2>1 DEF Reinsert, Table
  <2>4. Occupied(newEntries') = Occupied(newEntries) \cup {index}
    BY <2>1, <2>3, Zenon DEF Occupied
  <2>5. Cardinality(Occupied(newEntries')) = Cardinality(Occupied(newEntries)) + 1
    BY <1>1, <2>1, <2>2, <2>4, OccupiedFinite, FS_AddElement, Zenon
  <2>6. /\ Below(entries, i + 1) = Below(entries, i) \cup {i}
        /\ Cardinality(Below(entries, i + 1)) = Cardinality(Below(entries, i)) + 1
    BY <1>1, <2>1, BelowNext
  <2>7. Cardinality(Below(entries, i + 1)) <= Cardinality(Occupied(entries))
    BY <1>1, <2>1, OccupiedFinite
  <2>8. \A s \in Occupied(newEntries) : newEntries'[s] = newEntries[s]
    BY <2>2, <2>3 DEF Occupied
  <2>9. {newEntries'[s] : s \in Occupied(newEntries')}
          = {newEntries[s] : s \in Occupied(newEntries)} \cup {entries[i]}
    BY <2>3, <2>4, <2>8
  <2>10. {entries[s] : s \in Below(entries, i + 1)}
           = {entries[s] : s \in Below(entries, i)} \cup {entries[i]}
    BY <2>6
  <2>11. RehashExact'
    <3>1. {newEntries[s] : s \in Occupied(newEntries)} = {entries[s] : s \in Below(entries, i)}
      BY <1>8 DEF Reinsert, LoadInv, RehashExact
    <3>2. {newEntries'[s] : s \in Occupied(newEntries')}
            = {entries[s] : s \in Below(entries, i + 1)}
      BY <2>9, <2>10, <3>1
    <3>3. i' = i + 1 /\ entries' = entries
      BY <1>8 DEF Reinsert
    <3> QED
      BY <3>2, <3>3 DEF RehashExact
  <2>12. /\ Cardinality(Occupied(newEntries')) = Cardinality(Below(entries, i + 1))
         /\ 2 * Cardinality(Occupied(newEntries')) <= capacity
    BY <1>1, <1>8, <2>1, <2>5, <2>6, <2>7, OccupiedFinite, SMTT(30)
    DEF Reinsert, LoadInv, LoadBound, Live, Cap
  <2> QED
    BY <1>8, <2>11, <2>12 DEF Reinsert, LoadInv, LoadBound, Live
<1>9. CASE ExpandDone
  <2>1. /\ NewCapacity = 2 * capacity
        /\ entries \in Table(capacity)
        /\ i = capacity
    BY <1>1, <1>9 DEF ExpandDone, TableInv, TypeOK, Live
  <2>2. Below(entries, i) = Occupied(entries)
    BY <1>1, <2>1, OccupiedFinite DEF Below, Slots, Cap
  <2>3. Cardinality(Occupied(newEntries)) = length /\ 2 * length <= capacity
    BY <1>9, <2>2 DEF ExpandDone, LoadInv, LoadBound, Live
  <2> QED
    BY <1>1, <1>9, <2>1, <2>3 DEF ExpandDone, LoadInv, LoadBound, RehashExact, Live, Cap
<1>10. CASE ht_destroy
  BY <1>10 DEF ht_destroy, LoadInv, LoadBound, RehashExact, Live
<1>11. CASE UNCHANGED vars
  BY <1>11 DEF vars, LoadInv, LoadBound, RehashExact, Live
<1>12. ASSUME NEW k \in Key \cup {0}, ht_get(k) PROVE LoadInv'
  BY <1>2, <1>12 DEF ht_get
<1>13. ASSUME NEW k \in Key \cup {0}, NEW v \in Val \cup {NULL}, ht_set(k, v)
       PROVE  LoadInv'
  BY <1>2, <1>13, SMTT(30) DEF ht_set
<1>14. CASE GetMiss \/ GetHit \/ GetProbe \/ SetProbe \/ ExpandFail
  BY <1>2, <1>14, SMTT(30) DEF GetMiss, GetHit, GetProbe, SetProbe, ExpandFail, Return
<1>15. CASE Stop \/ Scan
  BY <1>2, <1>15 DEF Stop, Scan
<1> QED
  BY <1>3, <1>4, <1>5, <1>6, <1>7, <1>8, <1>9, <1>10, <1>11, <1>12, <1>13,
     <1>14, <1>15
  DEF Next, Step, Halted

\* table->length is the number of functions in the table, and the table,
\* like the array a rehash is filling, is at most half full: the loops of
\* ht_get and ht_set_entry always have an empty slot to stop at.
THEOREM HashTableLoad == Spec => [](LoadBound /\ RehashExact)
<1>1. LoadInv => LoadBound /\ RehashExact
  BY DEF LoadInv
<1> QED
  BY <1>1, InitTable, NextTable, InitLoad, NextLoad, PTL DEF Spec

\* The table is sound at every step of every call, for every initial capacity,
\* every width of size_t and every hash function.
THEOREM HashTableSound == Spec => []TableSound
<1>1. TypeOK /\ WellFormed /\ MissMeansAbsent /\ LoadBound /\ RehashExact => TableSound
  BY DEF TableSound
<1> QED
  BY <1>1, HashTableTypes, HashTableWellFormed, HashTableMissMeansAbsent, HashTableLoad, PTL
-----------------------------------------------------------------------------
(* The final scan *)

\* STOP has printed the keys of the slots below i, each once.
ReportsBelow(q, e, k) ==
  /\ Len(q) = Cardinality(Below(e, k))
  /\ {q[n] : n \in DOMAIN q} = {e[s].key : s \in Below(e, k)}

ScanInv ==
  /\ pc \notin {"scan", "destroyed"} => reported = <<>>
  /\ reported \in Seq(Key)
  /\ NoRepeat(reported)
  /\ pc = "scan" => i \in 0 .. capacity /\ ReportsBelow(reported, entries, i)

\* The elements of a sequence that has been extended.
LEMMA AppendElements ==
  ASSUME NEW S, NEW q \in Seq(S), NEW x \in S
  PROVE  /\ Append(q, x) \in Seq(S)
         /\ Len(Append(q, x)) = Len(q) + 1
         /\ {Append(q, x)[n] : n \in DOMAIN Append(q, x)} = {q[n] : n \in DOMAIN q} \cup {x}
<1>1. /\ Append(q, x) \in Seq(S) /\ Len(Append(q, x)) = Len(q) + 1
      /\ Len(q) \in Nat
      /\ DOMAIN q = 1 .. Len(q) /\ DOMAIN Append(q, x) = 1 .. Len(q) + 1
  OBVIOUS
<1>2. \A n \in 1 .. Len(q) : Append(q, x)[n] = q[n]
  OBVIOUS
<1>3. Append(q, x)[Len(q) + 1] = x
  OBVIOUS
<1>4. DOMAIN Append(q, x) = DOMAIN q \cup {Len(q) + 1}
  BY <1>1
<1> QED
  BY <1>1, <1>2, <1>3, <1>4

\* The scan keeps ScanInv.
LEMMA NextScan == TableInv /\ ScanInv /\ [Next]_vars => ScanInv'
<1> SUFFICES ASSUME TableInv, ScanInv, [Next]_vars PROVE ScanInv'
  OBVIOUS
<1>1. capacity \in Cap /\ (Live => entries \in Table(capacity))
  BY DEF TableInv, TypeOK, Cap, Table
<1>2. CASE UNCHANGED reported /\ pc' # "scan" /\ pc # "scan" /\ pc # "destroyed"
  BY <1>2 DEF ScanInv
<1>3. CASE Stop
  <2>1. Below(entries, 0) = {}
    BY <1>1, <1>3, OccupiedFinite DEF Stop, Live, Below, Slots
  <2>2. Cardinality(Below(entries, 0)) = 0 /\ {entries[s].key : s \in Below(entries, 0)} = {}
    BY <2>1, FS_EmptySet
  <2>3. /\ reported = <<>> /\ Len(reported) = 0
        /\ {reported[n] : n \in DOMAIN reported} = {}
    BY <1>3 DEF Stop, ScanInv
  <2>4. ReportsBelow(reported, entries, 0)
    BY <2>2, <2>3, Zenon DEF ReportsBelow
  <2>5. i' = 0 /\ UNCHANGED <<entries, capacity, reported>> /\ pc' = "scan"
    BY <1>3 DEF Stop
  <2>6. 0 \in 0 .. capacity
    BY <1>1 DEF Cap
  <2> QED
    BY <2>4, <2>5, <2>6 DEF ScanInv
<1>4. CASE Scan
  <2>1. entries \in Table(capacity) /\ i \in Slots(capacity) /\ i \in Nat
    BY <1>1, <1>4 DEF Scan, Live, ScanInv, Slots, Cap
  <2>2. i + 1 \in 0 .. capacity
    BY <1>1, <2>1 DEF Slots, Cap
  <2>3. /\ reported \in Seq(Key) /\ NoRepeat(reported)
        /\ ReportsBelow(reported, entries, i)
    BY <1>4 DEF Scan, ScanInv
  <2>4. /\ i' = i + 1 /\ UNCHANGED <<entries, capacity, pc>> /\ pc = "scan"
        /\ reported' = IF entries[i].key # 0 THEN Append(reported, entries[i].key) ELSE reported
    BY <1>4 DEF Scan
  <2>5. SUFFICES /\ reported' \in Seq(Key) /\ NoRepeat(reported')
                 /\ ReportsBelow(reported', entries, i + 1)
    BY <2>2, <2>4 DEF ScanInv
  <2>6. CASE entries[i].key = 0
    <3>1. Below(entries, i + 1) = Below(entries, i)
      BY <1>1, <2>1, <2>6, BelowNext
    <3>2. reported' = reported
      BY <2>4, <2>6
    <3> QED
      BY <2>3, <3>1, <3>2, Zenon DEF ReportsBelow
  <2>7. CASE entries[i].key # 0
    <3> DEFINE x == entries[i].key
    <3>1. /\ Below(entries, i + 1) = Below(entries, i) \cup {i}
          /\ Cardinality(Below(entries, i + 1)) = Cardinality(Below(entries, i)) + 1
      BY <1>1, <2>1, <2>7, BelowNext
    <3>2. {entries[s].key : s \in Below(entries, i + 1)}
            = {entries[s].key : s \in Below(entries, i)} \cup {x}
      BY <3>1
    <3>3. x \in Key
      BY <2>1, <2>7 DEF Table, Entry
    <3>4. reported' = Append(reported, x)
      BY <2>4, <2>7
    <3>5. \A n \in DOMAIN reported : reported[n] # x
      <4>1. i \notin Below(entries, i) /\ i \in Occupied(entries)
        BY <2>1, <2>7 DEF Below, Occupied, Table
      <4>2. \A s \in Below(entries, i) : entries[s].key # x
        BY <1>4, <4>1 DEF TableInv, WellFormed, UniqueKeys, Below, Live, Scan
      <4>3. \A n \in DOMAIN reported : reported[n] \in {entries[s].key : s \in Below(entries, i)}
        BY <2>3, Zenon DEF ReportsBelow
      <4> QED BY <4>2, <4>3
    <3> HIDE DEF x
    <3>6. /\ reported' \in Seq(Key)
          /\ Len(reported') = Len(reported) + 1
          /\ {reported'[n] : n \in DOMAIN reported'} = {reported[n] : n \in DOMAIN reported} \cup {x}
      BY <2>3, <3>3, <3>4, AppendElements
    <3>7. ReportsBelow(reported', entries, i + 1)
      BY <2>3, <3>1, <3>2, <3>6, Zenon DEF ReportsBelow
    <3>8. NoRepeat(reported')
      <4>1. /\ DOMAIN reported' = DOMAIN reported \cup {Len(reported) + 1}
            /\ reported'[Len(reported) + 1] = x
            /\ \A n \in DOMAIN reported : reported'[n] = reported[n]
        BY <2>3, <3>3, <3>4
      <4> QED BY <2>3, <3>5, <4>1 DEF NoRepeat
    <3> QED
      BY <3>6, <3>7, <3>8
  <2> QED
    BY <2>6, <2>7
<1>5. CASE ht_destroy
  BY <1>5 DEF ht_destroy, ScanInv
<1>6. CASE UNCHANGED vars
  BY <1>6 DEF vars, ScanInv
<1>7. CASE \/ \E k \in Key \cup {0} : ht_get(k)
           \/ \E k \in Key \cup {0}, v \in Val \cup {NULL} : ht_set(k, v)
  BY <1>2, <1>7 DEF ht_get, ht_set
<1>8. CASE \/ GetMiss \/ GetHit \/ GetProbe \/ SetInsert \/ SetUpdate \/ SetProbe
           \/ ExpandFail \/ ExpandAlloc \/ ExpandDone
           \/ RehashSkip \/ RehashEntry \/ ReinsertProbe \/ Reinsert
  BY <1>2, <1>8
  DEF GetMiss, GetHit, GetProbe, SetInsert, SetUpdate, SetProbe, ExpandFail,
      ExpandAlloc, ExpandDone, RehashSkip, RehashEntry, ReinsertProbe, Reinsert, Return
<1> QED
  BY <1>3, <1>4, <1>5, <1>6, <1>7, <1>8 DEF Next, Step, Halted

\* STOP prints every function of the table exactly once, and as many as
\* "Unique Functions" says.
THEOREM HashTableReport == Spec => []ReportComplete
<1>1. Init => ScanInv
  BY DEF Init, ScanInv, NoRepeat
<1>2. TableInv /\ LoadInv /\ ScanInv => ReportComplete
  <2> SUFFICES ASSUME TableInv, LoadInv, ScanInv, pc = "scan", i = capacity
               PROVE  /\ {reported[n] : n \in DOMAIN reported} = {entries[s].key : s \in Occupied(entries)}
                      /\ NoRepeat(reported)
                      /\ Len(reported) = length
    BY Zenon DEF ReportComplete
  <2>1. capacity \in Cap /\ entries \in Table(capacity)
    BY DEF TableInv, TypeOK, Cap, Table, Live
  <2>2. Below(entries, i) = Occupied(entries)
    BY <2>1, OccupiedFinite DEF Below, Slots, Cap
  <2> QED
    BY <2>2, Zenon DEF ScanInv, ReportsBelow, LoadInv, LoadBound, Live
<1> QED
  BY <1>1, <1>2, InitTable, NextTable, InitLoad, NextLoad, NextScan, PTL DEF Spec
=============================================================================
