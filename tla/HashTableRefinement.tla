------------------------ MODULE HashTableRefinement ------------------------
(***************************************************************************)
(* HashTable implements AbstractMap: probing, growing and rehashing cannot *)
(* be told from reading and updating a map in one step.                    *)
(***************************************************************************)
EXTENDS HashTableProofs

\* The map an array stands for gives each stored key its value.
LEMMA MapLookup ==
  ASSUME NEW E, UniqueKeys(E)
  PROVE  /\ DOMAIN MapOf(E) = Keys(E)
         /\ \A s \in Occupied(E) : /\ E[s].key \in Keys(E)
                                   /\ MapOf(E)[E[s].key] = E[s].value
<1>1. ASSUME NEW s \in Occupied(E) PROVE SlotOf(E, E[s].key) = s
  <2>1. /\ SlotOf(E, E[s].key) \in Occupied(E)
        /\ E[SlotOf(E, E[s].key)].key = E[s].key
    BY DEF SlotOf
  <2> QED BY <2>1 DEF UniqueKeys
<1> QED
  BY <1>1 DEF MapOf, Keys

\* Arrays that hold the same entries, in whatever slots, stand for the same map.
LEMMA SameEntriesSameMap ==
  ASSUME NEW E, NEW F, UniqueKeys(E), UniqueKeys(F),
         {E[s] : s \in Occupied(E)} = {F[s] : s \in Occupied(F)}
  PROVE  MapOf(E) = MapOf(F)
<1>1. \A s \in Occupied(E) : \E t \in Occupied(F) : E[s] = F[t]
  OBVIOUS
<1>2. \A t \in Occupied(F) : \E s \in Occupied(E) : E[s] = F[t]
  BY Zenon
<1>3. Keys(E) = Keys(F)
  BY <1>1, <1>2 DEF Keys
<1>4. ASSUME NEW k \in Keys(E) PROVE MapOf(E)[k] = MapOf(F)[k]
  <2>1. PICK s \in Occupied(E) : E[s].key = k
    BY DEF Keys
  <2>2. PICK t \in Occupied(F) : E[s] = F[t]
    BY <1>1
  <2> QED
    BY <2>1, <2>2, MapLookup
<1> QED
  BY <1>3, <1>4 DEF MapOf

\* F is E with an entry written into an empty slot or over its own key.
Writes(E, F, idx) ==
  /\ UniqueKeys(E) /\ UniqueKeys(F)
  /\ Occupied(F) = Occupied(E) \cup {idx}
  /\ \A s \in Occupied(E) : s # idx => F[s] = E[s]
  /\ idx \in Occupied(E) => E[idx].key = F[idx].key

Put(m, k, v) == [x \in DOMAIN m \cup {k} |-> IF x = k THEN v ELSE m[x]]

\* Such a write updates the map at that key and nowhere else.
LEMMA WriteUpdatesMap ==
  ASSUME NEW E, NEW F, NEW idx, Writes(E, F, idx)
  PROVE  MapOf(F) = Put(MapOf(E), F[idx].key, F[idx].value)
<1> USE DEF Writes
<1> DEFINE k == F[idx].key
           v == F[idx].value
<1>1. Keys(F) = Keys(E) \cup {k}
  BY DEF Keys
<1>2. DOMAIN MapOf(E) = Keys(E)
  BY DEF MapOf
<1>3. MapOf(F)[k] = v
  BY MapLookup
<1>4. ASSUME NEW x \in Keys(E), x # k PROVE MapOf(F)[x] = MapOf(E)[x]
  <2>1. PICK s \in Occupied(E) : E[s].key = x
    BY DEF Keys
  <2>2. F[s] = E[s] /\ s \in Occupied(F)
    BY <1>4, <2>1
  <2> QED
    BY <2>1, <2>2, MapLookup
<1> DEFINE G == [x \in Keys(E) \cup {k} |-> IF x = k THEN v ELSE MapOf(E)[x]]
<1>5. \A x \in Keys(E) \cup {k} : MapOf(F)[x] = G[x]
  BY <1>3, <1>4
<1>6. MapOf(F) = [x \in Keys(F) |-> MapOf(F)[x]]
  BY DEF MapOf
<1>7. MapOf(F) = G
  BY <1>1, <1>5, <1>6, Zenon
<1> QED
  BY <1>2, <1>7 DEF Put
-----------------------------------------------------------------------------
\* The empty table is the empty map.
LEMMA InitRefines == Init => AM!Init
<1> SUFFICES ASSUME Init PROVE AM!Init
  OBVIOUS
<1>1. Occupied(entries) = {}
  BY HashTableAssumption, FreshTable DEF Init, Cap
<1>2. MapOf(entries) = [k \in {} |-> NULL]
  BY <1>1 DEF MapOf, Keys
<1> QED
  BY <1>2 DEF Init, AM!Init

\* Every step of the hash table is a step of the map or leaves it unchanged.
LEMMA NextRefines ==
  /\ TableInv /\ LoadInv /\ ScanInv
  /\ TableInv'
  /\ [Next]_vars
  => [AM!Next]_(AM!vars)
<1> SUFFICES ASSUME TableInv, LoadInv, ScanInv, TableInv', [Next]_vars
             PROVE  AM!Next \/ UNCHANGED AM!vars
  OBVIOUS
<1>1. /\ capacity \in Cap /\ 2 * capacity \in Cap
      /\ Live => entries \in Table(capacity) /\ UniqueKeys(entries)
      /\ pc \in {"rehash", "reinsert"} => UniqueKeys(newEntries)
      /\ pc' # "destroyed" => UniqueKeys(entries')
  BY DEF TableInv, TypeOK, Cap, Table, WellFormed, Live
<1>2. ASSUME NEW k \in Key \cup {0}, ht_get(k) PROVE AM!CallGet
  BY <1>2 DEF ht_get, AM!CallGet
<1>3. ASSUME NEW k \in Key \cup {0}, NEW v \in Val \cup {NULL}, ht_set(k, v)
      PROVE  AM!CallSet
  BY <1>3 DEF ht_set, AM!CallSet
<1>4. CASE GetMiss
  <2>1. /\ pc = "get" /\ entries[index].key = 0
        /\ entries \in Table(capacity) /\ index \in Slots(capacity)
        /\ Reachable(entries, capacity) /\ Passed(entries, capacity, key, index)
        /\ key \in Key \cup {0}
    BY <1>1, <1>4 DEF GetMiss, Live, TableInv, TypeOK, WellFormed, ProbeInv
  <2>2. \A s \in Occupied(entries) : entries[s].key # key
    <3>1. CASE key = 0
      BY <3>1 DEF Occupied
    <3>2. CASE key \in Key
      BY <1>1, <2>1, <3>2, EmptyMeansAbsent DEF Occupied, Table
    <3> QED BY <2>1, <3>1, <3>2
  <2>3. key \notin DOMAIN MapOf(entries)
    BY <2>2 DEF MapOf, Keys
  <2>4. AM!ReturnGet
    BY <1>4, <2>3 DEF GetMiss, Return, AM!ReturnGet
  <2> QED BY <2>4 DEF AM!Next
<1>5. CASE GetHit
  <2>1. /\ entries \in Table(capacity) /\ index \in Slots(capacity) /\ UniqueKeys(entries)
    BY <1>1, <1>5 DEF GetHit, Live, TableInv, TypeOK
  <2>2. index \in Occupied(entries)
    BY <1>5, <2>1 DEF GetHit, Occupied, Table
  <2>3. key \in DOMAIN MapOf(entries) /\ MapOf(entries)[key] = entries[index].value
    BY <1>5, <2>1, <2>2, MapLookup DEF GetHit
  <2>4. AM!ReturnGet
    BY <1>5, <2>3 DEF GetHit, Return, AM!ReturnGet
  <2> QED BY <2>4 DEF AM!Next
<1>6. CASE SetInsert \/ SetUpdate
  <2>1. /\ entries \in Table(capacity) /\ index \in Slots(capacity)
        /\ UniqueKeys(entries) /\ UniqueKeys(entries')
        /\ key # 0
    BY <1>1, <1>6 DEF SetInsert, SetUpdate, Return, Live, TableInv, TypeOK, ProbeInv
  <2>2. /\ entries'[index].key = key /\ entries'[index].value = value
        /\ \A s \in Slots(capacity) : s # index => entries'[s] = entries[s]
        /\ DOMAIN entries' = Slots(capacity) /\ DOMAIN entries = Slots(capacity)
        /\ entries[index].key \in {0, key}
    <3>1. CASE SetInsert
      BY <2>1, <3>1 DEF SetInsert, Table
    <3>2. CASE SetUpdate
      BY <2>1, <3>2 DEF SetUpdate, Table, Entry
    <3> QED BY <1>6, <3>1, <3>2
  <2>3. Occupied(entries') = Occupied(entries) \cup {index}
    BY <2>1, <2>2 DEF Occupied
  <2>4. /\ \A s \in Occupied(entries) : s # index => entries'[s] = entries[s]
        /\ index \in Occupied(entries) => entries[index].key = key
    BY <2>2 DEF Occupied
  <2>5. MapOf(entries') = [x \in DOMAIN MapOf(entries) \cup {key} |->
                             IF x = key THEN value ELSE MapOf(entries)[x]]
    <3>1. Writes(entries, entries', index)
      BY <2>1, <2>2, <2>3, <2>4 DEF Writes
    <3>2. MapOf(entries') = Put(MapOf(entries), entries'[index].key, entries'[index].value)
      BY <3>1, WriteUpdatesMap
    <3> QED BY <2>2, <3>2 DEF Put
  <2>6. /\ pc = "set" /\ pc' = "idle" /\ ret' = key /\ UNCHANGED <<key, value, reported>>
    BY <1>6 DEF SetInsert, SetUpdate, Return
  <2>7. AM!ReturnSet
    BY <2>5, <2>6 DEF AM!ReturnSet
  <2> QED BY <2>7 DEF AM!Next
<1>7. CASE ExpandFail
  <2>1. AM!FailSet
    BY <1>7 DEF ExpandFail, Return, AM!FailSet
  <2> QED BY <2>1 DEF AM!Next
<1>8. CASE \/ GetProbe \/ SetProbe \/ ExpandAlloc \/ RehashSkip \/ RehashEntry
           \/ ReinsertProbe \/ Reinsert \/ Stop \/ Scan
  BY <1>8 DEF GetProbe, SetProbe, ExpandAlloc, RehashSkip, RehashEntry,
              ReinsertProbe, Reinsert, Stop, Scan, AM!vars
<1>9. CASE ExpandDone
  <2>1. Below(entries, i) = Occupied(entries)
    <3>1. entries \in Table(capacity) /\ i = capacity
      BY <1>1, <1>9 DEF ExpandDone, Live, TableInv, TypeOK
    <3> QED BY <1>1, <3>1, OccupiedFinite DEF Below, Slots, Cap
  <2>2. {newEntries[s] : s \in Occupied(newEntries)} = {entries[s] : s \in Occupied(entries)}
    BY <1>9, <2>1, Zenon DEF ExpandDone, LoadInv, RehashExact
  <2>3. UniqueKeys(entries) /\ UniqueKeys(newEntries)
    BY <1>1, <1>9 DEF ExpandDone, Live
  <2>4. MapOf(newEntries) = MapOf(entries)
    BY <2>2, <2>3, SameEntriesSameMap, Zenon
  <2>5. entries' = newEntries
    BY <1>9 DEF ExpandDone
  <2>6. MapOf(entries') = MapOf(entries)
    BY <2>4, <2>5
  <2>7. /\ pc = "rehash" /\ pc' = "set" /\ UNCHANGED <<key, value, ret, reported>>
    BY <1>9 DEF ExpandDone
  <2> QED
    BY <2>6, <2>7 DEF AM!vars
<1>10. CASE ht_destroy
  <2>1. /\ pc = "scan" /\ i = capacity /\ entries \in Table(capacity) /\ UniqueKeys(entries)
    BY <1>1, <1>10 DEF ht_destroy, ScanInv, Live, Cap
  <2>2. Below(entries, i) = Occupied(entries)
    BY <1>1, <2>1, OccupiedFinite DEF Below, Slots, Cap
  <2>3. /\ {reported[n] : n \in DOMAIN reported} = Keys(entries)
        /\ NoRepeat(reported)
    BY <2>1, <2>2, Zenon DEF ScanInv, ReportsBelow, Keys
  <2>4. DOMAIN MapOf(entries) = Keys(entries)
    BY DEF MapOf
  <2>6. Occupied(Fresh(0)) = {}
    BY DEF Occupied, Fresh, Slots
  <2>7. MapOf(Fresh(0)) = [k \in {} |-> NULL]
    BY <2>6 DEF MapOf, Keys
  <2>8. MapOf(entries') = [k \in {} |-> NULL]
    BY <1>10, <2>7 DEF ht_destroy
  <2>9. /\ pc' = "destroyed" /\ UNCHANGED <<key, value, ret, reported>>
    BY <1>10 DEF ht_destroy
  <2>10. AM!PrintAndDestroy
    BY <2>1, <2>3, <2>4, <2>8, <2>9 DEF NoRepeat, AM!PrintAndDestroy
  <2> QED BY <2>10 DEF AM!Next
<1>11. CASE UNCHANGED vars
  BY <1>11 DEF vars, AM!vars
<1> QED
  BY <1>2, <1>3, <1>4, <1>5, <1>6, <1>7, <1>8, <1>9, <1>10, <1>11, SMTT(30)
  DEF Next, Step, Halted, AM!Next

\* The hash table implements the atomic map, for every hash function.
THEOREM HashTableRefinesMap == Spec => RefinesMap
<1>1. Init => ScanInv
  BY DEF Init, ScanInv, NoRepeat
<1> QED
  BY <1>1, InitTable, NextTable, InitLoad, NextLoad, NextScan, InitRefines,
     NextRefines, PTL
  DEF Spec, RefinesMap, AM!Spec
=============================================================================
