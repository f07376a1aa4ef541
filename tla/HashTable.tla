----------------------------- MODULE HashTable -----------------------------
(***************************************************************************)
(* The open-addressing hash table of the opcode profiler in interp.c.      *)
(* It maps a code pointer (the entry point of a function) to that          *)
(* function's array of opcode counts.  One step of the model is one        *)
(* iteration of a loop of the code, so a call takes several steps and the  *)
(* table is visible half-way through a rehash.                             *)
(*                                                                         *)
(* Keys are addresses, 0 is the NULL pointer.  Values are pointers to      *)
(* arrays, of which only identity matters here.                            *)
(***************************************************************************)
EXTENDS Integers, FiniteSets, Sequences

CONSTANTS
  Key,        \* the non-NULL addresses used as keys
  Val,        \* the non-NULL values
  NULL,       \* the NULL value
  CAPACITY,   \* initial number of slots (16 in the code)
  SizeMod,    \* 2 ^ (number of bits of size_t)
  Hash(_)     \* the hash of an address: see HashKey

ASSUME HashTableAssumption ==
  /\ Key \subseteq Nat \ {0}
  /\ NULL \notin Val
  /\ SizeMod \in Nat
  /\ CAPACITY \in 2 .. SizeMod - 1
  /\ \A k \in Key \cup {0} : Hash(k) \in Nat

\* The code computes hash & (capacity - 1); with a capacity that is a power
\* of two (doubling keeps it one) that is the remainder used in Home.
ASSUME PowerOfTwo == \E n \in 1 .. 30 : CAPACITY = 2 ^ n

VARIABLES
  entries,    \* table->entries, indexed from 0
  capacity,   \* table->capacity
  length,     \* table->length
  pc,         \* where the call in progress is
  key, value, \* its arguments
  index,      \* the slot being probed
  newEntries, \* new_entries of ht_expand
  i,          \* the loop variable of ht_expand and of the final scan
  ret,        \* result of the last call
  reported    \* the keys STOP has printed, in order

vars == <<entries, capacity, length, pc, key, value, index, newEntries, i,
          ret, reported>>

Slots(cap) == 0 .. cap - 1
Entry == [key : Key \cup {0}, value : Val \cup {NULL}]
Empty == [key |-> 0, value |-> NULL]

\* What calloc returns; Fresh(0) stands for no array.
Fresh(cap) == [s \in Slots(cap) |-> Empty]

\* Where the probe for a key starts, and where it goes next.  The operators
\* named Mut... are faulty variants of the definition that follows them; they
\* are used by nothing here and show that the properties can fail.
Home(k, cap) == Hash(k) % cap
Succ(s, cap) == IF s + 1 >= cap THEN 0 ELSE s + 1

NewCapacity == (capacity * 2) % SizeMod

Return(r) == pc' = "idle" /\ ret' = r

Init ==
  /\ entries = Fresh(CAPACITY)
  /\ capacity = CAPACITY
  /\ length = 0
  /\ pc = "idle"
  /\ key = 0 /\ value = NULL
  /\ index = 0
  /\ newEntries = Fresh(0)
  /\ i = 0
  /\ ret = NULL
  /\ reported = <<>>
-----------------------------------------------------------------------------
(* ht_get *)

ht_get(k) ==
  /\ pc = "idle"
  /\ pc' = "get"
  /\ key' = k
  /\ index' = Home(k, capacity)
  /\ UNCHANGED <<entries, capacity, length, value, newEntries, i, ret, reported>>

GetMiss ==
  /\ pc = "get"
  /\ entries[index].key = 0
  /\ Return(NULL)
  /\ UNCHANGED <<entries, capacity, length, key, value, index, newEntries, i, reported>>

MutGetHitHome ==
  /\ pc = "get"
  /\ entries[index].key # 0
  /\ entries[index].key = key
  /\ Return(entries[Home(key, capacity)].value)
  /\ UNCHANGED <<entries, capacity, length, key, value, index, newEntries, i, reported>>

GetHit ==
  /\ pc = "get"
  /\ entries[index].key # 0
  /\ entries[index].key = key
  /\ Return(entries[index].value)
  /\ UNCHANGED <<entries, capacity, length, key, value, index, newEntries, i, reported>>

GetProbe ==
  /\ pc = "get"
  /\ entries[index].key \notin {0, key}
  /\ index' = Succ(index, capacity)
  /\ UNCHANGED <<entries, capacity, length, pc, key, value, newEntries, i, ret, reported>>
-----------------------------------------------------------------------------
(* ht_set: the assertion, the NULL check and the test for a half-full table *)

MutSetFullTable(k, v) ==
  /\ pc = "idle"
  /\ key' = k /\ value' = v
  /\ \/ v = NULL /\ pc' = "abort" /\ UNCHANGED index
     \/ v # NULL /\ k = 0 /\ pc' = "exit" /\ UNCHANGED index
     \/ /\ v # NULL /\ k # 0
        /\ length > capacity
        /\ pc' = "expand" /\ UNCHANGED index
     \/ /\ v # NULL /\ k # 0
        /\ length <= capacity
        /\ pc' = "set" /\ index' = Home(k, capacity)
  /\ UNCHANGED <<entries, capacity, length, newEntries, i, ret, reported>>

ht_set(k, v) ==
  /\ pc = "idle"
  /\ key' = k /\ value' = v
  /\ \/ v = NULL /\ pc' = "abort" /\ UNCHANGED index
     \/ v # NULL /\ k = 0 /\ pc' = "exit" /\ UNCHANGED index
     \/ /\ v # NULL /\ k # 0
        /\ length >= capacity \div 2
        /\ pc' = "expand" /\ UNCHANGED index
     \/ /\ v # NULL /\ k # 0
        /\ length < capacity \div 2
        /\ pc' = "set" /\ index' = Home(k, capacity)
  /\ UNCHANGED <<entries, capacity, length, newEntries, i, ret, reported>>

(* ht_set_entry on the table itself: plength is &table->length *)

SetInsert ==
  /\ pc = "set"
  /\ entries[index].key = 0
  /\ entries' = [entries EXCEPT ![index] = [key |-> key, value |-> value]]
  /\ length' = length + 1
  /\ Return(key)
  /\ UNCHANGED <<capacity, key, value, index, newEntries, i, reported>>

SetUpdate ==
  /\ pc = "set"
  /\ entries[index].key # 0
  /\ entries[index].key = key
  /\ entries' = [entries EXCEPT ![index].value = value]
  /\ Return(key)
  /\ UNCHANGED <<capacity, length, key, value, index, newEntries, i, reported>>

SetProbe ==
  /\ pc = "set"
  /\ entries[index].key \notin {0, key}
  /\ index' = Succ(index, capacity)
  /\ UNCHANGED <<entries, capacity, length, pc, key, value, newEntries, i, ret, reported>>
-----------------------------------------------------------------------------
(* ht_expand *)

\* new_capacity overflowed, or calloc returned NULL: ht_set returns NULL.
ExpandFail ==
  /\ pc = "expand"
  /\ Return(NULL)
  /\ UNCHANGED <<entries, capacity, length, key, value, index, newEntries, i, reported>>

ExpandAlloc ==
  /\ pc = "expand"
  /\ NewCapacity >= capacity
  /\ newEntries' = Fresh(NewCapacity)
  /\ i' = 0
  /\ pc' = "rehash"
  /\ UNCHANGED <<entries, capacity, length, key, value, index, ret, reported>>

RehashSkip ==
  /\ pc = "rehash" /\ i < capacity
  /\ entries[i].key = 0
  /\ i' = i + 1
  /\ UNCHANGED <<entries, capacity, length, pc, key, value, index, newEntries, ret, reported>>

MutRehashOldMask ==
  /\ pc = "rehash" /\ i < capacity
  /\ entries[i].key # 0
  /\ index' = Home(entries[i].key, capacity)
  /\ pc' = "reinsert"
  /\ UNCHANGED <<entries, capacity, length, key, value, newEntries, i, ret, reported>>

RehashEntry ==
  /\ pc = "rehash" /\ i < capacity
  /\ entries[i].key # 0
  /\ index' = Home(entries[i].key, NewCapacity)
  /\ pc' = "reinsert"
  /\ UNCHANGED <<entries, capacity, length, key, value, newEntries, i, ret, reported>>

(* ht_set_entry on the new array: plength is NULL, length is left alone *)

ReinsertProbe ==
  /\ pc = "reinsert"
  /\ newEntries[index].key \notin {0, entries[i].key}
  /\ index' = Succ(index, NewCapacity)
  /\ UNCHANGED <<entries, capacity, length, pc, key, value, newEntries, i, ret, reported>>

Reinsert ==
  /\ pc = "reinsert"
  /\ newEntries[index].key \in {0, entries[i].key}
  /\ newEntries' = [newEntries EXCEPT ![index] = entries[i]]
  /\ i' = i + 1
  /\ pc' = "rehash"
  /\ UNCHANGED <<entries, capacity, length, key, value, index, ret, reported>>

\* The new array replaces the old one and ht_set goes on in it.
ExpandDone ==
  /\ pc = "rehash" /\ i >= capacity
  /\ entries' = newEntries
  /\ capacity' = NewCapacity
  /\ newEntries' = Fresh(0)
  /\ pc' = "set"
  /\ index' = Home(key, NewCapacity)
  /\ UNCHANGED <<length, key, value, i, ret, reported>>
-----------------------------------------------------------------------------
(* STOP: every slot is scanned, the keys found are printed, the table freed *)

MutStopFromOne ==
  /\ pc = "idle"
  /\ pc' = "scan" /\ i' = 1
  /\ UNCHANGED <<entries, capacity, length, key, value, index, newEntries, ret, reported>>

Stop ==
  /\ pc = "idle"
  /\ pc' = "scan" /\ i' = 0
  /\ UNCHANGED <<entries, capacity, length, key, value, index, newEntries, ret, reported>>

Scan ==
  /\ pc = "scan" /\ i < capacity
  /\ reported' = IF entries[i].key # 0 THEN Append(reported, entries[i].key)
                                       ELSE reported
  /\ i' = i + 1
  /\ UNCHANGED <<entries, capacity, length, pc, key, value, index, newEntries, ret>>

ht_destroy ==
  /\ pc = "scan" /\ i >= capacity
  /\ pc' = "destroyed"
  /\ entries' = Fresh(0)
  /\ UNCHANGED <<capacity, length, key, value, index, newEntries, i, ret, reported>>
-----------------------------------------------------------------------------
Halted == pc \in {"abort", "exit", "destroyed"} /\ UNCHANGED vars

\* The steps of a call once it has been made.
Step ==
  \/ GetMiss \/ GetHit \/ GetProbe
  \/ SetInsert \/ SetUpdate \/ SetProbe
  \/ ExpandFail \/ ExpandAlloc \/ ExpandDone
  \/ RehashSkip \/ RehashEntry \/ ReinsertProbe \/ Reinsert
  \/ Scan \/ ht_destroy

Next ==
  \/ \E k \in Key \cup {0} : ht_get(k)
  \/ \E k \in Key \cup {0}, v \in Val \cup {NULL} : ht_set(k, v)
  \/ Stop
  \/ Step
  \/ Halted

Spec == Init /\ [][Next]_vars

\* A call that has been made keeps running: nothing can block it.
FairSpec == Spec /\ WF_vars(Step)
-----------------------------------------------------------------------------
(* Properties *)

Occupied(E) == {s \in DOMAIN E : E[s].key # 0}

\* The occupied slots a loop over E has gone past when it is at slot n.
Below(E, n) == {s \in Occupied(E) : s < n}

\* s is in the cyclic interval of slots that starts at h and ends before j.
Between(h, s, j) == IF h <= j THEN h <= s /\ s < j ELSE h <= s \/ s < j

\* No two slots of E hold the same key.
UniqueKeys(E) ==
  \A s, t \in Occupied(E) : E[s].key = E[t].key => s = t

\* q lists nothing twice.
NoRepeat(q) == \A m, n \in DOMAIN q : q[m] = q[n] => m = n

\* A probe that starts at the home slot of a stored key meets no empty slot
\* before it meets the key.
Reachable(E, cap) ==
  \A j \in Occupied(E) : \A s \in Slots(cap) :
     Between(Home(E[j].key, cap), s, j) => E[s].key # 0

\* The slots a probe for k has passed hold other keys.
Passed(E, cap, k, idx) ==
  \A s \in Slots(cap) :
     Between(Home(k, cap), s, idx) => E[s].key \notin {0, k}

Live == pc # "destroyed"

\* The variables have their types; capacity never exceeds size_t.
TypeOK ==
  /\ capacity \in 2 .. SizeMod - 1
  /\ length \in Nat
  /\ pc \in {"idle", "get", "set", "expand", "rehash", "reinsert", "scan",
            "abort", "exit", "destroyed"}
  /\ Live => entries \in [Slots(capacity) -> Entry]
  /\ key \in Key \cup {0}
  /\ value \in Val \cup {NULL}
  /\ index \in Nat
  /\ pc \in {"get", "set"} => index \in Slots(capacity)
  /\ i \in Nat
  /\ pc \in {"rehash", "reinsert"} =>
       /\ NewCapacity = 2 * capacity
       /\ newEntries \in [Slots(2 * capacity) -> Entry]
       /\ i \in 0 .. capacity
  /\ pc = "reinsert" => index \in Slots(2 * capacity) /\ i < capacity
  /\ ret \in Key \cup Val \cup {NULL}

\* ht_get may answer NULL only for a key that is in no slot, and
\* ht_set_entry may fill a slot only when its key is in no other slot: an
\* empty slot met by the probe means that the key is absent from the table.
MissMeansAbsent ==
  /\ pc \in {"get", "set"} /\ entries[index].key = 0 =>
       \A s \in Slots(capacity) : entries[s].key # key \/ key = 0
  /\ pc = "reinsert" /\ newEntries[index].key = 0 =>
       \A s \in Slots(2 * capacity) : newEntries[s].key # entries[i].key

\* The table never holds a function twice, neither between calls nor while
\* it is rehashed, and every stored function is found from its home slot.
WellFormed ==
  /\ Live => UniqueKeys(entries) /\ Reachable(entries, capacity)
  /\ pc \in {"rehash", "reinsert"} =>
       UniqueKeys(newEntries) /\ Reachable(newEntries, 2 * capacity)

\* table->length counts the occupied slots, and at least half of the slots
\* stay empty, in the array being filled by a rehash as well: this is what
\* lets the unbounded probing loops of ht_get and ht_set_entry end.
LoadBound ==
  /\ Live => /\ length = Cardinality(Occupied(entries))
             /\ 2 * length <= capacity
  /\ pc = "set" => 2 * (length + 1) <= capacity
  /\ pc \in {"rehash", "reinsert"} => 2 * Cardinality(Occupied(newEntries)) <= capacity

\* A rehash moves the entries of the old array below i to the new one, with
\* their values, and nothing else: none is lost, none is invented.
RehashExact ==
  pc \in {"rehash", "reinsert"} =>
    {newEntries[s] : s \in Occupied(newEntries)}
      = {entries[s] : s \in Below(entries, i)}

\* What STOP prints: every function of the table once, and as many as the
\* "Unique Functions" line says.
ReportComplete ==
  pc = "scan" /\ i = capacity =>
    /\ {reported[n] : n \in DOMAIN reported} = {entries[s].key : s \in Occupied(entries)}
    /\ NoRepeat(reported)
    /\ Len(reported) = length

\* The table is sound at every step of ht_get, ht_set and ht_expand: indices in
\* range, no function twice, each found from its home slot, half of the slots
\* empty, and a rehash that loses and invents nothing.
TableSound == TypeOK /\ WellFormed /\ MissMeansAbsent /\ LoadBound /\ RehashExact

\* Every call returns: no probe runs round a table for ever.
CallsReturn == pc \notin {"idle", "abort", "exit", "destroyed"} ~> pc \in {"idle", "destroyed"}
-----------------------------------------------------------------------------
(* The table as an atomic partial map: see AbstractMap *)

Keys(E) == {E[s].key : s \in Occupied(E)}
SlotOf(E, k) == CHOOSE s \in Occupied(E) : E[s].key = k
MapOf(E) == [k \in Keys(E) |-> E[SlotOf(E, k)].value]

AM == INSTANCE AbstractMap WITH
        map <- MapOf(entries),
        op <- CASE pc = "get" -> "get"
                [] pc \in {"set", "expand", "rehash", "reinsert"} -> "set"
                [] pc \in {"idle", "scan"} -> "idle"
                [] OTHER -> "halted",
        printed <- IF pc = "destroyed" THEN reported ELSE <<>>

\* The hash table behaves like a map that is read and updated in one step,
\* rehashing included, and whose updates may fail without any effect.
RefinesMap == AM!Spec
=============================================================================
