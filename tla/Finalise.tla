------------------------------ MODULE Finalise ------------------------------
(* What keeps a value alive from outside the heap, and what happens when   *)
(* nothing does: the global roots of C code (globroots.c) in their skip    *)
(* lists (skiplist.c), the finalisation functions (finalise.c), the        *)
(* custom blocks (custom.c), and the explicit collections of module Gc     *)
(* (gc_ctrl.c), for one domain.  A value has one field.  A minor           *)
(* collection and the end of a major cycle are one step each: the module   *)
(* MinorGC and the module MajorGC take them apart.                         *)
EXTENDS Integers, Sequences, FiniteSets

CONSTANT Worlds   \* what the program may do (see Init)

VARIABLES
    world,
    heap,     \* value -> [st, next, custom]; a value is an index of heap
    local,    \* the values the stack holds
    roots,    \* C variable -> [kind, val]
    lists,    \* the three global root lists
    final,    \* struct caml_final_info
    state,    \* the counters of the domain state
    full,     \* the explicit collection under way
    ghost,    \* history: the registrations, the calls, the late queuings
    left      \* what the program may still do

vars == <<world, heap, local, roots, lists, final, state, full, ghost, left>>

-----------------------------------------------------------------------------
(* Skip lists.  The key of a cell is the address of a C variable; key 0 is *)
(* the head and Nil is greater than any key.                               *)

NUM_LEVELS == 2
Vars == 1 .. world.roots
Nil == world.roots + 1
caml_skiplist_init ==
    [level |-> 0, forward |-> [i \in 0 .. NUM_LEVELS - 1 |->
                                 [k \in 0 .. world.roots |-> Nil]]]

RECURSIVE Advance(_, _, _, _)
Advance(sk, i, e, key) ==
    IF sk.forward[i][e] >= key THEN e ELSE Advance(sk, i, sk.forward[i][e], key)

\* update[i]: the cell of level i whose link is changed.
RECURSIVE UpdateAt(_, _, _)
UpdateAt(sk, key, i) ==
    Advance(sk, i, IF i >= sk.level THEN 0 ELSE UpdateAt(sk, key, i + 1), key)

Holds(sk, key) == sk.forward[0][UpdateAt(sk, key, 0)] = key

caml_skiplist_insert(sk, key, new_level) ==
    IF Holds(sk, key) THEN sk
    ELSE [level |-> IF new_level > sk.level THEN new_level ELSE sk.level,
          forward |->
            [i \in 0 .. NUM_LEVELS - 1 |->
               IF i > new_level THEN sk.forward[i]
               ELSE LET u == IF i > sk.level THEN 0 ELSE UpdateAt(sk, key, i)
                    IN  [sk.forward[i] EXCEPT ![key] = sk.forward[i][u], ![u] = key]]]

RECURSIVE DownCorrect(_)
DownCorrect(sk) ==
    IF sk.level > 0 /\ sk.forward[sk.level][0] = Nil
    THEN DownCorrect([sk EXCEPT !.level = @ - 1]) ELSE sk

caml_skiplist_remove(sk, key) ==
    IF ~Holds(sk, key) THEN sk
    ELSE DownCorrect(
           [sk EXCEPT !.forward =
              [i \in 0 .. NUM_LEVELS - 1 |->
                 LET u == UpdateAt(sk, key, i) IN
                 IF i > sk.level \/ sk.forward[i][u] # key THEN sk.forward[i]
                 ELSE [sk.forward[i] EXCEPT ![u] = sk.forward[i][key],
                                            ![key] = Nil]]])

\* FOREACH_SKIPLIST_ELEMENT
RECURSIVE Chain(_, _, _)
Chain(sk, i, e) ==
    IF sk.forward[i][e] = Nil THEN << >>
    ELSE <<sk.forward[i][e]>> \o Chain(sk, i, sk.forward[i][e])
KeysAt(sk, i) == LET c == Chain(sk, i, 0) IN {c[n] : n \in DOMAIN c}
Elements(sk) == KeysAt(sk, 0)

\* What random_level may give, and one draw for each key that a step inserts.
random_level == 0 .. NUM_LEVELS - 1
Draws == [Vars -> random_level]

InsertAll(sk, keys, lv) ==
    LET RECURSIVE Ins(_, _)
        Ins(s, ks) == IF ks = {} THEN s
                      ELSE LET k == CHOOSE x \in ks : TRUE
                           IN  Ins(caml_skiplist_insert(s, k, lv[k]), ks \ {k})
    IN  Ins(sk, keys)
-----------------------------------------------------------------------------
(* Values.  A value of the minor heap is young; one of the major heap has  *)
(* the colour it got in the cycle under way.                               *)

Values == DOMAIN heap
Is_young(v) == heap[v].st = "young"
Is_old(v) == heap[v].st \in {"MARKED", "UNMARKED", "GARBAGE"}
RECURSIVE Closure(_)
Closure(S) ==
    LET more == S \union ({heap[v].next : v \in S} \ {0})
    IN  IF more = S THEN S ELSE Closure(more)

\* A finalisation function and what it closes over are always kept: only the
\* values count.  An entry of the tables is a registration.
Vals(s) == {s[i].val : i \in DOMAIN s} \ {0}
Concat(ss) == LET RECURSIVE C(_)
                  C(s) == IF s = << >> THEN << >> ELSE Head(s) \o C(Tail(s))
              IN  C(ss)
TodoVals == Vals(Concat(final.todo))

\* The values that the program still has: what the stack and the registered
\* C variables lead to.
Registered == {r \in Vars : roots[r].kind # "none"}
RootVals == {roots[r].val : r \in Registered} \ {0}
Reachable == Closure(local \union RootVals)

EmptyTable == [table |-> << >>, old |-> 0]
caml_alloc_final_info ==
    [first |-> EmptyTable, last |-> EmptyTable, todo |-> << >>, running |-> FALSE,
     depth |-> 0]

(* A world has: values, how many may be allocated; roots, the C variables; *)
(* customs, whether custom blocks are; lasts, the place of the values that *)
(* get a function without value; left, the operations.                     *)
Init ==
    /\ world \in Worlds
    /\ heap = << >> /\ local = {}
    /\ roots = [r \in Vars |-> [kind |-> "none", val |-> 0]]
    /\ lists = [l \in {"roots", "young", "old"} |-> caml_skiplist_init]
    /\ final = caml_alloc_final_info
    /\ state = [extra_minor |-> 0, request |-> FALSE, forced |-> 0]
    /\ full = [what |-> "none", rounds |-> 0, pc |-> "none", victims |-> {}]
    /\ ghost = [regs |-> << >>, calls |-> << >>, cycled |-> {}]
    /\ left = world.left

Spend(what) == left[what] > 0 /\ left' = [left EXCEPT ![what] = @ - 1]
Mutator == full.pc \in {"none", "callback", "done"}
-----------------------------------------------------------------------------
(* The mutator.                                                            *)

(* alloc_custom_gen: a small block is young and is put in the custom table *)
(* with the memory it holds (1); the resources of the young blocks, over   *)
(* max_minor, ask for a minor collection.                                  *)
max_minor == 1
alloc_custom_gen ==
    /\ world.customs
    /\ heap' = Append(heap, [st |-> "young", next |-> 0, custom |-> TRUE])
    /\ state' = [state EXCEPT !.extra_minor = @ + 1,
                              !.request = @ \/ state.extra_minor + 1 > max_minor]
    /\ UNCHANGED <<roots, lists, final, full, ghost>>

\* A custom block too large for the minor heap is old at once.
alloc_custom_large ==
    /\ world.customs
    /\ heap' = Append(heap, [st |-> "MARKED", next |-> 0, custom |-> TRUE])
    /\ UNCHANGED <<roots, lists, final, state, full, ghost>>

caml_alloc_small ==
    /\ heap' = Append(heap, [st |-> "young", next |-> 0, custom |-> FALSE])
    /\ UNCHANGED <<roots, lists, final, state, full, ghost>>

Alloc ==
    /\ Mutator /\ Len(heap) < world.values
    /\ caml_alloc_small \/ alloc_custom_gen \/ alloc_custom_large
    /\ local' = local \union {Len(heap) + 1}
    /\ UNCHANGED left

Drop(v) ==
    /\ Mutator /\ v \in local
    /\ local' = local \ {v}
    /\ UNCHANGED <<heap, roots, lists, final, state, full, ghost, left>>

\* The deletion barrier of caml_modify darkens an old value that is
\* overwritten; it is part of the snapshot already.
SetField(v, w) ==
    /\ Mutator /\ Spend("fields") /\ v \in local /\ w \in local \ {v}
    /\ ~heap[v].custom /\ heap[v].next = 0
    /\ heap' = [heap EXCEPT ![v].next = w]
    /\ UNCHANGED <<local, roots, lists, final, state, full, ghost>>

-----------------------------------------------------------------------------
(* Global roots.                                                           *)

classify_gc_root(v) ==
    IF v = 0 THEN "UNTRACKED" ELSE IF Is_young(v) THEN "YOUNG" ELSE "OLD"

caml_insert_global_root(ls, l, r, lv) ==
    [ls EXCEPT ![l] = caml_skiplist_insert(@, r, lv[r])]
caml_delete_global_root(ls, l, r) == [ls EXCEPT ![l] = caml_skiplist_remove(@, r)]

caml_register_generational_global_root(r, v, lv) ==
    LET c == classify_gc_root(v) IN
    IF c = "UNTRACKED" THEN lists
    ELSE caml_insert_global_root(lists, IF c = "YOUNG" THEN "young" ELSE "old", r, lv)

caml_remove_generational_global_root(r) ==
    LET c == classify_gc_root(roots[r].val)
        fromOld == IF c = "OLD" THEN caml_delete_global_root(lists, "old", r)
                   ELSE lists
    IN  IF c = "UNTRACKED" THEN lists
        ELSE caml_delete_global_root(fromOld, "young", r)

\* A root that is in the young list stays there when an old value is stored.
caml_modify_generational_global_root(r, newval, lv) ==
    LET c == classify_gc_root(roots[r].val)
        without == IF c = "OLD" THEN caml_delete_global_root(lists, "old", r)
                   ELSE lists
    IN  CASE classify_gc_root(newval) = "YOUNG" ->
               IF c # "YOUNG" THEN caml_insert_global_root(without, "young", r, lv)
               ELSE without
          [] classify_gc_root(newval) = "OLD" ->
               IF c = "UNTRACKED" THEN caml_insert_global_root(lists, "old", r, lv)
               ELSE lists
          [] OTHER -> caml_remove_generational_global_root(r)

RegisterRoot(r, kind, v) ==
    /\ Mutator /\ Spend("roots") /\ roots[r].kind = "none"
    /\ v \in local \union {0}
    /\ roots' = [roots EXCEPT ![r] = [kind |-> kind, val |-> v]]
    /\ \E lv \in Draws :
         lists' = IF kind = "plain" THEN caml_insert_global_root(lists, "roots", r, lv)
                  ELSE caml_register_generational_global_root(r, v, lv)
    /\ UNCHANGED <<heap, local, final, state, full, ghost>>

RemoveRoot(r) ==
    /\ Mutator /\ Spend("roots") /\ roots[r].kind # "none"
    /\ roots' = [roots EXCEPT ![r].kind = "none", ![r].val = 0]
    /\ lists' = IF roots[r].kind = "plain"
                THEN caml_delete_global_root(lists, "roots", r)
                ELSE caml_remove_generational_global_root(r)
    /\ UNCHANGED <<heap, local, final, state, full, ghost>>

\* C code stores in a plain root directly, and in a generational one through
\* the function.
ModifyRoot(r, v) ==
    /\ Mutator /\ Spend("roots") /\ roots[r].kind # "none"
    /\ v \in (local \union {0}) \ {roots[r].val}
    /\ roots' = [roots EXCEPT ![r].val = v]
    /\ \E lv \in Draws :
         lists' = IF roots[r].kind = "plain" THEN lists
                  ELSE caml_modify_generational_global_root(r, v, lv)
    /\ UNCHANGED <<heap, local, final, state, full, ghost>>

-----------------------------------------------------------------------------
(* Finalisation functions.  A table holds the registrations of old values  *)
(* and, after index old, those made since the last minor collection.       *)

generic_final_register(t, v) ==
    /\ Mutator /\ Spend("finals") /\ v \in local
    /\ t = "last" /\ world.lasts # "any" => Is_young(v) <=> world.lasts = "young"
    /\ final' = [final EXCEPT ![t].table =
                   Append(@, [id |-> Len(ghost.regs) + 1, val |-> v])]
    /\ ghost' = [ghost EXCEPT !.regs = Append(@, [kind |-> t, val |-> v])]
    /\ UNCHANGED <<heap, local, roots, lists, state, full>>

Select(s, Test(_)) == SelectSeq(s, Test)
Old(f) == SubSeq(f.table, 1, f.old)
Recent(f) == SubSeq(f.table, f.old + 1, Len(f.table))
Unit(s) == [i \in DOMAIN s |-> [s[i] EXCEPT !.val = 0]]

\* generic_final_update: the unmarked values of the old part go to a new
\* chunk of the list of things to do, if there are any.
generic_final_update(fi, t, marked, withValue) ==
    LET f == fi[t]
        dead == Select(Old(f), LAMBDA e : e.val \notin marked)
        alive == Select(Old(f), LAMBDA e : e.val \in marked)
    IN  IF dead = << >> THEN fi
        ELSE [fi EXCEPT ![t] = [table |-> alive \o Recent(f), old |-> Len(alive)],
                        !.todo = Append(@, IF withValue THEN dead ELSE Unit(dead))]

\* generic_final_minor_update: the loop that moves the dead values tests the
\* place of the next free slot, j, and the header of the entry, i.
RECURSIVE MinorSplit(_, _, _, _, _)
MinorSplit(table, i, j, dead, copied) ==
    IF i > Len(table) THEN [table |-> SubSeq(table, 1, j - 1), dead |-> dead]
    ELSE IF Is_young(table[j].val) /\ table[i].val \notin copied
    THEN MinorSplit(table, i + 1, j, Append(dead, table[i]), copied)
    ELSE MinorSplit([table EXCEPT ![j] = table[i]], i + 1, j + 1, dead, copied)

generic_final_minor_update(fi, copied) ==
    LET f == fi.last
        count == Len(Select(Recent(f),
                     LAMBDA e : Is_young(e.val) /\ e.val \notin copied))
        split == MinorSplit(f.table, f.old + 1, f.old + 1, << >>, copied)
    IN  IF count = 0 THEN fi
        ELSE [fi EXCEPT !.last.table = split.table,
                        !.todo = Append(@, SubSeq(Unit(split.dead), 1, count))]

caml_final_empty_young(fi) ==
    [fi EXCEPT !.first.old = Len(fi.first.table), !.last.old = Len(fi.last.table)]

-----------------------------------------------------------------------------
(* A minor collection (caml_empty_minor_heap_promote): first what the      *)
(* global roots, the old values and the first table hold, then the update  *)
(* of the last table, then what the stack holds.                           *)

RootsOf(keys) == {roots[r].val : r \in keys} \ {0}
Young(S) == {v \in S : Is_young(v)}

\* oldify copies a young value and what it leads to.
RECURSIVE Oldify(_)
Oldify(S) ==
    LET more == S \union Young({heap[v].next : v \in S} \ {0})
    IN  IF more = S THEN S ELSE Oldify(more)

OldToYoung == Young({heap[v].next : v \in {w \in Values : Is_old(w)}} \ {0})

caml_scan_global_young_roots(lv) ==
    [roots |-> lists.roots, young |-> caml_skiplist_init,
     old |-> InsertAll(lists.old, Elements(lists.young), lv)]

caml_empty_minor_heap ==
    LET scanned == RootsOf(Elements(lists.roots) \union Elements(lists.young))
        firsts == Vals(Recent(final.first))
        copied == Oldify(Young(scanned \union OldToYoung \union firsts))
        fi == generic_final_minor_update(final, copied)
        all == Oldify(copied \union Young(local))
        dead == {v \in Values : Is_young(v)} \ all
    IN  /\ heap' = [v \in Values |->
                      IF v \in all THEN [heap[v] EXCEPT !.st = "MARKED"]
                      ELSE IF v \in dead THEN [heap[v] EXCEPT !.st = "gone"]
                      ELSE heap[v]]
        /\ final' = caml_final_empty_young(fi)
        /\ \E lv \in Draws : lists' = caml_scan_global_young_roots(lv)
        /\ state' = [state EXCEPT !.extra_minor = 0, !.request = FALSE]
        /\ UNCHANGED ghost

caml_gc_minor ==
    /\ full.pc \in {"none", "callback", "done", "minor"}
    /\ caml_empty_minor_heap
    /\ full' = [full EXCEPT !.pc = IF @ = "minor" THEN "cycle" ELSE @]
    /\ UNCHANGED <<local, roots, left>>

-----------------------------------------------------------------------------
(* The end of a major cycle, when the minor heap is empty.  What was       *)
(* garbage is swept; the values that the roots led to when the cycle began *)
(* are marked already; the values of the first table that are not are      *)
(* queued and darkened, then the last table is looked at; the colours      *)
(* turn, and the roots are marked for the next cycle.                      *)

caml_do_roots(fi) ==
    {v \in Closure(local \union Vals(Concat(fi.todo))
                   \union RootsOf(UNION {Elements(lists[l]) : l \in DOMAIN lists})) :
        Is_old(v)}

Ids(s) == {s[i].id : i \in DOMAIN s}

cycle_all_domains ==
    LET marked0 == {v \in Values : heap[v].st = "MARKED"}
        fi1 == generic_final_update(final, "first", marked0, TRUE)
        marked == marked0 \union Closure(Vals(Concat(fi1.todo)))
        fi == generic_final_update(fi1, "last", marked, FALSE)
        next == caml_do_roots(fi)
    IN  /\ heap' = [v \in Values |->
              [heap[v] EXCEPT !.st =
                 CASE @ \in {"young", "gone"} -> @
                   [] @ = "GARBAGE" -> "gone"
                   [] OTHER -> IF v \in next THEN "MARKED"
                               ELSE IF v \in marked THEN "UNMARKED" ELSE "GARBAGE"]]
        /\ final' = fi
        /\ ghost' = [ghost EXCEPT !.cycled = @ \union
                       (Ids(final.last.table) \ Ids(fi.last.table))]
        /\ UNCHANGED <<lists, state>>

caml_finish_major_cycle ==
    /\ \A v \in Values : ~Is_young(v)
    /\ \/ Mutator /\ Spend("cycles") /\ UNCHANGED full
       \/ full.pc = "cycle" /\ full' = [full EXCEPT !.pc = "calls"] /\ UNCHANGED left
    /\ cycle_all_domains
    /\ UNCHANGED <<local, roots>>

-----------------------------------------------------------------------------
(* caml_final_do_calls, from a poll point or from an explicit collection.  *)
(* The chunks are taken from the front, the functions of one from the end; *)
(* the value is on the stack of the callback.                              *)

RECURSIVE DropEmpty(_)
DropEmpty(todo) ==
    IF todo # << >> /\ Head(todo) = << >> THEN DropEmpty(Tail(todo)) ELSE todo

BeginCall ==
    LET todo == DropEmpty(final.todo)
        chunk == Head(todo)
        f == chunk[Len(chunk)]
    IN  /\ full.pc \in {"none", "callback", "done", "calls"}
        /\ ~final.running /\ todo # << >>
        /\ final' = [final EXCEPT
              !.todo = [todo EXCEPT ![1] = SubSeq(chunk, 1, Len(chunk) - 1)],
              !.running = TRUE, !.depth = @ + 1]
        /\ local' = local \union ({f.val} \ {0})
        /\ ghost' = [ghost EXCEPT !.calls = Append(@, f.id)]
        /\ full' = [full EXCEPT !.pc = IF @ = "calls" THEN "callback" ELSE @]
        /\ UNCHANGED <<heap, roots, lists, state, left>>

\* The callback returns, or raises: then caml_final_do_calls and the
\* collection that called it are left.
EndCall(raises) ==
    /\ Mutator /\ final.depth > 0
    /\ final' = [final EXCEPT !.running = FALSE, !.depth = @ - 1]
    /\ full' = [full EXCEPT !.pc = IF @ # "callback" THEN @
                                   ELSE IF raises THEN "none" ELSE "calls"]
    /\ UNCHANGED <<heap, local, roots, lists, state, ghost, left>>

\* Gc.finalise_release: the callback allows others to run in the middle of it.
caml_final_release ==
    /\ Mutator /\ Spend("releases") /\ final.depth > 0 /\ full.pc # "callback"
    /\ final' = [final EXCEPT !.running = FALSE]
    /\ UNCHANGED <<heap, local, roots, lists, state, full, ghost>>

-----------------------------------------------------------------------------
(* Gc.major, Gc.full_major, Gc.compact and Gc.stat: rounds of a minor      *)
(* collection, the end of the cycle, and the finalisation functions.       *)

Kept == Closure(local \union RootVals \union Vals(final.first.table) \union TodoVals)

TwoRounds(what) == IF what \in {"full_major", "stat"} THEN 2 ELSE 1
Rounds(what) == IF what \in {"full_major", "stat"} THEN 3 ELSE 1

BeginGc(what) ==
    /\ full.pc = "none" /\ Spend("gcs")
    /\ full' = [what |-> what, rounds |-> Rounds(what), pc |-> "minor",
                victims |-> {v \in Values : heap[v].st # "gone"} \ Kept]
    /\ UNCHANGED <<heap, local, roots, lists, final, state, ghost>>

EndRound ==
    /\ full.pc = "calls" /\ (final.running \/ DropEmpty(final.todo) = << >>)
    /\ full' = [full EXCEPT !.rounds = @ - 1,
                            !.pc = IF full.rounds = 1 THEN "done" ELSE "minor"]
    /\ final' = [final EXCEPT !.todo = IF final.running THEN @ ELSE << >>]
    /\ state' = [state EXCEPT !.forced = IF full.rounds = 1 /\ full.what # "major"
                                         THEN @ + 1 ELSE @]
    /\ UNCHANGED <<heap, local, roots, lists, ghost, left>>

-----------------------------------------------------------------------------
Next ==
    /\ UNCHANGED world
    /\ \/ Alloc
       \/ \E v \in Values : Drop(v) \/ \E w \in Values : SetField(v, w)
       \/ \E r \in Vars : RemoveRoot(r)
       \/ \E r \in Vars, v \in Values \union {0} :
             ModifyRoot(r, v) \/ \E k \in {"gen", "plain"} : RegisterRoot(r, k, v)
       \/ \E t \in {"first", "last"}, v \in Values : generic_final_register(t, v)
       \/ caml_gc_minor
       \/ caml_finish_major_cycle
       \/ BeginCall
       \/ \E raises \in BOOLEAN : EndCall(raises)
       \/ caml_final_release
       \/ \E what \in {"major", "full_major", "compaction", "stat"} : BeginGc(what)
       \/ EndRound

Spec == Init /\ [][Next]_vars

-----------------------------------------------------------------------------
\* No value the program can reach is gone, and an old one is in the snapshot
\* of the cycle.
NothingLost ==
    \A v \in Reachable : heap[v].st \in {"young", "MARKED"}

\* The comment above the generational roots: where each root must be.
Generational ==
    \A r \in Vars :
        LET y == r \in Elements(lists.young)
            o == r \in Elements(lists.old)
            c == classify_gc_root(roots[r].val)
        IN  IF roots[r].kind # "gen" THEN ~y /\ ~o
            ELSE CASE c = "YOUNG" -> y [] c = "OLD" -> y \/ o [] OTHER -> ~y /\ ~o

Increasing(s) == \A i \in 1 .. Len(s) - 1 : s[i] < s[i + 1]
SkipListOk(sk) ==
    /\ \A i \in 0 .. NUM_LEVELS - 1 : Increasing(Chain(sk, i, 0))
    /\ Elements(sk) = {k \in Vars : Holds(sk, k)}
    /\ \A i \in 1 .. NUM_LEVELS - 1 : KeysAt(sk, i) \subseteq KeysAt(sk, i - 1)
    /\ \A i \in 1 .. NUM_LEVELS - 1 : KeysAt(sk, i) = {} <=> i > sk.level

\* Every registration is in its table, or queued, or was called, and only
\* once; the table of a function holds a value until it is queued.
Pending == Concat(final.todo)
OnceEach ==
    \A id \in DOMAIN ghost.regs :
        Cardinality({<<"c", i>> : i \in {j \in DOMAIN ghost.calls : ghost.calls[j] = id}}
          \union {<<"q", i>> : i \in {j \in DOMAIN Pending : Pending[j].id = id}}
          \union {<<"t", i>> : i \in
                    {j \in DOMAIN final[ghost.regs[id].kind].table :
                        final[ghost.regs[id].kind].table[j].id = id}}) = 1

\* A function of Gc.finalise_last that a major cycle queues is for a value
\* that cannot be reached; so is a value that Gc.finalise holds in its queue
\* until the function is called with it.
CycledDead == \A id \in ghost.cycled : ghost.regs[id].val \notin Reachable
QueuedAlive == \A v \in Closure(TodoVals) : heap[v].st # "gone"

\* Gc.full_major (and Gc.stat) collect every value that was unreachable when
\* they were called, except what a function of Gc.finalise keeps.
FullMajorCollects ==
    full.pc = "done" /\ full.what \in {"full_major", "stat"} =>
        \A v \in full.victims : heap[v].st = "gone"

\* The global roots, the finalisation functions and the explicit collections
\* together: nothing reachable is collected, the root lists hold what their
\* comment says, every finalisation function is called at most once and not
\* too early, and Gc.full_major collects what it promises.
RootsRight ==
    /\ NothingLost /\ Generational /\ OnceEach /\ CycledDead /\ QueuedAlive
    /\ \A l \in DOMAIN lists : SkipListOk(lists[l])
    /\ FullMajorCollects
=============================================================================
