------------------------------- MODULE Arrays -------------------------------
(* Arrays and the write barrier: runtime/array.c, the allocation functions of *)
(* alloc.c, the block operations of obj.c and the stores of memory.c, run     *)
(* between the steps of a generational and incremental collector.  The        *)
(* collector is abstract here (its own modules have the details): a minor     *)
(* collection promotes what the roots and the remembered set reach, and the   *)
(* marker works from a snapshot, so that a missing entry of the remembered    *)
(* set or a missing darkening loses a block.                                  *)
EXTENDS Integers, Sequences, FiniteSets, SequencesExt

\* A world: the operations the program does and how many, the blocks it may
\* have, Max_young_wosize, Max_wosize, whether the domain is alone, and the
\* values of the program's variables and the heap at the start.
CONSTANT Worlds

VARIABLES
    world,  \* the world chosen at the start; left of it counts down
    m,      \* heap, remembered set (ref) and roots of the program (regs)
    model   \* what each block should contain, in terms of the operations
vars == <<world, m, model>>

-----------------------------------------------------------------------------
(* Values: below 100 a long, from 100 on a pointer.  Blocks have a tag: "v"   *)
(* an array of values, "t" a tuple (the same tag 0, another static type), "D" *)
(* a float array, "d" a float, "s" a string.                                  *)
Atom == 100
Unit == 0
Is_block(v) == v >= 100
Regs == DOMAIN m.regs
Live(s) == DOMAIN s.heap
Is_young(s, v) == s.heap[v].young
Tag(v) == m.heap[v].tag
Size(v) == Len(m.heap[v].f)
Scanned(o) == o.tag \in {"v", "t"}
Pointers(o) == IF Scanned(o) THEN {v \in ToSet(o.f) : Is_block(v)} ELSE {}

\* The blocks that from reaches through blocks of within.
RECURSIVE Closed(_, _, _)
Closed(s, from, within) ==
    LET more == (from \union UNION {Pointers(s.heap[v]) : v \in from}) \intersect within
    IN IF more = from THEN from ELSE Closed(s, more, within)

RootsOf(s) == {v \in ToSet(s.regs) : Is_block(v)}

(* The collector in coarse steps; MinorGC and MajorGC take them apart. *)
Kept == model' = [v \in Live(m') |-> model[v]]
Minor(s) ==
    LET young == {v \in Live(s) : s.heap[v].young}
        slots == {s.heap[r[1]].f[r[2]] : r \in s.ref}
        kept == Closed(s, (RootsOf(s) \union slots) \intersect young, young)
    IN [s EXCEPT !.heap = [v \in (Live(s) \ young) \union kept |->
                             [s.heap[v] EXCEPT !.young = FALSE,
                                               !.mark = IF v \in kept THEN "black" ELSE @]],
                 !.ref = {}]

caml_darken(s, v) ==
    IF Is_block(v) /\ ~Is_young(s, v) /\ s.heap[v].mark = "white"
      THEN [s EXCEPT !.heap[v].mark = "grey"] ELSE s

MarkStep(v) ==
    /\ v \in Live(m) /\ m.heap[v].mark = "grey" /\ ~m.heap[v].young
    /\ LET white == {w \in Pointers(m.heap[v]) : ~m.heap[w].young /\ m.heap[w].mark = "white"}
       IN m' = [m EXCEPT !.heap = [w \in Live(m) |->
                  IF w = v THEN [@[w] EXCEPT !.mark = "black"]
                  ELSE IF w \in white THEN [@[w] EXCEPT !.mark = "grey"] ELSE @[w]]]
    /\ Kept /\ UNCHANGED world

\* The end of a cycle: what is not marked is freed and the roots are darkened.
Cycle ==
    /\ \A v \in Live(m) : m.heap[v].mark # "grey"
    /\ LET s == Minor(m)
           kept == {v \in Live(s) : v = Atom \/ s.heap[v].mark # "white"}
       IN m' = [s EXCEPT !.heap = [v \in kept |->
                  [s.heap[v] EXCEPT !.mark = IF v = Atom THEN "black"
                                             ELSE IF v \in RootsOf(s) THEN "grey" ELSE "white"]]]
    /\ Kept /\ UNCHANGED world

MinorGC ==
    /\ \E v \in Live(m) : m.heap[v].young
    /\ m' = Minor(m) /\ Kept /\ UNCHANGED world

-----------------------------------------------------------------------------
(* memory.c *)
Ref_table_add(s, v, i) == [s EXCEPT !.ref = @ \union {<<v, i>>}]

write_barrier(s, v, i, old, new) ==
    IF Is_young(s, v) \/ (Is_block(old) /\ Is_young(s, old)) THEN s
    ELSE LET dark == IF Is_block(old) THEN caml_darken(s, old) ELSE s
         IN IF Is_block(new) /\ Is_young(s, new) THEN Ref_table_add(dark, v, i) ELSE dark

Stored(s, v, i, new) == [s EXCEPT !.heap[v].f = ReplaceAt(@, i, new)]
caml_modify(s, v, i, new) == Stored(write_barrier(s, v, i, s.heap[v].f[i], new), v, i, new)

\* The field is set and nothing is remembered.
InitializesUnseen(s, v, i, new) == Stored(s, v, i, new)
caml_initialize(s, v, i, new) ==
    LET s1 == Stored(s, v, i, new)
    IN IF ~Is_young(s, v) /\ Is_block(new) /\ Is_young(s, new) THEN Ref_table_add(s1, v, i) ELSE s1

\* A block has just been allocated: id is its address.  New blocks of the major
\* heap are marked.
FreshIn(s) == CHOOSE v \in 101..(100 + world.blocks) :
                 v \notin Live(s) /\ \A w \in 101..(v - 1) : w \in Live(s)
Fresh == FreshIn(m)
HasRoom == \E v \in 101..(100 + world.blocks) : v \notin Live(m)
alloc_shr(s, id, tag, f) ==
    [s EXCEPT !.heap = [v \in Live(s) \union {id} |->
        IF v = id THEN [young |-> FALSE, tag |-> tag, f |-> f, mark |-> "black"] ELSE @[v]]]

\* A small allocation may run a minor collection before it returns.
Alloc_small(s, id, tag, f, gc) ==
    LET s1 == IF gc THEN Minor(s) ELSE s
    IN [s1 EXCEPT !.heap = [v \in Live(s1) \union {id} |->
          IF v = id THEN [young |-> TRUE, tag |-> tag, f |-> f, mark |-> "black"] ELSE @[v]]]

\* The pending actions, or the urgent collection, that may run when a
\* primitive ends; the result is a root by then.
Returned(s, r, v) == [s EXCEPT !.regs[r] = v]
Checked(s, gc) == IF gc THEN Minor(s) ELSE s

Small(size) == size <= world.young
Const(n, v) == <<>> \o [i \in 1..n |-> v]

\* alloc.c: the fields are initialised to unit where they are scanned.
caml_alloc(s, id, size, tag, gc) ==
    IF Small(size) THEN Alloc_small(s, id, tag, Const(size, Unit), gc)
    ELSE alloc_shr(s, id, tag, Const(size, Unit))

\* Stores of a sequence of fields, in order, by one of the three stores.
Store(how, s, v, i, new) ==
    CASE how = "modify" -> caml_modify(s, v, i, new)
      [] how = "initialize" -> caml_initialize(s, v, i, new)
      [] how = "plain" -> Stored(s, v, i, new)

RECURSIVE CopyFields(_, _, _, _, _, _, _)
CopyFields(how, s, a1, o1, a2, o2, order) ==
    IF order = <<>> THEN s
    ELSE CopyFields(how, Store(how, s, a2, o2 + Head(order), s.heap[a1].f[o1 + Head(order)]),
                    a1, o1, a2, o2, Tail(order))

Ascending(n) == [i \in 1..n |-> i]
Descending(n) == [i \in 1..n |-> n + 1 - i]

-----------------------------------------------------------------------------
(* The primitives.  Each action names the registers of its arguments and the  *)
(* register of its result; the library has checked offsets and lengths, and   *)
(* the type checker that arrays of floats and of other values do not mix.     *)
Can(op) == op \in world.ops /\ world.left > 0
Spent == world' = [world EXCEPT !.left = @ - 1]
IsArray(v) == Is_block(v) /\ Tag(v) \in {"v", "D"}
IsTuple(v) == Is_block(v) /\ Tag(v) = "t"
IsFloat(v) == Is_block(v) /\ Tag(v) = "d"
Values == {1} \union ToSet(m.regs)
\* v is a value of the type of the elements of a.
Fits(a, v) == a # Atom => (Tag(a) = "D" <=> IsFloat(v))
Alike(a, b) == a # Atom /\ b # Atom => (Tag(a) = "D" <=> Tag(b) = "D")
\* The effect on the model: block v contains f, r becomes the result.
Holds(v, f) == model' = [w \in Live(m') |-> IF w = v THEN f ELSE model[w]]

caml_make_vect(len, init, r, gc) ==
    /\ Can("make") /\ HasRoom
    /\ LET id == Fresh
           float == IsFloat(init)
           promoted == IF Is_block(init) /\ Is_young(m, init) THEN Minor(m) ELSE m
           filled == Const(len, IF float THEN m.heap[init].f[1] ELSE init)
           made == CASE len = 0 -> m
                     [] len > world.max -> m
                     [] len \in 1..world.max /\ float ->
                          [caml_alloc(m, id, len, "D", gc) EXCEPT !.heap[id].f = filled]
                     [] len \in 1..world.max /\ ~float /\ Small(len) ->
                          Alloc_small(m, id, "v", filled, gc)
                     [] len \in 1..world.max /\ ~float /\ ~Small(len) ->
                          alloc_shr(promoted, id, "v", filled)
       IN IF len > world.max THEN UNCHANGED <<m, model>>  \* Invalid_argument
          ELSE IF len = 0 THEN m' = Checked(Returned(m, r, Atom), gc) /\ Kept
          ELSE m' = Checked(Returned(made, r, id), gc) /\ Holds(id, filled)
    /\ Spent

\* The contents are not specified: 7.
caml_floatarray_create(len, r, gc) ==
    /\ Can("floats") /\ HasRoom
    /\ IF len > world.max THEN UNCHANGED <<m, model>>   \* Invalid_argument
       ELSE IF len = 0 THEN m' = Returned(m, r, Atom) /\ Kept
       ELSE /\ m' = Checked(Returned([caml_alloc(m, Fresh, len, "D", gc)
                                       EXCEPT !.heap[Fresh].f = Const(len, 7)], r, Fresh), gc)
            /\ Holds(Fresh, Const(len, 7))
    /\ Spent

\* The block of boxed floats of an array expression becomes a flat array.
caml_make_array(a, r, gc) ==
    /\ Can("array") /\ HasRoom /\ IsTuple(m.regs[a])
    /\ LET init == m.regs[a]
           flat == [i \in 1..Size(init) |-> m.heap[m.heap[init].f[i]].f[1]]
           made == IF Small(Size(init)) THEN Alloc_small(m, Fresh, "D", flat, gc)
                   ELSE alloc_shr(m, Fresh, "D", flat)
       IN IF ~IsFloat(m.heap[init].f[1])
            THEN m' = Returned([m EXCEPT !.heap[init].tag = "v"], r, init) /\ Kept
            ELSE m' = Checked(Returned(made, r, Fresh), gc) /\ Holds(Fresh, flat)
    /\ Spent

\* caml_alloc_1 .. caml_alloc_N: the values are preserved by a collection; the
\* result is a tuple or the argument of caml_make_array.
do_alloc_small(vals, r, gc) ==
    /\ Can("tuple") /\ HasRoom /\ \A v, w \in ToSet(vals) : IsFloat(v) <=> IsFloat(w)
    /\ m' = Returned(Alloc_small(m, Fresh, "t", vals, gc), r, Fresh)
    /\ Holds(Fresh, vals) /\ Spent

\* An element of a float array is boxed when it is read.
caml_array_unsafe_get(v, i, r, gc) ==
    LET x == m.heap[v].f[i]
    IN IF Tag(v) = "D"
         THEN m' = Returned(Alloc_small(m, Fresh, "d", <<x>>, gc), r, Fresh) /\ Holds(Fresh, <<x>>)
         ELSE m' = Returned(m, r, x) /\ Kept
caml_array_get(a, i, r, gc) ==
    /\ Can("get") /\ IsArray(m.regs[a]) /\ HasRoom
    /\ IF i \notin 1..Size(m.regs[a]) THEN UNCHANGED <<m, model>>   \* bound error
       ELSE caml_array_unsafe_get(m.regs[a], i, r, gc)
    /\ Spent

caml_array_unsafe_set(b, i, v) ==
    LET x == IF Tag(b) = "D" THEN m.heap[v].f[1] ELSE v
    IN /\ m' = IF Tag(b) = "D" THEN Stored(m, b, i, x) ELSE caml_modify(m, b, i, x)
       /\ Holds(b, ReplaceAt(model[b], i, x))
caml_array_set(a, i, v) ==
    /\ Can("set") /\ IsArray(m.regs[a]) /\ Fits(m.regs[a], v)
    /\ IF i \notin 1..Size(m.regs[a]) THEN UNCHANGED <<m, model>>   \* bound error
       ELSE caml_array_unsafe_set(m.regs[a], i, v)
    /\ Spent

\* memmove copies as if at once; with other domains running, word by word in
\* the direction that the addresses give.
Moved(f1, o1, f2, o2, n) ==
    [i \in DOMAIN f2 |-> IF i \in (o2 + 1)..(o2 + n) THEN f1[o1 + (i - o2)] ELSE f2[i]]
memmove(s, a1, o1, a2, o2, n) ==
    [s EXCEPT !.heap[a2].f = Moved(s.heap[a1].f, o1, @, o2, n)]
wo_memmove(s, a1, o1, a2, o2, n) ==
    IF world.alone THEN memmove(s, a1, o1, a2, o2, n)
    ELSE CopyFields("plain", s, a1, o1, a2, o2,
                    IF a2 < a1 \/ (a1 = a2 /\ o2 < o1) THEN Ascending(n) ELSE Descending(n))

caml_array_blit(a, o1, b, o2, n, gc) ==
    LET a1 == m.regs[a]
        a2 == m.regs[b]
        order == IF a1 = a2 /\ o1 < o2 THEN Descending(n) ELSE Ascending(n)
    IN /\ Can("blit") /\ IsArray(a1) /\ IsArray(a2) /\ Alike(a1, a2)
       /\ o1 + n <= Size(a1) /\ o2 + n <= Size(a2)
       /\ m' = IF Tag(a2) = "D" THEN memmove(m, a1, o1, a2, o2, n)
               ELSE IF Is_young(m, a2) THEN wo_memmove(m, a1, o1, a2, o2, n)
               ELSE Checked(CopyFields("modify", m, a1, o1, a2, o2, order), gc)
       /\ Holds(a2, Moved(model[a1], o1, model[a2], o2, n)) /\ Spent

\* caml_array_gather: parts are an array, an offset and a length each.
RECURSIVE Gathered(_)
Gathered(parts) ==
    IF parts = <<>> THEN <<>>
    ELSE SubSeq(m.heap[parts[1].a].f, parts[1].o + 1, parts[1].o + parts[1].n) \o Gathered(Tail(parts))
RECURSIVE Expected(_)
Expected(parts) ==
    IF parts = <<>> THEN <<>>
    ELSE SubSeq(model[parts[1].a], parts[1].o + 1, parts[1].o + parts[1].n) \o Expected(Tail(parts))
RECURSIVE Initialised(_, _, _, _)
Initialised(s, id, pos, parts) ==
    IF parts = <<>> THEN s
    ELSE Initialised(CopyFields("initialize", s, parts[1].a, parts[1].o, id, pos, Ascending(parts[1].n)),
                     id, pos + parts[1].n, Tail(parts))

caml_array_gather(parts, r, gc) ==
    LET all == Gathered(parts)
        float == \E i \in DOMAIN parts : Tag(parts[i].a) = "D"
        blank == alloc_shr(m, Fresh, "v", Const(Len(all), Unit))
        made == IF float THEN [caml_alloc(m, Fresh, Len(all), "D", gc) EXCEPT !.heap[Fresh].f = all]
                ELSE IF Small(Len(all)) THEN Alloc_small(m, Fresh, "v", all, gc)
                ELSE Initialised(blank, Fresh, 0, parts)
    IN /\ HasRoom
       /\ \A i, j \in DOMAIN parts : Alike(parts[i].a, parts[j].a)
       /\ IF all = <<>> THEN m' = Returned(m, r, Atom) /\ Kept
          ELSE IF Len(all) > world.max THEN UNCHANGED <<m, model>>   \* Invalid_argument
          ELSE m' = Checked(Returned(made, r, Fresh), gc) /\ Holds(Fresh, Expected(parts))
       /\ Spent

Whole(v) == [a |-> v, o |-> 0, n |-> Size(v)]
caml_array_sub(a, o, n, r, gc) ==
    /\ Can("sub") /\ IsArray(m.regs[a]) /\ o + n <= Size(m.regs[a])
    /\ caml_array_gather(<<[a |-> m.regs[a], o |-> o, n |-> n]>>, r, gc)
caml_array_append(a, b, r, gc) ==
    /\ Can("append") /\ IsArray(m.regs[a]) /\ IsArray(m.regs[b])
    /\ caml_array_gather(<<Whole(m.regs[a]), Whole(m.regs[b])>>, r, gc)
caml_array_concat(as, r, gc) ==
    /\ Can("concat") /\ \A i \in DOMAIN as : IsArray(m.regs[as[i]])
    /\ caml_array_gather([i \in DOMAIN as |-> Whole(m.regs[as[i]])], r, gc)

\* caml_array_fill has its own copy of the barrier.
RECURSIVE FillOld(_, _, _, _)
FillOld(s, b, is, v) ==
    LET i == Head(is)
        old == s.heap[b].f[i]
        set == Stored(s, b, i, v)
        dark == IF Is_block(old) THEN caml_darken(set, old) ELSE set
        next == IF old = v THEN s
                ELSE IF Is_block(old) /\ Is_young(s, old) THEN set
                ELSE IF Is_block(v) /\ Is_young(s, v) THEN Ref_table_add(dark, b, i) ELSE dark
    IN IF is = <<>> THEN s ELSE FillOld(next, b, Tail(is), v)

caml_array_fill(a, o, n, v, gc) ==
    LET b == m.regs[a]
        x == IF Tag(b) = "D" THEN m.heap[v].f[1] ELSE v
        range == (o + 1)..(o + n)
        f == [i \in 1..Size(b) |-> IF i \in range THEN x ELSE m.heap[b].f[i]]
    IN /\ Can("fill") /\ IsArray(b) /\ Fits(b, v) /\ o + n <= Size(b)
       /\ m' = IF Tag(b) = "D" \/ Is_young(m, b) THEN [m EXCEPT !.heap[b].f = f]
               ELSE Checked(FillOld(m, b, [i \in 1..n |-> o + i], v),
                            gc /\ Is_block(v) /\ Is_young(m, v))
       /\ Holds(b, [i \in 1..Size(b) |-> IF i \in range THEN x ELSE model[b][i]]) /\ Spent

-----------------------------------------------------------------------------
(* let rec: a dummy block is allocated first, and later filled with the       *)
(* fields of the value computed; collections may happen in between.           *)
caml_alloc_dummy(size, r, gc) ==
    /\ Can("dummy") /\ HasRoom
    /\ m' = Returned(caml_alloc(m, Fresh, size, "t", gc), r, Fresh)
    /\ Holds(Fresh, Const(size, Unit)) /\ Spent

caml_update_dummy(d, a) ==
    LET dummy == m.regs[d]
        newval == m.regs[a]
    IN /\ Can("update") /\ IsTuple(dummy) /\ dummy # newval /\ model[dummy] = Const(Size(dummy), Unit)
       /\ Is_block(newval) /\ Tag(newval) \in {"t", "D"} /\ Size(newval) = Size(dummy)
       /\ m' = IF Tag(newval) = "D"
                 THEN [m EXCEPT !.heap[dummy].tag = "D", !.heap[dummy].f = m.heap[newval].f]
                 ELSE CopyFields("modify", m, newval, 0, dummy, 0, Ascending(Size(newval)))
       /\ Holds(dummy, model[newval]) /\ Spent

\* A copy of a block, with its own tag (caml_obj_dup) or another one.
caml_obj_with_tag(a, r, gc) ==
    LET arg == m.regs[a]
        size == Size(arg)
        tag == Tag(arg)
        f == m.heap[arg].f
        made == IF ~Scanned(m.heap[arg])
                  THEN [caml_alloc(m, Fresh, size, tag, gc) EXCEPT !.heap[Fresh].f = f]
                ELSE IF Small(size) THEN Alloc_small(m, Fresh, tag, f, gc)
                ELSE CopyFields("initialize", alloc_shr(m, Fresh, tag, Const(size, Unit)),
                                arg, 0, Fresh, 0, Ascending(size))
    IN /\ Can("dup") /\ HasRoom /\ Is_block(arg)
       /\ IF size = 0 THEN m' = Returned(m, r, Atom) /\ Kept
          ELSE m' = Returned(made, r, Fresh) /\ Holds(Fresh, model[arg])
       /\ Spent

\* An array of strings: each one is allocated before the address of the field
\* it goes to is taken.
RECURSIVE Strings(_, _, _, _, _)
Strings(s, id, i, n, gc) ==
    LET made == Alloc_small(s, FreshIn(s), "s", <<>>, gc)
    IN IF i > n THEN s ELSE Strings(caml_modify(made, id, i, FreshIn(s)), id, i + 1, n, gc)

caml_alloc_array(n, r, gc) ==
    /\ Can("strings") /\ Cardinality(Live(m)) + n <= world.blocks
    /\ LET blank == Returned(caml_alloc(m, Fresh, n, "v", gc), r, Fresh)
           made == Strings(blank, Fresh, 1, n, gc)
           new == Live(made) \ Live(m)
       IN /\ m' = made
          /\ model' = [v \in Live(made) |-> IF v \in new THEN made.heap[v].f ELSE model[v]]
    /\ Spent

-----------------------------------------------------------------------------
(* Atomic operations of memory.c on the first field of a block.               *)
SameKind(b, v) == IsFloat(v) <=> IsFloat(m.heap[b].f[1])

caml_atomic_exchange(a, v, r) ==
    LET b == m.regs[a]
        old == m.heap[b].f[1]
    IN /\ Can("exchange") /\ IsTuple(b) /\ SameKind(b, v)
       /\ m' = Returned(write_barrier(Stored(m, b, 1, v), b, 1, old, v), r, old)
       /\ Holds(b, ReplaceAt(model[b], 1, v)) /\ Spent

caml_atomic_cas_field(s, b, oldv, newv) ==
    IF s.heap[b].f[1] = oldv THEN write_barrier(Stored(s, b, 1, newv), b, 1, oldv, newv) ELSE s

\* caml_obj_compare_and_swap then gives the collector a chance to run.
caml_atomic_cas(a, oldv, newv, gc) ==
    LET b == m.regs[a]
    IN /\ Can("cas") /\ IsTuple(b) /\ SameKind(b, newv)
       /\ m' = Checked(caml_atomic_cas_field(m, b, oldv, newv), gc)
       /\ IF model[b][1] = oldv THEN Holds(b, ReplaceAt(model[b], 1, newv)) ELSE Kept
       /\ Spent

\* Only of integers: no barrier is needed.
caml_atomic_fetch_add(a, r) ==
    LET b == m.regs[a]
        n == m.heap[b].f[1]
    IN /\ Can("add") /\ IsTuple(b) /\ ~Is_block(n)
       /\ m' = Returned(Stored(m, b, 1, n + 1), r, n)
       /\ Holds(b, ReplaceAt(model[b], 1, model[b][1] + 1)) /\ Spent

RECURSIVE SetFields(_, _, _, _)
SetFields(s, b, i, v) ==
    IF i > Len(s.heap[b].f) THEN s ELSE SetFields(caml_modify(s, b, i, v), b, i + 1, v)
caml_set_fields(a, v) ==
    LET b == m.regs[a]
    IN /\ Can("fields") /\ IsTuple(b) /\ ~IsFloat(v)
       /\ m' = SetFields(m, b, 1, v) /\ Holds(b, Const(Size(b), v)) /\ Spent

-----------------------------------------------------------------------------
\* A cycle of the major collector has just started.
Darkened(heap, regs) ==
    [v \in DOMAIN heap |-> IF v # Atom /\ ~heap[v].young /\ v \in ToSet(regs)
                             THEN [heap[v] EXCEPT !.mark = "grey"] ELSE heap[v]]
Init ==
    /\ world \in Worlds
    /\ m = [heap |-> Darkened(world.heap, world.regs), regs |-> world.regs, ref |-> {}]
    /\ model = [v \in DOMAIN world.heap |-> world.heap[v].f]

Lengths == 0..(world.max + 1)
Offsets == 0..(world.max - 1)
Next ==
    \/ \E v \in 101..(100 + world.blocks) : MarkStep(v)
    \/ Cycle
    \/ MinorGC
    \/ \E r \in Regs, gc \in BOOLEAN :
         \/ \E n \in Lengths, v \in Values : caml_make_vect(n, v, r, gc)
         \/ \E n \in Lengths : caml_floatarray_create(n, r, gc)
         \/ \E v, w \in Values : do_alloc_small(<<v, w>>, r, gc)
         \/ \E n \in 1..world.max : caml_alloc_dummy(n, r, gc)
         \/ \E n \in 1..2 : caml_alloc_array(n, r, gc)
         \/ \E a \in Regs :
              \/ caml_make_array(a, r, gc)
              \/ \E i \in Lengths : caml_array_get(a, i, r, gc)
              \/ \E o \in Offsets, n \in 0..world.max : caml_array_sub(a, o, n, r, gc)
              \/ caml_obj_with_tag(a, r, gc)
              \/ \E b \in Regs : caml_array_append(a, b, r, gc) \/ caml_array_concat(<<a, b, a>>, r, gc)
    \/ \E a \in Regs, gc \in BOOLEAN :
         \/ \E b \in Regs, o1, o2 \in Offsets, n \in 0..world.max : caml_array_blit(a, o1, b, o2, n, gc)
         \/ \E o \in Offsets, n \in 0..world.max, v \in Values : caml_array_fill(a, o, n, v, gc)
         \/ \E v, w \in Values : caml_atomic_cas(a, v, w, gc)
    \/ \E a, r \in Regs : caml_atomic_fetch_add(a, r) \/ \E v \in Values : caml_atomic_exchange(a, v, r)
    \/ \E a \in Regs, i \in Lengths, v \in Values : caml_array_set(a, i, v)
    \/ \E a \in Regs, v \in Values : caml_set_fields(a, v)
    \/ \E d, a \in Regs : caml_update_dummy(d, a)

Spec == Init /\ [][Next]_vars

-----------------------------------------------------------------------------
Reached == Closed(m, RootsOf(m) \intersect Live(m), Live(m))

\* Every pointer from the major heap to the minor heap is in the remembered
\* set, whichever store wrote it: a minor collection looks nowhere else.
Remembered ==
    \A v \in Live(m) : ~m.heap[v].young /\ Scanned(m.heap[v]) =>
        \A i \in 1..Size(v) : LET w == m.heap[v].f[i]
            IN Is_block(w) /\ w \in Live(m) /\ m.heap[w].young => <<v, i>> \in m.ref

\* No block the program can reach is freed, whatever it overwrote since the
\* marker started, and each one contains what the operations put there.
ContentsKept ==
    /\ RootsOf(m) \subseteq Live(m)
    /\ \A v \in Reached : Pointers(m.heap[v]) \subseteq Live(m) /\ m.heap[v].f = model[v]

\* No array of values holds a boxed float: Array.get decides by the tag alone.
FloatsFlat ==
    \A v \in Reached : Tag(v) = "v" => \A w \in Pointers(m.heap[v]) : Tag(w) # "d"

\* Whatever array.c, alloc.c and obj.c store, both collectors learn of it
\* (caml_modify, caml_initialize), contents are kept and float arrays are flat.
ArraysRight == Remembered /\ ContentsKept /\ FloatsFlat
=============================================================================
