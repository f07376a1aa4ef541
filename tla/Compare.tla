------------------------------ MODULE Compare ------------------------------
(* Polymorphic comparison and polymorphic hashing (runtime/compare.c and     *)
(* runtime/hash.c): the two walks over values that Hashtbl, Map and Set rely *)
(* on to agree.  Each walk is run, one loop iteration a step, on every pair  *)
(* and every element of a small set of values.                               *)
EXTENDS Integers, Sequences, FiniteSets, TLC

\* A world: the values, the number of bits of a word, the sizes of the compare
\* stack (initial, first allocation, maximum), whether memory runs out,
\* the size of the hash queue, the forwards it follows, and the pairs of
\* meaningful count and total limit given to hash.
CONSTANT Worlds

VARIABLES
    world,  \* the world chosen at the start, never changed
    walk,   \* the walk in progress, or Idle
    done    \* the results of the finished walks, by request
vars == <<world, walk, done>>

-----------------------------------------------------------------------------
(* Values.  Blocks have an address: equal records are the same block.        *)
Long(n) == [k |-> "long", n |-> n]
Str(at, s) == [k |-> "string", at |-> at, s |-> s]
Dbl(at, d) == [k |-> "double", at |-> at, d |-> d]
Dbls(at, ds) == [k |-> "doubles", at |-> at, ds |-> ds]
Fwd(at, v) == [k |-> "forward", at |-> at, v |-> v]
Obj(at, oid) == [k |-> "object", at |-> at, oid |-> oid]
Custom(at, ops, n) == [k |-> "custom", at |-> at, ops |-> ops, n |-> n]
\* The fields of a closure before start_env, and its environment.
Closure(at, info, env) == [k |-> "closure", at |-> at, info |-> info, env |-> env]
Infix(clos, offset) == [k |-> "infix", clos |-> clos, offset |-> offset]
Cont(at) == [k |-> "cont", at |-> at]
Abstract(at) == [k |-> "abstract", at |-> at]
Block(at, tag, f) == [k |-> "block", at |-> at, tag |-> tag, f |-> f]

\* Floats: small integers stand for ordered floats, zero also has a negative.
NaN == 99
OtherNaN == 98
NegZero == 97
IsNaN(d) == d \in {NaN, OtherNaN}
Num(d) == IF d = NegZero THEN 0 ELSE d

\* The order of the tags of mlvalues.h; Infix_tag is compared as Closure_tag.
TagOf(v) ==
    CASE v.k = "block" -> v.tag [] v.k = "cont" -> 245
      [] v.k \in {"closure", "infix"} -> 247
      [] v.k = "object" -> 248 [] v.k = "forward" -> 250
      [] v.k = "abstract" -> 251 [] v.k = "string" -> 252 [] v.k = "double" -> 253
      [] v.k = "doubles" -> 254 [] v.k = "custom" -> 255

\* Custom operations, in the order of their identifiers: which of them have
\* compare and hash, and compare_ext against a long.
Identifiers == <<"bigarray", "int32", "big", "none">>
HasCompare(ops) == ops # "none"
HasHash(ops) == ops # "none"
HasExt(ops) == ops = "big"
OpsBefore(o1, o2) ==
    \E i, j \in 1..4 : i < j /\ Identifiers[i] = o1 /\ Identifiers[j] = o2

Sign(n) == IF n < 0 THEN -1 ELSE IF n > 0 THEN 1 ELSE 0

-----------------------------------------------------------------------------
(* compare.c.  A walk returns a number, UNORDERED among them, or raises.     *)
Min2 == -(2 ^ (world.bits - 1))
UNORDERED == Min2
Word(n) == ((n - Min2) % (2 ^ world.bits)) + Min2

Idle == [k |-> "idle"]
CompareStack == [items |-> <<>>, limit |-> world.init, heap |-> 0]

\* heap counts the allocations not yet freed; the overflow of the stack frees
\* it and raises, which the limit 0 stands for.
compare_stack_overflow(stk) == [stk EXCEPT !.heap = 0, !.limit = 0]
compare_resize_stack(stk) ==
    IF stk.heap = 0
      THEN IF world.oom THEN compare_stack_overflow(stk)
           ELSE [stk EXCEPT !.limit = world.alloc, !.heap = 1]
      ELSE IF 2 * stk.limit >= world.max \/ world.oom THEN compare_stack_overflow(stk)
           ELSE [stk EXCEPT !.limit = 2 * @]

\* sp starts on an unused item, so limit - 1 items fit.
PushItem(stk, item) ==
    LET grown == IF Len(stk.items) + 1 >= stk.limit THEN compare_resize_stack(stk) ELSE stk
    IN [grown EXCEPT !.items = <<item>> \o @]

\* What the comparison of two unequal leaves returns, 0 to go on.
CompareDoubles(d1, d2, total) ==
    IF IsNaN(d1) \/ IsNaN(d2)
      THEN IF ~total THEN UNORDERED
           ELSE IF ~IsNaN(d1) THEN 1 ELSE IF ~IsNaN(d2) THEN -1 ELSE 0
      ELSE Sign(Num(d1) - Num(d2))

RECURSIVE CompareArrays(_, _, _)
CompareArrays(s1, s2, total) ==
    IF s1 = <<>> THEN 0
    ELSE LET r == CompareDoubles(Head(s1), Head(s2), total)
         IN IF r # 0 THEN r ELSE CompareArrays(Tail(s1), Tail(s2), total)

RECURSIVE CompareStrings(_, _)
CompareStrings(s1, s2) ==
    IF s1 = <<>> \/ s2 = <<>> THEN Len(s1) - Len(s2)
    ELSE IF Head(s1) # Head(s2) THEN Sign(Head(s1) - Head(s2))
    ELSE CompareStrings(Tail(s1), Tail(s2))

\* The compare operation of a bigarray of floats may set compare_unordered.
CompareCustom(v1, v2, total) ==
    IF v1.ops # v2.ops THEN IF OpsBefore(v1.ops, v2.ops) THEN -1 ELSE 1
    ELSE CompareDoubles(v1.n, v2.n, total)

Return(w, r) == [w EXCEPT !.res = r, !.k = "compared"]
Raise(w) == [w EXCEPT !.stk.heap = 0, !.raised = TRUE, !.k = "compared"]
On(w, v1, v2) == [w EXCEPT !.v1 = v1, !.v2 = v2]

\* Pop one more item to compare, if any.
next_item(w) ==
    LET item == Head(w.stk.items)
        rest == [item EXCEPT !.f1 = Tail(@), !.f2 = Tail(@)]
    IN IF w.stk.items = <<>> THEN Return(w, 0)
       ELSE [On(w, Head(item.f1), Head(item.f2)) EXCEPT
               !.stk.items = IF Len(item.f1) = 1 THEN Tail(@) ELSE <<rest>> \o Tail(@)]

GoOn(w, r) == IF r # 0 THEN Return(w, r) ELSE next_item(w)

\* A long against a block, which may be forwarded or know how to compare.
LongAndBlock(w, long, b, flip) ==
    IF b.k = "forward" THEN IF flip THEN On(w, b.v, long) ELSE On(w, long, b.v)
    ELSE IF b.k = "custom" /\ HasExt(b.ops)
      THEN GoOn(w, IF flip THEN Sign(b.n - long.n) ELSE Sign(long.n - b.n))
    ELSE Return(w, IF flip THEN 1 ELSE -1)

SameTag(w, v1, v2) ==
    CASE v1.k = "forward" -> On(w, v1.v, v2.v)
      [] v1.k = "string" -> GoOn(w, IF v1 = v2 THEN 0 ELSE CompareStrings(v1.s, v2.s))
      [] v1.k = "double" -> GoOn(w, CompareDoubles(v1.d, v2.d, w.total))
      [] v1.k = "doubles" -> GoOn(w, IF Len(v1.ds) # Len(v2.ds) THEN Len(v1.ds) - Len(v2.ds)
                                     ELSE CompareArrays(v1.ds, v2.ds, w.total))
      [] v1.k \in {"abstract", "closure", "infix", "cont"} -> Raise(w)
      [] v1.k = "object" -> GoOn(w, v1.oid - v2.oid)
      [] v1.k = "custom" -> IF v1.ops = v2.ops /\ ~HasCompare(v1.ops) THEN Raise(w)
                            ELSE GoOn(w, CompareCustom(v1, v2, w.total))
      [] v1.k = "block" ->
           IF Len(v1.f) # Len(v2.f) THEN Return(w, Len(v1.f) - Len(v2.f))
           ELSE IF v1.f = <<>> THEN next_item(w)
           ELSE LET stk == PushItem(w.stk, [f1 |-> Tail(v1.f), f2 |-> Tail(v2.f)])
                IN IF Len(v1.f) = 1 THEN On(w, v1.f[1], v2.f[1])
                   ELSE IF stk.limit = 0 THEN Raise(w)
                   ELSE On([w EXCEPT !.stk = stk], v1.f[1], v2.f[1])

\* One iteration of the loop of do_compare_val.
do_compare_val(w) ==
    LET v1 == w.v1
        v2 == w.v2
    IN IF v1 = v2 /\ (w.total \/ v1.k = "long") THEN next_item(w)
       ELSE IF v1.k = "long" /\ v2.k = "long" THEN Return(w, Word(v1.n - v2.n))
       ELSE IF v1.k = "long" THEN LongAndBlock(w, v1, v2, FALSE)
       ELSE IF v2.k = "long" THEN LongAndBlock(w, v2, v1, TRUE)
       ELSE IF TagOf(v1) # TagOf(v2)
         THEN IF v1.k = "forward" THEN On(w, v1.v, v2)
              ELSE IF v2.k = "forward" THEN On(w, v1, v2.v)
              ELSE Return(w, TagOf(v1) - TagOf(v2))
       ELSE SameTag(w, v1, v2)

\* compare_val frees the stack when do_compare_val returns.
compare_free_stack(stk) == [stk EXCEPT !.heap = 0]

-----------------------------------------------------------------------------
(* hash.c.  The rolling hash is the list of what was mixed in.               *)
\* Zero and negative zero are mixed apart.
MixesSign(h, d) == Append(h, IF IsNaN(d) THEN NaN ELSE d)
\* NaNs are normalised to one, and negative zero to zero.
caml_hash_mix_double(h, d) == Append(h, IF IsNaN(d) THEN NaN ELSE Num(d))

\* Fields are queued while there is room; those already seen keep their place.
Queued(w, fields) ==
    LET room == IF w.sz > Len(w.seen) + Len(w.queue)
                  THEN w.sz - (Len(w.seen) + Len(w.queue)) ELSE 0
    IN w.queue \o SubSeq(fields, 1, IF Len(fields) < room THEN Len(fields) ELSE room)

RECURSIVE MixDoubles(_, _, _)
MixDoubles(h, num, ds) ==
    IF ds = <<>> THEN [h |-> h, num |-> num]
    ELSE LET h1 == caml_hash_mix_double(h, Head(ds))
         IN IF num - 1 <= 0 THEN [h |-> h1, num |-> num - 1]
            ELSE MixDoubles(h1, num - 1, Tail(ds))

Mixed(w, token) == [w EXCEPT !.h = Append(@, token), !.num = @ - 1]

\* The end of a chain of forwards, or the forward at which it is given up.
RECURSIVE Deref(_, _)
Deref(v, i) == IF v.k = "forward" /\ i > 0 THEN Deref(v.v, i - 1) ELSE v

\* One value taken from the queue.
RECURSIVE hash_value(_, _)
hash_value(w, v) ==
    CASE v.k = "long" -> Mixed(w, v.n)
      [] v.k = "string" -> [w EXCEPT !.h = @ \o v.s \o <<Len(v.s)>>, !.num = @ - 1]
      [] v.k = "double" -> [w EXCEPT !.h = caml_hash_mix_double(@, v.d), !.num = @ - 1]
      [] v.k = "doubles" -> LET m == MixDoubles(w.h, w.num, v.ds)
                            IN [w EXCEPT !.h = m.h, !.num = m.num]
      [] v.k \in {"abstract", "cont"} -> w
      [] v.k = "infix" -> hash_value([w EXCEPT !.h = Append(@, v.offset)], v.clos)
      [] v.k = "forward" -> LET d == Deref(v, world.forwards)
                            IN IF d.k = "forward" THEN w ELSE hash_value(w, d)
      [] v.k = "object" -> Mixed(w, v.oid)
      [] v.k = "custom" -> IF ~HasHash(v.ops) THEN w
                            ELSE [w EXCEPT !.h = caml_hash_mix_double(@, v.n), !.num = @ - 1]
      [] v.k = "closure" -> [w EXCEPT !.h = Append(@, 247000 + Len(v.info) + Len(v.env)) \o v.info,
                                      !.num = @ - Len(v.info), !.queue = Queued(w, v.env)]
      [] v.k = "block" -> [w EXCEPT !.h = Append(@, 1000 * v.tag + Len(v.f)),
                                    !.queue = Queued(w, v.f)]

\* One iteration of the loop of caml_hash.
caml_hash(w) ==
    LET v == Head(w.queue)
    IN IF w.queue = <<>> \/ w.num <= 0 THEN [w EXCEPT !.k = "hashed"]
       ELSE hash_value([w EXCEPT !.queue = Tail(@), !.seen = Append(@, 0)], v)

-----------------------------------------------------------------------------
\* The requests: every pair, with and without a total order, and every hash.
Requests ==
    {<<"compare", a, b, t>> : a \in world.vals, b \in world.vals, t \in BOOLEAN}
      \union {<<"hash", a, p>> : a \in world.vals, p \in world.params}

StartCompare(a, b, total) ==
    /\ walk = Idle /\ <<"compare", a, b, total>> \notin DOMAIN done
    /\ walk' = [k |-> "compare", v1 |-> a, v2 |-> b, total |-> total, stk |-> CompareStack,
                res |-> 0, raised |-> FALSE, key |-> <<"compare", a, b, total>>]
    /\ UNCHANGED <<world, done>>

\* A limit out of range is replaced by the size of the queue.
StartHash(a, p) ==
    /\ walk = Idle /\ <<"hash", a, p>> \notin DOMAIN done
    /\ walk' = [k |-> "hash", h |-> <<>>, num |-> p[1], queue |-> <<a>>, seen |-> <<>>,
                sz |-> IF p[2] < 0 \/ p[2] > world.queue THEN world.queue ELSE p[2],
                key |-> <<"hash", a, p>>]
    /\ UNCHANGED <<world, done>>

CompareStep == walk.k = "compare" /\ walk' = do_compare_val(walk) /\ UNCHANGED <<world, done>>
HashStep == walk.k = "hash" /\ walk' = caml_hash(walk) /\ UNCHANGED <<world, done>>

EndCompare ==
    /\ walk.k = "compared"
    /\ done' = (walk.key :> [res |-> walk.res, raised |-> walk.raised,
                             leaked |-> compare_free_stack(walk.stk).heap]) @@ done
    /\ walk' = Idle /\ UNCHANGED world

EndHash ==
    /\ walk.k = "hashed"
    /\ done' = (walk.key :> [h |-> walk.h]) @@ done
    /\ walk' = Idle /\ UNCHANGED world

Init == world \in Worlds /\ walk = Idle /\ done = <<>>

\* The walks are independent: one order of them is enough.
NextRequest == CHOOSE r \in Requests : r \notin DOMAIN done
Pending == walk = Idle /\ Requests \ DOMAIN done # {}
Next ==
    \/ Pending /\ NextRequest[1] = "compare"
         /\ StartCompare(NextRequest[2], NextRequest[3], NextRequest[4])
    \/ Pending /\ NextRequest[1] = "hash" /\ StartHash(NextRequest[2], NextRequest[3])
    \/ CompareStep
    \/ HashStep
    \/ EndCompare
    \/ EndHash

Spec == Init /\ [][Next]_vars

-----------------------------------------------------------------------------
Compared(a, b, t) == <<"compare", a, b, t>> \in DOMAIN done /\ ~done[<<"compare", a, b, t>>].raised
Result(a, b, t) == done[<<"compare", a, b, t>>].res
caml_compare(a, b) == Sign(Result(a, b, TRUE))
caml_equal(a, b) == Result(a, b, FALSE) = 0
caml_notequal(a, b) == Result(a, b, FALSE) # 0
caml_lessthan(a, b) == Result(a, b, FALSE) < 0 /\ Result(a, b, FALSE) # UNORDERED
caml_lessequal(a, b) == Result(a, b, FALSE) <= 0 /\ Result(a, b, FALSE) # UNORDERED
caml_greaterthan(a, b) == Result(a, b, FALSE) > 0
caml_greaterequal(a, b) == Result(a, b, FALSE) >= 0

RECURSIVE HasNaN(_)
HasNaN(v) ==
    CASE v.k = "double" -> IsNaN(v.d)
      [] v.k = "doubles" -> \E i \in DOMAIN v.ds : IsNaN(v.ds[i])
      [] v.k = "custom" -> IsNaN(v.n)
      [] v.k = "forward" -> HasNaN(v.v)
      [] v.k = "block" -> \E i \in DOMAIN v.f : HasNaN(v.f[i])
      [] OTHER -> FALSE
Hashed(a, p) == <<"hash", a, p>> \in DOMAIN done
HashOf(a, p) == done[<<"hash", a, p>>].h

\* compare is a total order on the values it does not refuse: antisymmetric,
\* transitive and reflexive, NaN and forwarded values included, whatever the
\* width of the subtraction of two integers.
TotalOrder ==
    \A a, b \in world.vals :
        /\ Compared(a, b, TRUE) /\ Compared(b, a, TRUE) =>
             caml_compare(a, b) = -caml_compare(b, a)
        /\ Compared(a, a, TRUE) => caml_compare(a, a) = 0
        /\ \A c \in world.vals :
             /\ Compared(a, b, TRUE) /\ Compared(b, c, TRUE) /\ Compared(a, c, TRUE)
             /\ caml_compare(a, b) <= 0 /\ caml_compare(b, c) <= 0
             => caml_compare(a, c) <= 0

\* The operators agree with compare and with each other, unless a NaN was met
\* first: then all of them but <> are false.
OperatorsAgree ==
    \A a, b \in world.vals :
        Compared(a, b, FALSE) /\ Compared(a, b, TRUE) =>
            /\ caml_notequal(a, b) = ~caml_equal(a, b)
            /\ caml_lessequal(a, b) = (caml_lessthan(a, b) \/ caml_equal(a, b))
            /\ caml_greaterequal(a, b) = (caml_greaterthan(a, b) \/ caml_equal(a, b))
            /\ \/ /\ ~caml_lessequal(a, b) /\ ~caml_greaterequal(a, b)
                  /\ HasNaN(a) \/ HasNaN(b)
               \/ /\ caml_lessthan(a, b) = (caml_compare(a, b) < 0)
                  /\ caml_greaterthan(a, b) = (caml_compare(a, b) > 0)

\* Values that are equal for compare have the same hash, with every count and
\* limit: this is what the generic Hashtbl needs of the two functions.
EqualHash ==
    \A a, b \in world.vals : Compared(a, b, TRUE) /\ caml_compare(a, b) = 0 =>
        \A p \in world.params :
            Hashed(a, p) /\ Hashed(b, p) => HashOf(a, p) = HashOf(b, p)

\* A walk that ends, by an answer or by an exception, leaves no stack allocated,
\* and the hash queue never holds more than its limit.
WalksBounded ==
    /\ \A r \in DOMAIN done : r[1] = "compare" => done[r].leaked = 0
    /\ walk.k = "compared" /\ walk.raised => walk.stk.heap = 0
    /\ walk.k = "hash" => Len(walk.seen) + Len(walk.queue) <= (IF walk.sz > 1 THEN walk.sz ELSE 1)

\* compare_val is an order on which all operators agree, caml_hash respects its
\* equality, and both walks stay within their stack and queue.
CompareRight == TotalOrder /\ OperatorsAgree /\ EqualHash /\ WalksBounded
=============================================================================
