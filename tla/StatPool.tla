------------------------------ MODULE StatPool ------------------------------
(* The pool of out-of-heap blocks of runtime/memory.c: a ring of blocks with  *)
(* a pivot, shared by the domains under pool_mutex, from which everything is  *)
(* freed at once when the runtime shuts down.  A critical section is one      *)
(* step; malloc, realloc and free are steps of their own.                     *)
EXTENDS Integers, Sequences, FiniteSets

\* A world: the domains, the addresses malloc returns, the operations left,
\* whether there is a pool, the page size, and the word size of calloc.
CONSTANT Worlds

VARIABLES
    world,  \* the world chosen at the start; left of it counts down
    mem,    \* the ring: the blocks malloc has given, with their links, and pool
    ths,    \* what each domain is doing
    owned   \* the blocks that callers hold, with the size they asked for
vars == <<world, mem, ths, owned>>

NULL == 0
Pivot == 1
Allocated == DOMAIN mem.b
Doms == DOMAIN ths
Ready == [pc |-> "ready", pb |-> NULL, new |-> NULL, sz |-> 0]

\* malloc(sz) at address a: the links are not initialised.
Given(s, a, sz) ==
    [s EXCEPT !.b = [x \in DOMAIN s.b \union {a} |->
                       IF x = a THEN [next |-> NULL, prev |-> NULL, sz |-> sz] ELSE s.b[x]]]
Freed(s, a) == [s EXCEPT !.b = [x \in DOMAIN s.b \ {a} |-> s.b[x]]]
Available == world.addrs \ Allocated

\* The previous first block does not learn of the new one.
LinksOneWay(s, pb) ==
    LET first == s.b[Pivot].next
    IN [s EXCEPT !.b[pb].next = first, !.b[pb].prev = Pivot, !.b[Pivot].next = pb]

link_pool_block(s, pb) ==
    LET first == s.b[Pivot].next
        own == [s EXCEPT !.b[pb].next = first, !.b[pb].prev = Pivot]
        back == [own EXCEPT !.b[first].prev = pb]
    IN [back EXCEPT !.b[Pivot].next = pb]

unlink_pool_block(s, pb) ==
    LET p == s.b[pb].prev
        n == s.b[pb].next
        one == [s EXCEPT !.b[p].next = n]
    IN [one EXCEPT !.b[n].prev = p]

caml_stat_create_pool(s) ==
    IF s.pool # NULL THEN s
    ELSE [s EXCEPT !.pool = Pivot, !.b = [x \in {Pivot} |-> [next |-> Pivot, prev |-> Pivot, sz |-> 0]]]

-----------------------------------------------------------------------------
Can(t) == ths[t] = Ready /\ world.left > 0
Spent == world' = [world EXCEPT !.left = @ - 1]
Holds(a, sz) == owned' = [x \in DOMAIN owned \union {a} |-> IF x = a THEN sz ELSE owned[x]]
Drops(a) == owned' = [x \in DOMAIN owned \ {a} |-> owned[x]]

\* calloc refuses a product that overflows.
caml_umul_overflow(n, sz) == n * sz >= 2 ^ world.bits

\* caml_stat_alloc_noexc up to link_pool_block; a failure of malloc returns NULL,
\* on which caml_stat_alloc raises.
caml_stat_alloc_noexc(t, sz) ==
    /\ Can(t) /\ Spent
    /\ \/ \E a \in Available :
            /\ mem' = Given(mem, a, sz)
            /\ IF mem.pool = NULL THEN Holds(a, sz) /\ UNCHANGED ths
               ELSE ths' = [ths EXCEPT ![t] = [pc |-> "link", pb |-> a, new |-> a, sz |-> sz]]
                    /\ UNCHANGED owned
       \/ UNCHANGED <<mem, ths, owned>>

caml_stat_calloc_noexc(t, n, sz) ==
    IF caml_umul_overflow(n, sz) THEN Can(t) /\ Spent /\ UNCHANGED <<mem, ths, owned>>
    ELSE caml_stat_alloc_noexc(t, n * sz)

Link(t) ==
    /\ ths[t].pc = "link"
    /\ mem' = link_pool_block(mem, ths[t].pb)
    /\ Holds(ths[t].pb, ths[t].sz)
    /\ ths' = [ths EXCEPT ![t] = Ready] /\ UNCHANGED world

\* The caller gives its block up when it calls free or resize.
caml_stat_free(t, b) ==
    /\ Can(t) /\ Spent /\ Drops(b)
    /\ IF mem.pool = NULL THEN mem' = Freed(mem, b) /\ UNCHANGED ths
       ELSE ths' = [ths EXCEPT ![t] = [Ready EXCEPT !.pc = "free", !.pb = b]]
            /\ mem' = unlink_pool_block(mem, b)

FreeBlock(t) ==
    /\ ths[t].pc = "free" /\ mem' = Freed(mem, ths[t].pb)
    /\ ths' = [ths EXCEPT ![t] = Ready] /\ UNCHANGED <<world, owned>>

caml_stat_resize_noexc(t, b, sz) ==
    /\ Can(t) /\ Spent
    /\ IF mem.pool = NULL
         THEN /\ \/ \E a \in Available \union {b} :
                      /\ mem' = Given(Freed(mem, b), a, sz)
                      /\ owned' = [x \in (DOMAIN owned \ {b}) \union {a} |->
                                    IF x = a THEN sz ELSE owned[x]]
                 \/ UNCHANGED <<mem, owned>>      \* realloc fails
              /\ UNCHANGED ths
         ELSE /\ mem' = unlink_pool_block(mem, b) /\ Drops(b)
              /\ ths' = [ths EXCEPT ![t] = [pc |-> "realloc", pb |-> b, new |-> b, sz |-> sz]]

\* realloc frees the old block, or fails and leaves it: it is linked again.
Realloc(t) ==
    /\ ths[t].pc = "realloc"
    /\ \/ \E a \in Available \union {ths[t].pb} :
            /\ mem' = Given(Freed(mem, ths[t].pb), a, ths[t].sz)
            /\ ths' = [ths EXCEPT ![t].pc = "link", ![t].pb = a]
       \/ /\ ths' = [ths EXCEPT ![t].pc = "link", ![t].sz = mem.b[ths[t].pb].sz]
          /\ UNCHANGED mem
    /\ UNCHANGED <<world, owned>>

\* The last block is cut from the pivot and the chain freed from the pivot on.
RECURSIVE FreeChain(_, _)
FreeChain(s, p) == IF p = NULL THEN s ELSE FreeChain(Freed(s, p), s.b[p].next)
caml_stat_destroy_pool(t) ==
    /\ ths[t] = Ready /\ mem.pool # NULL /\ world.destroys
    /\ \A u \in Doms : ths[u] = Ready
    /\ LET cut == [mem EXCEPT !.b[mem.b[Pivot].prev].next = NULL]
       IN mem' = [FreeChain(cut, Pivot) EXCEPT !.pool = NULL]
    /\ owned' = <<>> /\ world' = [world EXCEPT !.left = 0] /\ UNCHANGED ths

-----------------------------------------------------------------------------
\* caml_stat_alloc_aligned_noexc: the address to use in a block at raw.
caml_stat_alloc_aligned_noexc(raw, modulo) ==
    ((((raw + modulo) \div world.page) + 1) * world.page) - modulo

Init ==
    /\ world \in Worlds
    /\ LET empty == [b |-> <<>>, pool |-> NULL]
       IN mem = IF world.pooled THEN caml_stat_create_pool(empty) ELSE empty
    /\ ths = [t \in 1..world.doms |-> Ready]
    /\ owned = <<>>

Next ==
    \E t \in Doms :
        \/ \E sz \in 1..2 : caml_stat_alloc_noexc(t, sz)
        \/ \E n \in 2..3 : caml_stat_calloc_noexc(t, n, 3)
        \/ \E b \in DOMAIN owned : caml_stat_free(t, b) \/ caml_stat_resize_noexc(t, b, 3)
        \/ Link(t)
        \/ FreeBlock(t)
        \/ Realloc(t)
        \/ caml_stat_destroy_pool(t)

Spec == Init /\ [][Next]_vars

-----------------------------------------------------------------------------
RECURSIVE Walk(_, _)
Walk(p, seen) ==
    IF p \in seen \/ p \notin Allocated THEN seen ELSE Walk(mem.b[p].next, seen \union {p})
Ring == Walk(Pivot, {})
Busy == {ths[t].pb : t \in {u \in Doms : ths[u].pc # "ready"}}

\* Whatever the domains interleave, the ring holds exactly the blocks that the
\* callers own, in both directions; a block in the hands of free, of realloc or
\* of an allocation not yet linked is nobody else's and not in the ring.
RingRight ==
    mem.pool # NULL =>
        /\ Ring \ {Pivot} = DOMAIN owned
        /\ \A p \in Ring : mem.b[mem.b[p].next].prev = p /\ mem.b[mem.b[p].prev].next = p
        /\ Busy \subseteq Allocated \ Ring
        /\ \A t, u \in Doms : t # u /\ ths[t].pc # "ready" => ths[t].pb # ths[u].pb

\* Every block is accounted for: owned, in an operation, or the pivot; nothing
\* is left when the pool has been destroyed; and a block has the size its owner
\* last obtained, which a failed resize does not change.
NothingLeaks ==
    /\ Allocated = DOMAIN owned \union Busy \union (IF mem.pool # NULL THEN {Pivot} ELSE {})
    /\ \A b \in DOMAIN owned : mem.b[b].sz = owned[b]

\* An aligned block lies within the sz + Page_size bytes obtained, and modulo
\* bytes into it there is a page boundary.
AlignedInside ==
    \A raw \in 0..(3 * world.page), modulo \in 0..(world.page - 1) :
        LET p == caml_stat_alloc_aligned_noexc(raw, modulo)
        IN raw <= p /\ p <= raw + world.page /\ (p + modulo) % world.page = 0

\* The ring of caml_stat_alloc and its companions holds the blocks in use, none
\* is lost, and aligned blocks lie inside what was obtained.
PoolRight == RingRight /\ NothingLeaks /\ AlignedInside
=============================================================================
