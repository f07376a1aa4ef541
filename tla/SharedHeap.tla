----------------------------- MODULE SharedHeap -----------------------------
(***************************************************************************)
(* The shared heap (runtime/shared_heap.c): pools of blocks of one size    *)
(* class, the lists a domain keeps of its pools and of its large blocks,   *)
(* the lists of free pools and of the pools of domains that have ended,    *)
(* allocation, sweeping, and the change of the colours between two cycles  *)
(* of the major collector.                                                 *)
(*                                                                         *)
(* A pool is its slots and its list of free slots; a block is the header   *)
(* in its slot: its size in words and its colour.  A step ends where the   *)
(* lock of the lists is taken or released, so that domains interleave      *)
(* there.  Left out: the finalisers of custom blocks.                      *)
(***************************************************************************)
EXTENDS Integers, Sequences, FiniteSets, SequencesExt, FiniteSetsExt

CONSTANT Worlds    \* the programs to run, see Init

VARIABLES
    world,
    pools,     \* pool -> contents
    large,     \* large allocation -> header
    glob,      \* pool_freelist
    heap,      \* domain -> struct caml_heap_state
    dom,       \* domain -> what it is doing
    status,    \* caml_global_heap_state
    left       \* what the program may still do

vars == <<world, pools, large, glob, heap, dom, status, left>>

(* The size classes: the real tables scaled down.  wsize_sizeclass is a    *)
(* sequence of the world; the others follow from it.                       *)
POOL_WSIZE == world.pool
POOL_HEADER_WSIZE == 1
LARGE_ALLOC_HEADER == 1
wsize(sz) == world.classes[sz]
Classes == DOMAIN world.classes
SIZECLASS_MAX == wsize(Len(world.classes))
Slots(sz) == 1 .. (POOL_WSIZE - POOL_HEADER_WSIZE) \div wsize(sz)
wastage(sz) == (POOL_WSIZE - POOL_HEADER_WSIZE) % wsize(sz)
sizeclass(wh) == Min({sz \in Classes : wsize(sz) >= wh})

Domains == DOMAIN world.domains
Free == [wh |-> 0, st |-> 0]
Header(wh) == [wh |-> wh, st |-> status.MARKED]
Sum(f(_), S) == FoldSet(LAMBDA x, acc : f(x) + acc, 0, S)

NoStats == [pool_words |-> 0, pool_max_words |-> 0, pool_live_words |-> 0,
            pool_live_blocks |-> 0, pool_frag_words |-> 0, large_words |-> 0,
            large_max_words |-> 0, large_blocks |-> 0]

Greater(a, b) == IF a < b THEN b ELSE a
Maxima(s) == [s EXCEPT !.pool_max_words = Greater(@, s.pool_words),
                       !.large_max_words = Greater(@, s.large_words)]

caml_accum_heap_stats(acc, h) ==
    [pool_words |-> acc.pool_words + h.pool_words,
     pool_max_words |-> Greater(acc.pool_max_words, h.pool_max_words),
     pool_live_words |-> acc.pool_live_words + h.pool_live_words,
     pool_live_blocks |-> acc.pool_live_blocks + h.pool_live_blocks,
     pool_frag_words |-> acc.pool_frag_words + h.pool_frag_words,
     large_words |-> acc.large_words + h.large_words,
     large_max_words |-> Greater(acc.large_max_words, h.large_max_words),
     large_blocks |-> acc.large_blocks + h.large_blocks]

caml_remove_heap_stats(acc, h) ==
    [k \in DOMAIN acc |-> IF k \in {"pool_max_words", "large_max_words"}
                          THEN acc[k] ELSE acc[k] - h[k]]

NoPools == [sz \in Classes |-> << >>]
caml_init_shared_heap ==
    [avail |-> NoPools, full |-> NoPools, unswept_avail |-> NoPools,
     unswept_full |-> NoPools, swept_large |-> << >>, unswept_large |-> << >>,
     next_to_sweep |-> 1, stats |-> NoStats]

Idle == [pc |-> "run", wh |-> 0, work |-> 0, enough |-> 0,
         sweeping_done |-> TRUE]

(* A world has: domains, whether each one runs at the start; classes, the  *)
(* words of a block of each class; pool, the words of a pool; map, the     *)
(* pools the system still gives, and batch, how many at a time; and how    *)
(* many allocations, cycles, spawns and terminations there may be.         *)
Init ==
    /\ world \in Worlds
    /\ pools = << >> /\ large = << >>
    /\ glob = [free |-> << >>, avail |-> NoPools, full |-> NoPools,
               large |-> << >>, stats |-> NoStats]
    /\ heap = [d \in Domains |-> caml_init_shared_heap]
    /\ dom = [d \in Domains |->
                [Idle EXCEPT !.pc = IF world.domains[d] THEN "run" ELSE "absent"]]
    /\ status = [MARKED |-> 0, UNMARKED |-> 1, GARBAGE |-> 2]
    /\ left = world.left

At(d, l) == dom[d].pc = l
Spend(what) == left[what] > 0 /\ left' = [left EXCEPT ![what] = @ - 1]

-----------------------------------------------------------------------------
(* Pools.                                                                  *)

Used(p) == {i \in DOMAIN p.slots : p.slots[i] # Free}
Garbage(p) == {i \in Used(p) : p.slots[i].st = status.GARBAGE}

calc_pool_stats(p) ==
    LET Words(i) == p.slots[i].wh
        Lost(i) == wsize(p.sz) - p.slots[i].wh
    IN  [NoStats EXCEPT
           !.pool_words = POOL_WSIZE,
           !.pool_live_words = Sum(Words, Used(p)),
           !.pool_live_blocks = Cardinality(Used(p)),
           !.pool_frag_words = POOL_HEADER_WSIZE + Sum(Lost, Used(p))
                                 + wastage(p.sz)]

(* The free list starts at the last slot.                                  *)
pool_initialize(sz, d) ==
    [owner |-> d, sz |-> sz, slots |-> [i \in Slots(sz) |-> Free],
     next_obj |-> Reverse([i \in Slots(sz) |-> i])]

(* The slots of S, from the last to the first: the order in which a sweep  *)
(* leaves them at the head of the free list.                               *)
RECURSIVE Downward(_)
Downward(S) == IF S = {} THEN << >>
               ELSE <<Max(S)>> \o Downward(S \ {Max(S)})

(* pool_sweep.  x holds pools, the heap h of the domain and the list of    *)
(* free pools; list names the list whose first pool is swept.              *)
pool_sweep(x, list, sz, release_to_global_pool) ==
    LET a == Head(x.h[list][sz])
        p == x.pool[a]
        gone == Garbage(p)
        Words(i) == p.slots[i].wh
        Lost(i) == wsize(sz) - p.slots[i].wh
        swept == [p EXCEPT !.slots = [i \in DOMAIN p.slots |->
                                        IF i \in gone THEN Free ELSE @[i]],
                           !.next_obj = Downward(gone) \o @]
        all_used == Used(swept) = DOMAIN p.slots
        release == release_to_global_pool /\ Used(swept) = {}
        to == IF all_used THEN "full" ELSE "avail"
        s == [x.h.stats EXCEPT !.pool_live_blocks = @ - Cardinality(gone),
                               !.pool_live_words = @ - Sum(Words, gone),
                               !.pool_frag_words = @ - Sum(Lost, gone)]
        h1 == [x.h EXCEPT ![list][sz] = Tail(@), !.stats = s]
    IN  IF release
        THEN [x EXCEPT
                !.pool[a] = [swept EXCEPT !.owner = 0],
                !.free = <<a>> \o @,
                !.h = [h1 EXCEPT !.stats.pool_words = @ - POOL_WSIZE,
                                 !.stats.pool_frag_words =
                                    @ - (POOL_HEADER_WSIZE + wastage(sz))]]
        ELSE [x EXCEPT !.pool[a] = swept, !.h = [h1 EXCEPT ![to][sz] = <<a>> \o @]]

PoolWork(sz) == Cardinality(Slots(sz)) * wsize(sz)
Local(d) == [pool |-> pools, h |-> heap[d], free |-> glob.free]
Becomes(d, x) ==
    /\ pools' = x.pool
    /\ heap' = [heap EXCEPT ![d] = x.h]

-----------------------------------------------------------------------------
(* Allocation: caml_shared_try_alloc.                                      *)

(* pool_allocate, once pool_find has left a pool at the head of the list   *)
(* of available ones; then the header is written.                          *)
pool_allocate(x, sz, wh) ==
    LET r == Head(x.h.avail[sz])
        i == Head(x.pool[r].next_obj)
        full == Tail(x.pool[r].next_obj) = << >>
        h1 == [x.h EXCEPT !.stats.pool_live_blocks = @ + 1,
                          !.stats.pool_live_words = @ + wh,
                          !.stats.pool_frag_words = @ + wsize(sz) - wh]
    IN  [x EXCEPT
           !.pool[r].slots[i] = Header(wh),
           !.pool[r].next_obj = Tail(@),
           !.h = IF full THEN [h1 EXCEPT !.avail[sz] = Tail(@),
                                         !.full[sz] = <<r>> \o @]
                 ELSE h1]

(* pool_find sweeps until a pool is available.                             *)
RECURSIVE SweepToFind(_, _)
SweepToFind(x, sz) ==
    IF x.h.avail[sz] = << >> /\ x.h.unswept_avail[sz] # << >>
    THEN SweepToFind(pool_sweep(x, "unswept_avail", sz, FALSE), sz)
    ELSE x

(* Up to where the lists of all domains are looked at, without the lock.   *)
caml_shared_try_alloc(d) ==
    /\ At(d, "run") /\ Spend("allocs")
    /\ \E wh \in world.sizes :
         /\ wh <= SIZECLASS_MAX
         /\ LET sz == sizeclass(wh)
                x == SweepToFind(Local(d), sz)
            IN \/ /\ x.h.avail[sz] # << >>
                  /\ Becomes(d, pool_allocate(x, sz, wh))
                  /\ UNCHANGED dom
               \/ /\ x.h.avail[sz] = << >>
                  /\ Becomes(d, x)
                  /\ dom' = [dom EXCEPT ![d].wh = wh,
                               ![d].pc = IF glob.avail[sz] = << >> /\ glob.full[sz] = << >>
                                         THEN "acquire" ELSE "adopt"]
    /\ UNCHANGED <<world, large, glob, status>>

Wanted(d) == sizeclass(dom[d].wh)
Allocated(d, x) ==
    /\ Becomes(d, pool_allocate(x, Wanted(d), dom[d].wh))
    /\ dom' = [dom EXCEPT ![d].pc = "run", ![d].wh = 0]

(* As pool_global_adopt, without taking the pool out of the statistics of  *)
(* the domains that have ended.                                            *)
AdoptCountsTwice(d) ==
    /\ At(d, "adopt") /\ glob.avail[Wanted(d)] # << >>
    /\ LET sz == Wanted(d)
           r == Head(glob.avail[sz])
           s == calc_pool_stats(pools[r])
       IN  /\ glob' = [glob EXCEPT !.avail[sz] = Tail(@)]
           /\ Allocated(d, [Local(d) EXCEPT
                 !.h.avail[sz] = <<r>>,
                 !.h.stats = Maxima(caml_accum_heap_stats(@, s))])
    /\ UNCHANGED <<world, large, status, left>>

(* pool_global_adopt: an available pool is used at once; ...               *)
AdoptAvailable(d) ==
    /\ At(d, "adopt") /\ glob.avail[Wanted(d)] # << >>
    /\ LET sz == Wanted(d)
           r == Head(glob.avail[sz])
           s == calc_pool_stats(pools[r])
       IN  /\ glob' = [glob EXCEPT !.avail[sz] = Tail(@),
                                   !.stats = caml_remove_heap_stats(@, s)]
           /\ Allocated(d, [Local(d) EXCEPT
                 !.h.avail[sz] = <<r>>,
                 !.h.stats = Maxima(caml_accum_heap_stats(@, s))])
    /\ UNCHANGED <<world, large, status, left>>

(* ... a full one is swept, which may make room; and both lists may have   *)
(* become empty in the meantime.                                           *)
AdoptFull(d) ==
    /\ At(d, "adopt") /\ glob.avail[Wanted(d)] = << >>
    /\ LET sz == Wanted(d) IN
       IF glob.full[sz] = << >>
       THEN /\ dom' = [dom EXCEPT ![d].pc = "acquire"]
            /\ UNCHANGED <<pools, heap, glob>>
       ELSE LET r == Head(glob.full[sz])
                s == calc_pool_stats(pools[r])
                x == pool_sweep([Local(d) EXCEPT
                        !.h.full[sz] = <<r>> \o @,
                        !.h.stats = Maxima(caml_accum_heap_stats(@, s))],
                        "full", sz, FALSE)
            IN  /\ glob' = [glob EXCEPT !.full[sz] = Tail(@),
                                        !.stats = caml_remove_heap_stats(@, s)]
                /\ IF x.h.avail[sz] # << >> THEN Allocated(d, x)
                   ELSE Becomes(d, x) /\ dom' = [dom EXCEPT ![d].pc = "acquire"]
    /\ UNCHANGED <<world, large, status, left>>

(* pool_acquire, with a new batch of pools from the system when there is   *)
(* no free pool; without one the allocation fails.                         *)
Acquire(d) ==
    /\ At(d, "acquire")
    /\ LET sz == Wanted(d)
           new == IF glob.free = << >> /\ left.maps > 0
                  THEN Downward(Len(pools) + 1 .. Len(pools) + world.batch)
                  ELSE << >>
           all == pools \o [i \in 1 .. Len(new) |-> [pool_initialize(1, 0) EXCEPT !.owner = 0]]
           free == new \o glob.free
       IN  /\ left' = [left EXCEPT !.maps = IF new # << >> THEN @ - 1 ELSE @]
           /\ IF free = << >>
              THEN /\ dom' = [dom EXCEPT ![d].pc = "run", ![d].wh = 0]
                   /\ UNCHANGED <<pools, heap, glob>>
              ELSE LET r == Head(free) IN
                   /\ glob' = [glob EXCEPT !.free = Tail(free)]
                   /\ Allocated(d,
                        [Local(d) EXCEPT
                           !.pool = [all EXCEPT ![r] = pool_initialize(sz, d)],
                           !.h.avail[sz] = <<r>>,
                           !.h.stats = Maxima([@ EXCEPT
                              !.pool_words = @ + POOL_WSIZE,
                              !.pool_frag_words = @ + POOL_HEADER_WSIZE + wastage(sz)])])
    /\ UNCHANGED <<world, large, status>>

large_allocate(d) ==
    /\ At(d, "run") /\ Spend("allocs")
    /\ \E wh \in world.sizes :
         /\ wh > SIZECLASS_MAX
         /\ large' = Append(large, Header(wh))
         /\ heap' = [heap EXCEPT
              ![d].swept_large = <<Len(large) + 1>> \o @,
              ![d].stats = Maxima([@ EXCEPT
                             !.large_words = @ + wh + LARGE_ALLOC_HEADER,
                             !.large_blocks = @ + 1])]
    /\ UNCHANGED <<world, pools, glob, dom, status>>

-----------------------------------------------------------------------------
(* Sweeping: caml_sweep.  A slice takes sweeping to be complete when the   *)
(* call leaves all of its budget, caml_finish_sweeping when it leaves some. *)

StartSweep(d) ==
    /\ At(d, "run") /\ ~dom[d].sweeping_done
    /\ \E w \in world.budgets : \E enough \in {1, w} :
         dom' = [dom EXCEPT ![d].pc = "sweep", ![d].work = w, ![d].enough = enough]
    /\ UNCHANGED <<world, pools, large, glob, heap, status, left>>

(* One turn of the loop over the size classes.                             *)
SweepPools(d) ==
    LET sz == heap[d].next_to_sweep
        work == dom[d].work
        x0 == Local(d)
        has1 == x0.h.unswept_avail[sz] # << >>
        x1 == IF has1 THEN pool_sweep(x0, "unswept_avail", sz, TRUE) ELSE x0
        work1 == IF has1 THEN work - PoolWork(sz) ELSE work
        has2 == work1 > 0 /\ x1.h.unswept_full[sz] # << >>
        x2 == IF has2 THEN pool_sweep(x1, "unswept_full", sz, TRUE) ELSE x1
        work2 == IF has2 THEN work1 - PoolWork(sz) ELSE work1
        h2 == IF has1 \/ has2 THEN x2.h ELSE [x2.h EXCEPT !.next_to_sweep = @ + 1]
    IN  /\ At(d, "sweep") /\ work > 0 /\ sz \in Classes
        /\ Becomes(d, [x2 EXCEPT !.h = h2])
        /\ glob' = [glob EXCEPT !.free = x2.free]
        /\ dom' = [dom EXCEPT ![d].work = work2]
        /\ UNCHANGED <<world, large, status, left>>

large_alloc_sweep(d) ==
    /\ At(d, "sweep") /\ dom[d].work > 0
    /\ heap[d].next_to_sweep \notin Classes /\ heap[d].unswept_large # << >>
    /\ LET a == Head(heap[d].unswept_large)
           dead == large[a].st = status.GARBAGE
           h == [heap[d] EXCEPT !.unswept_large = Tail(@)]
       IN  /\ large' = IF dead THEN [large EXCEPT ![a] = Free] ELSE large
           /\ heap' = [heap EXCEPT ![d] =
                IF dead
                THEN [h EXCEPT !.stats.large_words = @ - (large[a].wh + LARGE_ALLOC_HEADER),
                               !.stats.large_blocks = @ - 1]
                ELSE [h EXCEPT !.swept_large = <<a>> \o @]]
           /\ dom' = [dom EXCEPT ![d].work = @ - large[a].wh]
    /\ UNCHANGED <<world, pools, glob, status, left>>

SweepEnd(d) ==
    /\ At(d, "sweep")
    /\ \/ dom[d].work <= 0
       \/ heap[d].next_to_sweep \notin Classes /\ heap[d].unswept_large = << >>
    /\ dom' = [dom EXCEPT ![d].pc = "run", ![d].work = 0, ![d].enough = 0,
                          ![d].sweeping_done = dom[d].work >= dom[d].enough]
    /\ UNCHANGED <<world, pools, large, glob, heap, status, left>>

-----------------------------------------------------------------------------
(* A new cycle, in a stop-the-world section of the running domains.        *)

Running == {d \in Domains : dom[d].pc \notin {"absent", "leaving", "gone"}}

(* Only sweeping looks at the colours before marking is complete, and only *)
(* for garbage; so what marking has done appears here.                     *)
IsUnmarked(hd) == hd # Free /\ hd.st = status.UNMARKED
UnmarkedSlots == UNION {{<<a, i>> : i \in {j \in DOMAIN pools[a].slots :
                                             IsUnmarked(pools[a].slots[j])}} :
                          a \in DOMAIN pools}
UnmarkedLarge == {b \in DOMAIN large : IsUnmarked(large[b])}
Marked(hd) == [hd EXCEPT !.st = status.MARKED]

caml_cycle_heap_stw ==
    /\ Running # {} /\ Spend("cycles")
    /\ \A d \in Running : At(d, "run") /\ dom[d].sweeping_done
    /\ \E live \in SUBSET UnmarkedSlots :
         pools' = [a \in DOMAIN pools |-> [pools[a] EXCEPT !.slots =
                     [i \in DOMAIN @ |-> IF <<a, i>> \in live THEN Marked(@[i]) ELSE @[i]]]]
    /\ \E live \in SUBSET UnmarkedLarge :
         large' = [b \in DOMAIN large |-> IF b \in live THEN Marked(large[b]) ELSE large[b]]
    /\ status' = [UNMARKED |-> status.MARKED, GARBAGE |-> status.UNMARKED,
                  MARKED |-> status.GARBAGE]
    /\ dom' = [d \in Domains |-> IF d \in Running THEN [dom[d] EXCEPT !.pc = "cycle"]
                                 ELSE dom[d]]
    /\ UNCHANGED <<world, glob, heap>>

(* The first domain to get the lock receives what the domains that have    *)
(* ended left; the section is over when all have cycled.                   *)
caml_cycle_heap(d) ==
    /\ At(d, "cycle") /\ dom[d].work = 0
    /\ LET Moved(src, dst) == [sz \in Classes |-> Reverse(src[sz]) \o dst[sz]]
           received == \/ \E sz \in Classes : glob.avail[sz] \o glob.full[sz] # << >>
                       \/ glob.large # << >>
           taken == UNION {ToSet(glob.avail[sz]) \cup ToSet(glob.full[sz]) : sz \in Classes}
       IN  /\ heap' = [heap EXCEPT ![d] =
                [avail |-> NoPools, full |-> NoPools,
                 unswept_avail |-> Moved(glob.avail, @.avail),
                 unswept_full |-> Moved(glob.full, @.full),
                 swept_large |-> << >>,
                 unswept_large |-> Reverse(glob.large) \o @.swept_large,
                 next_to_sweep |-> 1,
                 stats |-> IF received THEN caml_accum_heap_stats(@.stats, glob.stats)
                           ELSE @.stats]]
           /\ glob' = [glob EXCEPT !.avail = NoPools, !.full = NoPools, !.large = << >>,
                                   !.stats = IF received THEN NoStats ELSE @]
           /\ pools' = [a \in DOMAIN pools |->
                          IF a \in taken THEN [pools[a] EXCEPT !.owner = d] ELSE pools[a]]
    /\ LET last == \A e \in Running \ {d} : dom[e].work = 1 IN
       dom' = [e \in Domains |->
                 IF e \in Running /\ last
                 THEN [dom[e] EXCEPT !.pc = "run", !.work = 0, !.sweeping_done = FALSE]
                 ELSE IF e = d THEN [dom[e] EXCEPT !.work = 1] ELSE dom[e]]
    /\ UNCHANGED <<world, large, status, left>>

-----------------------------------------------------------------------------
(* Domains come and go.                                                    *)

Spawn(d) ==
    /\ At(d, "absent") /\ \A e \in Domains : ~At(e, "cycle")
    /\ heap' = [heap EXCEPT ![d] = caml_init_shared_heap]
    /\ dom' = [dom EXCEPT ![d] = Idle]
    /\ UNCHANGED <<world, pools, large, glob, status, left>>

(* domain_terminate: a domain that has swept leaves the stop-the-world     *)
(* sections, ...                                                           *)
Terminate(d) ==
    /\ At(d, "run") /\ dom[d].sweeping_done /\ Running # {d}
    /\ Spend("ends")
    /\ dom' = [dom EXCEPT ![d].pc = "leaving"]
    /\ UNCHANGED <<world, pools, large, glob, heap, status>>

(* ... and then hands over its pools.                                      *)
caml_teardown_shared_heap(d) ==
    /\ At(d, "leaving")
    /\ LET h == heap[d]
           Moved(src, dst) == [sz \in Classes |-> Reverse(src[sz]) \o dst[sz]]
           given == UNION {ToSet(h.avail[sz]) \cup ToSet(h.full[sz]) : sz \in Classes}
       IN  /\ glob' = [glob EXCEPT !.avail = Moved(h.avail, @), !.full = Moved(h.full, @),
                                   !.large = Reverse(h.swept_large) \o @,
                                   !.stats = caml_accum_heap_stats(@, h.stats)]
           /\ pools' = [a \in DOMAIN pools |->
                          IF a \in given THEN [pools[a] EXCEPT !.owner = 0] ELSE pools[a]]
    /\ heap' = [heap EXCEPT ![d] = caml_init_shared_heap]
    /\ dom' = [dom EXCEPT ![d] = [Idle EXCEPT !.pc = "gone"]]
    /\ UNCHANGED <<world, large, status, left>>

Next ==
    \/ caml_cycle_heap_stw
    \/ \E d \in Domains :
         \/ caml_shared_try_alloc(d) \/ AdoptAvailable(d) \/ AdoptFull(d) \/ Acquire(d)
         \/ large_allocate(d)
         \/ StartSweep(d) \/ SweepPools(d) \/ large_alloc_sweep(d) \/ SweepEnd(d)
         \/ caml_cycle_heap(d) \/ Spawn(d) \/ Terminate(d) \/ caml_teardown_shared_heap(d)

Spec == Init /\ [][Next]_vars

-----------------------------------------------------------------------------
(* What the debugging version of the runtime verifies.                     *)

Lists(h) == {h.avail, h.full, h.unswept_avail, h.unswept_full}
PoolsOf(h) == UNION {ToSet(l[sz]) : l \in Lists(h), sz \in Classes}
Over(ps) == LET Acc(a, s) == caml_accum_heap_stats(s, calc_pool_stats(pools[a]))
            IN  FoldSet(Acc, NoStats, ps)

(* verify_pool, of a pool in the list of a class.                          *)
verify_pool(a, sz) ==
    /\ pools[a].sz = sz /\ Garbage(pools[a]) = {}
    /\ \A i \in ToSet(pools[a].next_obj) : pools[a].slots[i] = Free

verify_large(l) == \A b \in ToSet(l) : large[b].st # status.GARBAGE

SameStats(s, ps, ls) ==
    LET o == Over(ps)
        Words(b) == large[b].wh + LARGE_ALLOC_HEADER
    IN  /\ \A k \in {"pool_words", "pool_live_words", "pool_live_blocks", "pool_frag_words"} :
              s[k] = o[k]
        /\ s.large_words = Sum(Words, ls)
        /\ s.large_blocks = Cardinality(ls)

verify_swept(h) ==
    /\ h.next_to_sweep \notin Classes
    /\ \A sz \in Classes :
         /\ h.unswept_avail[sz] = << >> /\ h.unswept_full[sz] = << >>
         /\ \A a \in ToSet(h.avail[sz]) \cup ToSet(h.full[sz]) : verify_pool(a, sz)
         /\ \A a \in ToSet(h.full[sz]) : pools[a].next_obj = << >>
    /\ verify_large(h.swept_large) /\ h.unswept_large = << >>
    /\ SameStats(h.stats, PoolsOf(h), ToSet(h.swept_large))

-----------------------------------------------------------------------------
(* Properties.                                                             *)

Orphans == UNION {ToSet(glob.avail[sz]) \cup ToSet(glob.full[sz]) : sz \in Classes}

(* When a call of caml_sweep leaves some of its budget, what the debugging *)
(* runtime verifies of the lists of the domain holds: nothing is unswept   *)
(* and no garbage is left.                                                 *)
Verified ==
    \A d \in Domains :
        At(d, "sweep") /\ dom[d].work > 0 /\ heap[d].next_to_sweep \notin Classes
          /\ heap[d].unswept_large = << >>
        => verify_swept(heap[d])

(* The heap is right at every step of every domain, through adoption,      *)
(* handing over, sweeping and the change of the colours:                   *)
(* each pool and each large block is in the lists of exactly one domain,   *)
(* or of none; the free list of a pool is its free slots, each once; a     *)
(* pool from which a block will be taken has a free slot; and the          *)
(* statistics of a domain, and of the domains that have ended, are exactly *)
(* those of their pools and large blocks, swept or not.  Where no domain   *)
(* ends, a completed sweep has left no garbage; a domain that ends while a *)
(* cycle does may hand over what it has not swept.                         *)
HeapRight ==
    /\ LET all == [i \in 1 .. Len(pools) |->
                     Cardinality({d \in Domains : i \in PoolsOf(heap[d])})
                       + (IF i \in Orphans THEN 1 ELSE 0)
                       + (IF i \in ToSet(glob.free) THEN 1 ELSE 0)]
       IN  \A i \in DOMAIN all : all[i] = 1
    /\ \A a \in DOMAIN pools :
         LET p == pools[a] IN
         /\ ToSet(p.next_obj) = DOMAIN p.slots \ Used(p)
         /\ Len(p.next_obj) = Cardinality(DOMAIN p.slots \ Used(p))
    /\ \A d \in Domains : \A sz \in Classes :
         \A a \in ToSet(heap[d].avail[sz]) : pools[a].next_obj # << >>
    /\ \A sz \in Classes : \A a \in ToSet(glob.avail[sz]) : pools[a].next_obj # << >>
    /\ \A d \in Domains :
         SameStats(heap[d].stats, PoolsOf(heap[d]),
                   ToSet(heap[d].swept_large) \cup ToSet(heap[d].unswept_large))
    /\ SameStats(glob.stats, Orphans, ToSet(glob.large))
    /\ (world.left.ends = 0 => Verified)
=============================================================================
