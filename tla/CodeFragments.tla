--------------------------- MODULE CodeFragments ---------------------------
(* The table of code fragments (codefrag.c) over the lock-free skip lists  *)
(* that hold it (lf_skiplist.c).  A fragment is entered in two lists, by   *)
(* its start address and by its number; domains register, remove and look  *)
(* up fragments at the same time, and what was removed is freed later, in  *)
(* a stop-the-world section.  A step of the model is one access to shared  *)
(* memory: a load, a store or a compare-and-swap; random_level may give    *)
(* any level, since the seed is shared by all the domains.                 *)
EXTENDS Naturals, Sequences, FiniteSets

CONSTANT Worlds   \* the programs the domains run (see Init)

VARIABLES
    world,
    cells,     \* the cells of both lists, the sentinels first
    lists,     \* list -> [search_level, garbage]
    frags,     \* fragment -> [num, digest, freed]
    bin,       \* garbage_head: the removed fragments
    counter,   \* code_fragments_counter
    thr,       \* domain -> the call it is in
    seen,      \* history: what its list held since that call began
    won        \* history: the removals that answered 1

vars == <<world, cells, lists, frags, bin, counter, thr, seen, won>>

Lists == {"pc", "num"}
NUM_LEVELS(l) == world.levels[l]
Infinite == 100    \* UINTNAT_MAX, the key of the tail
head(l) == IF l = "pc" THEN 1 ELSE 3
tail(l) == head(l) + 1
Link(c) == [to |-> c, marked |-> FALSE]
Cell(l, key, data, top, to) ==
    [list |-> l, key |-> key, data |-> data, top_level |-> top,
     forward |-> [i \in 0 .. top |-> Link(to[i])], garbage_next |-> FALSE,
     freed |-> FALSE]

caml_lf_skiplist_init(l) ==
    LET top == NUM_LEVELS(l) - 1 IN
    <<Cell(l, 0, 0, top, [i \in 0 .. top |-> tail(l)]),
      Cell(l, Infinite, 0, top, [i \in 0 .. top |-> 0])>>

Idle == [pc |-> "idle", todo |-> << >>, op |-> "none", arg |-> 0, l |-> "pc",
         key |-> 0, level |-> 0, pred |-> 0, curr |-> 0, succ |-> 0,
         preds |-> << >>, succs |-> << >>, cell |-> 0, cont |-> "none",
         ret |-> 0, calls |-> 0]

(* A world has: frags, the start and the end of each fragment and what its *)
(* digest is; ready, the fragments that are registered before; programs,   *)
(* the operations of each domain; levels, how many levels each list has;   *)
(* cleanups, how many stop-the-world cleanups there may be.                *)
Init ==
    /\ world \in Worlds
    /\ cells = caml_lf_skiplist_init("pc") \o caml_lf_skiplist_init("num")
    /\ lists = [l \in Lists |-> [search_level |-> 0, garbage |-> << >>]]
    /\ frags = [f \in DOMAIN world.frags |->
                  [num |-> 0, digest |-> world.frags[f].digest, freed |-> FALSE]]
    /\ bin = << >> /\ counter = 1 /\ won = << >>
    /\ thr = [t \in DOMAIN world.programs |->
                [Idle EXCEPT !.todo = world.programs[t]]]
    /\ seen = [t \in DOMAIN world.programs |-> {}]

Threads == DOMAIN world.programs
At(t, l) == thr[t].pc = l
Next1(c, level) == cells[c].forward[level].to
Marked(c, level) == cells[c].forward[level].marked

\* The bindings of a list: the cells whose lowest link is not marked.
Bindings(l) ==
    {<<cells[c].key, cells[c].data>> :
        c \in {i \in DOMAIN cells : /\ cells[i].list = l /\ ~cells[i].freed
                                    /\ ~cells[i].forward[0].marked}}
    \ {<<0, 0>>, <<Infinite, 0>>}

-----------------------------------------------------------------------------
(* Calls and returns.                                                      *)

\* skiplist_find starts from the head, at the highest level.
Retry(th) == [th EXCEPT !.pc = "load", !.pred = head(th.l),
                        !.level = NUM_LEVELS(th.l) - 1]

FindFor(th, cont) == Retry([th EXCEPT !.cont = cont])

Call(th, l, key, cont) ==
    FindFor([th EXCEPT !.l = l, !.key = key, !.calls = @ + 1], cont)

Lookup(th, l, key) ==
    [th EXCEPT !.pc = "level", !.l = l, !.key = key, !.pred = head(l),
               !.calls = @ + 1]

Done(th, r) == [Idle EXCEPT !.op = th.op, !.arg = th.arg, !.l = th.l, !.key = th.key,
                            !.ret = r, !.calls = th.calls, !.todo = th.todo]

\* What the caller of caml_lf_skiplist_insert or _remove does with the answer.
Returned(th, r) ==
    IF th.l = "pc" THEN Call(th, "num", frags[th.arg].num, th.op)
    ELSE IF th.op = "remove" /\ r = 1 THEN [th EXCEPT !.pc = "bin"]
    ELSE Done(th, r)

Set(t, th) == thr' = [thr EXCEPT ![t] = th]

\* A domain starts its next operation.  A fragment can be removed once it is
\* registered, and until it is freed.
caml_register_code_fragment(t, f) ==
    LET th == [thr[t] EXCEPT !.op = "register", !.arg = f, !.todo = Tail(@)] IN
    /\ counter' = counter + 1
    /\ frags' = [frags EXCEPT ![f].num = counter,
                              ![f].digest = IF @ = "now" THEN "provided" ELSE @]
    /\ Set(t, Call(th, "pc", world.frags[f].start, "register"))
    /\ UNCHANGED <<cells, lists, bin, won>>

caml_remove_code_fragment(t, f) ==
    LET th == [thr[t] EXCEPT !.op = "remove", !.arg = f, !.todo = Tail(@)] IN
    /\ <<frags[f].num, f>> \in Bindings("num")
    /\ Set(t, Call(th, "pc", world.frags[f].start, "remove"))
    /\ UNCHANGED <<cells, lists, frags, bin, counter, won>>

Search(t, op, x) ==
    LET th == [thr[t] EXCEPT !.op = op, !.arg = x, !.todo = Tail(@)] IN
    /\ Set(t, CASE op \in {"pc", "num"} -> Lookup(th, op, x)
                [] op = "digest" -> [th EXCEPT !.pc = "walk", !.l = "pc",
                                        !.curr = head("pc"), !.calls = @ + 1])
    /\ UNCHANGED <<cells, lists, frags, bin, counter, won>>

Start(t) ==
    /\ At(t, "idle") /\ thr[t].todo # << >>
    /\ LET o == Head(thr[t].todo) IN
       CASE o[1] = "register" -> caml_register_code_fragment(t, o[2])
         [] o[1] = "remove" -> caml_remove_code_fragment(t, o[2])
         [] OTHER -> Search(t, o[1], o[2])
-----------------------------------------------------------------------------
(* skiplist_find.                                                          *)

\* At the end of a level the walk goes down; below the lowest it has found
\* its place, and the caller goes on.
Insert(th) ==
    IF cells[th.succs[0]].key = th.key THEN [th EXCEPT !.pc = "update"]
    ELSE [th EXCEPT !.pc = "link0"]

Remove(th) ==
    LET c == th.succs[0] IN
    IF cells[c].key # th.key THEN Returned(th, 0)
    ELSE [th EXCEPT !.pc = IF cells[c].top_level > 0 THEN "mark" ELSE "mark0",
                    !.cell = c, !.level = cells[c].top_level]

Found(th) ==
    CASE th.cont = "register" -> Insert(th)
      [] th.cont = "remove" -> Remove(th)
      [] th.cont = "raise" -> [th EXCEPT !.pc = "link", !.level = th.ret]
      [] th.cont = "snipped" -> Returned(th, 1)

EndLevel(th) ==
    LET put == [th EXCEPT
                  !.preds = [i \in DOMAIN @ \union {th.level} |->
                               IF i = th.level THEN th.pred ELSE @[i]],
                  !.succs = [i \in DOMAIN @ \union {th.level} |->
                               IF i = th.level THEN th.curr ELSE @[i]]]
    IN  IF th.level > 0 THEN [put EXCEPT !.pc = "load", !.level = @ - 1]
        ELSE Found(put)

Load(t) ==
    /\ At(t, "load")
    /\ Set(t, [thr[t] EXCEPT !.pc = "examine",
                             !.curr = Next1(thr[t].pred, thr[t].level)])
    /\ UNCHANGED <<cells, lists, frags, bin, counter, won>>

Examine(t) ==
    LET th == thr[t]
        succ == Next1(th.curr, th.level)
    IN  /\ At(t, "examine")
        /\ Set(t, IF Marked(th.curr, th.level)
                  THEN [th EXCEPT !.pc = "snip", !.succ = succ]
                  ELSE IF cells[th.curr].key < th.key
                  THEN [th EXCEPT !.pred = th.curr, !.curr = succ]
                  ELSE EndLevel(th))
        /\ UNCHANGED <<cells, lists, frags, bin, counter, won>>

CAS(c, level, from, to) ==
    IF cells[c].forward[level] = from
    THEN cells' = [cells EXCEPT ![c].forward[level] = to]
    ELSE UNCHANGED cells

Snip(t) ==
    LET th == thr[t] IN
    /\ At(t, "snip")
    /\ CAS(th.pred, th.level, Link(th.curr), Link(th.succ))
    /\ Set(t, IF cells[th.pred].forward[th.level] = Link(th.curr)
              THEN [th EXCEPT !.pc = "claim"] ELSE Retry(th))
    /\ UNCHANGED <<lists, frags, bin, counter, won>>

\* Only one of the domains that snipped a cell, at different levels, puts it
\* on the garbage list.
ClaimsAlways(t) ==
    LET th == thr[t] IN
    /\ At(t, "claim")
    /\ cells' = [cells EXCEPT ![th.curr].garbage_next = TRUE]
    /\ Set(t, [th EXCEPT !.pc = "garbage"])
    /\ UNCHANGED <<lists, frags, bin, counter, won>>

Claim(t) ==
    LET th == thr[t] IN
    /\ At(t, "claim")
    /\ cells' = [cells EXCEPT ![th.curr].garbage_next = TRUE]
    /\ Set(t, [th EXCEPT !.pc = IF cells[th.curr].garbage_next THEN "load"
                                ELSE "garbage"])
    /\ UNCHANGED <<lists, frags, bin, counter, won>>

AddGarbage(t) ==
    LET th == thr[t] IN
    /\ At(t, "garbage")
    /\ lists' = [lists EXCEPT ![th.l].garbage = <<th.curr>> \o @]
    /\ Set(t, [th EXCEPT !.pc = "load"])
    /\ UNCHANGED <<cells, frags, bin, counter, won>>

-----------------------------------------------------------------------------
(* caml_lf_skiplist_insert.                                                *)

Update(t) ==
    LET th == thr[t] IN
    /\ At(t, "update")
    /\ cells' = [cells EXCEPT ![th.succs[0]].data = th.arg]
    /\ Set(t, Returned(th, 1))
    /\ UNCHANGED <<lists, frags, bin, counter, won>>

\* The new cell is private until the lowest link leads to it.
LinkLowest(t) ==
    LET th == thr[t] IN
    /\ At(t, "link0")
    /\ IF cells[th.preds[0]].forward[0] = Link(th.succs[0])
       THEN \E top \in 0 .. NUM_LEVELS(th.l) - 1 :
              LET new == Len(cells) + 1 IN
              /\ cells' = Append([cells EXCEPT
                                    ![th.preds[0]].forward[0] = Link(new)],
                                 Cell(th.l, th.key, th.arg, top, th.succs))
              /\ Set(t, [th EXCEPT !.cell = new, !.level = 1,
                                   !.pc = IF top > 0 THEN "link" ELSE "raise"])
       ELSE Set(t, FindFor(th, "register")) /\ UNCHANGED cells
    /\ UNCHANGED <<lists, frags, bin, counter, won>>

\* The links above.  A link that has changed is looked for again; the level
\* is kept in ret meanwhile.
LinkAbove(t) ==
    LET th == thr[t]
        ok == cells[th.preds[th.level]].forward[th.level] = Link(th.succs[th.level])
    IN  /\ At(t, "link")
        /\ CAS(th.preds[th.level], th.level, Link(th.succs[th.level]), Link(th.cell))
        /\ Set(t, IF ~ok THEN FindFor([th EXCEPT !.ret = th.level], "raise")
                  ELSE IF th.level < cells[th.cell].top_level
                  THEN [th EXCEPT !.level = @ + 1]
                  ELSE [th EXCEPT !.pc = "raise"])
        /\ UNCHANGED <<lists, frags, bin, counter, won>>

RaiseSearchLevel(t) ==
    LET th == thr[t]
        top == cells[th.cell].top_level
    IN  /\ At(t, "raise")
        /\ lists' = [lists EXCEPT ![th.l].search_level =
                                    IF top > @ THEN top ELSE @]
        /\ Set(t, Returned(th, 1))
        /\ UNCHANGED <<cells, frags, bin, counter, won>>

-----------------------------------------------------------------------------
(* caml_lf_skiplist_remove.                                                *)

\* A link above the lowest is marked by whoever comes first; a failed swap
\* reads it again.
MarkAbove(t) ==
    LET th == thr[t] IN
    /\ At(t, "mark")
    /\ cells' = [cells EXCEPT ![th.cell].forward[th.level].marked = TRUE]
    /\ Set(t, IF th.level > 1 THEN [th EXCEPT !.level = @ - 1]
              ELSE [th EXCEPT !.pc = "mark0"])
    /\ UNCHANGED <<lists, frags, bin, counter, won>>

\* The mark of the lowest link decides who has removed the cell.
MarkLowest(t) ==
    LET th == thr[t] IN
    /\ At(t, "mark0")
    /\ IF Marked(th.cell, 0)
       THEN Set(t, Returned(th, 0)) /\ UNCHANGED <<cells, won>>
       ELSE /\ cells' = [cells EXCEPT ![th.cell].forward[0].marked = TRUE]
            /\ won' = Append(won, th.cell)
            /\ Set(t, FindFor(th, "snipped"))
    /\ UNCHANGED <<lists, frags, bin, counter>>

\* The end of caml_remove_code_fragment: the fragment is freed later.
Bin(t) ==
    /\ At(t, "bin")
    /\ bin' = <<thr[t].arg>> \o bin
    /\ Set(t, Done(thr[t], 1))
    /\ UNCHANGED <<cells, lists, frags, counter, won>>
-----------------------------------------------------------------------------
(* The searches: lf_skiplist_lookup and the iteration over a list.         *)

SearchLevel(t) ==
    /\ At(t, "level")
    /\ Set(t, [thr[t] EXCEPT !.pc = "lload", !.level = lists[thr[t].l].search_level])
    /\ UNCHANGED <<cells, lists, frags, bin, counter, won>>

LookupLoad(t) ==
    LET th == thr[t] IN
    /\ At(t, "lload")
    /\ Set(t, [th EXCEPT !.pc = "look", !.curr = Next1(th.pred, th.level)])
    /\ UNCHANGED <<cells, lists, frags, bin, counter, won>>

Look(t) ==
    LET th == thr[t]
        succ == Next1(th.curr, th.level)
    IN  /\ At(t, "look")
        /\ Set(t, IF Marked(th.curr, th.level) THEN [th EXCEPT !.curr = succ]
                  ELSE IF cells[th.curr].key < th.key
                  THEN [th EXCEPT !.pred = th.curr, !.curr = succ]
                  ELSE IF th.level > 0
                  THEN [th EXCEPT !.pc = "lload", !.level = @ - 1]
                  ELSE [th EXCEPT !.pc = "answer"])
        /\ UNCHANGED <<cells, lists, frags, bin, counter, won>>

\* caml_lf_skiplist_find and caml_lf_skiplist_find_below choose the cell;
\* caml_find_code_fragment_by_pc tests the end of the fragment.
FoundCell(th) ==
    IF cells[th.curr].key = th.key THEN th.curr
    ELSE IF th.l = "pc" /\ th.pred # head(th.l) THEN th.pred ELSE 0

Answer(t) ==
    LET th == thr[t]
        c == FoundCell(th)
        f == IF c = 0 THEN 0 ELSE cells[c].data
    IN  /\ At(t, "answer")
        /\ Set(t, Done(th, IF f # 0 /\ th.l = "pc" /\ th.key >= world.frags[f].end
                           THEN 0 ELSE f))
        /\ UNCHANGED <<cells, lists, frags, bin, counter, won>>

\* caml_find_code_fragment_by_digest: the fragment's own digest is computed
\* the first time it is wanted (caml_digest_of_code_fragment).
Walk(t) ==
    LET th == thr[t]
        next == Next1(th.curr, 0)
        f == cells[next].data
    IN  /\ At(t, "walk")
        /\ IF next = tail("pc")
           THEN Set(t, Done(th, 0)) /\ UNCHANGED frags
           ELSE IF Marked(next, 0) \/ frags[f].digest = "ignore"
           THEN Set(t, [th EXCEPT !.curr = next]) /\ UNCHANGED frags
           ELSE /\ frags' = [frags EXCEPT ![f].digest = "provided"]
                /\ Set(t, IF f = th.arg THEN Done(th, f)
                          ELSE [th EXCEPT !.curr = next])
        /\ UNCHANGED <<cells, lists, bin, counter, won>>

-----------------------------------------------------------------------------
(* caml_code_fragment_cleanup, called by one domain while the world is     *)
(* stopped: none is inside an operation.                                   *)

Range1(s) == {s[i] : i \in DOMAIN s}

caml_code_fragment_cleanup ==
    /\ \A t \in Threads : At(t, "idle")
    /\ \E l \in Lists : lists[l].garbage # << >>
    /\ Cardinality({c \in DOMAIN cells : cells[c].freed}) < 2 * world.cleanups
    /\ cells' = [c \in DOMAIN cells |->
                   IF \E l \in Lists : c \in Range1(lists[l].garbage)
                   THEN [cells[c] EXCEPT !.freed = TRUE] ELSE cells[c]]
    /\ lists' = [l \in Lists |-> [lists[l] EXCEPT !.garbage = << >>]]
    /\ frags' = [f \in DOMAIN frags |->
                   IF f \in Range1(bin) THEN [frags[f] EXCEPT !.freed = TRUE]
                   ELSE frags[f]]
    /\ bin' = << >>
    /\ UNCHANGED <<counter, thr, won>>

Step(t) ==
    \/ Start(t) \/ Load(t) \/ Examine(t) \/ Snip(t) \/ Claim(t) \/ AddGarbage(t)
    \/ Update(t) \/ LinkLowest(t) \/ LinkAbove(t) \/ RaiseSearchLevel(t)
    \/ MarkAbove(t) \/ MarkLowest(t) \/ Bin(t)
    \/ SearchLevel(t) \/ LookupLoad(t) \/ Look(t) \/ Answer(t) \/ Walk(t)

\* The history of a call starts with it and ends with it.
Watch ==
    seen' = [t \in Threads |->
               IF thr'[t].calls # thr[t].calls THEN {Bindings(thr[t].l)'}
               ELSE IF thr[t].pc = "idle" THEN seen[t]
               ELSE seen[t] \union {Bindings(thr[t].l)'}]

Next ==
    /\ \/ \E t \in Threads : Step(t)
       \/ caml_code_fragment_cleanup
    /\ Watch
    /\ UNCHANGED world

Spec == Init /\ [][Next]_vars
-----------------------------------------------------------------------------
Keys(m) == {b[1] : b \in m}
Value(m, k) == IF k \in Keys(m) THEN (CHOOSE b \in m : b[1] = k)[2] ELSE 0

\* A search by number answers what the list held at some moment of the call.
NumRight(th, s) == \E m \in s : th.ret = Value(m, th.key)

\* A search by address answers a fragment that contains it and was present
\* at some moment; it misses one only if it was absent at some moment.
Covers(f, pc) == f # 0 /\ world.frags[f].start <= pc /\ pc < world.frags[f].end
PcRight(th, s) ==
    IF th.ret = 0 THEN \E m \in s : ~\E b \in m : Covers(b[2], th.key)
    ELSE /\ Covers(th.ret, th.key)
         /\ \E m \in s : th.ret \in {b[2] : b \in m}

\* A removal that answers 0 saw the number absent.
RemoveRight(th, s) ==
    th.ret = 0 => \E m \in s : th.key \notin Keys(m)

AnswersRight ==
    \A t \in Threads :
        At(t, "idle") =>
            CASE thr[t].op = "pc" -> PcRight(thr[t], seen[t])
              [] thr[t].op = "num" -> NumRight(thr[t], seen[t])
              [] thr[t].op = "digest" ->
                   \/ thr[t].ret # 0
                   \/ \E m \in seen[t] : thr[t].arg \notin {b[2] : b \in m}
              [] thr[t].op = "remove" -> RemoveRight(thr[t], seen[t])
              [] OTHER -> TRUE

Live(c) == ~cells[c].freed
Sentinels == {head(l) : l \in Lists} \union {tail(l) : l \in Lists}
InGarbage(c) == \E l \in Lists : c \in Range1(lists[l].garbage)
NoTwice(s) == Cardinality(Range1(s)) = Len(s)

\* The lowest level of a list is sorted and has every binding; a cell goes to
\* the garbage list once, and when nobody is inside an operation exactly the
\* removed cells are there or freed.
ListsRight ==
    /\ \A c \in DOMAIN cells :
         Live(c) /\ c \notin {tail(l) : l \in Lists} =>
             cells[c].key < cells[Next1(c, 0)].key
    /\ \A c \in DOMAIN cells \ Sentinels :
         Live(c) /\ ~Marked(c, 0) =>
             \E p \in DOMAIN cells : Live(p) /\ Next1(p, 0) = c
                                     /\ cells[p].list = cells[c].list
    /\ NoTwice(won) /\ NoTwice(bin)
    /\ \A l \in Lists : NoTwice(lists[l].garbage)
    /\ (\A t \in Threads : At(t, "idle")) =>
          \A c \in DOMAIN cells \ Sentinels :
             Marked(c, 0) <=> InGarbage(c) \/ ~Live(c)
    /\ \A b \in Bindings("num") : ~frags[b[2]].freed

\* What the table of code fragments promises while domains register, remove
\* and look up fragments at the same time: every answer is one the table gave
\* at some moment of the call (caml_lf_skiplist_find, _find_below, _remove),
\* and what was removed is on a garbage list exactly once.
FragmentsRight == AnswersRight /\ ListsRight
=============================================================================
