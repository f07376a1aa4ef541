------------------------------ MODULE MinorGC ------------------------------
(***************************************************************************)
(* The parallel minor collection (runtime/minor_gc.c): inside a            *)
(* stop-the-world section every domain promotes what its roots and its     *)
(* share of the remembered sets reach, and several domains may promote the *)
(* same block.  A step goes from one access of a block another domain may  *)
(* access to the next.                                                     *)
(*                                                                         *)
(* The heap is a sequence of blocks and an address is an index of it: the  *)
(* young blocks come first, the blocks that are not young follow, and the  *)
(* shared heap allocates at the end.  Roots, tables and stacks are blocks  *)
(* that are not young, so that a location is always a field.               *)
(***************************************************************************)
EXTENDS Integers, Sequences, FiniteSets, SequencesExt

CONSTANT Heaps      \* the heaps and root sets to start from

VARIABLES
    start,     \* the member of Heaps the collection started from
    heap,      \* the blocks
    gc,        \* per domain: the state of caml_empty_minor_heap_promote
    finished   \* domains_finished_minor_gc

vars == <<start, heap, gc, finished>>

(* A member of Heaps has: young, the number of young blocks; blocks; and   *)
(* per participating domain the locations its tables and roots hold.       *)
Domains == DOMAIN start.local
Imm == <<0, 0>>                             \* a value that is not a pointer
Block(tag, f) == [hd |-> "plain", tag |-> tag, f |-> f]
Size(b) == Len(b.f)
NoScan == {"noscan", "double"}              \* tags from No_scan_tag on

(* A value is <<address, infix offset>>; Is_block(v) && Is_young(v).       *)
Young(v) == v[1] \in 1 .. start.young
Field(v) == heap[v[1]].f[1]
Infix(v, offset) == <<v[1], offset>>

At(d, l) == gc[d].pc = l
Set(p, v) == [heap EXCEPT ![p[1]].f[p[2]] = v]

-----------------------------------------------------------------------------
(* What a domain has to do: caml_empty_minor_heap_promote.                 *)

Call(v, p) == [v |-> v, p |-> p]
Root(p) == [do |-> "root", p |-> p]
Mopup(ephe) == [do |-> "mopup", ephe |-> ephe]
Roots(locations) == [i \in DOMAIN locations |-> Root(locations[i])]

(* The share of the remembered sets of participant i, counted from 0: its  *)
(* k-th slice is cut from the table of participant i + k; the last slice   *)
(* takes the remainder.                                                    *)
Remembered(s, i, n) ==
    LET Slice(k) ==
          LET refs == s.remembered[((i + k) % n) + 1]
              per == Len(refs) \div n
          IN  SubSeq(refs, k * per + 1,
                     IF k = n - 1 THEN Len(refs) ELSE (k + 1) * per)
    IN  FlattenSeq([k \in 1 .. n |-> Roots(Slice(k - 1))])

(* Global roots (first participant), remembered sets, custom blocks,       *)
(* finalised values, what these reach with the ephemerons, local roots,    *)
(* what those reach.                                                       *)
Plan(s, d) ==
    LET n == Len(s.local) IN
    (IF d = 1 THEN Roots(s.global) ELSE << >>)
      \o Remembered(s, d - 1, n)
      \o Roots(s.custom[d]) \o Roots(s.final[d]) \o <<Mopup(TRUE)>>
      \o Roots(s.local[d]) \o <<Mopup(FALSE)>>

Init ==
    /\ start \in Heaps
    /\ heap = start.blocks
    /\ gc = [d \in Domains |->
              [pc |-> "next", plan |-> Plan(start, d), calls |-> << >>,
               v |-> Imm, p |-> Imm, infix |-> 0, tag |-> "none",
               result |-> 0, field0 |-> Imm, todo |-> Imm, e |-> 0,
               redo |-> FALSE, raced |-> {}]]
    /\ finished = 0

-----------------------------------------------------------------------------
(* Calls of oldify_one, one after the other; a call that has to scan a     *)
(* stack makes the calls for it first.                                     *)

(* oldify_one (st, v, p)                                                   *)
Start(d) ==
    /\ At(d, "next") /\ gc[d].calls # << >>
    /\ LET c == Head(gc[d].calls) IN
       gc' = [gc EXCEPT ![d] = [@ EXCEPT !.pc = "one", !.v = c.v, !.p = c.p,
                                         !.infix = 0, !.calls = Tail(@)]]
    /\ UNCHANGED <<start, heap, finished>>

(* oldify_one (&st, **r, *r)                                               *)
NextRoot(d) ==
    /\ At(d, "next") /\ gc[d].calls = << >> /\ gc[d].plan # << >>
    /\ LET r == Head(gc[d].plan) IN
       /\ r.do = "root"
       /\ gc' = [gc EXCEPT ![d] = [@ EXCEPT
                   !.pc = "one", !.v = heap[r.p[1]].f[r.p[2]], !.p = r.p,
                   !.infix = 0, !.plan = Tail(@)]]
    /\ UNCHANGED <<start, heap, finished>>

Clean(g) == [g EXCEPT !.pc = "next", !.v = Imm, !.p = Imm, !.infix = 0,
                      !.tag = "none", !.result = 0, !.field0 = Imm]

(* The beginning of oldify_one: a value that is not young is stored, a     *)
(* forwarded one is replaced, an infix pointer leads to its block, and     *)
(* get_header_val waits for a header that is being updated.                *)
OldifyOne(d) ==
    /\ At(d, "one")
    /\ LET g == gc[d]
           b == heap[g.v[1]]
           Stored(v) == /\ heap' = Set(g.p, v)
                        /\ gc' = [gc EXCEPT ![d] = Clean(g)]
       IN \/ ~Young(g.v) /\ Stored(g.v)
          \/ /\ Young(g.v) /\ g.v[2] > 0
             /\ gc' = [gc EXCEPT ![d].v = <<g.v[1], 0>>, ![d].infix = g.v[2]]
             /\ UNCHANGED heap
          \/ /\ Young(g.v) /\ g.v[2] = 0 /\ b.hd = "zero"
             /\ Stored(Infix(Field(g.v), g.infix))
          \/ /\ Young(g.v) /\ g.v[2] = 0 /\ b.hd = "plain"
             /\ gc' = [gc EXCEPT ![d].tag = b.tag, ![d].pc =
                         IF b.tag = "forward" THEN "forward" ELSE "copy"]
             /\ UNCHANGED heap
    /\ UNCHANGED <<start, finished>>

(* A copy is allocated in the shared heap; blocks that are not scanned are *)
(* filled at once, of the others the first field is read.                  *)
Copy(d) ==
    /\ At(d, "copy")
    /\ LET b == heap[gc[d].v[1]]
           f == IF gc[d].tag \in NoScan THEN b.f ELSE [i \in DOMAIN b.f |-> Imm]
       IN  heap' = Append(heap, Block(gc[d].tag, f))
    /\ gc' = [gc EXCEPT ![d].pc = "update", ![d].result = Len(heap) + 1,
                        ![d].field0 = Field(gc[d].v)]
    /\ UNCHANGED <<start, finished>>

(* Forward_tag: the value forwarded to is read, then its header, then its  *)
(* tag: a block that is a lazy value, a forward or a float must not take   *)
(* the place of the forward.                                               *)
KeepTags == {"forward", "lazy", "double"}

Forward(d) ==
    /\ At(d, "forward")
    /\ LET f == Field(gc[d].v)
           b == heap[f[1]]
       IN \/ f = Imm /\ gc' = [gc EXCEPT ![d].v = f, ![d].pc = "one"]
          \/ /\ f # Imm /\ b.hd = "zero"
             /\ gc' = [gc EXCEPT ![d].field0 = f, ![d].pc =
                         IF heap[b.f[1][1]].tag \in KeepTags
                         THEN "copy" ELSE "follow"]
          \/ /\ f # Imm /\ b.hd \in {"plain", "junk"}
             /\ gc' = [gc EXCEPT ![d].field0 = f, ![d].pc = "forward_tag"]
    /\ UNCHANGED <<start, heap, finished>>

(* Tag_val (f) reads the header again; a header of 0, or one that is being *)
(* updated, has tag 0.  The record "raced" has no counterpart in the code: *)
(* the forward blocks for which the second header was not the first one.   *)
ForwardTag(d) ==
    /\ At(d, "forward_tag")
    /\ LET b == heap[gc[d].field0[1]]
           raced == IF b.hd = "plain" THEN {} ELSE {gc[d].v[1]}
       IN  gc' = [gc EXCEPT ![d].raced = @ \cup raced,
                            ![d].pc = IF b.hd = "plain" /\ b.tag \in KeepTags
                                      THEN "copy" ELSE "follow"]
    /\ UNCHANGED <<start, heap, finished>>

Follow(d) ==
    /\ At(d, "follow")
    /\ gc' = [gc EXCEPT ![d].v = gc[d].field0, ![d].pc = "one"]
    /\ UNCHANGED <<start, heap, finished>>

-----------------------------------------------------------------------------
(* try_update_object_header: one domain installs its copy, the others take *)
(* that one and turn theirs into garbage.                                  *)

\* Bug: a domain that has lost stores its own copy.
LostKeepsOwn(d) ==
    /\ gc[d].pc \in {"update", "lost"} /\ heap[gc[d].v[1]].hd = "zero"
    /\ heap' = Set(gc[d].p, <<gc[d].result, gc[d].infix>>)
    /\ gc' = [gc EXCEPT ![d] = Clean(@)]
    /\ UNCHANGED <<start, finished>>

Lost(d) ==
    /\ gc[d].pc \in {"update", "lost"} /\ heap[gc[d].v[1]].hd = "zero"
    /\ LET g == gc[d] IN
       heap' = [Set(g.p, Infix(Field(g.v), g.infix)) EXCEPT
                  ![g.result].hd = "junk", ![g.result].tag = "noscan"]
    /\ gc' = [gc EXCEPT ![d] = Clean(@)]
    /\ UNCHANGED <<start, finished>>

Load(d) ==
    /\ At(d, "update") /\ heap[gc[d].v[1]].hd = "plain"
    /\ gc' = [gc EXCEPT ![d].pc = "cas"]
    /\ UNCHANGED <<start, heap, finished>>

CompareExchange(d) ==
    /\ At(d, "cas")
    /\ IF heap[gc[d].v[1]].hd = "plain"
       THEN /\ heap' = [heap EXCEPT ![gc[d].v[1]].hd = "busy"]
            /\ gc' = [gc EXCEPT ![d].pc = "store"]
       ELSE heap' = heap /\ gc' = [gc EXCEPT ![d].pc = "lost"]
    /\ UNCHANGED <<start, finished>>

(* The forwarding pointer is written before the header becomes 0.          *)
StoreForward(d) ==
    /\ At(d, "store")
    /\ heap' = Set(<<gc[d].v[1], 1>>, <<gc[d].result, 0>>)
    /\ gc' = [gc EXCEPT ![d].pc = "release"]
    /\ UNCHANGED <<start, finished>>

Release(d) ==
    /\ At(d, "release")
    /\ heap' = [heap EXCEPT ![gc[d].v[1]].hd = "zero"]
    /\ gc' = [gc EXCEPT ![d].pc = "won"]
    /\ UNCHANGED <<start, finished>>

(* The winner: a larger block goes to the todo list, linked through the    *)
(* second field of its copy; a block of one field is left for its field    *)
(* (the tail call); the stack of a continuation is scanned.                *)
Won(d) ==
    /\ At(d, "won")
    /\ LET g == gc[d]
           r == g.result
           stored == Set(g.p, <<r, g.infix>>)
       IN \/ /\ g.tag \notin NoScan \cup {"cont", "forward"} /\ Size(heap[r]) > 1
             /\ heap' = [stored EXCEPT ![r].f[1] = g.field0, ![r].f[2] = g.todo]
             /\ gc' = [gc EXCEPT ![d] = [Clean(g) EXCEPT !.todo = g.v]]
          \/ /\ g.tag \notin NoScan \cup {"cont"} /\ Size(heap[r]) = 1
             /\ heap' = stored
             /\ gc' = [gc EXCEPT ![d] = [Clean(g) EXCEPT
                         !.pc = "one", !.v = g.field0, !.p = <<r, 1>>]]
          \/ /\ g.tag \in NoScan
             /\ heap' = stored /\ gc' = [gc EXCEPT ![d] = Clean(g)]
          \/ /\ g.tag = "cont"
             /\ heap' = [stored EXCEPT ![r].f[1] = g.field0]
             /\ LET stk == g.field0[1]
                    scan == IF stk = 0 THEN << >>
                            ELSE [i \in DOMAIN heap[stk].f |->
                                    Call(heap[stk].f[i], <<stk, i>>)]
                IN  gc' = [gc EXCEPT ![d] =
                             [Clean(g) EXCEPT !.calls = scan \o @]]
    /\ UNCHANGED <<start, finished>>

-----------------------------------------------------------------------------
(* oldify_mopup                                                            *)

InMopup(d) ==
    /\ At(d, "next") /\ gc[d].calls = << >> /\ gc[d].plan # << >>
    /\ Head(gc[d].plan).do = "mopup"

(* The head of the todo list: the remaining fields of the old block are    *)
(* oldified into the copy.                                                 *)
MopupTodo(d) ==
    /\ InMopup(d) /\ gc[d].e = 0 /\ gc[d].todo # Imm
    /\ LET v == gc[d].todo
           new == Field(v)[1]
           Old(i) == IF i = 1 THEN heap[new].f[1] ELSE heap[v[1]].f[i]
       IN  gc' = [gc EXCEPT ![d].todo = heap[new].f[2],
                    ![d].calls = [i \in DOMAIN heap[new].f |->
                                    Call(Old(i), <<new, i>>)]]
    /\ UNCHANGED <<start, heap, finished>>

(* The list is empty: the keys and data of the ephemerons touched in this  *)
(* cycle, and again from the todo list if one of them was not yet copied.  *)
MopupEphe(d) ==
    /\ InMopup(d) /\ (gc[d].e > 0 \/ gc[d].todo = Imm)
    /\ LET g == gc[d]
           entries == IF Head(g.plan).ephe THEN start.ephe[d] ELSE << >>
           i == g.e + 1
       IN \/ /\ i <= Len(entries)
             /\ LET p == entries[i]
                    v == heap[p[1]].f[p[2]]
                    fresh == Young(v) /\ heap[v[1]].hd # "zero"
                IN  gc' = [gc EXCEPT ![d].e = i, ![d].redo = @ \/ fresh,
                             ![d].calls = IF Young(v) THEN <<Call(v, p)>>
                                          ELSE << >>]
          \/ /\ i > Len(entries)
             /\ gc' = [gc EXCEPT ![d].e = 0, ![d].redo = FALSE,
                         ![d].plan = IF g.redo THEN @ ELSE Tail(@)]
    /\ UNCHANGED <<start, heap, finished>>

(* The domain has promoted everything; it waits for the others and clears  *)
(* its minor heap and tables.                                              *)
Finish(d) ==
    /\ At(d, "next") /\ gc[d].calls = << >> /\ gc[d].plan = << >>
    /\ finished' = finished + 1
    /\ gc' = [gc EXCEPT ![d].pc = "leave"]
    /\ UNCHANGED <<start, heap>>

Leave(d) ==
    /\ At(d, "leave") /\ finished = Cardinality(Domains)
    /\ gc' = [gc EXCEPT ![d].pc = "cleared"]
    /\ UNCHANGED <<start, heap, finished>>

Next == \E d \in Domains :
    \/ Start(d) \/ NextRoot(d) \/ OldifyOne(d) \/ Copy(d)
    \/ Forward(d) \/ ForwardTag(d) \/ Follow(d)
    \/ Lost(d) \/ Load(d) \/ CompareExchange(d) \/ StoreForward(d)
    \/ Release(d) \/ Won(d)
    \/ MopupTodo(d) \/ MopupEphe(d) \/ Finish(d) \/ Leave(d)

Spec == Init /\ [][Next]_vars

-----------------------------------------------------------------------------
(* Properties.                                                             *)

(* Where a value of the heap the collection started from may have gone: to *)
(* the copy of its block, or where what the block forwards to has gone if  *)
(* that may take its place.                                                *)
ShortCircuited(a) ==
    LET b == start.blocks[a] IN
    /\ b.tag = "forward"
    /\ \/ b.f[1] = Imm \/ start.blocks[b.f[1][1]].tag \notin KeepTags
       \/ \E d \in Domains : a \in gc[d].raced

RECURSIVE Moved(_)
Moved(v) ==
    IF ~Young(v) THEN {v}
    ELSE (IF heap[v[1]].hd = "zero" THEN {Infix(Field(v), v[2])} ELSE {})
         \cup (IF ShortCircuited(v[1]) THEN Moved(start.blocks[v[1]].f[1]) ELSE {})

FieldsKept(f, b) == DOMAIN f = DOMAIN b.f /\ \A i \in DOMAIN f : f[i] \in Moved(b.f[i])

(* Each block allocated is the copy of exactly one young block, or was     *)
(* turned into garbage by the domain that lost the race for it.            *)
CopiesAccounted ==
    \A a \in Len(start.blocks) + 1 .. Len(heap) :
        Cardinality({y \in 1 .. start.young :
                       heap[y].hd = "zero" /\ Field(<<y, 0>>)[1] = a})
          = IF heap[a].hd = "junk" THEN 0 ELSE 1

(* A collection keeps the graph: once every domain has come to the end of  *)
(* caml_empty_minor_heap_promote, every location that is not young and     *)
(* every promoted block holds what it held, moved; so no pointer to the    *)
(* minor heaps is left, sharing is kept, a block promoted by two domains   *)
(* at once has become one block, and no half-made copy is left behind.     *)
(* A forward block is replaced by what it forwards to where oldify_one may *)
(* do so.  The comment "Do not short-circuit the pointer" excludes it for  *)
(* floats, lazy values and forwards; the code does it all the same when    *)
(* another domain promotes that block between the two reads of its header, *)
(* and in this case alone ("raced") the property allows both outcomes.     *)
GraphKept ==
    \A d \in Domains : At(d, "cleared") =>
        /\ \A a \in start.young + 1 .. Len(start.blocks) :
             FieldsKept(heap[a].f, start.blocks[a])
        /\ \A a \in 1 .. start.young : heap[a].hd = "zero" =>
             LET copy == heap[Field(<<a, 0>>)[1]] IN
             /\ copy.tag = start.blocks[a].tag
             /\ IF copy.tag \in NoScan THEN copy.f = start.blocks[a].f
                ELSE FieldsKept(copy.f, start.blocks[a])
        /\ CopiesAccounted
=============================================================================
