------------------------------ MODULE MajorGC ------------------------------
(* The major collector of the runtime (ocaml/runtime/major_gc.c, with the  *)
(* ephemerons of weak.c, the finalisers of finalise.c, the write barrier   *)
(* of memory.c and the termination of a domain in domain.c): a concurrent  *)
(* mark and sweep, run by every domain between the steps of its program.   *)
(*                                                                         *)
(* A cycle has three phases.  While Phase_sweep_and_mark_main lasts the    *)
(* domains sweep the garbage of the previous cycle and mark; the phase is  *)
(* over when the counters num_domains_to_sweep, num_domains_to_mark and    *)
(* those of the ephemeron cycles say that nobody has work left.            *)
(* Phase_mark_final darkens the values of dead `finalise' finalisers, and  *)
(* Phase_sweep_ephe clears the dead ephemerons.  Then the colours rotate.  *)
(*                                                                         *)
(* A block has one field.  An ephemeron has one key and a datum.  The mark *)
(* stack is a set, since the order of marking is free.  The step of a      *)
(* slice at which the budget may run out, or at which another domain may   *)
(* be seen half-way, is an action of its own.                              *)
EXTENDS Integers, Sequences, FiniteSets, SequencesExt

CONSTANTS Domains, Blocks, Ephes,
          Worlds    \* initial heaps, each with its bounds on mutator steps

VARIABLES
    color,  \* Blocks and Ephes -> "unmarked" | "marked" | "garbage" | "free"
    field,  \* block -> block or None
    ephe,   \* ephemeron -> [key, data]
    dom,    \* domain -> its state
    gc,     \* the phase and the shared counters
    left    \* mutator operation -> how often it may still be done

vars == <<color, field, ephe, dom, gc, left>>

None == 0
Objects == Blocks \cup Ephes
Alive == {d \in Domains : dom[d].st # "dead"}
Idle(d) == dom[d].sub = "idle" /\ dom[d].at = "none"

\* A program step, and a step of a slice: domains in a stop-the-world
\* collection (gc.forced) only collect, a terminating one only marks and sweeps.
Running(d) == dom[d].st = "run" /\ Idle(d) /\ ~gc.forced
Slicing(d) == dom[d].st \in (IF gc.forced THEN {"run", "cycle", "term"} ELSE {"run"}) /\ Idle(d)
Working(d) == dom[d].st # "dead" /\ Idle(d)

NoFinals == [first |-> {}, last |-> {}, calls |-> {}]
Fresh(roots) ==
    [st |-> "run", sub |-> "idle", at |-> "none", roots |-> roots, stack |-> {},
     marking_done |-> TRUE, sweeping_done |-> TRUE, heap |-> {}, unswept |-> {},
     todo |-> <<>>, live |-> <<>>, cycle |-> 0, cursor |-> <<0, 0>>, saved |-> 0,
     updated_first |-> FALSE, updated_last |-> FALSE, finals |-> NoFinals,
     tables |-> FALSE]
Dead == [Fresh({}) EXCEPT !.st = "dead", !.updated_first = TRUE, !.updated_last = TRUE]

\* The program starts between two cycles: Phase_sweep_ephe, nothing left to do.
Init ==
    \E w \in Worlds :
        /\ color = [o \in Objects |-> IF o \in w.used THEN "marked" ELSE "free"]
        /\ field = [b \in Blocks |-> w.field[b]]
        /\ ephe = [e \in Ephes |-> w.ephe[e]]
        /\ dom = [d \in Domains |->
                    IF d \notin w.domains THEN Dead
                    ELSE [Fresh(w.roots[d]) EXCEPT !.live = w.live[d], !.heap = w.heap[d], !.finals = w.finals[d],
                                                   !.tables = w.finals[d] # NoFinals,
                                                   !.updated_first = TRUE, !.updated_last = TRUE]]
        /\ gc = [phase |-> "sweep_ephe", forced |-> FALSE, to_sweep |-> 0, to_mark |-> 0,
                 to_ephe_sweep |-> 0, to_first |-> 0, to_last |-> 0,
                 ephe_todo |-> 0, ephe_cycle |-> 1, ephe_done |-> 0,
                 orph_live |-> <<>>, orph_finals |-> {}, finished |-> {}]
        /\ left = w.left

-----------------------------------------------------------------------------
(* caml_darken *)

\* Darken objects vs on behalf of domain d: colours them, and puts them on
\* the domain's mark stack, which makes a domain that was done count again.
White(vs) == {v \in vs : v # None /\ color[v] = "unmarked"}
DarkenColor(vs) == [o \in Objects |-> IF o \in White(vs) THEN "marked" ELSE color[o]]
DarkenDom(r, vs) ==
    [r EXCEPT !.stack = @ \cup (White(vs) \cap Blocks),
              !.marking_done = @ /\ White(vs) = {}]
DarkenMark(d, vs) ==
    IF White(vs) # {} /\ dom[d].marking_done THEN gc.to_mark + 1 ELSE gc.to_mark

-----------------------------------------------------------------------------
(* The program *)

Spend(op) == left[op] > 0 /\ left' = [left EXCEPT ![op] = @ - 1]

Alloc(d) ==
    /\ Running(d) /\ Spend("alloc")
    /\ \E b \in Blocks :
        /\ color[b] = "free"
        /\ color' = [color EXCEPT ![b] = "marked"]
        /\ field' = [field EXCEPT ![b] = None]
        /\ dom' = [dom EXCEPT ![d].roots = @ \cup {b}, ![d].heap = @ \cup {b}]
    /\ UNCHANGED <<ephe, gc>>

Load(d) ==
    /\ Running(d) /\ Spend("load")
    /\ \E b \in dom[d].roots \cap Blocks :
        /\ field[b] # None
        /\ dom' = [dom EXCEPT ![d].roots = @ \cup {field[b]}]
    /\ UNCHANGED <<color, field, ephe, gc>>

Drop(d) ==
    /\ Running(d) /\ Spend("drop")
    /\ \E o \in dom[d].roots : dom' = [dom EXCEPT ![d].roots = @ \ {o}]
    /\ UNCHANGED <<color, field, ephe, gc>>

\* Mutant: the store without the write barrier.
ModifyUnbarriered(d) ==
    /\ Running(d) /\ Spend("modify")
    /\ \E b \in dom[d].roots \cap Blocks, v \in (dom[d].roots \cap Blocks) \cup {None} :
        dom' = [dom EXCEPT ![d].sub = "store", ![d].cursor = @ \o <<b, v>>]
    /\ UNCHANGED <<color, field, ephe, gc>>

\* caml_modify: write_barrier darkens the value about to be lost, then the
\* store.  Another domain may store to the same field in between.
Modify(d) ==
    /\ Running(d) /\ Spend("modify")
    /\ \E b \in dom[d].roots \cap Blocks, v \in (dom[d].roots \cap Blocks) \cup {None} :
        /\ color' = DarkenColor({field[b]})
        /\ gc' = [gc EXCEPT !.to_mark = DarkenMark(d, {field[b]})]
        /\ dom' = [dom EXCEPT ![d] = [DarkenDom(@, {field[b]}) EXCEPT !.sub = "store", !.cursor = @ \o <<b, v>>]]
    /\ UNCHANGED <<field, ephe>>

Store(d) ==
    /\ dom[d].sub = "store"
    /\ field' = [field EXCEPT ![dom[d].cursor[3]] = dom[d].cursor[4]]
    /\ dom' = [dom EXCEPT ![d].sub = "idle", ![d].cursor = SubSeq(@, 1, 2)]
    /\ UNCHANGED <<color, ephe, gc, left>>

\* do_check_key_clean, and caml_ephe_clean on the datum: both clear a dead
\* key together with the datum, and only in Phase_sweep_ephe.
Cleaned(e) ==
    IF gc.phase = "sweep_ephe" /\ White({ephe[e].key}) # {}
    THEN [key |-> None, data |-> None] ELSE ephe[e]

EpheSet(d) ==
    /\ Running(d) /\ Spend("ephe_set")
    /\ \E e \in dom[d].roots \cap Ephes, part \in {"key", "data"},
          v \in (dom[d].roots \cap Blocks) \cup {None} :
            ephe' = [ephe EXCEPT ![e] = [Cleaned(e) EXCEPT ![part] = v]]
    /\ UNCHANGED <<color, field, dom, gc>>

EpheGet(d) ==
    /\ Running(d) /\ Spend("ephe_get")
    /\ \E e \in dom[d].roots \cap Ephes, part \in {"key", "data"} :
        LET v == Cleaned(e)[part] IN
        /\ ephe' = [ephe EXCEPT ![e] = Cleaned(e)]
        /\ color' = DarkenColor({v})
        /\ gc' = [gc EXCEPT !.to_mark = DarkenMark(d, {v})]
        /\ dom' = [dom EXCEPT ![d] = [DarkenDom(@, {v}) EXCEPT !.roots = @ \cup ({v} \ {None})]]
    /\ UNCHANGED field

\* ephe_copy_and_darken: a shallow copy of the key or datum, whose own
\* field is darkened since the copy, allocated marked, will not be scanned.
EpheGetCopy(d) ==
    /\ Running(d) /\ Spend("ephe_get_copy")
    /\ \E e \in dom[d].roots \cap Ephes, part \in {"key", "data"}, b \in Blocks :
        LET v == Cleaned(e)[part] IN
        /\ v # None /\ color[b] = "free"
        /\ ephe' = [ephe EXCEPT ![e] = Cleaned(e)]
        /\ color' = [DarkenColor({field[v]}) EXCEPT ![b] = "marked"]
        /\ field' = [field EXCEPT ![b] = field[v]]
        /\ gc' = [gc EXCEPT !.to_mark = DarkenMark(d, {field[v]})]
        /\ dom' = [dom EXCEPT ![d] = [DarkenDom(@, {field[v]}) EXCEPT !.roots = @ \cup {b}, !.heap = @ \cup {b}]]

\* caml_ephe_create: a new ephemeron joins the live list, already marked.
EpheCreate(d) ==
    /\ Running(d) /\ Spend("ephe_create")
    /\ \E e \in Ephes :
        /\ color[e] = "free"
        /\ color' = [color EXCEPT ![e] = "marked"]
        /\ ephe' = [ephe EXCEPT ![e] = [key |-> None, data |-> None]]
        /\ dom' = [dom EXCEPT ![d].roots = @ \cup {e}, ![d].live = <<e>> \o @, ![d].heap = @ \cup {e}]
    /\ UNCHANGED <<field, gc>>

\* caml_final_register and caml_final_register_called_without_value.
Register(d) ==
    /\ Running(d) /\ Spend("register")
    /\ \E b \in dom[d].roots \cap Blocks, when \in {"first", "last"} :
        dom' = [dom EXCEPT ![d].finals[when] = @ \cup {b}, ![d].tables = TRUE]
    /\ UNCHANGED <<color, field, ephe, gc>>

\* caml_final_do_calls: the value comes back to the program.
FinalCall(d) ==
    /\ Running(d) /\ left' = left
    /\ \E b \in dom[d].finals.calls :
        dom' = [dom EXCEPT ![d].finals.calls = @ \ {b}, ![d].roots = @ \cup {b}]
    /\ UNCHANGED <<color, field, ephe, gc>>

\* caml_init_major_gc for a domain created by d, which is handed some of
\* d's values: it takes no part in the cycle but for its finalisers.
Spawn(d) ==
    /\ Running(d) /\ Spend("spawn")
    /\ \E n \in Domains, vs \in SUBSET dom[d].roots :
        /\ dom[n].st = "dead"
        /\ dom' = [dom EXCEPT ![n] = Fresh(vs)]
    /\ gc' = [gc EXCEPT !.to_first = @ + 1, !.to_last = @ + 1]
    /\ UNCHANGED <<color, field, ephe>>

-----------------------------------------------------------------------------
(* Slices: sweeping and marking *)

Sweep(d) ==
    /\ Working(d) /\ ~dom[d].sweeping_done
    /\ \E o \in dom[d].unswept :
        /\ color' = [color EXCEPT ![o] = IF @ = "garbage" THEN "free" ELSE @]
        /\ gc' = [gc EXCEPT !.finished = IF color[o] = "garbage" THEN @ \ {o} ELSE @]
        /\ dom' = [dom EXCEPT ![d].unswept = @ \ {o}]
    /\ UNCHANGED <<field, ephe, left>>

SweepDone(d) ==
    /\ Working(d) /\ ~dom[d].sweeping_done /\ dom[d].unswept = {}
    /\ dom' = [dom EXCEPT ![d].sweeping_done = TRUE]
    /\ gc' = [gc EXCEPT !.to_sweep = @ - 1]
    /\ UNCHANGED <<color, field, ephe, left>>

\* do_some_marking: mark_slice_darken marks the child and pushes it.
Mark(d) ==
    /\ Working(d) /\ ~dom[d].marking_done
    /\ \E b \in dom[d].stack :
        /\ color' = DarkenColor({field[b]})
        /\ dom' = [dom EXCEPT ![d].stack = (@ \ {b}) \cup White({field[b]})]
    /\ UNCHANGED <<field, ephe, gc, left>>

\* The stack is empty: first a new ephemeron cycle, since this domain's
\* marking may have brought keys to life, and only then the counter.
EpheNextCycle(g) == [g EXCEPT !.ephe_cycle = @ + 1, !.ephe_done = 0]
MarkEmpty(d) ==
    /\ Working(d) /\ ~dom[d].marking_done /\ dom[d].stack = {}
    /\ gc' = EpheNextCycle(gc)
    /\ dom' = [dom EXCEPT ![d].sub = "mark_done"]
    /\ UNCHANGED <<color, field, ephe, left>>
MarkDone(d) ==
    /\ dom[d].sub = "mark_done"
    /\ gc' = [gc EXCEPT !.to_mark = @ - 1]
    /\ dom' = [dom EXCEPT ![d].sub = "idle", ![d].marking_done = TRUE]
    /\ UNCHANGED <<color, field, ephe, left>>

-----------------------------------------------------------------------------
(* Slices: finalisers, orphans and ephemerons.  A slice reaches these when *)
(* its marking is done.                                                    *)

\* caml_final_update_first: the dead values come back to be finalised.
UpdateFirst(d) ==
    /\ Slicing(d) /\ gc.phase = "mark_final" /\ ~dom[d].updated_first
    /\ LET dead == White(dom[d].finals.first) IN
        /\ color' = DarkenColor(dead)
        /\ gc' = [gc EXCEPT !.to_mark = DarkenMark(d, dead), !.to_first = @ - 1]
        /\ dom' = [dom EXCEPT ![d] =
                    [DarkenDom(@, dead) EXCEPT !.updated_first = TRUE,
                                               !.finals.first = @ \ dead,
                                               !.finals.calls = @ \cup dead]]
    /\ UNCHANGED <<field, ephe, left>>

\* caml_final_update_last: the functions of the dead values are queued,
\* without the values.  gc.finished remembers whose function was queued.
UpdateLast(d) ==
    /\ Slicing(d) /\ gc.phase = "sweep_ephe" /\ ~dom[d].updated_last
    /\ LET dead == White(dom[d].finals.last) IN
        /\ gc' = [gc EXCEPT !.to_last = @ - 1, !.finished = @ \cup dead]
        /\ dom' = [dom EXCEPT ![d].updated_last = TRUE, ![d].finals.last = @ \ dead]
    /\ UNCHANGED <<color, field, ephe, left>>

NoOrphanedWork == gc.orph_live = <<>> /\ gc.orph_finals = {}
Merged(f, fs) ==
    [k \in DOMAIN f |-> f[k] \cup UNION {g[k] : g \in fs}]
AdoptDom(r) ==
    [r EXCEPT !.live = gc.orph_live \o @, !.finals = Merged(@, gc.orph_finals),
              !.tables = @ \/ \E f \in gc.orph_finals : f.first \cup f.last # {}]

\* caml_adopt_orphaned_work.
Adopt(d) ==
    /\ Slicing(d) /\ dom[d].st # "term" /\ ~NoOrphanedWork
    /\ dom' = [dom EXCEPT ![d] = AdoptDom(@)]
    /\ gc' = [gc EXCEPT !.orph_live = <<>>, !.orph_finals = {}]
    /\ UNCHANGED <<color, field, ephe, left>>

TodoEmptied(g) ==
    [g EXCEPT !.ephe_done = 0, !.ephe_cycle = @ + 1, !.ephe_todo = @ - 1, !.to_ephe_sweep = @ - 1]

\* ephe_mark from the beginning of the list, or from where the last slice
\* of the same ephemeron cycle stopped.
EpheBegin(d) ==
    /\ Slicing(d) /\ dom[d].marking_done /\ dom[d].todo # <<>>
    /\ gc.ephe_cycle > dom[d].cycle
    /\ dom' = [dom EXCEPT ![d].sub = "ephe", ![d].saved = gc.ephe_cycle,
                          ![d].cursor = IF @[1] = gc.ephe_cycle THEN @ ELSE <<gc.ephe_cycle, 0>>]
    /\ UNCHANGED <<color, field, ephe, gc, left>>

AliveData(e) == White({e, ephe[e].key}) = {}

\* One ephemeron of the list.  The budget may run out after it: the cursor
\* is kept.
EpheMark(d) ==
    /\ dom[d].sub = "ephe" /\ dom[d].cursor[2] < Len(dom[d].todo)
    /\ LET i == dom[d].cursor[2] + 1
           e == dom[d].todo[i]
           data == IF AliveData(e) THEN {ephe[e].data} ELSE {}
           new == IF AliveData(e)
                  THEN [DarkenDom(dom[d], data) EXCEPT !.todo = RemoveAt(@, i), !.live = <<e>> \o @]
                  ELSE [dom[d] EXCEPT !.cursor[2] = @ + 1]
       IN /\ color' = DarkenColor(data)
          /\ gc' = [gc EXCEPT !.to_mark = DarkenMark(d, data)]
          /\ \E sub \in {"ephe"} \cup (IF new.todo = <<>> THEN {} ELSE {"idle"}) :
                dom' = [dom EXCEPT ![d] = [new EXCEPT !.sub = sub]]
    /\ UNCHANGED <<field, ephe, left>>

\* Mutant: that the list has been gone through is not recorded.
EpheEndForgets(d) ==
    /\ dom[d].sub = "ephe" /\ dom[d].cursor[2] = Len(dom[d].todo)
    /\ gc' = IF dom[d].todo = <<>> THEN TodoEmptied(gc) ELSE gc
    /\ dom' = [dom EXCEPT ![d].sub = "idle"]
    /\ UNCHANGED <<color, field, ephe, left>>

\* The end of the list: it is empty, or record_ephe_marking_done unless the
\* data just darkened still have to be marked.
EpheEnd(d) ==
    /\ dom[d].sub = "ephe" /\ dom[d].cursor[2] = Len(dom[d].todo)
    /\ LET recorded == dom[d].todo # <<>> /\ dom[d].marking_done /\ dom[d].saved = gc.ephe_cycle IN
        /\ gc' = IF dom[d].todo = <<>> THEN TodoEmptied(gc)
                 ELSE [gc EXCEPT !.ephe_done = IF recorded THEN @ + 1 ELSE @]
        /\ dom' = [dom EXCEPT ![d].sub = "idle", ![d].cycle = IF recorded THEN dom[d].saved ELSE @]
    /\ UNCHANGED <<color, field, ephe, left>>

EpheSweep(d) ==
    /\ Slicing(d) /\ gc.phase = "sweep_ephe" /\ dom[d].todo # <<>>
    /\ LET e == Head(dom[d].todo)
           dead == color[e] = "unmarked"
       IN /\ ephe' = IF dead THEN ephe ELSE [ephe EXCEPT ![e] = Cleaned(e)]
          /\ dom' = [dom EXCEPT ![d].todo = Tail(@), ![d].live = IF dead THEN @ ELSE <<e>> \o @]
          /\ gc' = [gc EXCEPT !.to_ephe_sweep = IF Len(dom[d].todo) = 1 THEN @ - 1 ELSE @]
    /\ UNCHANGED <<color, field, left>>

-----------------------------------------------------------------------------
(* Phases and cycles *)

EpheMarkingDone == gc.ephe_todo = gc.ephe_done
is_complete_phase_sweep_and_mark_main ==
    /\ gc.phase = "main" /\ gc.to_sweep = 0 /\ gc.to_mark = 0
    /\ EpheMarkingDone /\ NoOrphanedWork
\* Mutant: the marking of resurrected values is not waited for.
complete_mark_final_hasty ==
    /\ gc.phase = "mark_final" /\ gc.to_first = 0 /\ EpheMarkingDone /\ NoOrphanedWork
is_complete_phase_mark_final ==
    /\ gc.phase = "mark_final" /\ gc.to_first = 0 /\ gc.to_mark = 0
    /\ EpheMarkingDone /\ NoOrphanedWork
is_complete_phase_sweep_ephe ==
    /\ gc.phase = "sweep_ephe" /\ gc.to_ephe_sweep = 0 /\ gc.to_last = 0
    /\ NoOrphanedWork
is_complete_phase ==
    is_complete_phase_sweep_and_mark_main \/ is_complete_phase_mark_final

NextPhase == IF gc.phase = "main" THEN "mark_final" ELSE "sweep_ephe"

\* try_complete_gc_phase in a stop-the-world section of its own: all domains
\* are at a safe point, and the condition is tested again there.
CompletePhase ==
    /\ ~gc.forced /\ \A d \in Alive : Idle(d)
    /\ \E d \in Alive : Slicing(d)
    /\ is_complete_phase
    /\ gc' = [gc EXCEPT !.phase = NextPhase]
    /\ UNCHANGED <<color, field, ephe, dom, left>>

\* A slice sees that the cycle is over, and from then on asks for the
\* section that ends it, whatever the others do until it gets it.
AskCycle(d) ==
    /\ Slicing(d) /\ ~gc.forced /\ is_complete_phase_sweep_ephe
    /\ dom' = [dom EXCEPT ![d].st = "cycle"]
    /\ UNCHANGED <<color, field, ephe, gc, left>>

\* cycle_all_domains_callback, once nobody is on the way: rotate the
\* colours, reset the counters, put all blocks back to be swept (the pools
\* of domains that have gone are adopted), darken the roots, adopt orphaned
\* work and put all ephemerons on the todo lists.
Rotated == [o \in Objects |-> CASE color[o] = "marked" -> "unmarked"
                                [] color[o] = "unmarked" -> "garbage"
                                [] OTHER -> color[o]]
Pool(d, adopter) ==
    {o \in Objects : color[o] # "free" /\ \/ o \in dom[d].heap
                                          \/ d = adopter /\ \A a \in Alive : o \notin dom[a].heap}
NewCycle(adopter) ==
    LET new(d) == IF d = adopter THEN AdoptDom(dom[d]) ELSE dom[d]
        grey(d) == {o \in dom[d].roots \cup dom[d].finals.calls : Rotated[o] = "unmarked"}
        stack(d) == dom[d].stack \cup (grey(d) \cap Blocks)
        empty == {d \in Alive : new(d).live = <<>>}
    IN /\ color' = [o \in Objects |-> IF \E d \in Alive : o \in grey(d) THEN "marked" ELSE Rotated[o]]
       /\ dom' = [d \in Domains |->
            IF d \notin Alive THEN dom[d]
            ELSE [new(d) EXCEPT
                    !.st = IF @ = "cycle" THEN "run" ELSE @, !.at = "none",
                    !.heap = Pool(d, adopter), !.unswept = Pool(d, adopter), !.sweeping_done = FALSE,
                    !.stack = stack(d), !.marking_done = stack(d) = {},
                    !.todo = new(d).live, !.live = <<>>, !.cycle = 0, !.cursor = <<0, 0>>, !.saved = 0,
                    !.updated_first = FALSE, !.updated_last = FALSE]]
       /\ gc' = [gc EXCEPT
                    !.phase = "main", !.forced = FALSE,
                    !.to_sweep = Cardinality(Alive),
                    !.to_mark = Cardinality({d \in Alive : stack(d) # {}}),
                    !.ephe_todo = Cardinality(Alive \ empty),
                    !.ephe_cycle = 1 + Cardinality(empty), !.ephe_done = 0,
                    !.to_ephe_sweep = Cardinality(Alive \ empty),
                    !.to_first = Cardinality(Alive), !.to_last = Cardinality(Alive),
                    !.orph_live = <<>>, !.orph_finals = {}]
       /\ UNCHANGED <<field, ephe, left>>

CycleAll ==
    /\ ~gc.forced /\ \A d \in Alive : Idle(d)
    /\ \E d \in Alive : dom[d].st = "cycle"
    /\ \E a \in {d \in Alive : dom[d].st # "term"} : NewCycle(a)

\* caml_finish_major_cycle: all domains stop and run slices until the cycle
\* has ended, meeting at the barriers of try_complete_gc_phase and of
\* cycle_all_domains_callback.
Finish ==
    /\ ~gc.forced /\ \A d \in Alive : Idle(d)
    /\ gc' = [gc EXCEPT !.forced = TRUE]
    /\ UNCHANGED <<color, field, ephe, dom>>
FinishMajor(d) == Running(d) /\ Spend("full_major") /\ Finish

Arrive(d) ==
    /\ gc.forced /\ Slicing(d)
    /\ dom' = [dom EXCEPT ![d].at = IF is_complete_phase THEN "phase" ELSE "cycle"]
    /\ is_complete_phase \/ is_complete_phase_sweep_ephe
    /\ UNCHANGED <<color, field, ephe, gc, left>>
AllAt(b) == gc.forced /\ \A d \in Alive : dom[d].at = b
CompleteTogether ==
    /\ AllAt("phase")
    /\ gc' = [gc EXCEPT !.phase = IF is_complete_phase THEN NextPhase ELSE @]
    /\ dom' = [d \in Domains |-> [dom[d] EXCEPT !.at = "none"]]
    /\ UNCHANGED <<color, field, ephe, left>>
CycleTogether == AllAt("cycle") /\ \E a \in {d \in Alive : dom[d].st # "term"} : NewCycle(a)

-----------------------------------------------------------------------------
(* The end of a domain: domain_terminate, whose loop marks and sweeps to   *)
(* the end and hands over what is left.                                    *)

\* The program of the domain is over.  One domain goes on.
Terminate(d) ==
    /\ Running(d) /\ Spend("terminate")
    /\ \E o \in Alive \ {d} : dom[o].st # "term"
    /\ dom' = [dom EXCEPT ![d].st = "term", ![d].roots = {}]
    /\ UNCHANGED <<color, field, ephe, gc>>

Swept(d) == dom[d].marking_done /\ dom[d].sweeping_done

\* caml_add_to_orphaned_ephe_list: every ephemeron still on the todo list,
\* and its datum, is kept alive by force.
HandoverEphes(d) ==
    /\ dom[d].st = "term" /\ Idle(d) /\ ~gc.forced /\ Swept(d)
    /\ dom[d].todo # <<>> \/ dom[d].live # <<>>
    /\ LET todo == dom[d].todo
           forced == ToSet(todo) \cup {ephe[e].data : e \in ToSet(todo)}
           g == IF todo = <<>> THEN gc ELSE TodoEmptied(gc)
       IN /\ color' = DarkenColor(forced)
          /\ gc' = [g EXCEPT !.to_mark = DarkenMark(d, forced),
                             !.orph_live = Reverse(todo) \o dom[d].live \o @]
          /\ dom' = [dom EXCEPT ![d] = [DarkenDom(@, forced) EXCEPT !.todo = <<>>, !.live = <<>>]]
    /\ UNCHANGED <<field, ephe, left>>

\* A table that was ever used keeps its capacity, empty or not.
HasFinals(d) == dom[d].tables \/ dom[d].finals.calls # {}

\* handover_finalisers needs Phase_sweep_and_mark_main, and gets it by
\* finishing the cycle.
HandoverForces(d) ==
    /\ dom[d].st = "term" /\ Swept(d) /\ dom[d].todo = <<>> /\ dom[d].live = <<>>
    /\ HasFinals(d) /\ gc.phase # "main"
    /\ Finish /\ UNCHANGED left

\* handover_finalisers, caml_final_domain_terminate, and then the domain
\* leaves unless an interrupt is waiting or the handover gave it marking to do.
Leave(d) ==
    /\ dom[d].st = "term" /\ Idle(d) /\ ~gc.forced
    /\ dom[d].todo = <<>> /\ dom[d].live = <<>>
    /\ ~HasFinals(d) \/ gc.phase = "main"
    /\ gc' = [gc EXCEPT
                !.orph_finals = IF HasFinals(d) THEN @ \cup {dom[d].finals} ELSE @,
                !.to_first = IF dom[d].updated_first THEN @ ELSE @ - 1,
                !.to_last = IF dom[d].updated_last THEN @ ELSE @ - 1]
    /\ LET gone == [dom[d] EXCEPT !.finals = NoFinals, !.tables = FALSE,
                                   !.updated_first = TRUE, !.updated_last = TRUE] IN
        \E r \in {gone} \cup (IF Swept(d) THEN {Dead} ELSE {}) : dom' = [dom EXCEPT ![d] = r]
    /\ UNCHANGED <<color, field, ephe, left>>

-----------------------------------------------------------------------------
Program(d) ==
    \/ Alloc(d) \/ Load(d) \/ Drop(d) \/ Modify(d) \/ EpheSet(d) \/ EpheGet(d)
    \/ EpheGetCopy(d) \/ EpheCreate(d) \/ Register(d) \/ FinalCall(d) \/ Spawn(d)
    \/ FinishMajor(d) \/ Terminate(d)
Collect(d) ==
    \/ Store(d) \/ Sweep(d) \/ SweepDone(d) \/ Mark(d) \/ MarkEmpty(d) \/ MarkDone(d)
    \/ UpdateFirst(d) \/ UpdateLast(d) \/ Adopt(d)
    \/ EpheBegin(d) \/ EpheMark(d) \/ EpheEnd(d) \/ EpheSweep(d)
    \/ AskCycle(d) \/ Arrive(d)
    \/ HandoverEphes(d) \/ HandoverForces(d) \/ Leave(d)
Together == CompletePhase \/ CycleAll \/ CompleteTogether \/ CycleTogether

Next == Together \/ \E d \in Domains : Program(d) \/ Collect(d)

Spec ==
    /\ Init /\ [][Next]_vars
    /\ \A d \in Domains : WF_vars(Collect(d))
    /\ WF_vars(Together)

-----------------------------------------------------------------------------
(* Properties *)

\* What the program can still get at: through fields, and from an ephemeron
\* to its key and its datum, as the functions of weak.c would give them.
Step(R) ==
    R \cup {field[b] : b \in R \cap Blocks}
      \cup UNION {{Cleaned(e).key, Cleaned(e).data} : e \in R \cap Ephes}
RECURSIVE Closure(_)
Closure(R) == IF Step(R) = R THEN R ELSE Closure(Step(R))
Finals == {dom[d].finals : d \in Alive} \cup gc.orph_finals
Reachable ==
    Closure(UNION {dom[d].roots : d \in Alive} \cup UNION {f.calls : f \in Finals}) \ {None}
Awaited == UNION {f.first \cup f.last : f \in Finals}

\* Nothing that the program can reach, and no value that waits for its
\* finaliser, has been freed or is about to be (colour GARBAGE): whatever
\* the domains did while others marked, swept, adopted or ended the cycle.
NothingLost == \A o \in Reachable \cup Awaited : color[o] \in {"marked", "unmarked"}

\* A `finalise_last' function is queued only when its value can never be
\* reached again (finalise.c: generic_final_update without darkening).
LastIsLast == gc.finished \cap Reachable = {}

\* What is reachable is kept, and what is finalised for the last time is not
\* reachable (caml_darken, write_barrier, generic_final_update).
CollectsRight == NothingLost /\ LastIsLast

\* The shared counters that decide the end of a phase agree with the flags
\* of the domains, although each is changed by its own atomic operation.
CountersAgree ==
    /\ gc.to_mark = Cardinality({d \in Alive : ~dom[d].marking_done})
    /\ gc.to_sweep = Cardinality({d \in Alive : ~dom[d].sweeping_done})
    /\ gc.phase # "sweep_ephe" => gc.to_first = Cardinality({d \in Alive : ~dom[d].updated_first})
    /\ gc.to_last = Cardinality({d \in Alive : ~dom[d].updated_last})
    /\ gc.to_ephe_sweep = Cardinality({d \in Alive : dom[d].todo # <<>> \/ dom[d].sub = "ephe"})
    /\ gc.ephe_done <= gc.ephe_todo

\* Domains that have stopped to finish a cycle together wait at the same
\* barrier, and when a cycle is ended, by one of them or by all, the
\* assertions at the head of cycle_all_domains_callback hold.
CycleReady ==
    /\ \A d, e \in Alive : dom[d].at # "none" /\ dom[e].at # "none" => dom[d].at = dom[e].at
    /\ \/ AllAt("cycle")
       \/ (\E d \in Alive : dom[d].st = "cycle") /\ (\A d \in Alive : Idle(d)) /\ ~gc.forced
       => gc.ephe_todo = gc.ephe_done /\ gc.to_mark = 0 /\ gc.to_sweep = 0 /\ gc.to_ephe_sweep = 0

\* The domains agree on where the cycle is (num_domains_to_mark and the other
\* counters, the barriers of cycle_all_domains_callback).
PhasesAgree == CountersAgree /\ CycleReady

\* The key of an ephemeron the program has is never one that has been freed
\* or is about to be: dead keys are removed from all the ephemerons.
KeysErased ==
    \A e \in Reachable \cap Ephes :
        Cleaned(e).key # None => color[Cleaned(e).key] \in {"marked", "unmarked"}

\* Every cycle ends, and so does every collection asked for.
CyclesEnd == []<>(gc.phase = "main") /\ []<>(gc.phase = "sweep_ephe")
=============================================================================
