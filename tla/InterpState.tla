----------------------------- MODULE InterpState ----------------------------
(***************************************************************************)
(* The state of the bytecode interpreter: the registers of the running     *)
(* activation of caml_interprete, the stacks of the fibers, the heap, and  *)
(* the C frames between the activations.                                   *)
(*                                                                         *)
(* A word of the machine is a pair of its kind and its content:            *)
(*   <<"int", w>>       an integer, w its tagged word                      *)
(*   <<"ptr", a, o>>    field o of the heap block a (o # 0: an infix       *)
(*                      pointer into a closure)                            *)
(*   <<"code", p>>      a code pointer; <<"ret", p>> when it is the return *)
(*                      address of a call                                  *)
(*   <<"stk", s>>       a fiber's stack, NoStack for NULL                  *)
(*   <<"atom", t>>      the empty block of tag t                           *)
(*   <<"exn", n>>       a predefined exception                             *)
(*   <<"data", d>>      anything else: closure infos, infix headers,       *)
(*                      unboxed floats                                     *)
(* Code pointers count instructions, not words.                            *)
(***************************************************************************)
EXTENDS Words, Sequences, FiniteSets

CONSTANTS
  Programs,      \* the bytecode programs: names, sequences of instructions, limits
  Literals,      \* the data of the executable: pairs of a global and its block
  StackThreshold,\* Stack_threshold, in words
  HeapSize       \* bound: blocks in a semispace

VARIABLES
  prog,          \* the program being run
  pc, accu, env, extra_args, \* registers
  locals,        \* other locals of a handler that live across a collection
  at,            \* where the running activation is: see Places
  why,           \* who called for the pending actions: see Reasons
  cval,          \* the value a C function returns or raises
  stacks, current_stack, trap_sp_off, \* fibers and domain state
  heap, base,    \* the blocks, at base + 1, base + 2, ...
  caml_global_data,
  frames,        \* the suspended activations, innermost last
  initial_trap_sp_off, initial_stack_words, \* of the running activation
  callback_narg, \* the operands written into callback_code
  handler, pending, interrupt, blocked, \* the signal and its handler
  signals, collections, \* how many there were
  recorded       \* how many signals found none pending

regs == <<pc, accu, env, extra_args>>
fiberVars == <<stacks, current_stack, trap_sp_off>>
heapVars == <<heap, base>>
activationVars == <<frames, initial_trap_sp_off, initial_stack_words, callback_narg>>
signalVars == <<handler, pending, interrupt, blocked, signals, recorded>>
vars == <<prog, regs, locals, at, why, cval, fiberVars, heapVars, caml_global_data,
          activationVars, signalVars, collections>>

Places ==
  {"fetch",   \* at the next instruction
   "alloc",   \* in Alloc_small of the instruction
   "check",   \* at check_stacks
   "gc",      \* in handle_gc_interrupt, called for `why'
   "pending", \* in caml_process_pending_signals, called for `why'
   "processed", \* there, after the handler
   "longjmp", \* in caml_raise, the pending signals processed
   "prim",    \* in a C primitive
   "primret", \* the primitive returns cval
   "return", "returnexn", \* caml_interprete returns cval, or its exception
   "end", "endexn"}       \* the program has ended

\* Who processes pending actions: Enter_gc, process_signal, a primitive, caml_raise
Reasons == {"alloc", "event", "prim", "raise"}

NoStack == 0
Val_int(n) == <<"int", Val_long(n)>>
Unit == Val_int(0)
Ptr(a, o) == <<"ptr", a, o>>
Code(p) == <<"code", p>>
Ret(p) == <<"ret", p>>
Stk(s) == <<"stk", s>>
Data(d) == <<"data", d>>
Long(v) == Long_val(v[2])

Atom(t) == <<"atom", t>>
Info == Data("closinfo")
Exn(name) == <<"exn", name>>
Stale == Data("stale") \* a register saved on the stack, and restored from it

SignalNumber == 2 \* SIGINT
Closure_tag == 247
Cont_tag == 245
Double_tag == 253
Double_array_tag == 254
Bytes_tag == 252
-----------------------------------------------------------------------------
(* Code: the program, followed by callback_code and raise_unhandled_code *)

InitStackSize == prog.limits.init             \* size of a new stack, in words
MaxStackSize == prog.limits.max               \* caml_max_stack_size
MaxSignals == prog.limits.signals             \* bound: signals that arrive
MaxCollections == prog.limits.collections     \* bound: garbage collections

CodeSize == Len(prog.code)
callback_code == CodeSize + 1
raise_unhandled_code == CodeSize + 5

Fetch(p) ==
  CASE p <= CodeSize -> prog.code[p]
    [] p = callback_code -> <<"ACC", callback_narg + 3>>
    [] p = callback_code + 1 -> <<"APPLY", callback_narg>>
    [] p = callback_code + 2 -> <<"POP", 1>>
    [] p = callback_code + 3 -> <<"STOP">>
    [] p = raise_unhandled_code -> <<"ACC", 0>>
    [] p = raise_unhandled_code + 1 -> <<"RAISE">>

Op == Fetch(pc)[1]
Arg(n) == Fetch(pc)[n + 1]
-----------------------------------------------------------------------------
(* Stacks: sp[n] is the element n + 1 of the sequence sp *)

sp == stacks[current_stack].data
Drop(s, n) == SubSeq(s, n + 1, Len(s))
Take(s, n) == SubSeq(s, 1, n)
Last(s, n) == Drop(s, Len(s) - n)
WithSp(s) == [stacks EXCEPT ![current_stack].data = s]

\* own: the sp of a suspended stack points into that stack
NewStack(d, hval, hexn, heff) ==
  [data |-> d, size |-> InitStackSize, parent |-> NoStack, own |-> TRUE,
   hval |-> hval, hexn |-> hexn, heff |-> heff]
FreshStack == CHOOSE s \in 1 .. Cardinality(DOMAIN stacks) + 1 :
                /\ s \notin DOMAIN stacks
                /\ \A t \in 1 .. s - 1 : t \in DOMAIN stacks
Without(f, x) == [y \in DOMAIN f \ {x} |-> f[y]]
With(f, x, v) == [y \in DOMAIN f \cup {x} |-> IF y = x THEN v ELSE f[y]]

\* The stack at the end of the chain of parents of s
Outermost(s) ==
  LET Up[n \in 0 .. Cardinality(DOMAIN stacks)] ==
        IF n = 0 THEN s
        ELSE LET t == Up[n - 1] IN IF stacks[t].parent = NoStack THEN t ELSE stacks[t].parent
  IN  Up[Cardinality(DOMAIN stacks)]
-----------------------------------------------------------------------------
(* Heap *)

Block(tag, fields) == [tag |-> tag, fields |-> fields]
Fresh == base + Cardinality(DOMAIN heap) + 1
Field(v, n) == heap[v[2]].fields[v[3] + n + 1]
Code_val(v) == Field(v, 0)[2]
Wosize_val(v) == Len(heap[v[2]].fields)
WithField(v, n, x) == [heap EXCEPT ![v[2]].fields[v[3] + n + 1] = x]
WithBlock(tag, fields) == With(heap, Fresh, Block(tag, fields))

\* What the collector follows: blocks, and the stacks of continuations and
\* parents.  A stack held in any other word is an integer to it.
Nodes(W) == {<<"ptr", w[2]>> : w \in {v \in W : v[1] = "ptr"}}
Fibers(W) == {w \in W : w[1] = "stk" /\ w[2] # NoStack}
WordsOf(s) == {s[i] : i \in DOMAIN s}
Children(n) ==
  IF n[1] = "ptr"
  THEN LET W == WordsOf(heap[n[2]].fields)
       IN  Nodes(W) \cup (IF heap[n[2]].tag = Cont_tag THEN Fibers(W) ELSE {})
  ELSE LET s == stacks[n[2]]
       IN  Nodes(WordsOf(s.data) \cup {s.hval, s.hexn, s.heff}) \cup Fibers({Stk(s.parent)})

\* The roots: the registers of the activations are not among them.
Roots ==
  Nodes({handler, cval} \cup WordsOf(caml_global_data)
        \cup {frames[i].cval : i \in DOMAIN frames})
  \cup Fibers({Stk(current_stack)} \cup {Stk(frames[i].parent) : i \in DOMAIN frames})

Reachable ==
  LET Grow[n \in 0 .. Cardinality(DOMAIN heap) + Cardinality(DOMAIN stacks)] ==
        IF n = 0 THEN Roots
        ELSE LET G == Grow[n - 1] IN G \cup UNION {Children(x) : x \in G}
  IN  Grow[Cardinality(DOMAIN heap) + Cardinality(DOMAIN stacks)]

LiveBlocks == {n[2] : n \in {x \in Reachable : x[1] = "ptr"}}
LiveStacks == {n[2] : n \in {x \in Reachable : x[1] = "stk"}}

\* A collection copies the live blocks to the other semispace, so that every
\* block moves, and updates the words the collector knows of.
NewBase == HeapSize - base
Forward(live, a) == NewBase + Cardinality({b \in live : b <= a})
Moved(live, v) == IF v[1] = "ptr" THEN Ptr(Forward(live, v[2]), v[3]) ELSE v
MovedSeq(live, s) == [i \in DOMAIN s |-> Moved(live, s[i])]
MovedStack(live, s) ==
  [s EXCEPT !.data = MovedSeq(live, @), !.hval = Moved(live, @),
            !.hexn = Moved(live, @), !.heff = Moved(live, @)]
MovedHeap(live) ==
  [b \in {Forward(live, a) : a \in live} |->
     LET a == CHOOSE x \in live : Forward(live, x) = b
     IN  Block(heap[a].tag, MovedSeq(live, heap[a].fields))]
=============================================================================
