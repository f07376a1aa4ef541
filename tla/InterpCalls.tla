----------------------------- MODULE InterpCalls ----------------------------
(***************************************************************************)
(* Function calls, closures, allocation, exceptions and effects.           *)
(***************************************************************************)
EXTENDS InterpData

\* Registers and place; a handler that changes nothing but these and the fibers
Goto(p, a, e, x, there) == pc' = p /\ accu' = a /\ env' = e /\ extra_args' = x /\ at' = there
Quiet == UNCHANGED <<prog, locals, why, cval, heapVars, caml_global_data, activationVars,
                     signalVars, collections>>
SameFiber(s) == stacks' = WithSp(s) /\ UNCHANGED <<current_stack, trap_sp_off>>

\* The jump to the code of the closure c, and to check_stacks
Enter(c, x) == Goto(Code_val(c), c, c, x, "check")
-----------------------------------------------------------------------------
(* Calls and returns *)

RetFrame(p) == <<Ret(p), env, Val_int(extra_args)>>

PUSH_RETADDR ==
  Op = "PUSH_RETADDR" /\ Step(accu, RetFrame(Arg(1)) \o sp)

\* APPLY: the frame was pushed by PUSH_RETADDR
APPLY == Op = "APPLY" /\ Enter(accu, Arg(1) - 1) /\ SameFiber(sp) /\ Quiet

\* APPLY1, APPLY2, APPLY3: the frame is slid under the arguments
APPLYn ==
  /\ Op = "APPLYn"
  /\ Enter(accu, Arg(1) - 1)
  /\ SameFiber(Take(sp, Arg(1)) \o RetFrame(pc + 1) \o Drop(sp, Arg(1)))
  /\ Quiet

\* APPTERM, APPTERM1, APPTERM2, APPTERM3: operands nargs, slotsize
APPTERM ==
  /\ Op = "APPTERM"
  /\ Enter(accu, extra_args + Arg(1) - 1)
  /\ SameFiber(Take(sp, Arg(1)) \o Drop(sp, Arg(2)))
  /\ Quiet

\* The fiber ends: v goes to its handler h, which runs on the parent's stack
\* with the registers RESUME left there.
ToParent(v, h) ==
  LET p == stacks[current_stack].parent
      s == stacks[p].data
  IN  /\ current_stack' = p
      /\ stacks' = [Without(stacks, current_stack) EXCEPT ![p].data = <<v>> \o Drop(s, 2)]
      /\ trap_sp_off' = Long(s[1])
      /\ Enter(h, Long(s[2]))

\* do_return, with the words s on the stack and the result v
do_return(v, s) ==
  IF s = <<>>
  THEN ToParent(v, stacks[current_stack].hval)
  ELSE Goto(s[1][2], v, s[2], Long(s[3]), "fetch") /\ SameFiber(Drop(s, 3))

RETURN ==
  LET s == Drop(sp, Arg(1))
  IN  /\ Op = "RETURN"
      /\ IF extra_args > 0
         THEN Goto(Code_val(accu), accu, accu, extra_args - 1, "fetch") /\ SameFiber(s)
         ELSE do_return(accu, s)
      /\ Quiet

RESTART ==
  LET n == Wosize_val(env) - 3
  IN  /\ Op = "RESTART"
      /\ Goto(pc + 1, accu, Field(env, 2), extra_args + n, "fetch")
      /\ SameFiber([i \in 1 .. n |-> Field(env, i + 2)] \o sp)
      /\ Quiet

\* GRAB with enough arguments; otherwise see GrabClosure
GRAB ==
  /\ Op = "GRAB" /\ extra_args >= Arg(1)
  /\ Goto(pc + 1, accu, env, extra_args - Arg(1), "fetch") /\ SameFiber(sp) /\ Quiet

CallStep ==
  at = "fetch" /\ (PUSH_RETADDR \/ APPLY \/ APPLYn \/ APPTERM \/ RETURN \/ RESTART \/ GRAB)
-----------------------------------------------------------------------------
(* Allocation: what the instruction does before Alloc_small ... *)

BeforeAlloc(s, l) ==
  /\ at = "fetch" /\ at' = "alloc"
  /\ locals' = l
  /\ SameFiber(s)
  /\ UNCHANGED <<prog, regs, why, cval, heapVars, caml_global_data, activationVars,
                 signalVars, collections>>

Alloc ==
  \/ Op = "GRAB" /\ extra_args < Arg(1) /\ BeforeAlloc(sp, <<>>)
  \/ /\ Op \in {"CLOSURE", "CLOSUREREC"}
     /\ BeforeAlloc(IF Arg(1) > 0 THEN <<accu>> \o sp ELSE sp, <<>>)
  \/ Op \in {"MAKEBLOCK", "MAKEFLOATBLOCK"} /\ BeforeAlloc(sp, <<>>)
  \/ Op = "GETFLOATFIELD" /\ BeforeAlloc(sp, <<Field(accu, Arg(1))>>)
  \/ /\ Op = "PERFORM" /\ stacks[current_stack].parent # NoStack
     /\ BeforeAlloc(sp, <<current_stack, stacks[current_stack].parent>>)

\* ... and after it, when there was room in the minor heap
Allocated(tag, fields) ==
  /\ at = "alloc" /\ ~interrupt /\ Cardinality(DOMAIN heap) < HeapSize
  /\ heap' = WithBlock(tag, fields)
  /\ locals' = <<>>
  /\ UNCHANGED <<prog, why, cval, base, caml_global_data, activationVars, signalVars, collections>>
NextWith(a, s) == Goto(pc + 1, a, env, extra_args, "fetch") /\ SameFiber(s)
New == Ptr(Fresh, 0)

\* GRAB with too few arguments: a closure that will RESTART, returned to the caller
GrabClosure ==
  /\ Op = "GRAB"
  /\ Allocated(Closure_tag, <<Code(pc - 1), Info, env>> \o Take(sp, extra_args + 1))
  /\ do_return(New, Drop(sp, extra_args + 1))

\* Operands: number of variables, entry point
MakeClosure ==
  /\ Op = "CLOSURE"
  /\ Allocated(Closure_tag, <<Code(Arg(2)), Info>> \o Take(sp, Arg(1)))
  /\ NextWith(New, Drop(sp, Arg(1)))

\* Operands: number of variables, entry points.  Each function after the first
\* has an infix header, its code and its info; all are pushed.
MakeClosureRec ==
  LET n == Len(Arg(2))
      body == [i \in 1 .. 3 * n - 1 |->
                 IF i % 3 = 0 THEN Data("infix") ELSE
                 IF i % 3 = 2 THEN Info ELSE Code(Arg(2)[i \div 3 + 1])]
      funs == [i \in 1 .. n |-> Ptr(Fresh, 3 * (n - i))]
  IN  /\ Op = "CLOSUREREC"
      /\ Allocated(Closure_tag, body \o Take(sp, Arg(1)))
      /\ NextWith(New, funs \o Drop(sp, Arg(1)))

MakeBlock ==
  /\ Op = "MAKEBLOCK"
  /\ Allocated(Arg(2), <<accu>> \o Take(sp, Arg(1) - 1))
  /\ NextWith(New, Drop(sp, Arg(1) - 1))

MakeFloatBlock ==
  LET s == <<accu>> \o Take(sp, Arg(1) - 1)
  IN  /\ Op = "MAKEFLOATBLOCK"
      /\ Allocated(Double_array_tag, [i \in 1 .. Arg(1) |-> Double_val(s[i])])
      /\ NextWith(New, Drop(sp, Arg(1) - 1))

GetFloatField ==
  /\ Op = "GETFLOATFIELD"
  /\ Allocated(Double_tag, <<locals[1]>>)
  /\ NextWith(New, sp)

AllocStep == GrabClosure \/ MakeClosure \/ MakeClosureRec \/ MakeBlock \/ MakeFloatBlock \/ GetFloatField
=============================================================================
