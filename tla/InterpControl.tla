---------------------------- MODULE InterpControl ---------------------------
(***************************************************************************)
(* Exceptions, effects, and the check made where a function is entered.    *)
(***************************************************************************)
EXTENDS InterpCalls

(* Exceptions *)

\* Trap_pc, Trap_link, environment, extra arguments
PUSHTRAP ==
  LET s == <<Code(Arg(1)), Val_int(trap_sp_off), env, Val_int(extra_args)>> \o sp
  IN  /\ Op = "PUSHTRAP"
      /\ Goto(pc + 1, accu, env, extra_args, "fetch")
      /\ stacks' = WithSp(s) /\ trap_sp_off' = -Len(s)
      /\ UNCHANGED current_stack
      /\ Quiet

ActionsPending == interrupt \/ pending

\* process_signal: Setup_for_event, to resume at p
process_signal(p) ==
  /\ Goto(pc, Stale, Stale, extra_args, "gc")
  /\ SameFiber(<<accu, Unit, Unit, Ret(p), env, Val_int(extra_args)>> \o sp)
  /\ why' = "event"
  /\ UNCHANGED <<prog, locals, cval, heapVars, caml_global_data, activationVars,
                 signalVars, collections>>

\* Mutant: the trap is popped before the signals are processed
MutPOPTRAP ==
  /\ Op = "POPTRAP"
  /\ trap_sp_off' = Long(sp[2]) /\ UNCHANGED current_stack
  /\ LET s == Drop(sp, 4)
     IN  IF ActionsPending
         THEN /\ Goto(pc, Stale, Stale, extra_args, "gc")
              /\ stacks' = WithSp(<<accu, Unit, Unit, Ret(pc + 1), env, Val_int(extra_args)>> \o s)
              /\ why' = "event"
         ELSE /\ Goto(pc + 1, accu, env, extra_args, "fetch")
              /\ stacks' = WithSp(s) /\ UNCHANGED why
  /\ UNCHANGED <<prog, locals, cval, heapVars, caml_global_data, activationVars,
                 signalVars, collections>>

\* The signals come first, so that this handler traps what theirs raise.
POPTRAP ==
  /\ Op = "POPTRAP"
  /\ IF ActionsPending
     THEN process_signal(pc)
     ELSE /\ Goto(pc + 1, accu, env, extra_args, "fetch")
          /\ stacks' = WithSp(Drop(sp, 4)) /\ trap_sp_off' = Long(sp[2])
          /\ UNCHANGED current_stack
          /\ Quiet

CHECK_SIGNALS ==
  /\ Op = "CHECK_SIGNALS"
  /\ IF ActionsPending THEN process_signal(pc + 1) ELSE Jump(pc + 1)

\* raise_notrace: to the trap, to the parent fiber, or out of the activation
raise_notrace(v) ==
  /\ IF trap_sp_off <= 0
     THEN LET s == Last(sp, -trap_sp_off)
          IN  /\ Goto(s[1][2], v, s[3], Long(s[4]), "fetch")
              /\ stacks' = WithSp(Drop(s, 4)) /\ trap_sp_off' = Long(s[2])
              /\ cval' = Unit
              /\ UNCHANGED current_stack
     ELSE IF stacks[current_stack].parent # NoStack
     THEN ToParent(v, stacks[current_stack].hexn) /\ cval' = Unit
     ELSE /\ stacks' = WithSp(Last(sp, initial_stack_words))
          /\ trap_sp_off' = initial_trap_sp_off
          /\ cval' = v /\ at' = "returnexn"
          /\ UNCHANGED <<regs, current_stack>>
  /\ UNCHANGED <<prog, locals, why, heapVars, caml_global_data, activationVars,
                 signalVars, collections>>

RAISE == Op \in {"RAISE", "RERAISE", "RAISE_NOTRACE"} /\ raise_notrace(accu)
-----------------------------------------------------------------------------
(* check_stacks *)

\* caml_try_realloc_stack(required): the size it doubles to
StackSizes == {stacks[current_stack].size * 2 ^ k : k \in 1 .. WordBits}
EnoughSizes(required) == {n \in StackSizes : n >= Len(sp) + required}
GrownSize(required) == CHOOSE n \in EnoughSizes(required) : \A m \in EnoughSizes(required) : n <= m
CanGrow(required) == GrownSize(required) \div 2 < MaxStackSize

\* A stack that is freed while a PERFORM still refers to it is kept, to follow
\* what that PERFORM does.
InUse == {l[1] : l \in {m \in {locals} \cup {frames[i].locals : i \in DOMAIN frames} : Len(m) = 2}}

\* Mutant: the trap is kept relative to the base of the stack
MutReallocTrap(required) ==
  /\ stacks' = With(Without(stacks, current_stack), FreshStack,
                    [stacks[current_stack] EXCEPT !.size = GrownSize(required)])
  /\ current_stack' = FreshStack
  /\ trap_sp_off' = IF trap_sp_off > 0 THEN trap_sp_off
                    ELSE trap_sp_off - stacks[current_stack].size

caml_try_realloc_stack(required) ==
  LET old == current_stack
      new == [stacks[old] EXCEPT !.size = GrownSize(required)]
  IN  /\ stacks' = With(IF old \in InUse THEN stacks ELSE Without(stacks, old), FreshStack, new)
      /\ current_stack' = FreshStack
      /\ UNCHANGED trap_sp_off

OutOfStack == stacks[current_stack].size - Len(sp) < StackThreshold

\* check_stacks and the CHECK_SIGNALS it falls through to: one step each
GrowStack ==
  /\ at = "check" /\ OutOfStack /\ CanGrow(StackThreshold)
  /\ caml_try_realloc_stack(StackThreshold)
  /\ UNCHANGED regs /\ at' = at /\ Quiet

StackOverflow ==
  /\ at = "check" /\ OutOfStack /\ ~CanGrow(StackThreshold)
  /\ SameFiber(<<env, Code(pc + 1)>> \o sp)
  /\ at' = "pending" /\ why' = "raise" /\ cval' = Exn("Stack_overflow")
  /\ UNCHANGED <<prog, regs, locals, heapVars, caml_global_data, activationVars,
                 signalVars, collections>>

StackChecked ==
  /\ at = "check" /\ ~OutOfStack
  /\ IF ActionsPending THEN process_signal(pc) ELSE Jump(pc)
-----------------------------------------------------------------------------
(* Effects *)

\* do_resume: fn is applied to arg on the stack k, whose outermost ancestor gets
\* the current stack as its parent; the words s are left on the current stack.
do_resume(k, fn, arg, s) ==
  LET t == stacks[k].data
  IN  /\ stacks' = [stacks EXCEPT ![current_stack].data = s,
                                  ![Outermost(k)].parent = current_stack,
                                  ![k].data = <<arg>> \o Tail(t)]
      /\ current_stack' = k
      /\ trap_sp_off' = Long(t[1])
      /\ Enter(fn, 0)

\* RESUME leaves a return frame, RESUMETERM n discards the n words of its own.
Resumes ==
  /\ Op \in {"RESUME", "RESUMETERM"}
  /\ IF accu = Stk(NoStack)
     THEN raise_notrace(Exn("Continuation_already_taken"))
     ELSE /\ do_resume(accu[2], sp[1], sp[2],
                       IF Op = "RESUME"
                       THEN <<Val_int(trap_sp_off), Val_int(0)>> \o RetFrame(pc + 1) \o Drop(sp, 2)
                       ELSE <<Val_int(trap_sp_off), Val_int(extra_args)>> \o Drop(sp, Arg(1)))
          /\ Quiet

\* To the effect handler of the fiber s, on its parent p, whose words become
\* WithEffect(...)
WithEffect(eff, cont, s, p) == <<eff, cont, Stk(s)>> \o Drop(stacks[p].data, 2)
ToEffectHandler(s, p) ==
  /\ current_stack' = p
  /\ trap_sp_off' = Long(stacks[p].data[1])
  /\ Enter(stacks[s].heff, Long(stacks[p].data[2]) + 2)

Unhandled ==
  /\ Op = "PERFORM" /\ stacks[current_stack].parent = NoStack
  /\ raise_notrace(Exn("Unhandled"))

\* PERFORM after its Alloc_small: old_stack and parent_stack were read before it.
Perform ==
  LET old_stack == locals[1]
      parent_stack == locals[2]
  IN  /\ Op = "PERFORM"
      /\ Allocated(Cont_tag, <<Stk(old_stack)>>)
      /\ ToEffectHandler(old_stack, parent_stack)
      /\ stacks' = [stacks EXCEPT
           ![old_stack].data = <<Val_int(trap_sp_off)>> \o RetFrame(pc + 1) \o sp,
           ![old_stack].parent = NoStack,
           ![old_stack].own = (old_stack = current_stack),
           ![parent_stack].data = WithEffect(accu, New, old_stack, parent_stack)]

\* Mutant: the current fiber is not linked to the continuation
MutREPERFORMTERM ==
  LET self == current_stack
      parent == stacks[self].parent
  IN  /\ Op = "REPERFORMTERM" /\ parent # NoStack
      /\ ToEffectHandler(self, parent)
      /\ stacks' = [stacks EXCEPT
           ![self].data = <<Val_int(trap_sp_off), Val_int(extra_args)>> \o Drop(sp, Arg(1)),
           ![self].parent = NoStack,
           ![parent].data = WithEffect(accu, sp[1], self, parent)]
      /\ Quiet

\* REPERFORMTERM n: the continuation sp[0], whose last fiber is sp[1], grows by
\* the current fiber.
REPERFORMTERM ==
  LET cont == sp[1]
      cont_tail == sp[2][2]
      self == current_stack
      parent == stacks[self].parent
      s == <<Val_int(trap_sp_off), Val_int(extra_args)>> \o Drop(sp, Arg(1))
  IN  /\ Op = "REPERFORMTERM"
      /\ IF parent = NoStack
         THEN /\ heap' = WithField(cont, 0, Stk(NoStack))
              /\ do_resume(Field(cont, 0)[2], caml_global_data["raise_unhandled"],
                           Exn("Unhandled"), s)
         ELSE /\ ToEffectHandler(self, parent)
              /\ stacks' = [stacks EXCEPT
                   ![self].data = s, ![self].parent = NoStack,
                   ![cont_tail].parent = self,
                   ![parent].data = WithEffect(accu, cont, self, parent)]
              /\ UNCHANGED heap
      /\ UNCHANGED <<prog, locals, why, cval, base, caml_global_data, activationVars,
                     signalVars, collections>>

ControlStep ==
  /\ at = "fetch"
  /\ \/ PUSHTRAP \/ POPTRAP \/ CHECK_SIGNALS \/ RAISE
     \/ Resumes \/ Unhandled \/ REPERFORMTERM
=============================================================================
