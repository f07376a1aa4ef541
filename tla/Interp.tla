------------------------------- MODULE Interp -------------------------------
(***************************************************************************)
(* The bytecode interpreter: caml_interprete with the C code it runs in:   *)
(* the collector, signals, primitives and callbacks from C.                *)
(***************************************************************************)
EXTENDS InterpControl

(* Collections and signals: caml_process_pending_actions *)

\* Enter_gc, when the minor heap is full or an interrupt was requested
EnterGC ==
  /\ at = "alloc" /\ (interrupt \/ collections < MaxCollections)
  /\ Goto(pc, Stale, Stale, extra_args, "gc")
  /\ SameFiber(<<accu, env, Code(pc)>> \o sp)
  /\ why' = "alloc"
  /\ UNCHANGED <<prog, locals, cval, heapVars, caml_global_data, activationVars,
                 signalVars, collections>>

Collect ==
  LET live == LiveBlocks
      kept == LiveStacks \cup InUse
  IN  /\ collections < MaxCollections /\ collections' = collections + 1
      /\ heap' = MovedHeap(live) /\ base' = NewBase
      /\ stacks' = [s \in kept |-> MovedStack(live, stacks[s])]
      /\ frames' = [i \in DOMAIN frames |-> [frames[i] EXCEPT !.cval = Moved(live, @)]]
      /\ caml_global_data' = MovedSeq(live, caml_global_data)
      /\ handler' = Moved(live, handler) /\ cval' = Moved(live, cval)

\* Mutant: the interrupt request is not cleared
MutHandleGC ==
  /\ at = "gc" /\ at' = "pending"
  /\ UNCHANGED <<collections, heapVars, stacks, frames, caml_global_data, handler, cval,
                 interrupt, prog, regs, locals, why, current_stack, trap_sp_off,
                 initial_trap_sp_off, initial_stack_words, callback_narg, pending, blocked,
                 signals, recorded>>

\* handle_gc_interrupt: Enter_gc without an interrupt is for want of space;
\* otherwise there may be nothing to collect.
HandleGC ==
  /\ at = "gc" /\ at' = "pending"
  /\ interrupt' = FALSE
  /\ \/ Collect
     \/ /\ interrupt \/ why = "event"
        /\ UNCHANGED <<collections, heapVars, stacks, frames, caml_global_data, handler, cval>>
  /\ UNCHANGED <<prog, regs, locals, why, current_stack, trap_sp_off, initial_trap_sp_off,
                 initial_stack_words, callback_narg, pending, blocked, signals, recorded>>

\* caml_callbackN_exn and the start of the activation it makes
caml_callbackN_exn(closure, args, reason) ==
  LET s == args \o <<Ret(callback_code + 2), Unit, Val_int(0), closure>> \o sp
  IN  /\ stacks' = [WithSp(s) EXCEPT ![current_stack].parent = NoStack]
      /\ frames' = Append(frames,
           [why |-> reason, pc |-> pc, extra_args |-> extra_args, locals |-> locals,
            initial_trap_sp_off |-> initial_trap_sp_off,
            initial_stack_words |-> initial_stack_words, cval |-> cval,
            parent |-> stacks[current_stack].parent, narg |-> Len(args), mask |-> blocked])
      /\ callback_narg' = Len(args)
      /\ initial_trap_sp_off' = trap_sp_off /\ trap_sp_off' = 1
      /\ initial_stack_words' = Len(s)
      /\ Goto(callback_code, Unit, Atom(0), 0, "fetch")
      /\ locals' = <<>> /\ cval' = Unit
      /\ UNCHANGED <<prog, why, current_stack, heapVars, caml_global_data, handler,
                     interrupt, signals, recorded, collections>>

\* caml_process_pending_signals_exn: the signal is blocked while its handler
\* runs, and one that comes meanwhile is not looked for again.
RunSignalHandler ==
  /\ at = "pending" /\ pending /\ ~blocked
  /\ pending' = FALSE /\ blocked' = TRUE
  /\ caml_callbackN_exn(handler, <<Val_int(SignalNumber)>>, why)

\* Mutant: Restore_after_gc without env
MutActionsProcessed ==
  /\ (at = "pending" /\ ~(pending /\ ~blocked)) \/ at = "processed"
  /\ CASE why = "alloc" -> /\ Goto(pc, sp[1], env, extra_args, "alloc")
                           /\ SameFiber(Drop(sp, 3))
       [] why = "event" -> /\ Goto(sp[4][2], sp[1], sp[5], Long(sp[6]), "fetch")
                           /\ SameFiber(Drop(sp, 6))
       [] why = "prim" -> at' = "primret" /\ UNCHANGED <<regs, fiberVars>>
       [] why = "raise" -> at' = "longjmp" /\ UNCHANGED <<regs, fiberVars>>
  /\ Quiet

\* Restore_after_gc, Restore_after_event, the end of the primitive, or caml_raise
ActionsProcessed ==
  /\ (at = "pending" /\ ~(pending /\ ~blocked)) \/ at = "processed"
  /\ CASE why = "alloc" -> /\ Goto(pc, sp[1], sp[2], extra_args, "alloc")
                           /\ SameFiber(Drop(sp, 3))
       [] why = "event" -> /\ Goto(sp[4][2], sp[1], sp[5], Long(sp[6]), "fetch")
                           /\ SameFiber(Drop(sp, 6))
       [] why = "prim" -> at' = "primret" /\ UNCHANGED <<regs, fiberVars>>
       [] why = "raise" -> at' = "longjmp" /\ UNCHANGED <<regs, fiberVars>>
  /\ Quiet

\* caml_raise ends in the activation that is running.
Longjmp == at = "longjmp" /\ raise_notrace(cval)
-----------------------------------------------------------------------------
(* Primitives *)

\* C_CALL1 ... C_CALL5 and C_CALLN: operands, number of arguments, primitive.
\* C_CALLN also pushes the first argument.
CCall ==
  /\ at = "fetch" /\ Op \in {"C_CALL", "C_CALLN"}
  /\ SameFiber(<<env, Code(pc + 1)>> \o (IF Op = "C_CALLN" THEN <<accu>> ELSE <<>>) \o sp)
  /\ at' = "prim"
  /\ UNCHANGED regs /\ Quiet

PrimArg(i) == IF Op = "C_CALL" THEN (IF i = 1 THEN accu ELSE sp[i + 1]) ELSE sp[i + 2]

\* Restore_after_c_call
PrimReturn ==
  /\ at = "primret"
  /\ Goto(pc + 1, cval, sp[1], extra_args, "fetch")
  /\ SameFiber(Drop(sp, Arg(1) + (IF Op = "C_CALLN" THEN 2 ELSE 1)))
  /\ cval' = Unit
  /\ UNCHANGED <<prog, locals, why, heapVars, caml_global_data, activationVars,
                 signalVars, collections>>

Prim(name) == at = "prim" /\ Arg(2) = name
Returning(v) ==
  /\ at' = "primret" /\ cval' = v
  /\ UNCHANGED <<prog, regs, locals, why, current_stack, trap_sp_off, base, caml_global_data,
                 activationVars, signalVars, collections>>

\* caml_alloc_stack: the words of the new stack are an empty trap
caml_alloc_stack ==
  /\ Prim("caml_alloc_stack")
  /\ stacks' = With(stacks, FreshStack,
                    NewStack(<<Val_int(1)>>, PrimArg(1), PrimArg(2), PrimArg(3)))
  /\ Returning(Stk(FreshStack)) /\ UNCHANGED heap

\* caml_ensure_stack_capacity, which starts every function: the same room as
\* check_stacks asks for, by the need of the function.
caml_ensure_stack_capacity ==
  LET req == Long(PrimArg(1))
      lacking == stacks[current_stack].size - Len(sp) < req
  IN  /\ Prim("caml_ensure_stack_capacity")
      /\ IF lacking /\ ~CanGrow(req)
         THEN /\ at' = "pending" /\ why' = "raise" /\ cval' = Exn("Stack_overflow")
              /\ UNCHANGED fiberVars
         ELSE /\ IF lacking THEN caml_try_realloc_stack(req) ELSE UNCHANGED fiberVars
              /\ at' = "primret" /\ cval' = Unit /\ UNCHANGED why
      /\ UNCHANGED <<prog, regs, locals, heapVars, caml_global_data, activationVars,
                     signalVars, collections>>

caml_continuation_use_noexc ==
  /\ Prim("caml_continuation_use_noexc")
  /\ heap' = WithField(PrimArg(1), 0, Stk(NoStack))
  /\ Returning(Field(PrimArg(1), 0)) /\ UNCHANGED stacks

\* caml_install_signal_handler processes the pending signals before it returns.
caml_install_signal_handler ==
  /\ Prim("caml_install_signal_handler")
  /\ handler' = PrimArg(2)
  /\ at' = "pending" /\ why' = "prim" /\ cval' = Unit
  /\ UNCHANGED <<prog, regs, locals, fiberVars, heapVars, caml_global_data, activationVars,
                 pending, interrupt, blocked, signals, recorded, collections>>

\* A primitive that calls its first argument back, on its other arguments
CallsBack ==
  /\ Prim("callback")
  /\ caml_callbackN_exn(PrimArg(1), [i \in 1 .. Arg(1) - 1 |-> PrimArg(i + 1)], "ccall")
  /\ UNCHANGED <<pending, blocked>>

\* A primitive that raises its argument
Raises ==
  /\ Prim("raise")
  /\ at' = "pending" /\ why' = "raise" /\ cval' = PrimArg(1)
  /\ UNCHANGED <<prog, regs, locals, fiberVars, heapVars, caml_global_data, activationVars,
                 signalVars, collections>>
-----------------------------------------------------------------------------
(* The end of an activation *)

STOP ==
  /\ at = "fetch" /\ Op = "STOP"
  /\ at' = "return" /\ cval' = accu
  /\ trap_sp_off' = initial_trap_sp_off
  /\ UNCHANGED <<prog, regs, locals, why, stacks, current_stack, heapVars, caml_global_data,
                 activationVars, signalVars, collections>>

Caller == frames[Len(frames)]

\* Mutant: the signal is taken from the pending ones when its handler is done
MutReturn ==
  /\ at \in {"return", "returnexn"} /\ frames # <<>>
  /\ LET raised == at = "returnexn"
         s == IF raised THEN Drop(sp, Caller.narg + 4) ELSE sp
     IN  /\ stacks' = [WithSp(s) EXCEPT ![current_stack].parent = Caller.parent]
         /\ Goto(Caller.pc, Stale, Stale, Caller.extra_args,
                 IF Caller.why = "ccall" /\ ~raised THEN "primret"
                 ELSE IF ~raised THEN "processed"
                 ELSE IF Caller.why = "raise" THEN "longjmp" ELSE "pending")
         /\ why' = IF raised \/ Caller.why = "ccall" THEN "raise" ELSE Caller.why
         /\ cval' = IF raised \/ Caller.why = "ccall" THEN cval ELSE Caller.cval
  /\ locals' = Caller.locals
  /\ initial_trap_sp_off' = Caller.initial_trap_sp_off
  /\ initial_stack_words' = Caller.initial_stack_words
  /\ frames' = SubSeq(frames, 1, Len(frames) - 1)
  /\ blocked' = Caller.mask /\ pending' = FALSE
  /\ UNCHANGED <<prog, current_stack, trap_sp_off, heapVars, caml_global_data, callback_narg,
                 handler, interrupt, signals, recorded, collections>>

\* The rest of caml_callbackN_exn, and of the caml_execute_signal_exn around it.
\* What a handler raises goes to caml_raise, which processes signals again.
Return ==
  /\ at \in {"return", "returnexn"} /\ frames # <<>>
  /\ LET raised == at = "returnexn"
         s == IF raised THEN Drop(sp, Caller.narg + 4) ELSE sp
     IN  /\ stacks' = [WithSp(s) EXCEPT ![current_stack].parent = Caller.parent]
         /\ Goto(Caller.pc, Stale, Stale, Caller.extra_args,
                 IF Caller.why = "ccall" /\ ~raised THEN "primret"
                 ELSE IF ~raised THEN "processed"
                 ELSE IF Caller.why = "raise" THEN "longjmp" ELSE "pending")
         /\ why' = IF raised \/ Caller.why = "ccall" THEN "raise" ELSE Caller.why
         /\ cval' = IF raised \/ Caller.why = "ccall" THEN cval ELSE Caller.cval
  /\ locals' = Caller.locals
  /\ initial_trap_sp_off' = Caller.initial_trap_sp_off
  /\ initial_stack_words' = Caller.initial_stack_words
  /\ frames' = SubSeq(frames, 1, Len(frames) - 1)
  /\ blocked' = Caller.mask
  /\ UNCHANGED <<prog, current_stack, trap_sp_off, heapVars, caml_global_data, callback_narg,
                 handler, pending, interrupt, signals, recorded, collections>>

End ==
  /\ at \in {"return", "returnexn"} /\ frames = <<>>
  /\ at' = IF at = "return" THEN "end" ELSE "endexn"
  /\ UNCHANGED <<regs, fiberVars>> /\ Quiet
-----------------------------------------------------------------------------
\* caml_record_signal.  The signal may come at any time, also while it is
\* blocked: to another thread, or just before the mask is set.
Signal ==
  /\ handler # Unit /\ signals < MaxSignals /\ at \notin {"end", "endexn"}
  /\ signals' = signals + 1 /\ recorded' = recorded + (IF pending THEN 0 ELSE 1)
  /\ pending' = TRUE /\ interrupt' = TRUE
  /\ UNCHANGED <<prog, regs, locals, at, why, cval, fiberVars, heapVars, caml_global_data,
                 activationVars, handler, blocked, collections>>

Ended == at \in {"end", "endexn"} /\ UNCHANGED vars

Max_args == 4 \* bound on extra_args, of the programs run
Predefined == {"Not_found", "Division_by_zero", "Stack_overflow"}

\* The first activation.  The heap holds raise_unhandled and the literals, the
\* globals the predefined exceptions and `out', not yet set.
Init ==
  LET data == <<<<"raise_unhandled", Block(Closure_tag, <<Code(raise_unhandled_code), Info>>)>> >> \o Literals
      names == {data[i][1] : i \in DOMAIN data}
  IN  /\ prog \in Programs
      /\ pc = 1 /\ accu = Unit /\ env = Atom(0) /\ extra_args = 0
      /\ locals = <<>> /\ at = "fetch" /\ why = "event" /\ cval = Unit
      /\ stacks = [s \in {1} |-> NewStack(<<>>, Unit, Unit, Unit)]
      /\ current_stack = 1 /\ trap_sp_off = 1
      /\ base = 0 /\ heap = [a \in DOMAIN data |-> data[a][2]]
      /\ caml_global_data = [g \in names \cup Predefined \cup {"out"} |->
           CASE g \in names -> Ptr(CHOOSE a \in DOMAIN data : data[a][1] = g, 0)
             [] g \in Predefined -> Exn(g)
             [] OTHER -> Unit]
      /\ frames = <<>> /\ initial_trap_sp_off = 1 /\ initial_stack_words = 0
      /\ callback_narg = 0
      /\ handler = Unit /\ pending = FALSE /\ interrupt = FALSE /\ blocked = FALSE
      /\ signals = 0 /\ recorded = 0 /\ collections = 0

Instruction ==
  \/ DataStep \/ CallStep \/ Alloc \/ AllocStep \/ Perform \/ ControlStep
  \/ GrowStack \/ StackOverflow \/ StackChecked
  \/ CCall \/ STOP

Runtime ==
  \/ EnterGC \/ HandleGC \/ RunSignalHandler \/ ActionsProcessed \/ Longjmp
  \/ caml_alloc_stack \/ caml_ensure_stack_capacity \/ caml_continuation_use_noexc
  \/ caml_install_signal_handler
  \/ CallsBack \/ Raises \/ PrimReturn \/ Return \/ End

Next == Instruction \/ Runtime \/ Signal \/ Ended

\* The thread of the interpreter is scheduled again and again.
Spec == Init /\ [][Next]_vars /\ WF_vars(Instruction \/ Runtime)
-----------------------------------------------------------------------------
(* Properties *)

AllWords ==
  UNION {WordsOf(stacks[s].data) \cup {stacks[s].hval, stacks[s].hexn, stacks[s].heff} :
           s \in DOMAIN stacks}
  \cup UNION {WordsOf(heap[a].fields) : a \in DOMAIN heap}
  \cup WordsOf(caml_global_data) \cup {cval, handler}
  \cup {frames[i].cval : i \in DOMAIN frames}
  \cup (IF at \in {"fetch", "check", "alloc"} THEN {accu, env} ELSE
       IF at = "prim" THEN {accu} ELSE {})

\* The registers, flags and counters have their types.
TypeOK ==
  /\ at \in Places /\ why \in Reasons
  /\ pc \in 1 .. raise_unhandled_code + 1 /\ extra_args \in 0 .. Max_args
  /\ {pending, interrupt, blocked} \subseteq BOOLEAN
  /\ current_stack \in DOMAIN stacks
  /\ signals \in 0 .. MaxSignals /\ collections \in 0 .. MaxCollections
  /\ DOMAIN heap = base + 1 .. base + Cardinality(DOMAIN heap)

\* Every pointer the program can still use is to a block: a collection between
\* any two steps finds, and updates, each register and each word of the stack
\* (Setup_for_gc, Setup_for_c_call, Setup_for_event and their inverses).
NoDangling ==
  \A w \in AllWords :
    /\ w # Stale
    /\ w[1] = "ptr" => w[2] \in DOMAIN heap /\ w[3] < Len(heap[w[2]].fields)

Owners(s) ==
  {<<"parent of", t>> : t \in {u \in DOMAIN stacks : stacks[u].parent = s}}
  \cup {<<"continuation", a>> : a \in {b \in DOMAIN heap : heap[b].tag = Cont_tag
                                                           /\ heap[b].fields[1] = Stk(s)}}
  \cup {<<"caller", i>> : i \in {j \in DOMAIN frames : frames[j].parent = s}}
  \cup (IF s = current_stack THEN {<<"current", 0>>} ELSE {})

\* A stack is run, or is the parent of one fiber, or belongs to one continuation
\* or one callback, and never to two of them (RESUME, PERFORM, REPERFORMTERM,
\* do_return, raise_notrace, callbacks, stack growth).
OneOwner == \A s \in DOMAIN stacks : Cardinality(Owners(s)) <= 1

\* The frames that trap_sp_off and the links lead to are trap frames of the
\* words s above the lowest `floor', each below the one before.
TrapsIn(s, off, floor) ==
  LET Ok[t \in -Len(s) .. 1] ==
        \/ t = 1
        \/ /\ t < -floor - 3
           /\ LET f == Last(s, -t)
              IN  f[1][1] = "code" /\ Long(f[2]) \in t + 4 .. 1 /\ Ok[Long(f[2])]
  IN  off \in -Len(s) .. 1 /\ Ok[off]

\* A trap is always a trap frame of the running fiber, pushed by the running
\* activation: raise_notrace never lands in another fiber or below the C frame
\* of a callback; a suspended fiber keeps its own.
TrapsRight ==
  /\ TrapsIn(sp, trap_sp_off,
             IF stacks[current_stack].parent = NoStack THEN initial_stack_words ELSE 0)
     \/ at \in {"return", "returnexn", "end", "endexn"}
  /\ \A s \in DOMAIN stacks \ {current_stack} :
       TrapsIn(stacks[s].data, Long(stacks[s].data[1]), 0)

\* A callback ends on the fiber it started on, with the words of its caller
\* and nothing more (caml_callbackN_exn and its assertion); so does the program.
CallbacksBalanced ==
  at = "return" =>
    /\ stacks[current_stack].parent = NoStack
    /\ Len(sp) = initial_stack_words - (IF frames = <<>> THEN 0 ELSE Caller.narg + 4)

\* The assertions of the dispatch loop: sp is in the current stack.
SpInStack ==
  at = "fetch" => stacks[current_stack].own /\ Len(sp) <= stacks[current_stack].size

\* The stacks of the fibers are sound between any two steps: each has one owner,
\* its traps are its own, sp stays in the current one, callbacks leave it as it
\* was, and the registers have their types (RESUME, PERFORM, raise_notrace,
\* do_return, caml_callbackN_exn, the assertions of the dispatch loop).
StacksRight == TypeOK /\ OneOwner /\ TrapsRight /\ CallbacksBalanced /\ SpInStack

\* The program ends, whatever collections and signals come in between.
Terminates == <>(at \in {"end", "endexn"})
=============================================================================
