------------------------------ MODULE Profiler ------------------------------
(***************************************************************************)
(* The instrumentation of caml_interprete in the debug build: the function *)
(* stack, the counts per function and the running total, driven by an      *)
(* arbitrary stream of instructions.  Every instruction is first counted   *)
(* by the dispatch loop, for the function on top of the function stack,    *)
(* and is then executed by its handler.                                    *)
(*                                                                         *)
(* The hash table is the map HashTable is shown to implement.  Of a        *)
(* function's array of counts, one per opcode, the model keeps the sum.    *)
(*                                                                         *)
(* The variables calls, executed, outside and irregular record what really *)
(* happened; the code has nothing like them.                               *)
(***************************************************************************)
EXTENDS Integers, Sequences, FiniteSets

CONSTANTS
  Func,     \* entry points of functions
  NoFunc,   \* the NULL code pointer
  MaxItems, \* capacity of the function stack (1024 in the code)
  CallSeqs, \* the calls that can be under way on another stack
  MaxOps,   \* bound: instructions executed
  MaxCalls  \* bound: depth of the calls

ASSUME ProfilerAssumption ==
  /\ NoFunc \notin Func
  /\ MaxItems \in Nat \ {0}
  /\ CallSeqs \subseteq Seq(Func)
  /\ MaxOps \in Nat
  /\ MaxCalls \in Nat

VARIABLES
  stack_data, nr_items, cur_size_bytes, top, \* function_stack_t
  counts,         \* func_hash_table
  total_op_count,
  phase,          \* "fetch" in the dispatch loop, "exec" in the handler of an
                  \* instruction, "check" at check_stacks
  status,         \* "running", "stopped", "raised" or "aborted"
  calls,          \* the functions being executed, innermost last
  executed,       \* how many instructions each function has executed
  outside,        \* how many instructions were counted for no function
  irregular       \* the events seen that the instrumentation does not follow

stackVars == <<stack_data, nr_items, cur_size_bytes, top>>
countVars == <<counts, total_op_count, executed, outside>>
vars == <<stackVars, countVars, phase, status, calls, irregular>>

CodeSize == 8 \* sizeof(code_t)

isEmpty == nr_items = 0
isFull == top = MaxItems
peek == stack_data[top - 1]

Init ==
  /\ stack_data = [s \in 0 .. MaxItems - 1 |-> NoFunc]
  /\ nr_items = 0 /\ cur_size_bytes = 0 /\ top = 0
  /\ counts = [f \in {} |-> 0]
  /\ total_op_count = 0
  /\ phase = "fetch"
  /\ status = "running"
  /\ calls = <<>>
  /\ executed = [f \in Func |-> 0]
  /\ outside = 0
  /\ irregular = {}
-----------------------------------------------------------------------------
(* The function stack *)

func_stack_push(f) ==
  IF ~isFull
  THEN /\ stack_data' = [stack_data EXCEPT ![top] = f]
       /\ top' = top + 1
       /\ nr_items' = nr_items + 1
       /\ cur_size_bytes' = cur_size_bytes + CodeSize
  ELSE UNCHANGED stackVars

func_stack_pop ==
  IF ~isEmpty
  THEN /\ nr_items' = nr_items - 1
       /\ cur_size_bytes' = cur_size_bytes - CodeSize
       /\ top' = top - 1
       /\ UNCHANGED stack_data
  ELSE UNCHANGED stackVars
-----------------------------------------------------------------------------
(* The dispatch loop *)

\* ht_curr_inc_opcount finds an array of counts to increment.
HasCounts == ~isEmpty => peek \in DOMAIN counts

\* Mutant: the total is only incremented together with a function's count.
MutDispatchTotal ==
  /\ phase = "fetch" /\ status = "running"
  /\ HasCounts
  /\ total_op_count < MaxOps
  /\ total_op_count' = IF isEmpty THEN total_op_count ELSE total_op_count + 1
  /\ counts' = IF isEmpty THEN counts ELSE [counts EXCEPT ![peek] = @ + 1]
  /\ outside' = IF isEmpty THEN outside + 1 ELSE outside
  /\ executed' = IF calls = <<>> THEN executed
                 ELSE [executed EXCEPT ![calls[Len(calls)]] = @ + 1]
  /\ phase' = "exec"
  /\ UNCHANGED <<stackVars, status, calls, irregular>>

Dispatch ==
  /\ phase = "fetch" /\ status = "running"
  /\ HasCounts
  /\ total_op_count < MaxOps
  /\ total_op_count' = total_op_count + 1
  /\ counts' = IF isEmpty THEN counts ELSE [counts EXCEPT ![peek] = @ + 1]
  /\ outside' = IF isEmpty THEN outside + 1 ELSE outside
  /\ executed' = IF calls = <<>> THEN executed
                 ELSE [executed EXCEPT ![calls[Len(calls)]] = @ + 1]
  /\ phase' = "exec"
  /\ UNCHANGED <<stackVars, status, calls, irregular>>

\* The assertion of ht_curr_inc_opcount fails.
Abort ==
  /\ phase = "fetch" /\ status = "running"
  /\ ~HasCounts
  /\ total_op_count < MaxOps
  /\ total_op_count' = total_op_count + 1
  /\ status' = "aborted"
  /\ UNCHANGED <<stackVars, counts, executed, outside, phase, calls, irregular>>
-----------------------------------------------------------------------------
(* The handlers of the instructions *)

Exec(next) == phase = "exec" /\ status = "running" /\ phase' = next

\* An instruction other than those below.
Plain ==
  /\ Exec("fetch")
  /\ UNCHANGED <<stackVars, countVars, status, calls, irregular>>

\* array_alloc_op_counts for the function on top after the push.  When malloc
\* returns NULL, or ht_set cannot grow the table, the function is left without
\* counts.  e collects what was irregular.
array_alloc_op_counts(e) ==
  LET f == stack_data'[top' - 1]
      fresh == [g \in DOMAIN counts \cup {f} |-> IF g = f THEN 0 ELSE counts[g]]
  IN  \/ f \in DOMAIN counts /\ counts' = counts /\ irregular' = irregular \cup e
      \/ f \notin DOMAIN counts /\ counts' = fresh /\ irregular' = irregular \cup e
      \/ f \notin DOMAIN counts /\ counts' = counts /\ irregular' = irregular \cup e \cup {"nomem"}

\* APPLY, APPLY1, APPLY2, APPLY3
Apply(f) ==
  /\ Exec("check")
  /\ Len(calls) < MaxCalls
  /\ func_stack_push(f)
  /\ array_alloc_op_counts(IF isFull THEN {"full"} ELSE {})
  /\ calls' = Append(calls, f)
  /\ UNCHANGED <<total_op_count, executed, outside, status>>

CallsBut(n) == SubSeq(calls, 1, Len(calls) - n)

\* Mutant: the function stack is not popped.
MutReturnNoPop ==
  /\ Exec("fetch")
  /\ calls # <<>>
  /\ calls' = CallsBut(1)
  /\ UNCHANGED <<stackVars, countVars, status, irregular>>

\* RETURN when the caller has passed no more arguments
Return ==
  /\ Exec("fetch")
  /\ calls # <<>>
  /\ func_stack_pop
  /\ calls' = CallsBut(1)
  /\ UNCHANGED <<countVars, status, irregular>>

\* RETURN of a function that is applied to the arguments left
ReturnInto(f) ==
  /\ Exec("fetch")
  /\ calls # <<>>
  /\ func_stack_pop
  /\ calls' = Append(CallsBut(1), f)
  /\ irregular' = irregular \cup {"over"}
  /\ UNCHANGED <<countVars, status>>

\* APPTERM, APPTERM1, APPTERM2, APPTERM3
AppTerm(f) ==
  /\ Exec("check")
  /\ calls # <<>>
  /\ calls' = Append(CallsBut(1), f)
  /\ irregular' = irregular \cup {"tail"}
  /\ UNCHANGED <<stackVars, countVars, status>>

\* GRAB with too few arguments: the closure built is returned to the caller
GrabPartial ==
  /\ Exec("fetch")
  /\ calls # <<>>
  /\ calls' = CallsBut(1)
  /\ irregular' = irregular \cup {"partial"}
  /\ UNCHANGED <<stackVars, countVars, status>>

\* RAISE, RERAISE, RAISE_NOTRACE, a primitive, a signal handler or an overflow
\* of the stack that raises: n of the calls are left, those that enclose the
\* handler.  With no handler the activation of the interpreter ends, and
\* prints no profile.
Raise ==
  /\ phase \in {"exec", "check"} /\ status = "running"
  /\ phase' = "fetch"
  /\ \E n \in 0 .. Len(calls) :
       /\ calls' = SubSeq(calls, 1, n)
       /\ irregular' = IF n < Len(calls) THEN irregular \cup {"raise"} ELSE irregular
       /\ status' \in IF n = 0 THEN {"running", "raised"} ELSE {"running"}
  /\ UNCHANGED <<stackVars, countVars>>

\* PERFORM, RESUME, RESUMETERM, REPERFORMTERM, a partial application or an
\* exception that leaves a fiber: the calls of another stack replace those of
\* the current one.
SwitchStack ==
  /\ phase \in {"exec", "check"} /\ status = "running"
  /\ phase' = "check"
  /\ calls' \in CallSeqs
  /\ irregular' = irregular \cup {"switch"}
  /\ UNCHANGED <<stackVars, countVars, status>>

\* RETURN from the last function of a fiber
ReturnSwitch ==
  /\ Exec("check")
  /\ func_stack_pop
  /\ calls' \in CallSeqs
  /\ irregular' = irregular \cup {"switch"}
  /\ UNCHANGED <<countVars, status>>

\* check_stacks finds room and no pending signal, or has run its handler
CheckStacks ==
  /\ phase = "check" /\ status = "running"
  /\ phase' = "fetch"
  /\ UNCHANGED <<stackVars, countVars, status, calls, irregular>>

\* STOP: the profile is printed
Stop ==
  /\ Exec("fetch")
  /\ status' = "stopped"
  /\ UNCHANGED <<stackVars, countVars, calls, irregular>>

Next ==
  \/ Dispatch \/ Abort
  \/ Plain
  \/ \E f \in Func : Apply(f) \/ ReturnInto(f) \/ AppTerm(f)
  \/ Return \/ GrabPartial \/ Raise
  \/ SwitchStack \/ ReturnSwitch
  \/ CheckStacks
  \/ Stop

Spec == Init /\ [][Next]_vars
-----------------------------------------------------------------------------
(* Properties *)

\* What breaks the match in depth of function stack and calls; a tail call
\* only leaves the wrong function in a slot.
DepthBreakers == {"full", "over", "partial", "raise", "switch"}

\* The variables have their types and the four fields of the function stack
\* agree: its occupied part is the first top slots, and holds no NULL.
TypeOK ==
  /\ top \in 0 .. MaxItems
  /\ nr_items = top
  /\ cur_size_bytes = CodeSize * top
  /\ stack_data \in [0 .. MaxItems - 1 -> Func \cup {NoFunc}]
  /\ \A s \in 0 .. top - 1 : stack_data[s] \in Func
  /\ DOMAIN counts \subseteq Func
  /\ \A f \in DOMAIN counts : counts[f] \in Nat
  /\ total_op_count \in Nat
  /\ phase \in {"fetch", "exec", "check"}
  /\ status \in {"running", "stopped", "raised", "aborted"}
  /\ calls \in Seq(Func)
  /\ executed \in [Func -> Nat]
  /\ outside \in Nat
  /\ irregular \subseteq DepthBreakers \cup {"tail", "nomem"}

\* The assertion "temp_curr_op_counts != NULL" of ht_curr_inc_opcount holds
\* unless an allocation has failed, also when the function stack overflows or
\* underflows.
NoAbort == status = "aborted" => "nomem" \in irregular

\* In a run without partial or over-application, exceptions across calls,
\* effects or overflow of the function stack, the function stack is as deep
\* as the calls; if there was no tail call either it holds the very functions
\* being executed.
MirrorsCalls ==
  /\ irregular \cap DepthBreakers = {} => top = Len(calls)
  /\ irregular = {} => \A s \in 0 .. top - 1 : stack_data[s] = calls[s + 1]

\* In such a run the profile is exact: a function is in the table once it has
\* been called, with the number of instructions it executed.
AttributionExact ==
  irregular = {} => \A f \in Func : executed[f] = IF f \in DOMAIN counts THEN counts[f] ELSE 0

\* The function stack and the counts are sound: the stack's fields agree, the
\* dispatch loop aborts only after a failed allocation, and while nothing
\* irregular happens the stack is that of the calls and the profile is exact
\* (func_stack_push, func_stack_pop, ht_curr_inc_opcount).
ProfileSound == TypeOK /\ NoAbort /\ MirrorsCalls /\ AttributionExact

\* The instructions counted for functions: the n-th one of f is <<f, n>>, so
\* that there are as many as the counts of all functions add up to.
Counted == UNION {{f} \X (1 .. counts[f]) : f \in DOMAIN counts}

\* In every run, each instruction is counted once in the total, and once
\* either for a function or outside all functions.
Conservation ==
  status # "aborted" => total_op_count = Cardinality(Counted) + outside
=============================================================================
