--------------------------- MODULE ProfilerProofs ---------------------------
(***************************************************************************)
(* The profiler's bookkeeping is sound for a function stack of any size    *)
(* and any set of functions: its assertions hold while memory lasts, and   *)
(* the profile of a regular run is exact.                                  *)
(***************************************************************************)
EXTENDS Profiler, SequenceTheorems, FiniteSetTheorems, TLAPS

StackOK ==
  /\ top \in 0 .. MaxItems
  /\ nr_items = top
  /\ cur_size_bytes = CodeSize * top
  /\ stack_data \in [0 .. MaxItems - 1 -> Func \cup {NoFunc}]
  /\ \A s \in 0 .. top - 1 : stack_data[s] \in Func

\* A map from functions to counts.
IsCounts(c) == DOMAIN c \subseteq Func /\ \A f \in DOMAIN c : c[f] \in Nat

\* What is left of calls after an exception or a return.
LEMMA Prefix ==
  ASSUME NEW S, NEW q \in Seq(S), NEW n \in 0 .. Len(q)
  PROVE  /\ SubSeq(q, 1, n) \in Seq(S)
         /\ Len(SubSeq(q, 1, n)) = n
         /\ \A j \in 1 .. n : SubSeq(q, 1, n)[j] = q[j]
  BY SubSeqProperties

\* A call less.
LEMMA OneCallLess ==
  ASSUME calls \in Seq(Func), calls # <<>>
  PROVE  /\ Len(calls) > 0
         /\ CallsBut(1) \in Seq(Func)
         /\ Len(CallsBut(1)) = Len(calls) - 1
         /\ \A j \in 1 .. Len(calls) - 1 : CallsBut(1)[j] = calls[j]
<1>1. Len(calls) \in Nat /\ Len(calls) > 0
  OBVIOUS
<1>2. Len(calls) - 1 \in 0 .. Len(calls)
  BY <1>1
<1> QED
  BY <1>1, <1>2, Prefix, Zenon DEF CallsBut

\* A push or a pop keeps the fields of the function stack in step; a push
\* leaves a function on top.
LEMMA StackSteps ==
  ASSUME StackOK
  PROVE  /\ \A f \in Func : func_stack_push(f) => StackOK' /\ top' > 0
         /\ func_stack_pop => StackOK'
         /\ UNCHANGED stackVars => StackOK'
<1> USE ProfilerAssumption DEF StackOK, CodeSize
<1>1. ASSUME NEW f \in Func, func_stack_push(f) PROVE StackOK' /\ top' > 0
  <2>1. CASE isFull
    BY <1>1, <2>1 DEF func_stack_push, stackVars, isFull
  <2>2. CASE ~isFull
    BY <1>1, <2>2 DEF func_stack_push, isFull
  <2> QED BY <2>1, <2>2
<1>2. ASSUME func_stack_pop PROVE StackOK'
  BY <1>2 DEF func_stack_pop, isEmpty, stackVars
<1> QED
  BY <1>1, <1>2 DEF stackVars

\* Dispatching an instruction changes no domain and keeps counts natural.
LEMMA DispatchCounts ==
  ASSUME StackOK, IsCounts(counts), Dispatch
  PROVE  IsCounts(counts') /\ DOMAIN counts' = DOMAIN counts
  BY DEF StackOK, IsCounts, HasCounts, Dispatch, isEmpty, peek

\* Allocating counts adds at most the function on top, with count zero.
LEMMA AllocType ==
  ASSUME NEW e, IsCounts(counts), StackOK', top' > 0, array_alloc_op_counts(e)
  PROVE  /\ IsCounts(counts')
         /\ DOMAIN counts \subseteq DOMAIN counts'
         /\ \A f \in DOMAIN counts : counts'[f] = counts[f]
         /\ \A f \in DOMAIN counts' \ DOMAIN counts : counts'[f] = 0
         /\ irregular' \in {irregular \cup e, irregular \cup e \cup {"nomem"}}
         /\ "nomem" \notin irregular' => stack_data'[top' - 1] \in DOMAIN counts'
<1>1. stack_data'[top' - 1] \in Func
  <2>1. top' \in 0 .. MaxItems /\ \A s \in 0 .. top' - 1 : stack_data'[s] \in Func
    BY Zenon DEF StackOK
  <2>2. top' \in Nat \ {0}
    BY <2>1, ProfilerAssumption
  <2>3. \A t \in Nat \ {0} : t - 1 \in 0 .. t - 1
    OBVIOUS
  <2> QED BY <2>1, <2>2, <2>3, Zenon
<1> QED
  BY <1>1 DEF array_alloc_op_counts, IsCounts
-----------------------------------------------------------------------------
\* The part of the type invariant that is not about the function stack.
RestOK ==
  /\ IsCounts(counts)
  /\ total_op_count \in Nat
  /\ phase \in {"fetch", "exec", "check"}
  /\ status \in {"running", "stopped", "raised", "aborted"}
  /\ calls \in Seq(Func)
  /\ executed \in [Func -> Nat]
  /\ outside \in Nat
  /\ irregular \subseteq DepthBreakers \cup {"tail", "nomem"}

LEMMA TypeParts == TypeOK <=> StackOK /\ RestOK
  BY DEF TypeOK, StackOK, RestOK, IsCounts

\* The handlers that leave the counts alone.
Handler ==
  \/ Plain \/ Return \/ GrabPartial \/ Raise
  \/ SwitchStack \/ ReturnSwitch \/ CheckStacks \/ Stop
  \/ \E f \in Func : ReturnInto(f) \/ AppTerm(f)

LEMMA NextCases ==
  Next <=> Dispatch \/ Abort \/ Handler \/ \E f \in Func : Apply(f)
  BY DEF Next, Handler

\* A handler pops the function stack or leaves it alone.
LEMMA HandlerType ==
  ASSUME TypeOK, Handler
  PROVE  /\ TypeOK'
         /\ UNCHANGED countVars
         /\ func_stack_pop \/ UNCHANGED stackVars
         /\ irregular \subseteq irregular' /\ ("nomem" \in irregular' => "nomem" \in irregular)
<1> USE TypeParts
<1>1. UNCHANGED countVars /\ (func_stack_pop \/ UNCHANGED stackVars)
  BY DEF Handler, Plain, Return, GrabPartial, Stop, ReturnInto, AppTerm, Raise,
         SwitchStack, ReturnSwitch, CheckStacks
<1>2. StackOK'
  BY <1>1, StackSteps
<1>3. calls # <<>> => CallsBut(1) \in Seq(Func)
  BY OneCallLess DEF RestOK
<1>4. /\ calls' \in Seq(Func)
      /\ phase' \in {"fetch", "exec", "check"}
      /\ status' \in {"running", "stopped", "raised", "aborted"}
      /\ irregular' \subseteq DepthBreakers \cup {"tail", "nomem"}
      /\ irregular \subseteq irregular' /\ ("nomem" \in irregular' => "nomem" \in irregular)
  <2>1. CASE Plain \/ Stop \/ CheckStacks
    BY <2>1 DEF Plain, Stop, CheckStacks, Exec, RestOK
  <2>2. CASE Return \/ GrabPartial
    BY <1>3, <2>2 DEF Return, GrabPartial, Exec, RestOK, DepthBreakers
  <2>3. CASE \E f \in Func : ReturnInto(f) \/ AppTerm(f)
    <3>1. \A f \in Func : calls # <<>> => Append(CallsBut(1), f) \in Seq(Func)
      BY <1>3
    <3>2. /\ UNCHANGED status /\ phase' \in {"fetch", "check"}
          /\ irregular' \in {irregular \cup {"over"}, irregular \cup {"tail"}}
      BY <2>3 DEF ReturnInto, AppTerm, Exec
    <3>3. calls' \in Seq(Func)
      BY <2>3, <3>1 DEF ReturnInto, AppTerm
    <3> QED BY <3>2, <3>3 DEF RestOK, DepthBreakers
  <2>4. CASE Raise
    BY <2>4, Prefix DEF Raise, RestOK, DepthBreakers
  <2>5. CASE SwitchStack \/ ReturnSwitch
    BY <2>5, ProfilerAssumption DEF SwitchStack, ReturnSwitch, Exec, RestOK, DepthBreakers
  <2> QED
    BY <2>1, <2>2, <2>3, <2>4, <2>5 DEF Handler
<1>5. RestOK'
  BY <1>1, <1>4 DEF RestOK, countVars, IsCounts
<1>6. TypeOK'
  BY <1>2, <1>5, Zenon DEF TypeOK, StackOK, RestOK, IsCounts
<1> QED
  BY <1>1, <1>4, <1>6

\* A call pushes a function and allocates its counts.
LEMMA ApplyType ==
  ASSUME TypeOK, NEW f \in Func, Apply(f)
  PROVE  /\ TypeOK'
         /\ DOMAIN counts \subseteq DOMAIN counts'
         /\ \A g \in DOMAIN counts : counts'[g] = counts[g]
         /\ \A g \in DOMAIN counts' \ DOMAIN counts : counts'[g] = 0
         /\ irregular \subseteq irregular'
         /\ "nomem" \notin irregular' => stack_data'[top' - 1] \in DOMAIN counts'
<1> USE TypeParts
<1> DEFINE e == IF isFull THEN {"full"} ELSE {}
<1>1. func_stack_push(f) /\ array_alloc_op_counts(e)
  BY DEF Apply
<1>2. StackOK' /\ top' > 0
  BY <1>1, StackSteps
<1>3. /\ IsCounts(counts')
      /\ DOMAIN counts \subseteq DOMAIN counts'
      /\ \A g \in DOMAIN counts : counts'[g] = counts[g]
      /\ \A g \in DOMAIN counts' \ DOMAIN counts : counts'[g] = 0
      /\ irregular' \in {irregular \cup e, irregular \cup e \cup {"nomem"}}
      /\ "nomem" \notin irregular' => stack_data'[top' - 1] \in DOMAIN counts'
  <2> HIDE DEF e
  <2> QED BY <1>1, <1>2, AllocType DEF RestOK
<1>4. irregular' \subseteq DepthBreakers \cup {"tail", "nomem"}
  BY <1>3 DEF RestOK, DepthBreakers
<1>5. calls' \in Seq(Func) /\ phase' = "check" /\ UNCHANGED <<total_op_count, executed, outside, status>>
  BY DEF Apply, RestOK, Exec
<1>6. TypeOK'
  BY <1>2, <1>3, <1>4, <1>5, Zenon DEF TypeOK, StackOK, RestOK, IsCounts
<1> QED
  BY <1>3, <1>6

\* Counting an instruction keeps the types.
LEMMA DispatchType == TypeOK /\ (Dispatch \/ Abort) => TypeOK'
<1> SUFFICES ASSUME TypeOK, Dispatch \/ Abort PROVE TypeOK'
  OBVIOUS
<1> USE TypeParts
<1>1. CASE Dispatch
  <2>1. IsCounts(counts')
    BY <1>1, DispatchCounts DEF RestOK
  <2>2. calls # <<>> => calls[Len(calls)] \in Func
    BY DEF RestOK
  <2>3. executed' \in [Func -> Nat]
    BY <1>1, <2>2 DEF Dispatch, RestOK
  <2>4. /\ total_op_count' \in Nat /\ outside' \in Nat /\ phase' = "exec"
        /\ UNCHANGED <<stackVars, status, calls, irregular>>
    BY <1>1 DEF Dispatch, RestOK
  <2> QED
    BY <2>1, <2>3, <2>4 DEF TypeOK, IsCounts, stackVars
<1>2. CASE Abort
  BY <1>2 DEF TypeOK, Abort, stackVars
<1> QED
  BY <1>1, <1>2

\* The fields of the function stack always agree, for every size of it.
THEOREM ProfilerTypes == Spec => []TypeOK
<1>1. Init => TypeOK
  BY ProfilerAssumption DEF Init, TypeOK, CodeSize
<1>2. TypeOK /\ UNCHANGED vars => TypeOK'
  BY DEF TypeOK, vars, stackVars, countVars
<1>3. TypeOK /\ [Next]_vars => TypeOK'
  BY <1>2, NextCases, HandlerType, ApplyType, DispatchType
<1> QED
  BY <1>1, <1>3, PTL DEF Spec
-----------------------------------------------------------------------------
\* The strengthening of NoAbort: while no allocation has failed every
\* function on the function stack has its counts.
StackedHaveCounts ==
  "nomem" \notin irregular => \A s \in 0 .. top - 1 : stack_data[s] \in DOMAIN counts

\* Without a failed allocation ht_curr_inc_opcount finds the counts it asserts.
LEMMA TopHasCounts ==
  ASSUME TypeOK, StackedHaveCounts, "nomem" \notin irregular
  PROVE  HasCounts
<1>1. top > 0 => top - 1 \in 0 .. top - 1
  BY DEF TypeOK
<1> QED
  BY <1>1, ProfilerAssumption DEF TypeOK, StackedHaveCounts, HasCounts, isEmpty, peek

\* Every step keeps the functions on the stack in the table.
LEMMA NextStacked ==
  TypeOK /\ StackedHaveCounts /\ [Next]_vars => StackedHaveCounts'
<1> SUFFICES ASSUME TypeOK, StackedHaveCounts, [Next]_vars PROVE StackedHaveCounts'
  OBVIOUS
<1> USE TypeParts
<1>1. CASE UNCHANGED vars \/ Abort
  BY <1>1 DEF StackedHaveCounts, vars, stackVars, countVars, Abort
<1>2. CASE Dispatch
  <2>1. DOMAIN counts' = DOMAIN counts
    BY <1>2, DispatchCounts DEF RestOK
  <2>2. UNCHANGED <<stackVars, irregular>>
    BY <1>2 DEF Dispatch
  <2> QED BY <2>1, <2>2 DEF StackedHaveCounts, stackVars
<1>3. CASE Handler
  <2>1. /\ UNCHANGED countVars
        /\ func_stack_pop \/ UNCHANGED stackVars
        /\ "nomem" \notin irregular' => "nomem" \notin irregular
    BY <1>3, HandlerType
  <2>2. top' <= top /\ top' \in Nat /\ stack_data' = stack_data
    BY <2>1, ProfilerAssumption DEF func_stack_pop, stackVars, isEmpty, StackOK
  <2>3. \A s \in 0 .. top' - 1 : s \in 0 .. top - 1
    <3>1. \A m, n \in Nat : m <= n => \A s \in 0 .. m - 1 : s \in 0 .. n - 1
      OBVIOUS
    <3>2. top \in Nat
      BY ProfilerAssumption DEF StackOK
    <3> QED BY <2>2, <3>1, <3>2, Zenon
  <2> QED
    BY <2>1, <2>2, <2>3, Zenon DEF StackedHaveCounts, countVars
<1>4. CASE \E f \in Func : Apply(f)
  <2>1. PICK f \in Func : Apply(f)
    BY <1>4
  <2>2. /\ DOMAIN counts \subseteq DOMAIN counts'
        /\ irregular \subseteq irregular'
        /\ "nomem" \notin irregular' => stack_data'[top' - 1] \in DOMAIN counts'
    BY <2>1, ApplyType
  <2>3. func_stack_push(f)
    BY <2>1 DEF Apply
  <2>4. \A s \in 0 .. top' - 1 : s # top' - 1 => s \in 0 .. top - 1 /\ stack_data'[s] = stack_data[s]
    <3>1. CASE isFull
      BY <2>3, <3>1, ProfilerAssumption DEF func_stack_push, stackVars, StackOK
    <3>2. CASE ~isFull
      BY <2>3, <3>2, ProfilerAssumption DEF func_stack_push, isFull, StackOK
    <3> QED BY <3>1, <3>2
  <2> QED
    BY <2>2, <2>4 DEF StackedHaveCounts
<1> QED
  BY <1>1, <1>2, <1>3, <1>4, NextCases

\* The assertion of ht_curr_inc_opcount can fail only after an allocation has.
THEOREM ProfilerNoAbort == Spec => []NoAbort
<1>1. Init => StackedHaveCounts /\ NoAbort
  BY DEF Init, StackedHaveCounts, NoAbort
<1>2. TypeOK /\ StackedHaveCounts /\ NoAbort /\ [Next]_vars => NoAbort'
  <2> SUFFICES ASSUME TypeOK, StackedHaveCounts, NoAbort, [Next]_vars PROVE NoAbort'
    OBVIOUS
  <2>1. CASE Abort
    BY <2>1, TopHasCounts DEF Abort, NoAbort
  <2>2. CASE Handler
    BY <2>2 DEF NoAbort, Handler, Plain, Return, GrabPartial, Stop, ReturnInto,
                AppTerm, Raise, SwitchStack, ReturnSwitch, CheckStacks, Exec
  <2>3. CASE \E f \in Func : Apply(f)
    BY <2>3 DEF NoAbort, Apply, Exec
  <2>4. CASE Dispatch \/ UNCHANGED vars
    BY <2>4 DEF NoAbort, vars, Dispatch
  <2> QED
    BY <2>1, <2>2, <2>3, <2>4, NextCases
<1> QED
  BY <1>1, <1>2, NextStacked, ProfilerTypes, PTL DEF Spec
-----------------------------------------------------------------------------
\* Every step keeps function stack and calls equal, or is recorded as irregular.
LEMMA NextMirrors == TypeOK /\ MirrorsCalls /\ [Next]_vars => MirrorsCalls'
<1> SUFFICES ASSUME TypeOK, MirrorsCalls, [Next]_vars PROVE MirrorsCalls'
  OBVIOUS
<1> USE TypeParts
<1>1. top \in Nat /\ Len(calls) \in Nat /\ calls \in Seq(Func) /\ nr_items = top
  BY ProfilerAssumption DEF StackOK, RestOK
<1>2. CASE UNCHANGED vars \/ Abort \/ Dispatch
  BY <1>2 DEF MirrorsCalls, vars, stackVars, Abort, Dispatch
<1>3. CASE Plain \/ Stop \/ CheckStacks
  BY <1>3 DEF Plain, Stop, CheckStacks, MirrorsCalls, stackVars
<1>4. CASE Return
  <2>1. calls # <<>> /\ func_stack_pop /\ irregular' = irregular /\ calls' = CallsBut(1)
    BY <1>4 DEF Return
  <2>2. Len(calls) > 0
    BY <1>1, <2>1
  <2>3. /\ Len(calls') = Len(calls) - 1
        /\ \A j \in 1 .. Len(calls) - 1 : calls'[j] = calls[j]
    BY <1>1, <2>1, OneCallLess
  <2>4. ASSUME irregular \cap DepthBreakers = {}
        PROVE  top' = Len(calls')
    BY <1>1, <2>1, <2>2, <2>3, <2>4 DEF MirrorsCalls, func_stack_pop, isEmpty
  <2>5. ASSUME irregular = {}
        PROVE  \A s \in 0 .. top' - 1 : stack_data'[s] = calls'[s + 1]
    <3>1. top = Len(calls) /\ \A s \in 0 .. top - 1 : stack_data[s] = calls[s + 1]
      BY <2>5 DEF MirrorsCalls
    <3>2. top' = top - 1 /\ stack_data' = stack_data
      BY <1>1, <2>1, <2>2, <3>1 DEF func_stack_pop, isEmpty
    <3>3. \A s \in 0 .. top - 1 - 1 : stack_data[s] = calls[s + 1] /\ s + 1 \in 1 .. Len(calls) - 1
      BY <1>1, <3>1
    <3>4. \A s \in 0 .. top - 1 - 1 : stack_data[s] = calls'[s + 1]
      BY <2>3, <3>3
    <3> QED BY <3>2, <3>4
  <2> QED
    BY <2>1, <2>4, <2>5 DEF MirrorsCalls
<1>5. CASE \E f \in Func : AppTerm(f)
  <2>1. PICK f \in Func : AppTerm(f)
    BY <1>5
  <2>2. /\ calls # <<>> /\ UNCHANGED stackVars /\ "tail" \in irregular'
        /\ irregular' \cap DepthBreakers = irregular \cap DepthBreakers
        /\ calls' = Append(CallsBut(1), f)
    BY <2>1 DEF AppTerm, DepthBreakers
  <2>3. Len(calls) > 0
    BY <1>1, <2>2
  <2>4. Len(CallsBut(1)) = Len(calls) - 1 /\ CallsBut(1) \in Seq(Func)
    BY <1>1, <2>2, OneCallLess
  <2>5. Len(calls') = Len(calls)
    BY <1>1, <2>2, <2>4
  <2> QED
    BY <2>2, <2>5 DEF MirrorsCalls, stackVars
<1>6. CASE GrabPartial \/ SwitchStack \/ ReturnSwitch \/ \E f \in Func : ReturnInto(f)
  <2>1. GrabPartial => "partial" \in irregular'
    BY DEF GrabPartial
  <2>2. SwitchStack \/ ReturnSwitch => "switch" \in irregular'
    BY DEF SwitchStack, ReturnSwitch
  <2>3. \A f \in Func : ReturnInto(f) => "over" \in irregular'
    BY DEF ReturnInto
  <2>4. irregular' \cap DepthBreakers # {}
    BY <1>6, <2>1, <2>2, <2>3 DEF DepthBreakers
  <2> QED BY <2>4 DEF MirrorsCalls
<1>7. CASE Raise
  <2>1. PICK n \in 0 .. Len(calls) :
          /\ calls' = SubSeq(calls, 1, n)
          /\ irregular' = IF n < Len(calls) THEN irregular \cup {"raise"} ELSE irregular
    BY <1>7 DEF Raise
  <2>2. CASE n < Len(calls)
    <3>1. irregular' \cap DepthBreakers # {}
      BY <2>1, <2>2 DEF DepthBreakers
    <3> QED BY <3>1 DEF MirrorsCalls
  <2>3. CASE ~(n < Len(calls))
    <3>1. calls' = calls /\ irregular' = irregular
      BY <1>1, <2>1, <2>3
    <3>2. UNCHANGED stackVars
      BY <1>7 DEF Raise
    <3> QED BY <3>1, <3>2 DEF MirrorsCalls, stackVars
  <2> QED BY <2>2, <2>3
<1>8. CASE \E f \in Func : Apply(f)
  <2>1. PICK f \in Func : Apply(f)
    BY <1>8
  <2>2. /\ func_stack_push(f) /\ calls' = Append(calls, f)
        /\ irregular \subseteq irregular'
        /\ isFull => "full" \in irregular'
    BY <2>1 DEF Apply, array_alloc_op_counts
  <2>3. CASE isFull
    BY <2>2, <2>3 DEF MirrorsCalls, DepthBreakers
  <2>4. CASE ~isFull
    <3>1. /\ top' = top + 1
          /\ stack_data' = [stack_data EXCEPT ![top] = f]
          /\ top \in 0 .. MaxItems - 1
      BY <1>1, <2>2, <2>4, ProfilerAssumption DEF func_stack_push, isFull, StackOK
    <3>2. /\ Len(calls') = Len(calls) + 1 /\ calls'[Len(calls) + 1] = f
          /\ \A j \in 1 .. Len(calls) : calls'[j] = calls[j]
      BY <1>1, <2>2
    <3>3. irregular' \cap DepthBreakers = {} => top' = Len(calls')
      BY <2>2, <3>1, <3>2 DEF MirrorsCalls
    <3>4. ASSUME irregular' = {}
          PROVE  \A s \in 0 .. top : stack_data'[s] = calls'[s + 1]
      <4>1. top = Len(calls) /\ \A s \in 0 .. top - 1 : stack_data[s] = calls[s + 1]
        BY <2>2, <3>4 DEF MirrorsCalls
      <4>2. \A s \in 0 .. top - 1 : stack_data'[s] = stack_data[s] /\ s + 1 \in 1 .. Len(calls)
        BY <1>1, <3>1, <4>1, ProfilerAssumption DEF StackOK
      <4>3. stack_data'[top] = f
        BY <3>1 DEF StackOK
      <4>4. \A s \in 0 .. top - 1 : stack_data'[s] = calls'[s + 1]
        BY <3>2, <4>1, <4>2
      <4> QED BY <1>1, <3>2, <4>1, <4>3, <4>4
    <3>5. irregular' = {} => \A s \in 0 .. top' - 1 : stack_data'[s] = calls'[s + 1]
      <4>1. top' - 1 = top
        BY <1>1, <3>1
      <4> QED BY <3>4, <4>1
    <3> QED BY <3>3, <3>5 DEF MirrorsCalls
  <2> QED BY <2>3, <2>4
<1> QED
  BY <1>2, <1>3, <1>4, <1>5, <1>6, <1>7, <1>8 DEF Next

\* A regular run keeps the function stack equal to the calls.
THEOREM ProfilerMirrorsCalls == Spec => []MirrorsCalls
<1>1. Init => MirrorsCalls
  BY DEF Init, MirrorsCalls
<1> QED
  BY <1>1, NextMirrors, ProfilerTypes, PTL DEF Spec
-----------------------------------------------------------------------------
\* The number of instructions the profile gives f.
CountIn(c, f) == IF f \in DOMAIN c THEN c[f] ELSE 0

\* In a regular run an instruction is counted for the function executing it.
LEMMA DispatchExact ==
  ASSUME TypeOK, MirrorsCalls, AttributionExact, Dispatch, irregular = {}
  PROVE  \A f \in Func : executed'[f] = CountIn(counts', f)
<1> USE TypeParts
<1>1. \A f \in Func : executed[f] = CountIn(counts, f)
  BY DEF AttributionExact, CountIn
<1>2. /\ top \in Nat /\ nr_items = top /\ top = Len(calls) /\ calls \in Seq(Func)
      /\ \A s \in 0 .. top - 1 : stack_data[s] = calls[s + 1]
  BY ProfilerAssumption DEF StackOK, RestOK, MirrorsCalls
<1>3. CASE calls = <<>>
  <2>1. isEmpty
    BY <1>2, <1>3 DEF isEmpty
  <2> QED BY <1>1, <1>3, <2>1 DEF Dispatch
<1>4. CASE calls # <<>>
  <2> DEFINE g == calls[Len(calls)]
  <2>1. Len(calls) > 0 /\ g \in Func
    BY <1>2, <1>4
  <2>2. ~isEmpty /\ peek = g
    BY <1>2, <2>1 DEF isEmpty, peek
  <2>3. g \in DOMAIN counts
    BY <2>2 DEF Dispatch, HasCounts
  <2>4. /\ counts' = [counts EXCEPT ![g] = @ + 1]
        /\ executed' = [executed EXCEPT ![g] = @ + 1]
    BY <1>4, <2>2 DEF Dispatch
  <2>5. counts[g] \in Nat /\ executed[g] = counts[g]
    BY <1>1, <2>1, <2>3 DEF RestOK, IsCounts, CountIn
  <2> HIDE DEF g
  <2>6. DOMAIN counts' = DOMAIN counts /\ DOMAIN executed = Func
    BY <2>4 DEF RestOK
  <2>7. executed'[g] = CountIn(counts', g)
    BY <2>1, <2>3, <2>4, <2>5, <2>6 DEF CountIn
  <2>8. ASSUME NEW f \in Func, f # g PROVE executed'[f] = CountIn(counts', f)
    BY <1>1, <2>4, <2>6, <2>8 DEF CountIn
  <2> QED BY <2>7, <2>8
<1> QED
  BY <1>3, <1>4

\* Every step keeps the profile of a regular run exact.
LEMMA NextExact ==
  TypeOK /\ MirrorsCalls /\ AttributionExact /\ [Next]_vars => AttributionExact'
<1> SUFFICES ASSUME TypeOK, MirrorsCalls, AttributionExact, [Next]_vars, irregular' = {}
             PROVE  \A f \in Func : executed'[f] = CountIn(counts', f)
  BY DEF AttributionExact, CountIn
<1>1. CASE UNCHANGED vars \/ Abort
  BY <1>1 DEF AttributionExact, CountIn, vars, countVars, Abort
<1>2. CASE Dispatch
  BY <1>2, DispatchExact, Zenon DEF Dispatch
<1>3. CASE Handler
  <2>1. UNCHANGED <<counts, executed>> /\ irregular = {}
    BY <1>3, HandlerType DEF countVars
  <2> QED BY <2>1 DEF AttributionExact, CountIn
<1>4. CASE \E f \in Func : Apply(f)
  <2>1. PICK f \in Func : Apply(f)
    BY <1>4
  <2>2. /\ DOMAIN counts \subseteq DOMAIN counts'
        /\ \A g \in DOMAIN counts : counts'[g] = counts[g]
        /\ \A g \in DOMAIN counts' \ DOMAIN counts : counts'[g] = 0
        /\ irregular \subseteq irregular'
    BY <2>1, ApplyType
  <2>3. \A g \in Func : CountIn(counts', g) = CountIn(counts, g)
    BY <2>2 DEF CountIn
  <2>4. irregular = {} /\ executed' = executed
    BY <2>1, <2>2 DEF Apply
  <2> QED BY <2>3, <2>4 DEF AttributionExact, CountIn
<1> QED
  BY <1>1, <1>2, <1>3, <1>4, NextCases

\* The profile of a regular run gives every function the instructions it
\* executed, whatever the size of the function stack.
THEOREM ProfilerExact == Spec => []AttributionExact
<1>1. Init => AttributionExact /\ MirrorsCalls
  BY DEF Init, AttributionExact, MirrorsCalls
<1> QED
  BY <1>1, NextExact, NextMirrors, ProfilerTypes, PTL DEF Spec

\* The function stack and the counts are sound for every capacity of the stack
\* and every stream of instructions.
THEOREM ProfilerSound == Spec => []ProfileSound
<1>1. TypeOK /\ NoAbort /\ MirrorsCalls /\ AttributionExact => ProfileSound
  BY DEF ProfileSound
<1> QED
  BY <1>1, ProfilerTypes, ProfilerNoAbort, ProfilerMirrorsCalls, ProfilerExact, PTL
-----------------------------------------------------------------------------
\* What it is to be one of the instructions counted.
LEMMA CountedPair ==
  \A x : x \in Counted <=> \E f \in DOMAIN counts : \E n \in 1 .. counts[f] : x = <<f, n>>
  BY DEF Counted

\* The instruction that is dispatched is counted for the function on top, or
\* outside all functions.
LEMMA DispatchCountsOne ==
  ASSUME TypeOK, IsFiniteSet(Counted), Dispatch
  PROVE  /\ IsFiniteSet(Counted')
         /\ Cardinality(Counted') + outside' = Cardinality(Counted) + outside + 1
<1> USE TypeParts
<1>1. outside \in Nat /\ Cardinality(Counted) \in Nat
  BY FS_CardinalityType DEF RestOK
<1>2. CASE isEmpty
  <2>1. counts' = counts /\ outside' = outside + 1
    BY <1>2 DEF Dispatch
  <2>2. Counted' = Counted
    BY <2>1 DEF Counted
  <2> QED BY <1>1, <2>1, <2>2
<1>3. CASE ~isEmpty
  <2> DEFINE g == peek
             k == counts[g] + 1
  <2>1. /\ g \in DOMAIN counts /\ outside' = outside
        /\ counts' = [counts EXCEPT ![g] = k]
    BY <1>3 DEF Dispatch, HasCounts
  <2>2. \A f \in DOMAIN counts : counts[f] \in Nat
    BY DEF RestOK, IsCounts
  <2> HIDE DEF g
  <2>3. /\ DOMAIN counts' = DOMAIN counts /\ counts'[g] = k
        /\ \A f \in DOMAIN counts \ {g} : counts'[f] = counts[f]
    BY <2>1
  <2>4. 1 .. k = (1 .. counts[g]) \cup {k} /\ k \notin 1 .. counts[g]
    BY <2>1, <2>2
  <2> HIDE DEF k
  <2>5. \A x : x \in Counted' <=> \E f \in DOMAIN counts' : \E n \in 1 .. counts'[f] : x = <<f, n>>
    BY DEF Counted
  <2>6. Counted' = Counted \cup {<<g, k>>}
    <3>1. ASSUME NEW x \in Counted' PROVE x \in Counted \cup {<<g, k>>}
      <4>1. PICK f \in DOMAIN counts : \E n \in 1 .. counts'[f] : x = <<f, n>>
        BY <2>3, <2>5, <3>1
      <4>2. CASE f = g
        BY <2>1, <2>3, <2>4, <4>1, <4>2, CountedPair
      <4>3. CASE f # g
        BY <2>3, <4>1, <4>3, CountedPair
      <4> QED BY <4>2, <4>3
    <3>2. ASSUME NEW x \in Counted PROVE x \in Counted'
      <4>1. PICK f \in DOMAIN counts : \E n \in 1 .. counts[f] : x = <<f, n>>
        BY <3>2, CountedPair
      <4>2. \A n \in 1 .. counts[f] : n \in 1 .. counts'[f]
        BY <2>3, <2>4, <4>1
      <4> QED BY <2>3, <2>5, <4>1, <4>2
    <3>3. <<g, k>> \in Counted'
      BY <2>1, <2>3, <2>4, <2>5
    <3> QED BY <3>1, <3>2, <3>3
  <2>7. <<g, k>> \notin Counted
    BY <2>4, CountedPair
  <2>8. IsFiniteSet(Counted') /\ Cardinality(Counted') = Cardinality(Counted) + 1
    BY <2>6, <2>7, FS_AddElement
  <2> QED BY <1>1, <2>1, <2>8
<1> QED
  BY <1>2, <1>3

\* Every step keeps the total equal to what is counted.
LEMMA NextConserves ==
  ASSUME TypeOK, IsFiniteSet(Counted), Conservation, [Next]_vars
  PROVE  IsFiniteSet(Counted') /\ Conservation'
<1>1. CASE UNCHANGED vars \/ Abort
  <2>1. Counted' = Counted
    BY <1>1 DEF Counted, vars, countVars, Abort
  <2> QED BY <1>1, <2>1 DEF Conservation, vars, countVars, Abort
<1>2. CASE Dispatch
  <2>1. total_op_count' = total_op_count + 1 /\ status # "aborted"
    BY <1>2 DEF Dispatch
  <2>2. /\ IsFiniteSet(Counted')
        /\ Cardinality(Counted') + outside' = Cardinality(Counted) + outside + 1
    BY <1>2, DispatchCountsOne
  <2> QED BY <2>1, <2>2 DEF Conservation
<1>3. CASE Handler
  <2>1. UNCHANGED countVars
    BY <1>3, HandlerType
  <2>2. Counted' = Counted
    BY <2>1 DEF Counted, countVars
  <2>3. status = "running"
    BY <1>3 DEF Handler, Plain, Return, GrabPartial, Raise, SwitchStack, ReturnSwitch, CheckStacks,
                Stop, ReturnInto, AppTerm, Exec
  <2> QED BY <2>1, <2>2, <2>3 DEF Conservation, countVars
<1>4. CASE \E f \in Func : Apply(f)
  <2>1. PICK f \in Func : Apply(f)
    BY <1>4
  <2>2. /\ DOMAIN counts \subseteq DOMAIN counts'
        /\ \A g \in DOMAIN counts : counts'[g] = counts[g]
        /\ \A g \in DOMAIN counts' \ DOMAIN counts : counts'[g] = 0
    BY <2>1, ApplyType
  <2>3. \A x : x \in Counted' <=> \E g \in DOMAIN counts' : \E n \in 1 .. counts'[g] : x = <<g, n>>
    BY DEF Counted
  <2>4. \A g \in DOMAIN counts' \ DOMAIN counts : 1 .. counts'[g] = {}
    BY <2>2
  <2>5. Counted' = Counted
    BY <2>2, <2>3, <2>4, CountedPair
  <2>6. UNCHANGED <<total_op_count, outside, status>>
    BY <2>1 DEF Apply
  <2> QED BY <2>5, <2>6 DEF Conservation
<1> QED
  BY <1>1, <1>2, <1>3, <1>4, NextCases

\* In every run each instruction is counted once in the total, and once
\* either for a function or outside all functions (ht_curr_inc_opcount and
\* the increment of total_op_count in the dispatch loop).
THEOREM ProfilerConserves == Spec => []Conservation
<1>1. Init => IsFiniteSet(Counted) /\ Conservation
  <2> SUFFICES ASSUME Init PROVE IsFiniteSet(Counted) /\ Conservation
    OBVIOUS
  <2>1. DOMAIN counts = {}
    BY DEF Init
  <2>2. Counted = {}
    BY <2>1, CountedPair
  <2> QED BY <2>2, FS_EmptySet DEF Init, Conservation
<1>2. TypeOK /\ (IsFiniteSet(Counted) /\ Conservation) /\ [Next]_vars
        => (IsFiniteSet(Counted) /\ Conservation)'
  BY NextConserves
<1> QED
  BY <1>1, <1>2, ProfilerTypes, PTL DEF Spec
=============================================================================
