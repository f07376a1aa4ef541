----------------------------- MODULE Backtrace -----------------------------
(* Backtraces of the bytecode runtime (runtime/backtrace_byt.c and           *)
(* runtime/backtrace.c): the buffer filled when an exception is raised, the  *)
(* raw backtraces taken from it and put back, call stacks over fibers, and   *)
(* the table of debug information that turns an address into a location.     *)
EXTENDS Integers, Sequences, FiniteSets, SequencesExt, TLC

\* A world: the addresses of calls (calls) and of handlers (handlers) of the
\* main program and of code that may be loaded (plugin), the exceptions, the
\* size of the buffer, the events of both, how reading the main events ends,
\* and the number of steps, of nested traps in a fiber and of fibers.
CONSTANT Worlds

VARIABLES
    world,   \* the world chosen at the start; its steps are counted down
    fibers,  \* the current fiber and its parents: words, and calls (see below)
    cont,    \* the fibers of a continuation, or <<>>
    state,   \* the fields of Caml_state, and the exception being handled
    infos,   \* caml_debug_info: code ranges with their events
    held,    \* the raw backtrace the program holds, with what it should be
    out,     \* the last answer, with what it should be
    trace    \* what was raised and where, kept apart from the buffer
vars == <<world, fibers, cont, state, infos, held, out, trace>>

NULL == <<0>>
NoEvent == [pc |-> 0, lnum |-> 0]
NoExn == 0
Nothing == [k |-> "none"]

\* Words of a stack, most recent first: code addresses, integers, pointers.
Code(a) == [k |-> "code", v |-> a]
Long(n) == [k |-> "long", v |-> n]
Ptr == [k |-> "ptr", v |-> 0]
Frame(a) == <<Code(a), Ptr, Long(0)>>

\* A fiber: its words, and the calls and handlers it is made of.
Fiber(words, calls) == [words |-> words, calls |-> calls]
Entry(k, a) == [k |-> k, pc |-> a]
Current == fibers[1]
WithCurrent(f) == [fibers EXCEPT ![1] = f]

\* The word at an offset from Stack_high, and the offset of the top word.
Index(words, off) == Len(words) + off + 1
TopOff(words) == -Len(words)
Prefix(s, n) == IF n >= Len(s) THEN s ELSE SubSeq(s, 1, n)

-----------------------------------------------------------------------------
(* Debug information.                                                       *)
\* qsort with cmp_ev_info: by address, then by position.
Before(a, b) == a.pc < b.pc \/ (a.pc = b.pc /\ a.lnum < b.lnum)
process_debug_events(events) == SetToSortSeq(events, Before)

Info(start, end, events, read) ==
    [start |-> start, end |-> end, events |-> events, read |-> read]

caml_add_debug_info(start, end, events) ==
    Append(infos, Info(start, end, process_debug_events(events), 1))
caml_init_debug_info == <<Info(world.main[1], world.main[2], <<>>, 0)>>
caml_remove_debug_info(start) == SelectSeq(infos, LAMBDA d : d.start # start)

\* The index of the range that holds an address, 0 if there is none.
Found(ds, a) == {i \in DOMAIN ds : a >= ds[i].start /\ a < ds[i].end}
find_debug_info(ds, a) ==
    IF Found(ds, a) = {} THEN 0
    ELSE CHOOSE i \in Found(ds, a) : \A j \in Found(ds, a) : i <= j

\* The main events are read on demand; a failure is recorded, not retried.
read_main_debug_info(ds, i) ==
    IF world.reading = 1
      THEN [ds EXCEPT ![i].events = process_debug_events(world.events), ![i].read = 1]
      ELSE [ds EXCEPT ![i].read = world.reading]

\* Binary search for the last event at or below the address.
RECURSIVE Search(_, _, _, _)
Search(events, a, low, high) ==
    IF low + 1 >= high THEN low
    ELSE LET m == (low + high) \div 2
         IN IF a < events[m + 1].pc THEN Search(events, a, low, m)
            ELSE Search(events, a, m, high)

\* The instruction of an event may precede it by one.
event_for_location(events, a) ==
    LET low == Search(events, a, 0, Len(events))
    IN IF events = <<>> THEN NoEvent
       ELSE IF events[low + 1].pc \in {a, a + 1} THEN events[low + 1]
       ELSE IF low + 1 < Len(events) /\ events[low + 2].pc = a + 1
         THEN events[low + 2]
       ELSE NoEvent

-----------------------------------------------------------------------------
(* The buffer.                                                               *)
\* Addresses found from the top of the stack to the trap, in order.  Without
\* a trap, trap_sp_off is 1 and one word above the stack is read: a pointer.
CodeIn(words) == SelectSeq(words, LAMBDA w : w.k = "code" /\ find_debug_info(infos, w.v) # 0)
AboveTrap(words, off) == SubSeq(words, 1, IF off > 0 THEN Len(words)
                                          ELSE Index(words, off) - 1)
Addresses(ws) == [i \in DOMAIN ws |-> ws[i].v]

caml_alloc_backtrace_buffer(s, fails) ==
    [s EXCEPT !.buffer = IF fails THEN NULL ELSE <<>>,
              !.misused = @ \/ s.pos # 0]

Stashed(s, exn, words, reraise, fails) ==
    LET s1 == IF exn # s.last \/ ~reraise THEN [s EXCEPT !.pos = 0, !.last = exn] ELSE s
        s2 == IF s1.buffer = NULL THEN caml_alloc_backtrace_buffer(s1, fails) ELSE s1
        found == Addresses(CodeIn(AboveTrap(words, s.trap)))
        kept == Prefix(SubSeq(s2.buffer, 1, s2.pos) \o found, world.size)
    IN IF s2.buffer = NULL THEN s2
       ELSE [s2 EXCEPT !.buffer = kept, !.pos = Len(kept)]

\* A buffer that every raise starts again.
StashesAfresh(s, exn, words, reraise, fails) ==
    Stashed([s EXCEPT !.pos = 0], exn, words, reraise, fails)

caml_stash_backtrace(s, exn, words, reraise, fails) ==
    Stashed(s, exn, words, reraise, fails)

-----------------------------------------------------------------------------
(* Call stacks.                                                              *)
\* The scan of one fiber: trap frames are skipped as they are met, trap_spoff
\* then being what the frame links to.
RECURSIVE Scan(_, _, _)
Scan(words, i, off) ==
    IF i > Len(words) THEN <<>>
    ELSE IF words[i].k # "code" THEN Scan(words, i + 1, off)
    ELSE IF i = Index(words, off) THEN Scan(words, i + 1, words[i + 1].v)
    ELSE IF find_debug_info(infos, words[i].v) # 0
      THEN <<words[i].v>> \o Scan(words, i + 1, off)
    ELSE Scan(words, i + 1, off)

\* get_callstack: the fiber, then its parents, whose offset is their top word.
\* The offset is a number; the link and the top word hold 2 * n + 1.
Long_val(v) == (v - 1) \div 2
Val_long(n) == 2 * n + 1
RECURSIVE get_callstack(_, _)
get_callstack(fs, off) ==
    IF fs = <<>> THEN <<>>
    ELSE Scan(Head(fs).words, 1, off)
           \o (IF Len(fs) = 1 THEN <<>>
               ELSE get_callstack(Tail(fs), Long_val(fs[2].words[1].v)))

\* What the program is executing: its calls, the most recent first.
CallsOf(fs) == FlattenSeq([i \in DOMAIN fs |->
                 [j \in DOMAIN SelectSeq(fs[i].calls, LAMBDA e : e.k = "call") |->
                    SelectSeq(fs[i].calls, LAMBDA e : e.k = "call")[j].pc]])

-----------------------------------------------------------------------------
(* The program.                                                              *)
Steps == world.steps > 0
Step == world' = [world EXCEPT !.steps = @ - 1]
Depth(k) == Cardinality({i \in DOMAIN Current.calls : Current.calls[i].k = k})

Call(a) ==
    /\ Steps /\ Step
    /\ fibers' = WithCurrent(Fiber(<<Ptr>> \o Frame(a) \o Current.words,
                                   <<Entry("call", a)>> \o Current.calls))
    /\ UNCHANGED <<cont, state, infos, held, out, trace>>

PushTrap(h) ==
    /\ Steps /\ Step /\ Depth("trap") < world.traps
    /\ LET words == <<Code(h), Long(Val_long(state.trap)), Ptr, Long(0)>> \o Current.words
       IN /\ fibers' = WithCurrent(Fiber(words, <<Entry("trap", h)>> \o Current.calls))
          /\ state' = [state EXCEPT !.trap = TopOff(words)]
    /\ UNCHANGED <<cont, infos, held, out, trace>>

PopTrap ==
    /\ Steps /\ Step /\ state.trap < 0 /\ Index(Current.words, state.trap) = 1
    /\ fibers' = WithCurrent(Fiber(SubSeq(Current.words, 5, Len(Current.words)),
                                   Tail(Current.calls)))
    /\ state' = [state EXCEPT !.trap = Long_val(Current.words[2].v)]
    /\ UNCHANGED <<cont, infos, held, out, trace>>

\* A new fiber runs; the current one becomes its parent.
Suspended(a) == Fiber(<<Long(Val_long(state.trap)), Long(Val_long(0))>> \o Frame(a)
                        \o Current.words,
                      <<Entry("call", a)>> \o Current.calls)
NewFiber(a) ==
    /\ Steps /\ Step /\ Len(fibers) < world.fibers
    /\ fibers' = <<Fiber(<<>>, <<>>), Suspended(a)>> \o Tail(fibers)
    /\ state' = [state EXCEPT !.trap = 1]
    /\ UNCHANGED <<cont, infos, held, out, trace>>

\* PERFORM: the fiber is captured, its parent runs.
Perform(a) ==
    /\ Steps /\ Step /\ Len(fibers) > 1 /\ cont = <<>>
    /\ cont' = <<Fiber(<<Long(Val_long(state.trap))>> \o Frame(a) \o Current.words,
                       <<Entry("call", a)>> \o Current.calls)>>
    /\ fibers' = <<Fiber(<<Ptr, Ptr, Ptr>> \o SubSeq(fibers[2].words, 3, Len(fibers[2].words)),
                         fibers[2].calls)>>
                   \o SubSeq(fibers, 3, Len(fibers))
    /\ state' = [state EXCEPT !.trap = Long_val(fibers[2].words[1].v)]
    /\ UNCHANGED <<infos, held, out, trace>>

\* RAISE, RERAISE, RAISE_NOTRACE and what follows: the trap, or the parent's
\* exception handler, or the end of the program.
Unwound(s, exn) ==
    IF s.trap > 0
      THEN IF Len(fibers) = 1
             THEN [fs |-> <<>>, s |-> [s EXCEPT !.caught = NoExn, !.ended = TRUE]]
             ELSE LET up == fibers[2]
                  IN [fs |-> <<Fiber(<<Ptr>> \o SubSeq(up.words, 3, Len(up.words)), up.calls)>>
                               \o SubSeq(fibers, 3, Len(fibers)),
                      s |-> [s EXCEPT !.caught = exn, !.trap = Long_val(up.words[1].v)]]
      ELSE LET i == Index(Current.words, s.trap)
               t == CHOOSE j \in DOMAIN Current.calls :
                      /\ Current.calls[j].k = "trap"
                      /\ \A x \in 1..(j - 1) : Current.calls[x].k # "trap"
           IN [fs |-> WithCurrent(Fiber(SubSeq(Current.words, i + 4, Len(Current.words)),
                                        SubSeq(Current.calls, t + 1, Len(Current.calls)))),
               s |-> [s EXCEPT !.caught = exn, !.trap = Long_val(Current.words[i + 1].v)]]

\* What a traced raise adds: its address, and the calls above the handler.
RECURSIVE ToHandler(_)
ToHandler(calls) ==
    IF calls = <<>> \/ Head(calls).k = "trap" THEN <<>>
    ELSE <<Head(calls).pc>> \o ToHandler(Tail(calls))

Traced(t, exn, reraise, part, recorded) ==
    [exn |-> exn, at |-> IF ~recorded THEN <<>>
                         ELSE IF reraise /\ t.exn = exn THEN t.at \o part ELSE part]

Raise(a, exn, kind, fails) ==
    LET traced == state.active /\ kind # "notrace"
        s == IF traced
               THEN caml_stash_backtrace(state, exn, <<Code(a)>> \o Current.words,
                                         kind = "reraise", fails)
               ELSE state
        u == Unwound(s, exn)
    IN /\ Steps /\ Step
       /\ kind = "reraise" => exn = state.caught
       /\ state' = u.s /\ fibers' = u.fs
       /\ trace' = IF traced
                     THEN Traced(trace, exn, kind = "reraise",
                                 <<a>> \o ToHandler(Current.calls), s.buffer # NULL)
                     ELSE trace
       /\ UNCHANGED <<cont, infos, held, out>>

-----------------------------------------------------------------------------
(* The primitives.                                                           *)
caml_record_backtraces(flag) ==
    /\ Steps /\ Step
    /\ IF flag # state.active
         THEN /\ state' = [state EXCEPT !.active = flag, !.pos = 0, !.last = NoExn]
              /\ trace' = [exn |-> NoExn, at |-> <<>>]
         ELSE UNCHANGED <<state, trace>>
    /\ UNCHANGED <<fibers, cont, infos, held, out>>

\* The allocation of the result may run a finaliser that raises and catches
\* another exception, at a.
FinalExn == 99
caml_get_exception_raw_backtrace(finaliser, a) ==
    LET raw == IF ~state.active \/ state.buffer = NULL \/ state.pos = 0 THEN <<>>
               ELSE SubSeq(state.buffer, 1, state.pos)
    IN /\ Steps /\ Step
       /\ held' = [raw |-> raw, should |-> IF state.active THEN trace.at ELSE <<>>]
       /\ IF finaliser /\ state.active
            THEN /\ state' = [caml_stash_backtrace([state EXCEPT !.trap = 1], FinalExn,
                                                   <<Code(a)>>, FALSE, FALSE)
                                EXCEPT !.trap = state.trap]
                 /\ trace' = [exn |-> FinalExn, at |-> <<a>>]
            ELSE UNCHANGED <<state, trace>>
       /\ UNCHANGED <<fibers, cont, infos, out>>

caml_restore_raw_backtrace(exn, fails) ==
    LET bt == Prefix(held.raw, world.size)
        s == [state EXCEPT !.last = exn]
        b == IF s.buffer = NULL /\ bt # <<>> THEN caml_alloc_backtrace_buffer(s, fails) ELSE s
    IN /\ Steps /\ Step
       /\ state' = IF bt = <<>> THEN [s EXCEPT !.pos = 0]
                   ELSE IF b.buffer = NULL THEN b
                   ELSE [b EXCEPT !.pos = Len(bt), !.buffer = bt]
       /\ trace' = [exn |-> exn, at |-> IF bt # <<>> /\ b.buffer = NULL THEN trace.at
                                        ELSE held.should]
       /\ UNCHANGED <<fibers, cont, infos, held, out>>

\* Setup_for_c_call pushes the environment and the address of the call.
caml_get_current_callstack(a, max) ==
    LET here == WithCurrent([Current EXCEPT !.words = <<Ptr, Code(a)>> \o @])
    IN /\ Steps /\ Step
       /\ out' = [k |-> "stack", is |-> Prefix(get_callstack(here, state.trap), max),
                  should |-> Prefix(<<a>> \o CallsOf(fibers), max)]
       /\ UNCHANGED <<fibers, cont, state, infos, held, trace>>

caml_get_continuation_callstack(max) ==
    /\ Steps /\ Step /\ cont # <<>>
    /\ out' = [k |-> "stack",
               is |-> Prefix(get_callstack(cont, Long_val(cont[1].words[1].v)), max),
               should |-> Prefix(CallsOf(cont), max)]
    /\ UNCHANGED <<fibers, cont, state, infos, held, trace>>

\* The slots of the held backtrace are turned into locations, one by one.
caml_debuginfo_location(ds, d, a) ==
    IF d = 0 THEN NoEvent ELSE event_for_location(ds[d].events, a)

caml_convert_raw_backtrace(i) ==
    LET a == held.raw[i]
        d == find_debug_info(infos, a)
        ds == IF d # 0 /\ infos[d].read = 0 THEN read_main_debug_info(infos, d) ELSE infos
        Exact == {e \in ToSet(ds[d].events) : e.pc = a}
        Next1 == {e \in ToSet(ds[d].events) : e.pc = a + 1}
    IN /\ Steps /\ Step
       /\ infos' = ds
       /\ out' = [k |-> "location",
                  is |-> caml_debuginfo_location(ds, d, a),
                  among |-> IF d = 0 THEN {NoEvent}
                            ELSE IF Exact # {} THEN Exact
                            ELSE IF Next1 # {} THEN Next1 ELSE {NoEvent}]
       /\ UNCHANGED <<fibers, cont, state, held, trace>>

\* Code is loaded and released; the program holds no frame in released code.
InPlugin(a) == a >= world.plugin[1] /\ a < world.plugin[2]
LoadPlugin ==
    /\ Steps /\ Step /\ Len(infos) = 1
    /\ infos' = caml_add_debug_info(world.plugin[1], world.plugin[2], world.pevents)
    /\ UNCHANGED <<fibers, cont, state, held, out, trace>>

ReleasePlugin ==
    /\ Steps /\ Step /\ Len(infos) = 2
    /\ \A i \in DOMAIN CallsOf(fibers \o cont) : ~InPlugin(CallsOf(fibers \o cont)[i])
    /\ infos' = caml_remove_debug_info(world.plugin[1])
    /\ UNCHANGED <<fibers, cont, state, held, out, trace>>

-----------------------------------------------------------------------------
Init ==
    /\ world \in Worlds
    /\ fibers = <<Fiber(<<>>, <<>>)>> /\ cont = <<>>
    /\ state = [active |-> world.active, buffer |-> NULL, pos |-> 0, last |-> NoExn,
                trap |-> 1, caught |-> NoExn, ended |-> FALSE, misused |-> FALSE]
    /\ infos = caml_init_debug_info
    /\ held = [raw |-> <<>>, should |-> <<>>]
    /\ out = Nothing
    /\ trace = [exn |-> NoExn, at |-> <<>>]

\* The addresses the program can be at.
Known == {a \in world.calls : find_debug_info(infos, a) # 0}
Does(k) == k \in world.does /\ ~state.ended
Next ==
    \/ Does("call") /\ \E a \in Known : Call(a)
    \/ Does("trap") /\ \E h \in world.handlers : PushTrap(h)
    \/ Does("trap") /\ PopTrap
    \/ Does("fiber") /\ \E a \in Known : NewFiber(a)
    \/ Does("fiber") /\ \E a \in Known : Perform(a)
    \/ /\ Does("raise")
       /\ \E a \in Known, exn \in world.exns,
             kind \in {"raise", "reraise", "notrace"}, fails \in world.fails :
               Raise(a, exn, kind, fails)
    \/ Does("record") /\ \E flag \in BOOLEAN : caml_record_backtraces(flag)
    \/ /\ Does("raw")
       /\ \E fin \in BOOLEAN, a \in Known : caml_get_exception_raw_backtrace(fin, a)
    \/ /\ Does("raw")
       /\ \E exn \in world.exns, fails \in world.fails : caml_restore_raw_backtrace(exn, fails)
    \/ /\ Does("stack")
       /\ \E a \in Known, max \in world.maxes : caml_get_current_callstack(a, max)
    \/ Does("stack") /\ \E max \in world.maxes : caml_get_continuation_callstack(max)
    \/ Does("locate") /\ \E i \in DOMAIN held.raw : caml_convert_raw_backtrace(i)
    \/ Does("load") /\ LoadPlugin
    \/ Does("load") /\ ReleasePlugin

Spec == Init /\ [][Next]_vars

-----------------------------------------------------------------------------
\* The buffer holds, for the last exception raised with a trace, where it was
\* raised and every call between there and the handler, then the same for each
\* time it was raised again, up to the size of the buffer: whatever other
\* exceptions, finalisers, restored backtraces and failed allocations came
\* before.  A buffer is only allocated when nothing is recorded
\* (CAMLassert of caml_alloc_backtrace_buffer).
TraceRight ==
    /\ ~state.misused
    /\ state.buffer = NULL => state.pos = 0
    /\ state.pos > 0 => SubSeq(state.buffer, 1, state.pos) = Prefix(trace.at, world.size)
    /\ state.pos = 0 => trace.at = <<>>
    /\ held.raw = Prefix(held.should, world.size)

\* A call stack lists the calls of the fiber and of its parents, in order; a
\* location is the event of the address, or of the one after it.
AnswersRight ==
    /\ out.k = "stack" => out.is = out.should
    /\ out.k = "location" => out.is \in out.among

\* Backtraces and call stacks are those of the calls (caml_stash_backtrace,
\* get_callstack, event_for_location).
BacktraceRight == TraceRight /\ AnswersRight
=============================================================================
