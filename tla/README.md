# A verification of the instrumented OCaml bytecode interpreter and its runtime

The repository holds an OCaml 5 bytecode interpreter (`src/interp.c`) that has
been instrumented to count, per function, the instructions it executes. Beside
it are exercises that led to it (a stack machine, a scanner for Lox, a
quicksort to profile), scripts that read disassemblies, and a copy of the OCaml
sources the interpreter is built with (`src/ocaml/`).

This directory models the interpreter, its instrumentation, the runtime it runs
in (domains, collectors, threads, channels, marshalling, ...) and the C programs
around it (`ocamlyacc`, `Str`, the lexing and parsing engines). It model-checks
the models with TLC on small instances, and proves the main results about three
of them with TLAPS for every instance.

## The system and its parts

`caml_interprete` is a loop: it fetches an instruction, counts it, and runs its
handler. Handlers work on registers (`pc`, `accu`, `env`, `extra_args`, `sp`,
`trap_sp_off`) and on the stack of the current fiber; some allocate, and an
allocation may start a collection, which moves every block, or run a signal
handler, which is a callback: a new activation of `caml_interprete` on the same
stack. C primitives call back in the same way. Effects switch stacks.

The instrumentation keeps a *function stack*: `APPLY*` push the code pointer of
the function called and make sure that it has an array of counts in a *hash
table*; `RETURN` pops; the dispatch loop adds one to the array of the function
on top. `STOP` prints the table and destroys it.

Several *domains* may run the loop at once, each with its minor heap. A minor
collection and the end of a cycle of the major collector are *stop-the-world
sections*: the domain that asks interrupts the others and all meet at barriers;
a *backup thread* serves the interrupts of a domain that is blocked in C. The
threads of one domain share it through a *master lock*.

| part | source | modules | proofs |
|---|---|---|---|
| hash table | `interp.c` 397-595, 1984-2016 | `HashTable`, `AbstractMap`, `MCHashTable` | `HashTableProofs`, `HashTableRefinement` |
| function stack and counts | `interp.c` 250-387, 596-646 and the handlers that use them | `Profiler`, `MCProfiler` | `ProfilerProofs` |
| instructions, fibers, exceptions, effects, allocation, signals, callbacks | `interp.c` 680-2199, `runtime/{callback,fail_byt,fiber,signals}.c` | `InterpState`, `InterpData`, `InterpCalls`, `InterpControl`, `Interp`, `MCInterp` | |
| method lookup | `interp.c` 1918-1980, `stdlib/camlinternalOO.ml` | `MethodCache`, `MCMethodCache` | `MethodCacheProofs` |
| domains, stop-the-world sections, backup threads | `runtime/{domain,signals,minor_gc,major_gc}.c` | `Domains`, `MCDomains` | |
| major collector, ephemerons | `runtime/{major_gc,weak,finalise,memory,domain}.c` | `MajorGC`, `MCMajorGC` | |
| minor collector | `runtime/minor_gc.c` | `MinorGC`, `MCMemory` | |
| shared heap | `runtime/shared_heap.c` | `SharedHeap`, `MCMemory` | |
| global roots, finalisers, module `Gc` | `runtime/{globroots,skiplist,finalise,custom,gc_ctrl}.c` | `Finalise`, `MCMemory` | |
| arrays, allocation, write barrier | `runtime/{array,alloc,obj,memory}.c` | `Arrays`, `MCMemory` | |
| out-of-heap pool | `runtime/memory.c` | `StatPool`, `MCMemory` | |
| comparison and hashing | `runtime/{compare,hash}.c` | `Compare`, `MCMemory` | |
| marshalling | `runtime/{extern,intern}.c` | `Marshal`, `MCMemory` | |
| bigarrays, mapped files | `runtime/bigarray.c`, `otherlibs/unix/mmap*.c` | `Bigarray`, `MCMemory` | |
| code fragments, lock-free skip lists | `runtime/{codefrag,lf_skiplist}.c` | `CodeFragments`, `MCMemory` | |
| threads, signals, mutexes, conditions | `otherlibs/systhreads`, `runtime/{signals,sync}.c` | `Threads`, `MCTools` | |
| channels | `runtime/{io,unix}.c` | `Channels`, `MCTools` | |
| `Unix.select` on Windows | `otherlibs/win32unix/{select,winworker,winlist}.c` | `WinSelect`, `MCTools` | |
| `ocamlyacc`, parsing engine | `yacc/*.c`, `runtime/parsing.c` | `YaccReader`, `Yacc`, `Parsing`, `MCTools` | |
| `Str` | `otherlibs/str` | `Regexp`, `MCTools` | |
| lexing engines, Lox scanner | `runtime/lexing.c`, `crafting-interp/lox/Scanner.java` | `Lexers`, `MCTools` | |
| debugged program | `runtime/{debugger,meta}.c`, `EVENT` and `BREAK` of `interp.c` | `Debugger`, `MCTools` | |
| backtraces | `runtime/backtrace{,_byt}.c` | `Backtrace`, `MCTools` | |
| start-up, dynamic libraries | `runtime/{startup_byt,startup_aux,dynlink}.c` | `Startup`, `MCTools` | |
| integer instructions | `interp.c` 1612-1615, 1817-1895 | `Words`, `Arithmetic`, `MCTools` | |
| integer and string primitives | `runtime/{ints,str,alloc}.c` | `Primitives`, `MCTools` | |

`PROJECT.json` maps every definition to the lines it stands for, and lists the
parts that are not modelled, with the reason, and the hazards of the code with
the properties that would show them.

How the models fit together. `HashTable` is shown to implement `AbstractMap`,
an atomic map; `Profiler` uses such a map for its counts. `Words` gives the
arithmetic that `InterpData` uses. The interpreter is one specification split
over five modules, each extending the one before. It leaves the instrumentation
out: the instrumentation reads the registers and never writes them, so that
`Profiler`, driven by an arbitrary stream of instructions, covers every program
of the interpreter. `YaccReader`, `Yacc` and `Parsing` are one pipeline, from a
grammar to a parse. Where one module needs what another takes apart, it has it
in one step: a collection is one step of `Interp`, `Arrays` and `Finalise`, the
minor collection of a section is one step of `Domains`, and `MinorGC` and
`MajorGC` show what that step does.

## The runs

| run | module | checks |
|---|---|---|
| `hash_table` | `MCHashTable` | `TableSound`, `ReportComplete`, `RefinesMap`, `CallsReturn` |
| `profiler` | `MCProfiler` | `ProfileSound`, `Conservation` |
| `interp` | `MCInterp` | `NoDangling`, `StacksRight`, `ResultRight`, `SignalsCounted` |
| `interp_signals` | `MCInterp` | `SignalTrapped`, `Terminates` |
| `method_cache` | `MCMethodCache` | `CacheSound`, `LookupReturns` |
| `domains` | `MCDomains` | `StopTheWorld`, `Assertions`, `SectionEnds`, `HandshakesEnd` |
| `major_gc` | `MCMajorGC` | `CollectsRight`, `PhasesAgree`, `CyclesEnd` |
| `memory` | `MCMemory` | one property for each of its nine parts |
| `tools` | `MCTools` | one property for each of its ten groups of parts |
| `interp_perform`, `interp_poptrap`, `ephe_handover` | | three disagreements of code and comments |

`memory` and `tools` are sums: a behaviour is one of one part, chosen at the
start, so that each part is checked as if alone. The instances of a part (its
*worlds*: heaps, programs of threads, texts, faults and how often each may
happen) are values of a constant of its module, and are the bounds of the run.

## The hash table

State: `entries`, `capacity`, `length` of the `ht`, and the locals of the call
in progress. A step is one iteration of a loop of the code, so that a call of
`ht_get` or `ht_set` takes several steps (`GetProbe`, `GetHit`, `GetMiss`;
`SetProbe`, `SetUpdate`, `SetInsert`), and a rehash, which goes over the old
array (`RehashSkip`, `RehashEntry`) and probes in the new one (`ReinsertProbe`,
`Reinsert`), is visible half-way through. `ExpandFail` is a failed `calloc` or
a doubling that overflows `size_t`. `Stop`, `Scan` and `ht_destroy` are what
`STOP` does with the table. `hash_key`, in `MCHashTable`, is the function as
it runs: the comments of the file speak of FNV, but the code is a sequence of
shifts. Not modelled: a failing `malloc` in `ht_create`, whose NULL the program
never looks at.

Run `hash_table`: four keys that share homes, so that probes collide and wrap;
growth from 2 to 4 and 8 slots and the overflow of the next doubling (`SizeMod`
= 16 stands for 2^64). The keys are not aligned, as code pointers are: aligned
ones would not reach the last slot of so small a table. `TableSound` is the
conjunction of the types and the first three of these:

- `WellFormed`: no key is stored twice, and from the home slot of a stored key
  to its slot there is no empty one; also while another call is half done;
- `MissMeansAbsent`: a probe that stops at an empty slot stops for a key that is
  not in the table;
- `LoadBound`, `RehashExact`: `length` counts the occupied slots, at most half
  of them; a rehash has moved exactly the entries it has passed;
- `ReportComplete`: `STOP` prints each function once and their number right;
- `RefinesMap`: the table implements `AbstractMap`;
- `CallsReturn`: every call returns, when the thread that made it goes on
  (weak fairness of the steps of a call).

## The profiler

State: the four fields of the function stack (`stack_data`, `top`, `nr_items`,
`cur_size_bytes`), the counts, `total_op_count`. Four variables record what
really happened and have no counterpart in the code: `calls`, the functions
being executed, `executed`, the instructions of each, `outside`, those outside
all functions, and `irregular`, the kinds of event the instrumentation does not
follow. `Dispatch` is the head of the loop with its assertion (`Abort` when it
fails); `Apply`, `Return`, `ReturnInto` (a return that applies the result to
further arguments), `AppTerm`, `GrabPartial`, `Raise`, `SwitchStack`,
`ReturnSwitch`, `Plain` and `Stop` are the handlers, by what they do to the
function stack. Of an array of counts the model keeps the sum.

Run `profiler` (a function stack of 2 slots instead of 1024, 2 functions, 5
instructions, 3 calls: the stack overflows, underflows and mixes both).
`ProfileSound` is `NoAbort`, the assertion holds unless an allocation failed;
`MirrorsCalls`, in a run without the irregular events the function stack is the
call stack; `AttributionExact`, in such a run the profile is exact.
`Conservation`: in every run each instruction is counted once. The model stops
at `STOP`, at an uncaught exception and at its bound on instructions, hence
`CHECK_DEADLOCK FALSE`.

The conditions of these properties are needed. With a tail call, a partial or
over-application, an exception or an effect the counts go to the wrong function,
although the code says it prints "the total opcounts with respective functions"
(`interp.c` 1988). After a failed allocation the assertion of
`ht_curr_inc_opcount` fails, because the failure is printed and then ignored.

## The interpreter

`InterpState` has the state and what the rest is built from; `InterpData` the
loads, stores, blocks, jumps and integer operations; `InterpCalls` calls,
returns, closures and the instructions that allocate; `InterpControl`
exceptions, effects and `check_stacks`; `Interp` the runtime around them, the
specification and the properties.

- A word is a pair of its kind and its content, so that what a program may do
  with it depends on its kind. A stack is a sequence, its head the word at `sp`;
  `trap_sp_off` and the links of trap frames are offsets from the other end, as
  in the code.
- The variable `at` is the place in the C code. An instruction that is one
  uninterrupted piece of C is one step, from `"fetch"` to `"fetch"`. One that
  allocates goes through `"alloc"`, where `EnterGC` may take it to the collector
  (`"gc"`), the pending signals (`"pending"`) and back; what it keeps in C
  locals across the allocation is in `locals`. A function entry goes through
  `"check"`, a C call through `"prim"` and `"primret"`.
- `Collect` gives every reachable block a new address and forgets the others.
  The roots are those `Setup_for_gc`, `Setup_for_c_call` and `Setup_for_event`
  leave for the collector: the words of the stacks, the globals, the C locals
  registered as roots. A register that is not saved is `Stale` afterwards.
- `frames` are the C frames of callbacks: `caml_callbackN_exn` pushes one,
  `Return` pops it. `callback_narg` is the operand that all callbacks write into
  the same `callback_code`.
- `Signal` is `caml_record_signal`. It may come at any step, also while the
  signal is blocked: another thread may receive it, or it comes just before the
  mask is set.
- A program is a variable that never changes: a set of programs is checked in
  one run. `MCInterp` holds them, in bytecode as `Bytegen` emits it, each with
  the OCaml text it comes from and the value it must leave in a global.
  `Assemble` resolves labels, as `Emitcode` does, and begins each block with its
  call of `caml_ensure_stack_capacity`.
- The short forms of an instruction (`ACC3`, `PUSHCONST0`) are the general form
  with that operand. Code pointers count instructions, not words.
- Registers that `longjmp` may leave undefined, because they are not `volatile`,
  are taken to keep their values, as they do in the build. The loop modelled is
  the one without `THREADED_CODE`, which the debug build uses.

| programs of | are | signals, collections |
|---|---|---|
| `interp` (`Basics`) | calls with too few and too many arguments, mutual recursion, lists, data, exceptions, stack overflow, callbacks that raise, a loop | 2, 2 |
| `interp` (`Effects(Large)`) | effects handled, reperformed, unhandled, performed in a callback; a continuation used twice | 2, 2 |
| `interp` (`Effects(Grows)`) | the same, on stacks that must grow | 0, 3 |
| `interp_signals` | handlers that raise, handlers with a `try` | 1, 2 |

`NoDangling`: no word a program can use is a pointer to a block that has moved
or gone. `StacksRight` joins `OneOwner`: a stack is run, or has one child, or is
in one continuation, or waits in one callback; `TrapsRight`: the trap of the
running fiber, and all it links to, are trap frames of that fiber and of the
running activation; `CallbacksBalanced`: an activation ends on the fiber and at
the depth where it began; and `SpInStack`, the assertion of the dispatch loop.
`SignalsCounted`: no signal is lost or handled twice. `ResultRight`: a program
computes what it computes without signals and collections. `SignalTrapped`: what
a handler raises is trapped by the `try` being run. `Terminates` assumes weak
fairness of the interpreter's thread: the operating system runs it again and
again.

The bounds: two signals are what it takes for one to come during the handler of
another, two collections for one to happen in a handler and one around it; the
heap is as large as the programs need. Words have 8 bits. `StackThreshold` has
its value in the code, 16. Every block of code starts with a call of
`caml_ensure_stack_capacity`, as `comp_block` emits it, for 18 words: the code
asks for the words of the block and a margin of 60, which with the stacks in use
here would leave `check_stacks` nothing to do. New stacks have 24 words and may
double once (`Small`, `Grows`), so that they grow in both places and overflow in
both, or have 60 and never grow (`Large`).

Two runs show disagreements with what the code says. `interp_perform`: `PERFORM`
reads the current stack before it allocates; a signal handler that runs in that
allocation may make the stack grow, which frees the one `PERFORM` has read, and
an assertion of the dispatch loop fails when the continuation is resumed.
`interp_poptrap`: in the handler of a signal that has come again, `POPTRAP` is
restarted "after processing the signal" for ever, because that signal is
blocked and is not processed. For this reason the effects on stacks that grow
have no signals, and `interp_signals` only one.

## Method lookup

`GETPUBMET` keeps the place where it last found a method in the code itself,
which all domains share without any order. A step of `MethodCache` is one access
to the cache or one turn of the binary search. A place is the number of a
method; the mask in a method table, of the lowest bits, is a remainder, which
`FitAssumption` justifies from `fit_size`. Run `method_cache` has two domains,
two call sites and three classes in which the methods have different places.
`CacheSound` is `LookupRight`, a lookup finds the method of the object's own class; `InTable`,
it reads only fields of the method table, although the cached place may come
from a longer one; `LookupReturns`, the search ends (weak fairness of a domain's
steps).

## Domains

An actor of `Domains` is a thread of a domain or a backup thread, and a step is
what it does between two accesses of shared memory: `all_domains_lock` and the
domain locks with their condition variables, `stw_leader`, `interrupt_pending`,
the barrier's word, the message to the backup thread. A domain is spawned,
possibly in vain (`CommitFails`, `CreateFails`), asks for a minor collection or
the end of a cycle, blocks and returns, and terminates. Two slots are enough for
a slot to be used again while the backup thread of its last domain is still
finishing. The five scenarios of `MCDomains` spread spawns, requests, cycles,
blocking sections, spurious wake-ups and failures over the runs, because all of
them together have too many states.

`StopTheWorld`: no OCaml code runs while a participant works in the section;
each participant, and nobody else, serves it once; the barrier separates its
phases; whoever works for a slot holds its lock; `caml_domain_alone` is true for
one domain only. `Assertions`: those of `domain.c`, but for the one listed
under "Disagreements". `SectionEnds` and `HandshakesEnd`: sections, spawns and
terminations come to an end. Fairness is weak for the steps of all actors, and
strong for the acquisition of a mutex, since a mutex that is free again and
again goes to each thread that waits in the end; the program's own choice to
call, block or return is not fair. The instances are programs that end, hence
`CHECK_DEADLOCK FALSE`.

## The major collector

`MajorGC` interleaves program steps (loads, stores with the write barrier,
allocation, ephemerons, finalisers, `Gc.full_major`) of two domains with their
slices: marking, sweeping, the updates of finalisers, the rounds of ephemeron
marking, the end of a cycle, and a domain's end, which hands its work over.
Blocks have one field, and a slice is as long as it likes: pacing only decides
when the steps are taken. `CollectsRight`: nothing reachable, and nothing that
waits for its finaliser, is freed, and `finalise_last` functions are called for
unreachable values only. `PhasesAgree`: the shared counters are what the domains'
flags say, and the assertions at the end of a cycle hold. `CyclesEnd`: cycles end
again and again, under weak fairness of the collector's steps; the runtime takes
them at every poll and in the backup threads. Three blocks and one ephemeron are
what it takes to move a block behind a marker, through a key and a datum. Run
`ephe_handover` shows a dead key that stays in an ephemeron handed over.

## Memory and values: run `memory`

| part | a step | instances | property |
|---|---|---|---|
| `MinorGC` | one access to a header or field shared by the domains that promote | 6 heaps, 2 domains: cycles and sharing, infix pointers and continuations, every kind of root with ephemerons, forwarding to blocks that are and are not promoted at the same time | `GraphKept`: the program's graph is the same after the collection, each block copied once (one exception below) |
| `SharedHeap` | one operation on a pool or list | 2-3 domains, 2 size classes, pools of 3-5 words, ends and adoption | `HeapRight`: a pool has one owner, a slot one user, the counters are exact |
| `Finalise` | one operation, one finaliser | at most 2 values, roots and finalisers, explicit collections | `RootsRight`: roots keep what they hold; a finaliser runs once, not too early; `Gc.full_major` collects what it promises |
| `Arrays` | one store or allocation, collector steps between | 12 worlds on at most 4 blocks | `ArraysRight`: both collectors know what they must; contents are as the functions promise; float arrays are flat |
| `StatPool` | one critical section | 2 domains, 3 addresses, 4 operations, with and without a pool | `PoolRight`: the ring holds the blocks in use, nothing leaks, aligned blocks lie inside |
| `Compare` | one turn of a loop | 11 sets of values, all pairs; 4-bit integers, small stacks and queues, failing `malloc` | `CompareRight`: a total order the operators agree with, equal values hash alike, no stack is left allocated |
| `Marshal` | one item | cyclic and shared graphs, all kinds of block, refused values, failing allocations, cut or bad data, two threads that read small and large values | `MarshalRight`: what is read back is isomorphic to what was written; a call fails only for a reason of its own, but for two named below |
| `Bigarray` | one operation, a copy in two halves outside the lock | views of views, element kinds, mapped files, empty ones too, 6-bit words | `BigarrayRight`: views show the elements they should, data is freed once, after its last view |
| `CodeFragments` | one access to shared memory | two domains registering, removing, looking up; clean-ups with one | `FragmentsRight`: an answer was right at some moment of the call, garbage is listed once |

## Threads, channels and programs: run `tools`

| part | a step | instances | property |
|---|---|---|---|
| `Threads` | one piece of C between locks | 7 programs of at most 3 threads: signals, tick, failing calls, mutexes, conditions, `fork`, a thread registered from C | `ThreadsRight`: one thread runs at a time, on its own state; none sleeps for ever while the lock is free |
| `Channels` | one system call or the code between two | 2 threads, a buffer of 3, partial, interrupted and failing calls, a signal handler using the channel, readers that overtake one another, finalisation, seeks | `ChannelsRight`: the file gets what was written, in order, and the program what is in the file |
| `WinSelect` | one wait, event or worker's step | pipes, sockets, console, disk, unbound; blocking and not, in one list or several; jobs of 2, one pooled worker, timeouts, failures | `SelectRight`: what is returned was ready, everything is given back, no worker waits for another |
| `YaccReader`, `Yacc`, `Parsing` | one phase of the generator; one action of the engine | 6 grammars: precedences, empty rules, LALR but not SLR, recovery, dangling else, conflicts; refused sources | `ParserRight`: the tables are those of LALR(1), written independently; the engine accepts the grammar's words, with their tree |
| `Regexp` | one instruction of the matcher | about 20 expressions on all texts up to 3-4 characters | `RegexpRight`: the match is the first in the order of alternatives, by a recursive reference |
| `Lexers` | one transition, refill or character | both engines with refills of 1-2 characters; Lox on texts up to 5 | `LexersRight`: longest match |
| `Debugger` | one instruction or request | 5 worlds: calls, code loaded where other code was, forks, checkpoints | `DebuggerRight`: the program runs as it would alone, and stops where asked |
| `Backtrace` | one raise, call, return or query | 5 worlds, 6 steps | `BacktraceRight`: a trace is where the exception was raised and what it went through |
| `Startup` | one phase of `caml_main` | 9 programs, 12 command lines, 3 names of the executable; linked code | `StartupRight`: the program asked for runs, with its primitives; exits run once |
| `Arithmetic` | one instruction | every pair of 5-bit integers in 6-bit words | `ArithmeticRight`: the tag stays, the result is OCaml's, by bit sets and wrapping |
| `Primitives` | one call | words of 4 and 8 narrow bytes | `ArithmeticRight`: boxed integers, their text, strings, at their limits |

In both runs the worlds are programs that end, hence `CHECK_DEADLOCK FALSE`; the
parts in which something must not wait for ever (threads, `select`) say so in
their property, as a statement about the states in which nobody can go on.

## What is proved

The theorems hold for every value of the constants that satisfies the named
assumptions; `TLC` evaluates these on each instance.

*Hash table* (`HashTableAssumption`: keys are positive, the capacity is at least
2 and below `SizeMod`; of the hash function only that it yields naturals.
`PowerOfTwo` is what makes the code's mask the remainder of the model).
`HashTableTypes`, `HashTableWellFormed` and `HashTableMissMeansAbsent` rest on
one inductive invariant, `TableInv`. `WellFormed` alone is not inductive: to
know that an insertion leaves no gap one needs what the probe in progress has
seen, that all slots from the home of the key to the current one are occupied
by other keys (`ProbeStarts`, `ProbeAdvances`, `EmptyMeansAbsent`,
`InsertKeeps`). `HashTableLoad` adds `LoadInv`: at most half of the slots are
occupied, which is why a probe meets an empty one, and a rehash in progress has
moved exactly the entries below its index. `HashTableReport` adds `ScanInv`:
what `STOP` has printed are the entries below its index, each once.
`HashTableRefinesMap` (in `HashTableRefinement`): the map is read off the array,
off the old one while a rehash is under way; a call takes effect where it writes
or where its probe ends, and all other steps stutter.

*Profiler* (`ProfilerAssumption`: the stack has a slot; the null pointer is not
a function). `ProfilerTypes` says that the four fields of the function stack
agree at every step, over- and underflow included. From it follow
`ProfilerNoAbort`, with the invariant that every function on the stack has an
array of counts unless an allocation failed, and `ProfilerMirrorsCalls`, which is
inductive together with the types. `ProfilerExact` follows from both: a function
on top of a stack that mirrors the calls is the one being executed.
`ProfilerConserves`: `Conservation` counts the pairs of a function and the number
of one of its instructions, a finite set to which a dispatch adds one element and
a handler none.

*Method lookup* (`MethodAssumption`: the tags of a class are sorted;
`FitAssumption`: the mask is the one `fit_size` gives). The invariant says of
each domain that the method it looks for lies between the bounds of its search;
nothing is said of the caches but that they hold places of some class, because
any domain may write them between a read and its use. `MethodLookup`: what a
lookup returns is the method with the tag in the object's class. `MethodInTable`:
the masked place is a field of the table, whatever class the cache was filled
for.

`HashTableSound`, `ProfilerSound` and `MethodCacheSound` join these to the very
properties that the runs check, `TableSound`, `ProfileSound` and `CacheSound`.

Only model-checked: the liveness properties (`CallsReturn`, `LookupReturns`,
`Terminates`, `SectionEnds`, `HandshakesEnd`, `CyclesEnd`), which need fairness
and `ENABLED`; what recursive definitions compute (the references for arithmetic, comparison, regular
expressions, grammars, reachability), which need induction over data; all
properties of the interpreter, and of the modules of `memory` and `tools`, some
of which use recursive operators.

## Disagreements

Three runs expect a violation: `interp_perform`, `interp_poptrap` and
`ephe_handover` (see above). The following were met while modelling. The models
keep the code's behaviour; the properties, or the instances, leave out the case,
at the places named here, so that what they say of the rest can be checked.

- Profiler: attribution (`interp.c` 1988) and the assertion after a failed
  allocation (612); `ProfileSound` has both as conditions.
- `handle_incoming` asserts that the domain is running (`domain.c` 273), but the
  backup thread reads `interrupt_pending` before it has the lock (688). It is the
  one assertion `Assertions` leaves out; `StopTheWorld` shows that no section is
  disturbed.
- `create_domain`, failing late (`domain.c` 526-541), leaves the slot running
  and counted: after it the instance asks for no section.
- The pools of a terminated domain are said to be swept (`shared_heap.c` 58);
  what it allocates after its last sweep is not. `HeapRight` asks for a swept
  heap only where no domain ends.
- `finalise_last` functions are queued in a minor collection by one domain
  (`minor_gc.c` 597) while others may still promote the value; `Finalise` has one
  domain. The test of liveness there uses index `j` for `i` (`finalise.c` 255).
- A freed cell of a lock-free skip list may still be linked when a removal
  overtakes an insertion (`lf_skiplist.c` 405-424); cells are freed only in the
  instance with one domain.
- `oldify_one` must not short-circuit a forward to a float, a lazy value or
  another forward (`minor_gc.c` 345), but looks first whether that block is
  promoted already and then at its tag (340): when another domain promotes it in
  between, the tag is not its own and the pointer may be short-circuited.
  `GraphKept` allows both outcomes for the blocks so raced, and only for these.
- `caml_input_value_from_malloc` leaves its state initialised when the header is
  bad, and the next call asserts that it is not (`intern.c` 193, 844-846); in the
  instances only the other inputs meet a bad header.
- The state of reading is one per domain, and `intern_alloc_storage` may give way
  to another thread in `caml_alloc_small` (`intern.c` 349). A reading that comes
  then fails on the assertion at 193 when the one it overtakes owns its input
  (776-777, 844-848), and the overtaken one goes on in the other's data, unless it
  is `caml_input_val_from_bytes`, which sets its pointer again (817).
  `MarshalRight` allows these two outcomes, there only.
- `caml_ba_alloc` takes a NULL data pointer for a request to allocate
  (`bigarray.c` 111-113), and an empty mapping at the start of a page has NULL
  (`mmap.c` 171). Its views get a buffer of their own and two flags, so that the
  assertion at `mmap_ba.c` 32 fails or the buffer is never freed. `BigarrayRight`
  excepts these buffers, and the flags of these views.
- `caml_refill` gives the channel up in `check_pending` (`io.c` 361) and does not
  look at the buffer again (357-370): the bytes another thread or the handler has
  put there are skipped, or the end of the file is told before them.
  `ChannelsRight` allows it to a call that gave the channel up.
- `unix_select` numbers what it is asked for once for each descriptor
  (`select.c` 1098-1113), `find_handle` counts each occurrence (921-929), and the
  one query of a socket has one index for all lists (705): a descriptor that
  comes again, or a socket in two lists at different places, makes others be
  returned, or an exception that leaves the jobs allocated.
  `socket_poll_add` returns the job it found, not the head of the list (709): jobs
  made between two sockets are dropped. `SelectRight` asks for the right lists of
  the calls without these two, and for the rest of every call.
- `save_instruction` keeps an entry that is there (`debugger.c` 284-292), and
  nothing calls `caml_debugger_code_unloaded` (326; `meta.c` 155 releases the
  code): code loaded where other code had been patched is run from the old entry.
  `DebuggerRight` excepts the addresses with such an entry.
- `caml_callbackN_exn` writes its operands into the `callback_code` all callbacks
  share (`callback.c` 93-101) and then allocates (102), where a finaliser may run
  as a callback of its own and write others. `Interp` has no finalisers and takes
  the two together. A callback of one argument, as that of a signal handler,
  finds the operands it wrote.
- `caml_thread_new` raises with all signals blocked when it has no memory for a
  block (`st_stubs.c` 552, 562-563), and with the new thread running when there is
  no tick thread (592-594). `Threads` has both; `ThreadsRight` says nothing of the
  signal masks.
- The table of finalisers of a domain that adopts an empty one has capacity 0 but
  is not NULL (`finalise.c` 304-310), and a registration then doubles that
  capacity (366). The models have no capacities of these tables, only whether a
  table was ever used (`handover_finalisers`, `domain.c` 1317).
- A channel with unflushed data that becomes unreachable is "kept around" for
  `at_exit` (`io.c` 527-529), but has left the list `at_exit` goes through.
- `thread.mli` says that the signal mask is inherited by a new thread;
  `caml_enter_blocking_section` (`signals.c` 156) goes round while a signal that
  its thread does not handle is pending.
- `%nonassoc` tokens are to be errors (`manual/src/cmds/lexyacc.etex` 501-503),
  but a state whose other actions are one reduction makes it the default, which
  is then taken for them (`mkpar.c` 318-327).
- `string_partial_match` is true for a prefix of a match (`str.mli` 112-114); at
  a word boundary at the end of the text it may not be (`strstubs.c` 255).
- The Lox scanner leaves the `r` of `or` to be scanned again, and drops an `o`
  that begins another word (`Scanner.java` 104); no text has a word beginning so.
  The file does not compile: `identifier` calls `isAlphaNumberic` (125), and
  `scanTokens` returns nothing (43-51). The model takes `isAlphaNumeric` (213) and
  the field `tokens`.
- `caml_debugger_saved_instruction` asserts that it finds its address
  (`debugger.c` 322). The instances have a debugger that removes a breakpoint by
  putting back an event where there was one (`polite`).
- `caml_next_frame_pointer` takes the link of a trap frame, an OCaml integer, for
  an offset (`backtrace_byt.c` 312), and so does not skip the next trap frame;
  where call stacks are asked for there is one trap in a fiber.
- With `b=2` a program with linked code loads its debug information twice, the
  first time before the table is initialised (`startup_byt.c` 629-630); the
  instances with linked code have `b` at most 1.
- Values that are equal may hash differently behind very long chains of forward
  blocks (`hash.c` 236), and a custom comparison that raises leaves the stack of
  `compare_val` allocated. `caml_array_concat` leaves its tables allocated when
  `caml_array_gather` raises (`array.c` 541).

## What is not modelled

- Start-up failures of `malloc` (`ht_create`, the main stack) and those in
  `caml_try_realloc_stack`; the growth fails there at `caml_max_stack_size` only.
- In the interpreter: the trap barrier of the debugger, `GETMETHOD` (one field
  access), blocks allocated with `caml_alloc_shr` (to the program the same as
  `Alloc_small`), threaded dispatch, and tracing.
- In `Threads`: a tick thread that cannot be created in `caml_c_thread_register`
  (its exception has no handler in a thread of C), and `caml_thread_cleanup` from
  `caml_c_thread_unregister` (671-672), for which the main thread would have to
  have left the list while the process goes on.
- In `Parsing`: a `Parse_error` raised by the action of an empty rule, after which
  a value of an earlier reduction is found in its place.
- Pacing of the collectors, their statistics and parameters; memory ordering
  weaker than sequential consistency: an access to shared memory takes effect at
  once, in the order of the program.
- Floats (arithmetic and text), digests, system call wrappers, the native-code
  runtime, the event log: pure I/O, or nothing that has a small instance.
- The compiler and the standard library. The programs of the interpreter are
  written in bytecode by hand, as `Bytegen` would emit it; a model of the compiler
  would be a second compiler.
- The details each part of `PROJECT.json` marked `partly` names as left out, and
  the parts marked `not_modelled`, each with its reason.
