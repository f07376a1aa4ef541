------------------------------ MODULE Debugger ------------------------------
(* A bytecode program under the control of ocamldebug (runtime/debugger.c):  *)
(* events and breakpoints patched into the code, the command loop, the       *)
(* checkpoints taken by forking, Unix.fork under either fork mode, and code  *)
(* loaded and released while the program runs (runtime/meta.c).              *)
(*                                                                           *)
(* The program is a list of abstract instructions; its stack is flat, as in  *)
(* the runtime, so that frames are found by the arithmetic of the requests.  *)
EXTENDS Integers, Sequences, FiniteSets, SequencesExt, TLC

\* A world: the main program, the code it may load, the places the code may be
\* loaded at, the requests the debugger sends and how many, the number of
\* processes, and whether a reset is always followed by a new event as in
\* debugger/breakpoints.ml.
CONSTANT Worlds

VARIABLES
    world,   \* the world chosen at the start, never changed
    procs    \* the processes, by pid: see Process
vars == <<world, procs>>

Pids == 1..world.procs
NoSocket == 0
NoOp == [op |-> "none"]
EVENT == [op |-> "EVENT"]
BREAK == [op |-> "BREAK"]
Nop == [op |-> "nop"]
PushOp == [op |-> "push"]
Stop == [op |-> "stop"]
Load == [op |-> "load"]
Unload == [op |-> "unload"]
CallLoaded == [op |-> "callf", to |-> 0, extra |-> 0]
Fork == [op |-> "fork"]
Ret == [op |-> "ret"]
CallTo(to, extra) == [op |-> "call", to |-> to, extra |-> extra]

\* Words of the stack: return addresses, small integers, other values.
Word(k, v) == [k |-> k, v |-> v]
Local(v) == Word("local", v)
Frame(pc, extra) == <<Word("pc", pc), Word("env", 0), Word("int", extra)>>

\* What a request answers: a frame, the end of the frames, or a value.
NoReply == [k |-> "none"]

Without(f, S) == [x \in DOMAIN f \ S |-> f[x]]

-----------------------------------------------------------------------------
\* A process: memory holding code, the table of saved instructions, the
\* registers of the interpreter, the code fragments, and where it is: running,
\* in the command loop (then: what caml_debugger's caller does next), lost (it
\* executed what is not the program's), exited.  stale: the addresses of which
\* the table keeps, or kept until it was restored, what code released since had
\* there; this and points are not state of the code.
Process ==
    [code |-> world.main, orig |-> world.main, table |-> <<>>, pc |-> 1,
     stack |-> <<>>, extra |-> 0, count |-> 0, frame |-> 0, mode |-> "cmd",
     then |-> "run", report |-> "none", socket |-> 1, in_use |-> TRUE,
     fork_mode |-> TRUE, frags |-> (0 :> [start |-> 1, len |-> Len(world.main)]),
     points |-> <<>>, stale |-> {}, children |-> 0, reply |-> NoReply,
     barrier |-> 2]

Dead == [mode |-> "none"]
Live(q) == procs[q].mode \notin {"none", "exited"}

FragOf(p, pc) ==
    {f \in DOMAIN p.frags : /\ pc >= p.frags[f].start
                            /\ pc < p.frags[f].start + p.frags[f].len}

\* Fresh numbers for a fragment and for a connection.
FreshFrag(p) == CHOOSE f \in 0..9 : f \notin DOMAIN p.frags
FreshSocket == CHOOSE s \in 1..9 :
                   \A q \in Pids : Live(q) => procs[q].socket # s

-----------------------------------------------------------------------------
(* Saved instructions.                                                      *)
\* The instruction in memory is saved again.
SavesAgain(p, pc) == [p EXCEPT !.table = (pc :> p.code[pc]) @@ @]

save_instruction(p, pc) ==
    IF pc \in DOMAIN p.table THEN p
    ELSE [p EXCEPT !.table = (pc :> p.code[pc]) @@ @]

set_instruction(p, pc, op) ==
    [save_instruction(p, pc) EXCEPT !.code[pc] = op,
                                    !.points = (pc :> op) @@ @]

restore_instruction(p, pc) ==
    [p EXCEPT !.code[pc] = p.table[pc], !.table = Without(@, {pc}),
              !.points = Without(@, {pc})]

-----------------------------------------------------------------------------
(* caml_debugger: report the event, then the command loop.                   *)
Reports(event) == event \in {"EVENT_COUNT", "BREAKPOINT"}

caml_debugger(p, event, after) ==
    IF p.socket = NoSocket THEN [p EXCEPT !.mode = "run", !.then = after]
    ELSE [p EXCEPT !.mode = "cmd", !.then = after, !.report = event,
                   !.stack = IF Reports(event) THEN Frame(p.pc, p.extra) \o @
                             ELSE @,
                   !.frame = IF Reports(event) THEN Len(p.stack) + 3
                             ELSE Len(p.stack)]

\* Setup_for_debugger pushed a frame that Restore_after_debugger pops.
Pushed(p) == IF Reports(p.report) THEN 3 ELSE 0
Continue(p) ==
    [p EXCEPT !.mode = "run", !.stack = SubSeq(@, Pushed(p) + 1, Len(@)),
              !.report = "none", !.reply = NoReply]

-----------------------------------------------------------------------------
(* The program.  An instruction is fetched; EVENT and BREAK call the         *)
(* debugger and restart the instruction they hide.                           *)
caml_debugger_saved_instruction(p) ==
    IF p.pc \in DOMAIN p.table THEN p.table[p.pc] ELSE NoOp

Call(p, to, extra) ==
    [p EXCEPT !.stack = [i \in 1..extra |-> Local(i)]
                           \o Frame(p.pc + 1, p.extra) \o @,
              !.extra = extra, !.pc = to]

\* RETURN pops the locals of the frame and its extra arguments.
ToReturn(p) == CHOOSE i \in DOMAIN p.stack :
                   /\ p.stack[i].k = "pc"
                   /\ \A j \in 1..(i - 1) : p.stack[j].k # "pc"
Return(p) ==
    LET i == ToReturn(p)
    IN [p EXCEPT !.pc = p.stack[i].v, !.extra = p.stack[i + 2].v,
                 !.stack = SubSeq(@, i + 3, Len(@))]

Loaded(p) == {f \in DOMAIN p.frags : f # 0}
LoadedAt(p) == p.frags[CHOOSE f \in Loaded(p) : TRUE]

\* caml_reify_bytecode: caml_add_debug_info calls the debugger first.
caml_reify_bytecode(p, base, code) ==
    LET range == base..(base + Len(code) - 1)
        new == [a \in range |-> code[a - base + 1]]
    IN [p EXCEPT !.code = new @@ @, !.orig = new @@ @,
                 !.frags = (FreshFrag(p) :> [start |-> base,
                                             len |-> Len(code)]) @@ @,
                 !.pc = @ + 1, !.then = "run"]

\* caml_static_release_bytecode, after the debugger was told.  The table is left
\* as it is: caml_debugger_code_unloaded, which would clean it, is not called.
caml_static_release_bytecode(p) ==
    LET f == LoadedAt(p)
        gone == f.start..(f.start + f.len - 1)
    IN [p EXCEPT !.code = Without(@, gone), !.orig = Without(@, gone),
                 !.frags = Without(@, Loaded(p)), !.points = Without(@, gone),
                 !.stale = (@ \ gone) \union (gone \intersect DOMAIN p.table),
                 !.pc = @ + 1, !.then = "run"]

Execute(p, op) ==
    LET q == [p EXCEPT !.then = "run", !.mode = "run"]
    IN IF op # p.orig[p.pc] THEN [q EXCEPT !.mode = "lost"]
       ELSE CASE op.op = "nop" -> [q EXCEPT !.pc = @ + 1]
         [] op.op = "push" -> [q EXCEPT !.pc = @ + 1,
                                        !.stack = <<Local(p.pc)>> \o @]
         [] op.op = "call" -> Call(q, op.to, op.extra)
         [] op.op = "callf" -> Call(q, LoadedAt(q).start, 0)
         [] op.op = "ret" -> Return(q)
         [] op.op = "load" -> caml_debugger(q, "DEBUG_INFO_ADDED", "load")
         [] op.op = "unload" -> caml_debugger(q, "CODE_UNLOADED", "unload")
         [] op.op = "fork" -> [q EXCEPT !.then = "fork"]
         [] op.op = "stop" -> caml_debugger(q, "PROGRAM_EXIT", "exit")

\* The event counter is unsigned and wraps.
Fetch(p) ==
    LET op == p.code[p.pc]
        q == [p EXCEPT !.count = @ - 1]
    IN CASE op = EVENT -> IF q.count = 0
                            THEN caml_debugger(q, "EVENT_COUNT", "restart")
                            ELSE [q EXCEPT !.then = "restart"]
         [] op = BREAK -> caml_debugger(p, "BREAKPOINT", "restart")
         [] OTHER -> Execute(p, op)

Instr(i) ==
    LET p == procs[i]
    IN /\ p.mode = "run" /\ p.then \in {"run", "restart"}
       /\ procs' = [procs EXCEPT ![i] =
                      IF p.then = "run" THEN Fetch(p)
                      ELSE Execute(p, caml_debugger_saved_instruction(p))]
       /\ UNCHANGED world

LoadCode(i, base, code) ==
    /\ procs[i].mode = "run" /\ procs[i].then = "load"
    /\ base \notin DOMAIN procs[i].code
    /\ procs' = [procs EXCEPT ![i] = caml_reify_bytecode(@, base, code)]
    /\ UNCHANGED world

ReleaseCode(i) ==
    /\ procs[i].mode = "run" /\ procs[i].then = "unload"
    /\ procs' = [procs EXCEPT ![i] = caml_static_release_bytecode(@)]
    /\ UNCHANGED world

Exit(i) ==
    /\ procs[i].mode = "run" /\ procs[i].then = "exit"
    /\ procs' = [procs EXCEPT ![i] = [mode |-> "exited"]]
    /\ UNCHANGED world

caml_debugger_cleanup_fork(p) == [p EXCEPT !.socket = NoSocket, !.in_use = FALSE]

\* Unix.fork, with caml_debugger_fork_mode: non-zero to follow the parent.
unix_fork(i, child) ==
    LET p == [procs[i] EXCEPT !.pc = @ + 1, !.then = "run"]
        Detach(q, leave) == IF q.in_use /\ leave
                              THEN caml_debugger_cleanup_fork(q) ELSE q
    IN /\ procs[i].mode = "run" /\ procs[i].then = "fork"
       /\ procs[child].mode = "none"
       /\ procs' = [procs EXCEPT
                      ![i] = Detach([p EXCEPT !.children = @ + 1],
                                    ~p.fork_mode),
                      ![child] = Detach([p EXCEPT !.children = 0],
                                        p.fork_mode)]
       /\ UNCHANGED world

-----------------------------------------------------------------------------
(* The requests.                                                            *)
Ready(i, req) == /\ procs[i].mode = "cmd" /\ req \in world.requests
                 /\ world.left > 0

Answer(i, p) ==
    /\ procs' = [procs EXCEPT ![i] = p]
    /\ world' = [world EXCEPT !.left = @ - 1]

\* pc_from_pos finds the fragment by its number.
Positions(p) == {a \in world.places : FragOf(p, a) # {}}

SetEvent(i, a) ==
    /\ Ready(i, "event") /\ a \in Positions(procs[i])
    /\ Answer(i, set_instruction(procs[i], a, EVENT))

SetBreakpoint(i, a) ==
    /\ Ready(i, "break") /\ a \in Positions(procs[i])
    /\ Answer(i, set_instruction(procs[i], a, BREAK))

\* The debugger resets what it has set; ocamldebug sets an event again.
ResetInstr(i, a) ==
    /\ Ready(i, "reset") /\ a \in DOMAIN procs[i].points
    /\ LET p == restore_instruction(procs[i], a)
       IN Answer(i, IF world.polite THEN set_instruction(p, a, EVENT) ELSE p)

\* The child closes the connection it inherited and opens its own.
Checkpoint(i, child) ==
    /\ Ready(i, "checkpoint") /\ procs[child].mode = "none"
    /\ procs' = [procs EXCEPT ![i].children = @ + 1,
                              ![child] = [procs[i] EXCEPT !.socket = FreshSocket,
                                                          !.children = 0]]
    /\ world' = [world EXCEPT !.left = @ - 1]

Go(i, n) ==
    /\ procs[i].mode = "cmd"
    /\ procs' = [procs EXCEPT ![i] = Continue([@ EXCEPT !.count = n])]
    /\ UNCHANGED world

StopProcess(i) ==
    /\ Ready(i, "stop")
    /\ Answer(i, [mode |-> "exited"])

\* wait(NULL) returns when a child has exited.
Wait(i) ==
    /\ Ready(i, "wait") /\ procs[i].children > 0
    /\ \E c \in Pids : procs[c].mode = "exited"
    /\ Answer(i, [procs[i] EXCEPT !.children = @ - 1])

\* What a frame request sends back: the offset of the frame, and its pc.
At(p, offset) == p.stack[Len(p.stack) - offset + 1]
PcAt(p, offset) == IF offset > 0 /\ At(p, offset).k = "pc"
                     /\ FragOf(p, At(p, offset).v) # {}
                     THEN At(p, offset).v ELSE 0

InitialFrame(p) == [p EXCEPT !.frame = Len(p.stack)]
GetFrame(i, initial) ==
    LET p == IF initial THEN InitialFrame(procs[i]) ELSE procs[i]
    IN /\ Ready(i, "frame") /\ Reports(procs[i].report)
       /\ Answer(i, [p EXCEPT !.reply = [k |-> "frame", pc |-> PcAt(p, p.frame)]])

SetFrame(i, offset) ==
    /\ Ready(i, "frame") /\ Reports(procs[i].report)
    /\ Answer(i, [procs[i] EXCEPT !.frame = offset])

\* The offset of the next frame up, for a frame of size words.
ExtraArgs(p) == At(p, p.frame - 2).v
UpFrame(i, size) ==
    LET p == procs[i]
        new == p.frame - ExtraArgs(p) - size - 3
    IN /\ Ready(i, "frame") /\ Reports(p.report)
       /\ Answer(i, IF PcAt(p, new) = 0
                      THEN [p EXCEPT !.reply = [k |-> "end", at |-> p.frame]]
                      ELSE [p EXCEPT !.frame = new,
                                     !.reply = [k |-> "frame", pc |-> PcAt(p, new)]])

GetLocal(i, n) ==
    LET p == procs[i]
    IN /\ Ready(i, "frame") /\ Reports(p.report) /\ p.frame - 3 - n > 0
       /\ Answer(i, [p EXCEPT !.reply = [k |-> "value",
                                       v |-> At(p, p.frame - 3 - n)]])

SetTrapBarrier(i, n) ==
    /\ Ready(i, "barrier")
    /\ Answer(i, [procs[i] EXCEPT !.barrier = -n])

SetForkMode(i, b) ==
    /\ Ready(i, "fork_mode")
    /\ Answer(i, [procs[i] EXCEPT !.fork_mode = b])

-----------------------------------------------------------------------------
(* The frames of a stack: the offsets of its return addresses, and the number *)
(* of locals of the frame at an offset (what the debug events record).        *)
Frames(p) == {o \in 1..Len(p.stack) : At(p, o).k = "pc"}
Below(p, o) == {x \in Frames(p) : x < o}
NextUp(p, o) == IF Below(p, o) = {} THEN 0
                ELSE CHOOSE x \in Below(p, o) : \A y \in Below(p, o) : y <= x
SizeAt(p, o) == o - NextUp(p, o) - 3 - At(p, o - 2).v

Init ==
    /\ world \in Worlds
    /\ procs = [i \in Pids |-> IF i = 1 THEN Process ELSE Dead]

Next ==
    \E i \in Pids :
        \/ Instr(i)
        \/ /\ procs[i].mode = "run"
           /\ \E base \in world.bases, code \in world.frags : LoadCode(i, base, code)
        \/ ReleaseCode(i)
        \/ Exit(i)
        \/ \E c \in Pids : unix_fork(i, c)
        \/ \E a \in world.places : SetEvent(i, a)
        \/ \E a \in world.places : SetBreakpoint(i, a)
        \/ \E a \in world.places : ResetInstr(i, a)
        \/ \E c \in Pids : Checkpoint(i, c)
        \/ \E n \in world.counts : Go(i, n)
        \/ StopProcess(i)
        \/ Wait(i)
        \/ \E initial \in BOOLEAN : GetFrame(i, initial)
        \/ procs[i].mode = "cmd" /\ \E o \in Frames(procs[i]) : SetFrame(i, o)
        \/ /\ procs[i].mode = "cmd" /\ procs[i].frame > 0
           /\ UpFrame(i, SizeAt(procs[i], procs[i].frame))
        \/ \E n \in 0..1 : GetLocal(i, n)
        \/ SetTrapBarrier(i, 1)
        \/ \E b \in BOOLEAN : SetForkMode(i, b)

Spec == Init /\ [][Next]_vars

-----------------------------------------------------------------------------
\* Debugging is transparent: whatever is patched, in whichever order, in the
\* process or in the one it was forked from, every instruction executed is the
\* one that was loaded at that address, and none is taken from an entry of the
\* table of saved instructions that is missing.  Excepted are the addresses whose
\* entry code released since has left behind: save_instruction
\* (debugger.c:287-290) keeps it for the code that is loaded there next.
Transparent ==
    \A i \in Pids : Live(i) /\ procs[i].mode = "lost" => procs[i].pc \in procs[i].stale

\* Memory differs from the loaded code exactly where the debugger has set an
\* event or a breakpoint, and there the original instruction is saved (but for
\* the entries that code released since has left behind).
PatchedWhereAsked ==
    \A i \in Pids : Live(i) =>
        LET p == procs[i]
        IN \A a \in DOMAIN p.code \ p.stale :
             IF a \in DOMAIN p.points
               THEN /\ p.code[a] = p.points[a]
                    /\ a \in DOMAIN p.table /\ p.table[a] = p.orig[a]
               ELSE p.code[a] = p.orig[a]

\* No two processes talk on one connection, and after a fork at least the
\* process that the fork mode names is still debugged.
OwnConnection ==
    /\ \A i, j \in Pids : Live(i) /\ Live(j) /\ i # j =>
         procs[i].socket = NoSocket \/ procs[i].socket # procs[j].socket
    /\ \A i \in Pids : Live(i) => procs[i].in_use = (procs[i].socket # NoSocket)

\* The frame the debugger looks at is a frame of the stack: walking up with the
\* sizes of the debug events never lands between two frames, and stops only
\* above the last one.
FramesFound ==
    \A i \in Pids : Live(i) /\ procs[i].mode = "cmd" /\ Reports(procs[i].report) =>
        LET p == procs[i]
        IN /\ p.frame \in Frames(p)
           /\ p.reply.k = "end" => NextUp(p, p.reply.at) = 0
           /\ p.reply.k = "frame" => p.reply.pc \in DOMAIN p.orig

\* The requests of debugger.c change nothing of what the program does, patch the
\* code only where asked, and each forked process answers for itself.
DebuggerRight == Transparent /\ PatchedWhereAsked /\ OwnConnection /\ FramesFound
=============================================================================
