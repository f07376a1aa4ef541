------------------------------ MODULE Startup ------------------------------
(* How the bytecode runtime starts and stops (runtime/startup_byt.c,         *)
(* startup_aux.c, dynlink.c): which file is run and with which arguments,    *)
(* the sections of that file, the search for shared libraries and            *)
(* primitives, code linked into a C program, and the calls of caml_startup   *)
(* and caml_shutdown that such a program makes.                              *)
EXTENDS Integers, Sequences, FiniteSets, SequencesExt, TLC

\* A world: the files by name, the command line, the name of the executable
\* ("" when unknown), whether file descriptors are left, OCAMLRUNPARAM, the
\* directories of CAML_LD_LIBRARY_PATH and ld.conf, the libraries by directory,
\* the builtin primitives, the code linked in, and how many calls the C
\* program makes.
CONSTANT Worlds

VARIABLES
    world,  \* the world chosen at the start; its calls are counted down
    rt      \* the runtime: see Fresh
vars == <<world, rt>>

FILE_NOT_FOUND == -1
BAD_BYTECODE == -2
WRONG_MAGIC == -3
NO_FDS == -4
NoFile == [name |-> ""]
FdOf(name) == [name |-> name]

\* The static data of the runtime before anything is called.
Fresh ==
    [phase |-> "host", startup_count |-> 0, shutdown |-> FALSE, pool |-> FALSE,
     params |-> [b |-> 0, c |-> 0, magic |-> FALSE, config |-> FALSE],
     fd |-> NoFile, err |-> 0, pos |-> 0, exe |-> "", args |-> <<>>,
     path |-> <<>>, libs |-> <<>>, prims |-> <<>>, code |-> <<>>, data |-> <<>>,
     infos |-> "none", runs |-> 0, at_exit |-> 0, open |-> {}, why |-> ""]

-----------------------------------------------------------------------------
(* Parameters, and the count of startups.                                    *)
caml_parse_ocamlrunparam(r) ==
    [r EXCEPT !.params = [b |-> world.param.b, c |-> world.param.c,
                          magic |-> FALSE, config |-> FALSE]]

Fatal(r, why) == [r EXCEPT !.phase = "fatal", !.why = why]
Exit(r, why) == [r EXCEPT !.phase = "exited", !.why = why]

\* TRUE when this call starts the runtime.
Starts(r) == ~r.shutdown /\ r.startup_count = 0
caml_startup_aux(r, pooling, then) ==
    IF r.shutdown THEN Fatal(r, "startup after shutdown")
    ELSE [r EXCEPT !.startup_count = @ + 1, !.pool = IF Starts(r) THEN pooling ELSE @,
                   !.phase = IF Starts(r) THEN then ELSE "host"]

caml_shutdown(r) ==
    IF r.startup_count <= 0 THEN Fatal(r, "shutdown without startup")
    ELSE IF r.startup_count > 1 THEN [r EXCEPT !.startup_count = @ - 1]
    ELSE [r EXCEPT !.startup_count = 0, !.at_exit = @ + 1, !.libs = <<>>,
                   !.pool = FALSE, !.shutdown = TRUE]

-----------------------------------------------------------------------------
(* Bytecode files.  A file is its sections laid end to end, followed by the  *)
(* table of their names and lengths.                                         *)
IsFile(name) == name \in DOMAIN world.files
File(name) == world.files[name]
Cells(f) == FlattenSeq([i \in DOMAIN f.toc |-> f.toc[i].data])

read_trailer(r, f) ==
    IF f.magic = "none" THEN BAD_BYTECODE
    ELSE IF f.magic = "ok" THEN 0 ELSE WRONG_MAGIC

\* With -m, reading a trailer prints the magic number and exits.
PrintsMagic(r, f) == r.params.magic /\ f.magic # "none"

caml_attempt_open(r, name, do_open_script) ==
    IF world.fds = 0 THEN [r EXCEPT !.err = NO_FDS]
    ELSE IF ~IsFile(name) THEN [r EXCEPT !.err = FILE_NOT_FOUND]
    ELSE IF ~do_open_script /\ File(name).script THEN [r EXCEPT !.err = BAD_BYTECODE]
    ELSE IF PrintsMagic(r, File(name)) THEN Exit(r, "magic")
    ELSE IF read_trailer(r, File(name)) # 0
      THEN [r EXCEPT !.err = read_trailer(r, File(name))]
    ELSE [r EXCEPT !.err = 0, !.fd = FdOf(name), !.exe = name, !.open = @ \union {name}]

\* The offset from the end at which section i starts.
LenOf(f, i) == Len(f.toc[i].data)
RECURSIVE Offset(_, _)
Offset(f, i) == LenOf(f, i) + IF i = Len(f.toc) THEN 0 ELSE Offset(f, i + 1)

\* caml_seek_optional_section searches from the last section.
Named(f, s) == {i \in DOMAIN f.toc : f.toc[i].name = s}
LastNamed(f, s) == CHOOSE i \in Named(f, s) : \A j \in Named(f, s) : j <= i
HasSection(r, s) == Named(File(r.fd.name), s) # {}
read_section(r, s) ==
    LET f == File(r.fd.name)
        i == LastNamed(f, s)
        from == Len(Cells(f)) - Offset(f, i)
    IN IF ~HasSection(r, s) THEN <<>> ELSE SubSeq(Cells(f), from + 1, from + LenOf(f, i))

-----------------------------------------------------------------------------
(* The command line: the index of the file to run, the parameters set.       *)
IsOption(a) == a \in {"-b", "-I", "-m", "-M", "-v", "-config", "-version", "-z", "--"}
Printed == {"-M", "-version"}
RECURSIVE parse_command_line(_, _)
parse_command_line(r, i) ==
    IF i > Len(world.argv) \/ ~IsOption(world.argv[i]) THEN [r EXCEPT !.pos = i]
    ELSE LET a == world.argv[i]
         IN IF a = "--" THEN [r EXCEPT !.pos = i + 1]
            ELSE IF a \in Printed THEN Exit(r, "printed")
            ELSE IF a = "-I"
              THEN IF i = Len(world.argv) THEN Exit(r, "-I needs an argument")
                   ELSE parse_command_line([r EXCEPT !.path = Append(@, world.argv[i + 1])], i + 2)
            ELSE IF a = "-z" THEN Exit(r, "unknown option")
            ELSE parse_command_line(
                   CASE a = "-m" -> [r EXCEPT !.params.magic = TRUE]
                     [] a = "-config" -> [r EXCEPT !.params.config = TRUE]
                     [] a \in {"-b", "-v"} -> r, i + 1)

\* What the errors of the last attempt print; NO_FDS has no case, and the
\* section table of no file cannot be read.
OpenError(r) ==
    CASE r.err = FILE_NOT_FOUND -> Exit(r, "cannot find file")
      [] r.err = BAD_BYTECODE -> Exit(r, "not a bytecode file")
      [] r.err = WRONG_MAGIC -> Exit(r, "wrong magic number")
      [] r.err = NO_FDS -> Fatal(r, "cannot read section table")

-----------------------------------------------------------------------------
(* Shared libraries and primitives.                                          *)
LibsIn(dir) == IF dir \in DOMAIN world.dirs THEN world.dirs[dir] ELSE <<>>
\* The first directory of the path that has the library; the name as it
\* stands, which is not found, when none has.
Having(path, lib) == {i \in DOMAIN path : lib \in DOMAIN LibsIn(path[i])}
caml_search_dll_in_path(path, lib) ==
    IF Having(path, lib) = {} THEN ""
    ELSE path[CHOOSE i \in Having(path, lib) : \A j \in Having(path, lib) : i <= j]

Handle(dir, lib) == [dir |-> dir, lib |-> lib]
Defines(h, prim) == prim \in world.dirs[h.dir][h.lib]

Providers(libs, prim) == {i \in DOMAIN libs : Defines(libs[i], prim)}
Builtin == [dir |-> "", lib |-> "builtin"]
NoPrim == [dir |-> "", lib |-> "none"]
lookup_primitive(libs, prim) ==
    IF prim \in world.builtin THEN Builtin
    ELSE IF Providers(libs, prim) = {} THEN NoPrim
    ELSE libs[CHOOSE i \in Providers(libs, prim) :
                \A j \in Providers(libs, prim) : i <= j]

\* The directories of ld.conf come first.
ConfFirst(r) == world.ld_conf \o r.path \o world.ld_library_path \o read_section(r, "DLPT")

\* The path searched: -I, CAML_LD_LIBRARY_PATH, the executable, ld.conf.
SearchPath(r) == r.path \o world.ld_library_path \o read_section(r, "DLPT") \o world.ld_conf

caml_build_primitive_table(r) ==
    LET path == SearchPath(r)
        libs == read_section(r, "DLLS")
        handles == [i \in DOMAIN libs |-> Handle(caml_search_dll_in_path(path, libs[i]), libs[i])]
        req == read_section(r, "PRIM")
        prims == [i \in DOMAIN req |-> lookup_primitive(handles, req[i])]
    IN IF \E i \in DOMAIN handles : handles[i].dir = "" THEN Fatal(r, "cannot load shared library")
       ELSE IF \E i \in DOMAIN prims : prims[i] = NoPrim THEN Fatal(r, "unknown primitive")
       ELSE [r EXCEPT !.libs = handles, !.prims = prims, !.path = <<>>]

caml_build_primitive_table_builtin(r) ==
    [r EXCEPT !.prims = [i \in DOMAIN world.names |-> Builtin]]

-----------------------------------------------------------------------------
(* caml_main.                                                                *)
Becomes(r) == rt' = r /\ UNCHANGED world
Calls == rt.phase = "host" /\ world.calls > 0
Called(r) == rt' = r /\ world' = [world EXCEPT !.calls = @ - 1]

caml_main ==
    LET r == caml_parse_ocamlrunparam(rt)
    IN /\ Calls
       /\ Called(caml_startup_aux(r, r.params.c > 0, "argv0"))

TryArgv0 ==
    /\ rt.phase = "argv0"
    /\ LET r == caml_attempt_open([rt EXCEPT !.phase = "self", !.pos = 1], world.argv[1], FALSE)
       IN Becomes(IF r.err = 0 THEN [r EXCEPT !.phase = "load"] ELSE r)

TrySelf ==
    /\ rt.phase = "self"
    /\ LET r == caml_attempt_open([rt EXCEPT !.phase = "options"], world.self, FALSE)
       IN Becomes(IF world.self = "" THEN [rt EXCEPT !.phase = "options"]
                  ELSE IF r.err = 0 THEN [r EXCEPT !.phase = "load"] ELSE r)

ParseOptions ==
    /\ rt.phase = "options"
    /\ LET r == parse_command_line([rt EXCEPT !.phase = "named"], 2)
       IN Becomes(IF r.phase = "exited" THEN r
                  ELSE IF r.params.config THEN Exit(r, "config")
                  ELSE IF r.pos > Len(world.argv) THEN Exit(r, "no bytecode file")
                  ELSE r)

OpenNamed ==
    /\ rt.phase = "named"
    /\ LET r == caml_attempt_open([rt EXCEPT !.err = 0], world.argv[rt.pos], TRUE)
       IN Becomes(IF r.phase = "exited" THEN r
                  ELSE IF r.err # 0 THEN OpenError(r) ELSE [r EXCEPT !.phase = "load"])

\* From the section descriptors to caml_init_debug_info.
LoadCode ==
    /\ rt.phase = "load"
    /\ Becomes(IF ~HasSection(rt, "CODE") THEN Fatal(rt, "section missing")
               ELSE [rt EXCEPT !.phase = "prims", !.code = read_section(rt, "CODE"),
                               !.infos = "unread"])

LoadPrims ==
    /\ rt.phase = "prims"
    /\ LET r == caml_build_primitive_table(rt)
       IN Becomes(IF ~HasSection(rt, "PRIM") THEN Fatal(rt, "no PRIM section")
                  ELSE IF r.phase = "fatal" THEN r ELSE [r EXCEPT !.phase = "data"])

\* Reading the main debug information needs the table to be initialised and
\* not read before.
caml_load_main_debug_info(r) ==
    IF r.params.b <= 1 THEN r
    ELSE IF r.infos = "unread" THEN [r EXCEPT !.infos = "read"]
    ELSE [r EXCEPT !.phase = "crashed", !.why = "debug info"]

ArgsFrom(pos) == SubSeq(world.argv, pos, Len(world.argv))
\* Closing the channel closes the file; then caml_sys_init.
LoadData ==
    /\ rt.phase = "data"
    /\ LET r == [rt EXCEPT !.data = read_section(rt, "DATA"), !.open = @ \ {rt.fd.name},
                           !.args = ArgsFrom(rt.pos), !.phase = "run"]
       IN Becomes(IF ~HasSection(rt, "DATA") THEN Fatal(rt, "section missing")
                  ELSE caml_load_main_debug_info(r))

\* The program ends; an uncaught exception ends the process.
Run(raises) ==
    /\ rt.phase = "run"
    /\ Becomes(IF raises THEN Fatal([rt EXCEPT !.runs = @ + 1], "uncaught exception")
               ELSE [rt EXCEPT !.runs = @ + 1, !.phase = "host"])

-----------------------------------------------------------------------------
(* Code linked in a C program, which starts and stops the runtime.           *)
caml_startup_code ==
    LET r == caml_parse_ocamlrunparam(rt)
    IN /\ Calls /\ world.linked # <<>>
       /\ Called(caml_startup_aux(r, world.pooling \/ r.params.c > 0, "linked"))

\* caml_sys_init and caml_load_main_debug_info come before caml_init_debug_info,
\* and again after it.
StartLinked ==
    /\ rt.phase = "linked"
    /\ LET r1 == caml_load_main_debug_info([rt EXCEPT !.args = world.argv, !.exe = world.self])
           r2 == caml_build_primitive_table_builtin([r1 EXCEPT !.code = world.linked,
                                                               !.infos = "unread"])
           r3 == [r2 EXCEPT !.data = world.linked, !.pos = 1, !.phase = "run"]
       IN Becomes(IF r1.phase = "crashed" THEN r1 ELSE caml_load_main_debug_info(r3))

Shutdown == Calls /\ Called(caml_shutdown(rt))

-----------------------------------------------------------------------------
(* The program adds primitives (toplevel, Dynlink).                          *)
Running == rt.phase = "run" /\ world.dynlinks > 0
Dynlinked(r) == rt' = r /\ world' = [world EXCEPT !.dynlinks = @ - 1]

\* caml_dynlink_open_lib, caml_dynlink_lookup_symbol and
\* caml_dynlink_add_primitive, as Dll.find_primitive uses them.
caml_dynlink_add_primitive(dir, lib, prim) ==
    /\ Running /\ lib \in DOMAIN LibsIn(dir)
    /\ Defines(Handle(dir, lib), prim)
    /\ Dynlinked([rt EXCEPT !.prims = Append(@, Handle(dir, lib))])

Init == world \in Worlds /\ rt = Fresh

AllDirs == DOMAIN world.dirs
Next ==
    \/ caml_main
    \/ TryArgv0
    \/ TrySelf
    \/ ParseOptions
    \/ OpenNamed
    \/ LoadCode
    \/ LoadPrims
    \/ LoadData
    \/ \E raises \in BOOLEAN : Run(raises)
    \/ caml_startup_code
    \/ StartLinked
    \/ Shutdown
    \/ \E dir \in AllDirs, lib \in world.liblist, prim \in world.primlist :
         caml_dynlink_add_primitive(dir, lib, prim)

Spec == Init /\ [][Next]_vars

-----------------------------------------------------------------------------
(* What the comment "Invocation of ocamlrun: 4 cases" promises.              *)
Good(name) == IsFile(name) /\ File(name).magic = "ok"
Composite(name) == Good(name) /\ ~File(name).script
\* The first argument that is neither an option nor the argument of one.
RECURSIVE Stripped(_)
Stripped(a) ==
    IF a = <<>> THEN a
    ELSE IF a[1] = "--" THEN Tail(a)
    ELSE IF a[1] = "-I" THEN Stripped(SubSeq(a, 3, Len(a)))
    ELSE IF IsOption(a[1]) THEN Stripped(Tail(a)) ELSE a
ShouldRun ==
    IF Composite(world.argv[1]) THEN [exe |-> world.argv[1], args |-> world.argv]
    ELSE IF world.self # "" /\ Composite(world.self)
      THEN [exe |-> world.self, args |-> world.argv]
    ELSE LET a == Stripped(Tail(world.argv)) IN [exe |-> a[1], args |-> a]

Section(f, s) == f.toc[CHOOSE i \in DOMAIN f.toc : f.toc[i].name = s].data

\* The program that runs is the file the comment of startup_byt.c names,
\* with the arguments it names; its code and data are those of the sections of
\* these names, wherever they are in the file; no descriptor is left open.
RunsRight ==
    rt.phase = "run" /\ world.linked = <<>> =>
        LET f == File(rt.exe)
        IN /\ rt.exe = ShouldRun.exe /\ rt.args = ShouldRun.args
           /\ rt.code = Section(f, "CODE") /\ rt.data = Section(f, "DATA")
           /\ rt.open = {}

\* Primitive number i of the code is the i-th required one, in the builtin
\* table if it is there, else in the first library that defines it, each
\* library taken from the first directory that has it; adding primitives while
\* the program runs renumbers none.
PrimsRight ==
    rt.phase = "run" /\ world.linked = <<>> =>
        LET req == Section(File(rt.exe), "PRIM")
        IN /\ Len(rt.prims) >= Len(req)
           /\ \A i \in DOMAIN req :
                \/ rt.prims[i] = Builtin /\ req[i] \in world.builtin
                \/ /\ req[i] \notin world.builtin /\ Defines(rt.prims[i], req[i])
                   /\ \E j \in DOMAIN rt.libs :
                        /\ rt.libs[j] = rt.prims[i]
                        /\ \A k \in 1..(j - 1) : ~Defines(rt.libs[k], req[i])
           /\ \A j \in DOMAIN rt.libs : \A d \in ToSet(world.ld_conf) :
                rt.libs[j].dir = d =>
                    \A e \in ToSet(world.ld_library_path) :
                        rt.libs[j].lib \notin DOMAIN LibsIn(e)

\* The at_exit functions run once, when the last of the calls of caml_startup
\* has been matched by a caml_shutdown, and the program is started once.
StopsOnce ==
    /\ rt.at_exit <= 1 /\ rt.runs <= 1
    /\ rt.shutdown <=> rt.at_exit = 1
    /\ rt.shutdown => rt.startup_count = 0
    /\ rt.phase = "run" => ~rt.shutdown /\ rt.startup_count > 0

\* caml_main runs the program asked for with its own primitives, and starts and
\* stops of the runtime are matched (caml_startup_aux, caml_shutdown).
StartupRight == RunsRight /\ PrimsRight /\ StopsOnce
=============================================================================
