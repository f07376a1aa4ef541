------------------------------ MODULE MCInterp ------------------------------
(***************************************************************************)
(* Programs for the interpreter, as the bytecode compiler emits them, and  *)
(* what they must compute.                                                 *)
(***************************************************************************)
EXTENDS Interp

(* Labels in bytecode: <<"LABEL", l>> names the next instruction, and operands
   that are labels become the indexes of instructions, as Emitcode makes them
   displacements.  <<"BLOCK", n>> is the start of a block of code that needs n
   words, as comp_block of Bytegen makes it. *)
IsInstruction(i) == i[1] # "LABEL"

Position(code, l) ==
  LET n == CHOOSE k \in DOMAIN code : code[k] = <<"LABEL", l>>
  IN  Len(SelectSeq(SubSeq(code, 1, n), IsInstruction)) + 1

\* The operands that are labels
LabelOperand ==
  [BRANCH |-> 2, BRANCHIF |-> 2, BRANCHIFNOT |-> 2, PUSH_RETADDR |-> 2, PUSHTRAP |-> 2,
   BEQ |-> 3, BNEQ |-> 3, BLTINT |-> 3, BLEINT |-> 3, BGTINT |-> 3, BGEINT |-> 3,
   BULTINT |-> 3, BUGEINT |-> 3, CLOSURE |-> 3]

Resolve(code, i) ==
  LET All(ls) == [j \in DOMAIN ls |-> Position(code, ls[j])]
  IN  CASE i[1] = "SWITCH" -> <<"SWITCH", All(i[2]), All(i[3])>>
        [] i[1] = "CLOSUREREC" -> <<"CLOSUREREC", i[2], All(i[3])>>
        [] i[1] \in DOMAIN LabelOperand -> [i EXCEPT ![LabelOperand[i[1]]] = Position(code, @)]
        [] OTHER -> i

\* What F makes of each element of s, one after the other
Concat(s, F(_)) ==
  LET Part[m \in 1 .. Len(s), n \in 1 .. Len(s)] ==
        IF m = n THEN F(s[m])
        ELSE LET k == (m + n) \div 2 IN Part[m, k] \o Part[k + 1, n]
  IN  Part[1, Len(s)]

Expand(i) ==
  IF i[1] = "BLOCK"
  THEN <<<<"CONSTINT", i[2]>>, <<"C_CALL", 1, "caml_ensure_stack_capacity">> >>
  ELSE <<i>>

Assemble(source) ==
  LET code == Concat(source, Expand)
      Emit(i) == IF IsInstruction(i) THEN <<Resolve(code, i)>> ELSE <<>>
  IN  Concat(code, Emit)
-----------------------------------------------------------------------------

L(l) == <<"LABEL", l>>
Out == <<"SETGLOBAL", "out">>
\* A block needs its own words and a safety margin.  The margin of Config is 60.
Begin == <<"BLOCK", 18>>
\* Primitives of Stdlib.Effect: continue k v is resume (take_cont_noexc k) id v.
Use == <<"C_CALL", 1, "caml_continuation_use_noexc">>
AllocStack == <<"C_CALL", 3, "caml_alloc_stack">>

\* let add x y = x + y    let inc = add 1    let pick _ = add
\* let four a b c d = b - d
\* out = inc 5 + pick 0 1 2 + four 1 9 3 4
Calls == <<
  <<"BRANCH", "main">>,
  L("add_"), <<"RESTART">>,
  L("add"), <<"GRAB", 1>>, Begin, <<"ACC", 1>>, <<"PUSHACC", 1>>, <<"ADDINT">>, <<"RETURN", 2>>,
  L("pick"), Begin, <<"ENVACC", 2>>, <<"RETURN", 1>>,
  L("four_"), <<"RESTART">>,
  L("four"), <<"GRAB", 3>>, Begin, <<"ACC", 3>>, <<"PUSHACC", 2>>, <<"SUBINT">>, <<"RETURN", 4>>,
  L("main"), <<"CLOSURE", 0, "add">>, <<"PUSH">>,
  <<"CONSTINT", 1>>, <<"PUSHACC", 1>>, <<"APPLYn", 1>>, <<"PUSH">>,
  <<"ACC", 1>>, <<"CLOSURE", 1, "pick">>, <<"PUSH">>,
  <<"PUSH_RETADDR", "back">>, <<"CONSTINT", 4>>, <<"PUSHCONSTINT", 3>>, <<"PUSHCONSTINT", 9>>,
  <<"PUSHCONSTINT", 1>>, <<"PUSH">>, <<"CLOSURE", 0, "four">>, <<"APPLY", 4>>,
  L("back"), <<"PUSHCONSTINT", 2>>, <<"PUSHCONSTINT", 1>>, <<"PUSHCONSTINT", 0>>,
  <<"PUSHACC", 4>>, <<"APPLYn", 3>>, <<"ADDINT">>, <<"PUSH">>,
  <<"CONSTINT", 5>>, <<"PUSHACC", 3>>, <<"APPLYn", 1>>, <<"ADDINT">>, <<"POP", 3>>,
  Out, <<"STOP">> >>

\* let rec even n = if n = zero then 1 else odd (n - 1)
\*     and odd n = if n = zero then 0 else even (n - 1)     out = even 3 + 2 * odd 3
EvenOdd == <<
  <<"BRANCH", "main">>,
  L("even"), Begin, <<"ENVACC", 5>>, <<"PUSHACC", 1>>, <<"EQ">>, <<"BRANCHIFNOT", "e">>,
  <<"CONSTINT", 1>>, <<"RETURN", 1>>,
  L("e"), <<"ACC", 0>>, <<"OFFSETINT", -1>>, <<"PUSHOFFSETCLOSURE", 3>>, <<"APPTERM", 1, 2>>,
  L("odd"), Begin, <<"ENVACC", 2>>, <<"PUSHACC", 1>>, <<"EQ">>, <<"BRANCHIFNOT", "o">>,
  <<"CONSTINT", 0>>, <<"RETURN", 1>>,
  L("o"), <<"ACC", 0>>, <<"OFFSETINT", -1>>, <<"PUSHOFFSETCLOSURE", -3>>, <<"APPTERM", 1, 2>>,
  L("main"), <<"CONSTINT", 0>>, <<"CLOSUREREC", 1, <<"even", "odd">> >>,
  <<"CONSTINT", 3>>, <<"PUSHACC", 1>>, <<"APPLYn", 1>>, <<"PUSHCONSTINT", 2>>, <<"MULINT">>,
  <<"PUSHCONSTINT", 3>>, <<"PUSHACC", 3>>, <<"APPLYn", 1>>, <<"ADDINT">>, <<"POP", 2>>,
  Out, <<"STOP">> >>

\* let rec build n = if n = 0 then [] else n :: build (n - 1)
\* let rec sum = function [] -> 0 | x :: l -> x + sum l       out = sum (build 2)
Lists == <<
  <<"BRANCH", "main">>,
  L("build"), Begin, <<"ACC", 0>>, <<"BNEQ", 0, "cons">>, <<"CONSTINT", 0>>, <<"RETURN", 1>>,
  L("cons"), <<"ACC", 0>>, <<"OFFSETINT", -1>>, <<"PUSHOFFSETCLOSURE", 0>>, <<"APPLYn", 1>>,
  <<"PUSHACC", 1>>, <<"MAKEBLOCK", 2, 0>>, <<"RETURN", 1>>,
  L("sum"), Begin, <<"ACC", 0>>, <<"SWITCH", <<"nil">>, <<"more">> >>,
  L("nil"), <<"CONSTINT", 0>>, <<"RETURN", 1>>,
  L("more"), <<"ACC", 0>>, <<"GETFIELD", 1>>, <<"PUSHOFFSETCLOSURE", 0>>, <<"APPLYn", 1>>,
  <<"PUSHACC", 1>>, <<"GETFIELD", 0>>, <<"ADDINT">>, <<"RETURN", 1>>,
  L("main"), <<"CLOSUREREC", 0, <<"build">> >>, <<"CONSTINT", 2>>, <<"PUSHACC", 1>>,
  <<"APPLYn", 1>>, <<"PUSH">>, <<"CLOSUREREC", 0, <<"sum">> >>, <<"ACC", 1>>, <<"PUSHACC", 1>>,
  <<"APPLYn", 1>>, <<"POP", 3>>, Out, <<"STOP">> >>

\* Floats, arrays, bytes and references; the literals are globals
Data_ == <<
  <<"GETGLOBAL", "half">>, <<"PUSHGETGLOBAL", "pi">>, <<"MAKEFLOATBLOCK", 2>>, <<"PUSH">>,
  <<"GETFLOATFIELD", 1>>, <<"PUSHACC", 1>>, <<"SETFLOATFIELD", 0>>,   \* r.x <- r.y
  <<"ACC", 0>>, <<"GETFLOATFIELD", 0>>, <<"PUSHGETGLOBAL", "text">>,
  <<"PUSHCONSTINT", 0>>, <<"PUSHACC", 1>>, <<"GETBYTESCHAR">>, <<"PUSHCONSTINT", 1>>, <<"PUSHACC", 2>>,
  <<"SETBYTESCHAR">>,                                                 \* s.[1] <- s.[0]
  <<"CONSTINT", 1>>, <<"PUSHACC", 1>>, <<"GETBYTESCHAR">>, <<"PUSHACC", 3>>, <<"VECTLENGTH">>,
  <<"NEGINT">>, <<"MAKEBLOCK", 2, 0>>, <<"PUSH">>,                    \* a = [| -2; s.[1] |]
  <<"ACC", 0>>, <<"OFFSETREF", 5>>,                                   \* a.(0) <- a.(0) + 5
  <<"CONSTINT", 0>>, <<"PUSHACC", 1>>, <<"GETVECTITEM">>, <<"PUSHCONSTINT", 1>>, <<"PUSHACC", 2>>,
  <<"SETVECTITEM">>,                                                  \* a.(1) <- a.(0)
  <<"ATOM", 0>>, <<"ISINT">>, <<"BOOLNOT">>, <<"PUSHACC", 1>>, <<"SETFIELD", 0>>,
  <<"ACC", 1>>, <<"PUSHACC", 3>>, <<"PUSHACC", 2>>, <<"MAKEBLOCK", 3, 1>>,
  <<"ASSIGN", 0>>, <<"ACC", 0>>, Out, <<"GETGLOBALFIELD", "out", 0>>, <<"POP", 4>>, <<"STOP">> >>

\* let f x = try if x = 0 then raise Not_found else 10 / (x - 1)
\*           with Division_by_zero -> 7 | _ -> 8          out = f 0 + f 1 + f 3
Traps == <<
  <<"BRANCH", "main">>,
  L("f"), Begin, <<"PUSHTRAP", "with">>, <<"ACC", 4>>, <<"BNEQ", 0, "div">>,
  <<"GETGLOBAL", "Not_found">>, <<"RAISE">>,
  L("div"), <<"ACC", 4>>, <<"OFFSETINT", -1>>, <<"PUSHCONSTINT", 10>>, <<"DIVINT">>,
  <<"POPTRAP">>, <<"RETURN", 1>>,
  L("with"), <<"PUSH">>, <<"GETGLOBAL", "Division_by_zero">>, <<"PUSHACC", 1>>, <<"EQ">>,
  <<"BRANCHIFNOT", "any">>, <<"CONSTINT", 7>>, <<"RETURN", 2>>,
  L("any"), <<"CONSTINT", 8>>, <<"RETURN", 2>>,
  L("main"), <<"CLOSURE", 0, "f">>, <<"PUSHCONSTINT", 3>>, <<"PUSHACC", 1>>, <<"APPLYn", 1>>,
  <<"PUSHCONSTINT", 1>>, <<"PUSHACC", 2>>, <<"APPLYn", 1>>, <<"ADDINT">>,
  <<"PUSHCONSTINT", 0>>, <<"PUSHACC", 2>>, <<"APPLYn", 1>>, <<"ADDINT">>, <<"POP", 1>>,
  Out, <<"STOP">> >>

\* let rec deep n = 1 + deep (n + 1)      out = try deep 0 with _ -> 3
Deep == <<
  <<"BRANCH", "main">>,
  L("deep"), Begin, <<"ACC", 0>>, <<"OFFSETINT", 1>>, <<"PUSHOFFSETCLOSURE", 0>>, <<"APPLYn", 1>>,
  <<"OFFSETINT", 1>>, <<"RETURN", 1>>,
  L("main"), <<"CLOSUREREC", 0, <<"deep">> >>, <<"PUSHTRAP", "with">>,
  <<"CONSTINT", 0>>, <<"PUSHACC", 5>>, <<"APPLYn", 1>>, <<"POPTRAP">>, <<"BRANCH", "join">>,
  L("with"), <<"CONSTINT", 3>>, L("join"), <<"POP", 1>>, Out, <<"STOP">> >>

\* let f x y = if x = y then raise Not_found else x - y
\* out = (callback f 5 1) + try callback f 2 2 with _ -> 9    then callback f 1 1
Callbacks == <<
  <<"BRANCH", "main">>, L("f_"), <<"RESTART">>,
  L("f"), <<"GRAB", 1>>, Begin, <<"ACC", 1>>, <<"PUSHACC", 1>>, <<"NEQ">>, <<"BRANCHIF", "sub">>,
  <<"GETGLOBAL", "Not_found">>, <<"C_CALL", 1, "raise">>,
  L("sub"), <<"ACC", 1>>, <<"PUSHACC", 1>>, <<"SUBINT">>, <<"RETURN", 2>>,
  L("main"), <<"CLOSURE", 0, "f">>, <<"PUSH">>,
  <<"PUSHTRAP", "with">>, <<"CONSTINT", 2>>, <<"PUSHCONSTINT", 2>>, <<"PUSHACC", 6>>,
  <<"C_CALL", 3, "callback">>, <<"POPTRAP">>, <<"BRANCH", "join">>,
  L("with"), <<"CONSTINT", 9>>,
  L("join"), <<"PUSHCONSTINT", 1>>, <<"PUSHCONSTINT", 5>>, <<"PUSHACC", 3>>,
  <<"C_CALLN", 3, "callback">>, <<"ADDINT">>, Out,
  <<"CONSTINT", 1>>, <<"PUSHCONSTINT", 1>>, <<"PUSHACC", 2>>, <<"C_CALL", 3, "callback">>, <<"STOP">> >>

-----------------------------------------------------------------------------
(* Effects.  run n comp = match_with comp 2 {retc = fun x -> x + 20; exnc = raise;
     effc eff k = if eff = n then continue k 10 else (reperform)} *)
Run == <<
  L("run_"), <<"RESTART">>,
  L("run"), <<"GRAB", 1>>, Begin, <<"ACC", 0>>, <<"CLOSURE", 1, "effc">>, <<"PUSH">>,
  <<"CLOSURE", 0, "exnc">>, <<"PUSH">>, <<"CLOSURE", 0, "retc">>, AllocStack,
  <<"PUSHCONSTINT", 2>>, <<"PUSHACC", 3>>, <<"PUSHACC", 2>>, <<"RESUMETERM", 5>>,
  L("effc_"), <<"RESTART">>,
  L("effc"), <<"GRAB", 2>>, Begin, <<"ENVACC", 2>>, <<"PUSHACC", 1>>, <<"EQ">>, <<"BRANCHIFNOT", "pass">>,
  <<"CONSTINT", 10>>, <<"PUSH">>, <<"CLOSURE", 0, "id">>, <<"PUSHACC", 3>>, Use, <<"RESUMETERM", 5>>,
  L("pass"), <<"ACC", 2>>, <<"PUSHACC", 2>>, <<"PUSHACC", 2>>, <<"REPERFORMTERM", 5>>,
  L("id"), Begin, <<"ACC", 0>>, <<"RETURN", 1>>,
  L("retc"), Begin, <<"ACC", 0>>, <<"OFFSETINT", 20>>, <<"RETURN", 1>>,
  L("exnc"), Begin, <<"ACC", 0>>, <<"RAISE_NOTRACE">>,
  L("comp"), Begin, <<"ACC", 0>>, <<"PUSHCONSTINT", 1>>, <<"PERFORM">>, <<"ADDINT">>, <<"RETURN", 1>> >>

\* out = run 1 (fun x -> perform 1 + x)
Handled == <<<<"BRANCH", "main">> >> \o Run \o <<
  L("main"), <<"CLOSURE", 0, "comp">>, <<"PUSHCONSTINT", 1>>, <<"PUSH">>, <<"CLOSURE", 0, "run">>,
  <<"APPLYn", 2>>, Out, <<"STOP">> >>

\* out = run 1 (fun _ -> run 2 (fun x -> perform 1 + x))
Nested == <<<<"BRANCH", "main">> >> \o Run \o <<
  L("mid"), Begin, <<"ENVACC", 3>>, <<"PUSHCONSTINT", 2>>, <<"PUSHENVACC", 2>>, <<"APPTERM", 2, 3>>,
  L("main"), <<"CLOSURE", 0, "comp">>, <<"PUSH">>, <<"CLOSURE", 0, "run">>, <<"PUSH">>,
  <<"ACC", 1>>, <<"PUSHACC", 1>>, <<"CLOSURE", 2, "mid">>, <<"PUSHCONSTINT", 1>>, <<"PUSHACC", 2>>,
  <<"APPLYn", 2>>, <<"POP", 2>>, Out, <<"STOP">> >>

\* out = try run 2 (fun x -> perform 1 + x) with _ -> 5      then perform 1
Unhandled_ == <<<<"BRANCH", "main">> >> \o Run \o <<
  L("main"), <<"CLOSURE", 0, "comp">>, <<"PUSHTRAP", "with">>, <<"PUSHCONSTINT", 2>>, <<"PUSH">>,
  <<"CLOSURE", 0, "run">>, <<"APPLYn", 2>>, <<"POPTRAP">>, <<"BRANCH", "join">>,
  L("with"), <<"CONSTINT", 5>>, L("join"), Out, <<"CONSTINT", 1>>, <<"PERFORM">>, <<"STOP">> >>

\* out = try run 1 (fun _ -> callback (fun x -> perform 1 + x) 3) with _ -> 6
Barrier == <<<<"BRANCH", "main">> >> \o Run \o <<
  L("mid"), Begin, <<"CONSTINT", 3>>, <<"PUSHENVACC", 2>>, <<"C_CALL", 2, "callback">>, <<"RETURN", 1>>,
  L("main"), <<"CLOSURE", 0, "comp">>, <<"CLOSURE", 1, "mid">>, <<"PUSHTRAP", "with">>,
  <<"PUSHCONSTINT", 1>>, <<"PUSH">>, <<"CLOSURE", 0, "run">>, <<"APPLYn", 2>>, <<"POPTRAP">>,
  <<"BRANCH", "join">>, L("with"), <<"CONSTINT", 6>>, L("join"), Out, <<"STOP">> >>

\* A handler that continues twice: let effc _ k = (try continue k 10; continue k 11 with _ -> 4)
Twice == <<<<"BRANCH", "main">> >> \o Run \o <<
  L("twice_"), <<"RESTART">>,
  L("twice"), <<"GRAB", 2>>, Begin, <<"PUSHTRAP", "with">>,
  <<"CONSTINT", 10>>, <<"PUSH">>, <<"CLOSURE", 0, "id">>, <<"PUSHACC", 7>>, Use, <<"RESUME">>,
  <<"CONSTINT", 11>>, <<"PUSH">>, <<"CLOSURE", 0, "id">>, <<"PUSHACC", 7>>, Use, <<"RESUME">>,
  <<"POPTRAP">>, <<"RETURN", 3>>, L("with"), <<"CONSTINT", 4>>, <<"RETURN", 3>>,
  L("main"), <<"CLOSURE", 0, "comp">>, <<"PUSH">>, <<"CLOSURE", 0, "twice">>, <<"PUSH">>,
  <<"CLOSURE", 0, "exnc">>, <<"PUSH">>, <<"CLOSURE", 0, "retc">>, AllocStack,
  <<"PUSHCONSTINT", 2>>, <<"PUSHACC", 2>>, <<"PUSHACC", 2>>, <<"RESUME">>, <<"POP", 2>>,
  Out, <<"STOP">> >>

-----------------------------------------------------------------------------
(* Signals *)
Install == <<"C_CALL", 2, "caml_install_signal_handler">>

\* Before any of the programs above: signal (fun _ -> ignore (ref 0); incr hits)
Ticking(code) == Assemble(
  <<<<"BRANCH", "start">>,
    L("tick"), Begin, <<"CONSTINT", 0>>, <<"MAKEBLOCK", 1, 0>>, <<"GETGLOBAL", "hits">>, <<"OFFSETREF", 1>>,
    <<"RETURN", 1>>,
    L("start"), Begin, <<"CLOSURE", 0, "tick">>, <<"PUSHCONSTINT", SignalNumber>>, Install>> \o code)

\* A loop that allocates, traps and polls
Loop == <<
  <<"CONSTINT", 2>>, <<"PUSH">>,
  L("loop"), <<"CHECK_SIGNALS">>, <<"PUSHTRAP", "with">>, <<"CONSTINT", 1>>, <<"MAKEBLOCK", 1, 0>>,
  <<"POPTRAP">>, <<"ACC", 0>>, <<"OFFSETINT", -1>>, <<"ASSIGN", 0>>, <<"ACC", 0>>,
  <<"BNEQ", 0, "loop">>, <<"POP", 1>>, <<"STOP">>, L("with"), <<"STOP">> >>

\* signal (fun _ -> raise Not_found)    out = try ignore (ref 1); 1 with _ -> 2
Interrupted == <<
  <<"BRANCH", "main">>,
  L("interrupt"), Begin, <<"GETGLOBAL", "Not_found">>, <<"RERAISE">>,
  L("main"), Begin, <<"PUSHTRAP", "with">>, <<"CLOSURE", 0, "interrupt">>, <<"PUSHCONSTINT", SignalNumber>>,
  Install, <<"CONSTINT", 1>>, <<"MAKEBLOCK", 1, 0>>, <<"CONSTINT", 1>>, <<"POPTRAP">>,
  Out, <<"STOP">>, L("with"), <<"CONSTINT", 2>>, Out, <<"STOP">> >>

\* The handler traps: signal (fun _ -> try () with _ -> ())
Trapping == <<
  <<"BRANCH", "main">>,
  L("traps"), Begin, <<"PUSHTRAP", "with">>, <<"POPTRAP">>, L("with"), <<"RETURN", 1>>,
  L("main"), Begin, <<"CLOSURE", 0, "traps">>, <<"PUSHCONSTINT", SignalNumber>>, Install,
  <<"CHECK_SIGNALS">>, <<"CONSTINT", 1>>, Out, <<"STOP">> >>

\* The handler needs a larger stack: signal (fun _ -> ignore (deep 2)), in Handled
Growing == <<<<"BRANCH", "main">> >> \o Run \o <<
  L("deep"), Begin, <<"ACC", 0>>, <<"BNEQ", 0, "more">>, <<"CONSTINT", 0>>, <<"RETURN", 1>>,
  L("more"), <<"ACC", 0>>, <<"OFFSETINT", -1>>, <<"PUSHOFFSETCLOSURE", 0>>, <<"APPLYn", 1>>,
  <<"OFFSETINT", 1>>, <<"RETURN", 1>>,
  L("main"), Begin, <<"CLOSUREREC", 0, <<"deep">> >>, <<"POP", 1>>, <<"PUSHCONSTINT", SignalNumber>>, Install,
  <<"CLOSURE", 0, "comp">>, <<"PUSHCONSTINT", 1>>, <<"PUSH">>, <<"CLOSURE", 0, "run">>,
  <<"APPLYn", 2>>, Out, <<"STOP">> >>
-----------------------------------------------------------------------------
\* A value as a tree: integers, and blocks as their tag and fields
RECURSIVE Tree(_)
Tree(v) ==
  CASE v[1] = "int" -> Long(v)
    [] v[1] = "ptr" -> <<heap[v[2]].tag>> \o [i \in DOMAIN heap[v[2]].fields |-> Tree(heap[v[2]].fields[i])]
    [] OTHER -> v[2]

MCLiterals == << <<"hits", Block(0, <<Val_int(0)>>)>>,
                 <<"half", Block(Double_tag, <<Data("0.5")>>)>>,
                 <<"pi", Block(Double_tag, <<Data("3.14")>>)>>,
                 <<"text", Block(Bytes_tag, <<Val_int(7), Val_int(8)>>)>> >>

Limits(init, max, nsignals, ncollections) ==
  [init |-> init, max |-> max, signals |-> nsignals, collections |-> ncollections]
Small == Limits(24, 48, 2, 2)   \* the stack grows, and overflows
Large == Limits(60, 60, 2, 2)   \* it never grows
Grows == Limits(24, 48, 0, 3)  \* the stack of a fiber grows
Named(name, code, limits) == [name |-> name, code |-> code, limits |-> limits]

Basics ==
  {Named("calls", Ticking(Calls), Small), Named("evenodd", Ticking(EvenOdd), Small),
   Named("lists", Ticking(Lists), Small), Named("data", Ticking(Data_), Small),
   Named("traps", Ticking(Traps), Small), Named("deep", Ticking(Deep), Small),
   Named("callbacks", Ticking(Callbacks), Small), Named("loop", Ticking(Loop), Small)}
Effects(limits) ==
  {Named("handled", Ticking(Handled), limits), Named("nested", Ticking(Nested), limits),
   Named("unhandled", Ticking(Unhandled_), limits), Named("barrier", Ticking(Barrier), limits),
   Named("twice", Ticking(Twice), limits)}
MCPrograms == Basics \cup Effects(Large) \cup Effects(Grows)

Handlers(limits) ==
  {Named("interrupted", Assemble(Interrupted), limits), Named("trapping", Assemble(Trapping), limits)}
OneSignal == Handlers(Limits(60, 60, 1, 2))
TwoSignals == Handlers(Limits(24, 48, 2, 0))
Late == {Named("growing", Assemble(Growing), Limits(24, 48, 1, 0))}

\* How each program ends, and what it leaves in out
Result ==
  [calls |-> <<"end", 14>>, evenodd |-> <<"end", 2>>, lists |-> <<"end", 3>>,
   data |-> <<"end", <<1, <<0, 1, 3>>, <<253, "0.5">>, <<252, 7, 7>> >> >>,
   traps |-> <<"end", 20>>, deep |-> <<"end", 3>>, callbacks |-> <<"endexn", 13>>,
   loop |-> <<"end", 0>>,
   handled |-> <<"end", 32>>, nested |-> <<"end", 52>>, unhandled |-> <<"endexn", 5>>,
   barrier |-> <<"end", 6>>, twice |-> <<"end", 4>>]

ended == at \in {"end", "endexn"}

\* A program computes what its source says, whatever collections and signals
\* come in between (every instruction, and the frames that save its registers).
ResultRight ==
  ended /\ prog.name \in DOMAIN Result => Result[prog.name] = <<at, Tree(caml_global_data["out"])>>

\* The handler of a signal runs once for each time the signal was recorded and
\* none was pending, but for the one pending at the end: none is lost, also
\* not while its handler runs, and none is handled twice.  (In deep the handler
\* itself may run out of stack.)
SignalsCounted ==
  ended /\ prog.name \in DOMAIN Result \ {"deep"} =>
    Tree(caml_global_data["hits"])[2] + (IF pending THEN 1 ELSE 0) = recorded

\* What a signal handler raises is trapped by the try ... with being run, up to
\* and including its POPTRAP (the comment there): never by the enclosing one.
SignalTrapped ==
  ended /\ prog.name = "interrupted" =>
    /\ at = "end"
    /\ Tree(caml_global_data["out"]) = IF signals = 0 \/ pending THEN 1 ELSE 2
=============================================================================
