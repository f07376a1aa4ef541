------------------------------ MODULE Parsing -------------------------------
(* From a grammar to a parse: ocamlyacc (YaccReader, Yacc) and the engine    *)
(* that runs its tables (runtime/parsing.c, with the driver of              *)
(* stdlib/parsing.ml).  The lexer, a function of the program, may return any *)
(* token, and the end of the file for ever once it has; token number i ends *)
(* at offset 2i and starts one before, so that there is a gap between two.  *)
EXTENDS Yacc, TLC

CONSTANTS Sources,     \* [items, rules: the grammar they stand for, raises]
          MaxTokens,   \* tokens before the end of the file
          StackSize,   \* size of the stacks of the engine, 100 in the code
          MaxSteps     \* bound on the steps of a parse, for termination

VARIABLES source, gen, env, read

vars == <<source, gen, env, read>>

NoEnv == [pc |-> "idle"]

Init ==
    /\ source \in Sources
    /\ gen = [phase |-> "read", rd |-> NewReader]
    /\ env = NoEnv
    /\ read = <<>>

\* The words of up to n tokens of every symbol.
RECURSIVE Concat(_, _, _), WordsFrom(_, _, _)
Concat(L, rhs, n) ==
    IF rhs = <<>> THEN {<<>>}
    ELSE {w \in {u \o v : u \in L[Head(rhs)], v \in Concat(L, Tail(rhs), n)} : Len(w) <= n}
WordsFrom(g, n, L) ==
    LET M == [s \in DOMAIN L |-> L[s] \cup
                UNION {Concat(L, g.rule[r].rhs, n) : r \in {q \in Rules(g) : g.rule[q].lhs = s}}]
    IN  IF M = L THEN L ELSE WordsFrom(g, n, M)
Words(g, n) ==
    WordsFrom(g, n, [s \in 0 .. g.syms.nsyms - 1 |->
                        IF IsVar(g, s) THEN {} ELSE {<<g.syms.value[s]>>}])

-----------------------------------------------------------------------------
(* ocamlyacc: reader, lr0, lalr, make_parser, output, in the order of main.  *)

Reading ==
    /\ gen.phase = "read" /\ gen.rd.err = "" /\ gen.rd.mode # "goal"
    /\ gen' = [gen EXCEPT !.rd = ReadStep(source.items, gen.rd)]
    /\ UNCHANGED <<source, env, read>>

ReaderDone ==
    /\ gen.phase = "read" /\ gen.rd.err = "" /\ gen.rd.mode = "goal"
    /\ LET rd == FinishReader(gen.rd)
       IN  gen' = IF rd.err # "" THEN [gen EXCEPT !.rd = rd]
                  ELSE LET g == Grammar(rd)
                       IN  [phase |-> "lr0", g |-> g, lr |-> initialize_states(g),
                            fd |-> set_first_derives(g)]
    /\ UNCHANGED <<source, env, read>>

GenerateStates ==
    /\ gen.phase = "lr0" /\ gen.lr.this < NStates(gen.lr)
    /\ gen' = [gen EXCEPT !.lr = ExpandState(gen.g, gen.fd, gen.lr)]
    /\ UNCHANGED <<source, env, read>>

MakeTables ==
    /\ gen.phase = "lr0" /\ gen.lr.this = NStates(gen.lr)
    /\ LET la == lalr(gen.g, gen.lr)
           par == make_parser(gen.g, gen.lr, la.LA)
       IN  gen' = [phase |-> "pack", g |-> gen.g, lr |-> gen.lr, LA |-> la.LA, par |-> par,
                   pk |-> output_actions(gen.g, gen.lr, la.gm, par)]
    /\ UNCHANGED <<source, env, read>>

PackTable ==
    /\ gen.phase = "pack" /\ ~Packed(gen.pk)
    /\ gen' = [gen EXCEPT !.pk = PackStep(@)]
    /\ UNCHANGED <<source, env, read>>

\* words, the words of the grammar, is for the properties only.
Output ==
    /\ gen.phase = "pack" /\ Packed(gen.pk)
    /\ gen' = [phase |-> "run", g |-> gen.g, lr |-> gen.lr,
               words |-> Words(gen.g, MaxTokens + 3),
               clean |-> \A k \in DOMAIN gen.par.SR : gen.par.SR[k] = 0 /\ gen.par.RR[k] = 0,
               tables |-> WrittenTables(gen.g, gen.par, gen.pk)]
    /\ UNCHANGED <<source, env, read>>

-----------------------------------------------------------------------------
(* The engine.                                                              *)

Tb == gen.tables
ERRCODE == 256
EmptyStack(n) == [i \in 0 .. n - 1 |-> 0]
Leaf(t, i) == [token |-> t, at |-> i]
Node(r, kids) == [rule |-> r, kids |-> kids]
Nothing == [token |-> -1, at |-> 0]

\* yyparse: the entry point is read as a first token.
StartParse ==
    /\ gen.phase = "run" /\ env.pc = "idle"
    /\ \E entry \in {gen.g.syms.value[gen.g.rule[r].rhs[1]] :
                     r \in {q \in Rules(gen.g) : gen.g.rule[q].lhs = gen.g.syms.start_symbol + 1}} :
         env' = [pc |-> "loop", entry |-> entry, n |-> 0, steps |-> 0,
                 s_stack |-> EmptyStack(StackSize),
                 v_stack |-> [i \in 0 .. StackSize - 1 |-> Nothing],
                 start_stack |-> EmptyStack(StackSize), end_stack |-> EmptyStack(StackSize),
                 stacksize |-> StackSize, stackbase |-> 1, curr_char |-> entry,
                 lval |-> Nothing, symb_start |-> 0, symb_end |-> 0,
                 asp |-> 0, sp |-> 0, state |-> 0, errflag |-> 0]
    /\ UNCHANGED <<source, gen, read>>

\* The lookups of the engine: an entry of the packed tables, if it is there.
Has(base, code) ==
    /\ base # 0 /\ base + code >= 0 /\ base + code <= Tb.tablesize
    /\ Tb.check[base + code] = code

Goes(e, pc) == [e EXCEPT !.pc = pc, !.steps = @ + 1]

EngineLoop ==
    /\ env.pc = "loop"
    /\ LET n == Tb.defred[env.state]
       IN  env' = IF n # 0 THEN [Goes(env, "reduce") EXCEPT !.n = n]
                  ELSE IF env.curr_char >= 0 THEN Goes(env, "testshift")
                  ELSE Goes(env, "READ_TOKEN")
    /\ UNCHANGED <<source, gen, read>>

\* The lexer answers with token t: a constant constructor or a block.
ReadToken ==
    /\ env.pc = "READ_TOKEN"
    /\ \E kind \in {"const", "block"} :
         LET table == IF kind = "const" THEN Tb.transl_const ELSE Tb.transl_block
         IN  \E i \in DOMAIN table \ {Cardinality(DOMAIN table) - 1} :
               LET code == table[i]
                   at == Len(read) + 1
               IN  /\ code = 0 \/ Len(read) < MaxTokens
                   /\ Len(read) > 0 => Last(read) # 0 \/ code = 0
                   /\ read' = Append(read, code)
                   /\ env' = [Goes(env, "testshift") EXCEPT
                                 !.curr_char = code, !.lval = Leaf(code, at),
                                 !.symb_start = 2 * at - 1, !.symb_end = 2 * at]
    /\ UNCHANGED <<source, gen>>

ShiftTo(e, sp, state) ==
    [Goes(e, IF sp < e.stacksize THEN "push" ELSE "GROW_STACKS_1") EXCEPT
        !.sp = sp, !.state = state]

TestShift ==
    /\ env.pc = "testshift"
    /\ LET s == Tb.sindex[env.state]
           r == Tb.rindex[env.state]
           c == env.curr_char
       IN  env' = IF Has(s, c)
                  THEN ShiftTo([env EXCEPT !.curr_char = -1,
                                           !.errflag = IF @ > 0 THEN @ - 1 ELSE @],
                               env.sp + 1, Tb.table[s + c])
                  ELSE IF Has(r, c) THEN [Goes(env, "reduce") EXCEPT !.n = Tb.table[r + c]]
                  ELSE IF env.errflag > 0 THEN Goes(env, "recover")
                  ELSE Goes(env, "CALL_ERROR_FUNCTION")
    /\ UNCHANGED <<source, gen, read>>

\* The driver calls the error function of the program, then ERROR_DETECTED.
CallErrorFunction ==
    /\ env.pc = "CALL_ERROR_FUNCTION"
    /\ env' = Goes(env, "recover")
    /\ UNCHANGED <<source, gen, read>>

Recover ==
    /\ env.pc = "recover"
    /\ LET ready == {sp \in env.stackbase .. env.sp : Has(Tb.sindex[env.s_stack[sp]], ERRCODE)}
           top == Max(ready)
       IN  env' = IF env.errflag < 3
                  THEN IF ready = {} THEN Goes(env, "RAISE_PARSE_ERROR")
                       ELSE ShiftTo([env EXCEPT !.errflag = 3], top + 1,
                                    Tb.table[Tb.sindex[env.s_stack[top]] + ERRCODE])
                  ELSE IF env.curr_char = 0 THEN Goes(env, "RAISE_PARSE_ERROR")
                  ELSE [Goes(env, "loop") EXCEPT !.curr_char = -1]
    /\ UNCHANGED <<source, gen, read>>

Grown(s, n, d) == [i \in 0 .. 2 * n - 1 |-> IF i < n THEN s[i] ELSE d]

grow_stacks(e) ==
    LET n == e.stacksize
    IN  [e EXCEPT !.stacksize = 2 * n, !.s_stack = Grown(@, n, 0),
                  !.v_stack = Grown(@, n, Nothing), !.start_stack = Grown(@, n, 0),
                  !.end_stack = Grown(@, n, 0)]

GrowStacks ==
    /\ env.pc \in {"GROW_STACKS_1", "GROW_STACKS_2"}
    /\ env' = Goes(grow_stacks(env), IF env.pc = "GROW_STACKS_1" THEN "push" ELSE "action")
    /\ UNCHANGED <<source, gen, read>>

Push ==
    /\ env.pc = "push"
    /\ env' = [Goes(env, "loop") EXCEPT
                  !.s_stack[env.sp] = env.state, !.v_stack[env.sp] = env.lval,
                  !.start_stack[env.sp] = env.symb_start, !.end_stack[env.sp] = env.symb_end]
    /\ UNCHANGED <<source, gen, read>>

Reduce ==
    /\ env.pc = "reduce"
    /\ LET sp == env.sp - Tb.len[env.n] + 1
           m == Tb.lhs[env.n]
           under == env.s_stack[sp - 1]
           b == Tb.gindex[m]
       IN  env' = [Goes(env, IF sp < env.stacksize THEN "action" ELSE "GROW_STACKS_2") EXCEPT
                      !.asp = env.sp, !.sp = sp,
                      !.state = IF Has(b, under) THEN Tb.table[b + under] ELSE Tb.dgoto[m]]
    /\ UNCHANGED <<source, gen, read>>

\* The semantic action of a rule builds a tree; that of an entry point ends
\* the parse, and the driver restores what it found in the environment.
SemanticAction ==
    /\ env.pc = "action"
    /\ LET m == Tb.len[env.n]
           entry == Tb.lhs[env.n] = 0
           peek(i) == env.v_stack[env.asp - i]
           value == Node(env.n + 2, [i \in 1 .. m |-> peek(m - i)])
       IN  env' = IF entry
                  THEN [Goes(env, "YYexit") EXCEPT !.lval = peek(0), !.sp = 0, !.state = 0,
                                                   !.errflag = 0, !.asp = 0]
                  ELSE [Goes(env, "loop") EXCEPT
                           !.s_stack[env.sp] = env.state, !.v_stack[env.sp] = value,
                           !.end_stack[env.sp] = env.end_stack[env.asp],
                           !.start_stack[env.sp] = IF env.sp > env.asp THEN env.end_stack[env.asp] ELSE @]
    /\ UNCHANGED <<source, gen, read>>

\* An action may raise Parse_error: ERROR_DETECTED with the rule popped.
ActionFails ==
    /\ env.pc = "action" /\ env.n \in source.raises
    /\ env' = Goes(env, "recover")
    /\ UNCHANGED <<source, gen, read>>

Next ==
    \/ Reading \/ ReaderDone \/ GenerateStates \/ MakeTables \/ PackTable \/ Output
    \/ StartParse \/ EngineLoop \/ ReadToken \/ TestShift \/ CallErrorFunction \/ Recover
    \/ GrowStacks \/ Push \/ Reduce \/ SemanticAction \/ ActionFails

Spec == Init /\ [][Next]_vars
-----------------------------------------------------------------------------
(* What the generator and the engine are compared with.                     *)

\* FIRST of every symbol: the tokens its words may start with.
RECURSIVE FirstFrom(_, _, _)
FirstOf(F, N, rhs) ==
    UNION {F[rhs[i]] : i \in {j \in DOMAIN rhs : \A m \in 1 .. j - 1 : rhs[m] \in N}}
FirstFrom(g, N, F) ==
    LET G == [s \in DOMAIN F |-> F[s] \cup
                UNION {FirstOf(F, N, g.rule[r].rhs) : r \in {q \in Rules(g) : g.rule[q].lhs = s}}]
    IN  IF G = F THEN F ELSE FirstFrom(g, N, G)
First(g, N) ==
    FirstFrom(g, N, [s \in 0 .. g.syms.nsyms - 1 |-> IF IsVar(g, s) THEN {} ELSE {s}])

\* LR(1) items of the LR(0) states: <<state, rule, dot, token>>, from the
\* definition: what follows a rule where it is expected.
RECURSIVE ItemsFrom(_, _, _, _, _)
Follows(g, lr, N, F, it) ==
    LET rhs == g.rule[it[2]].rhs
        s == After_(g, <<it[2], it[3]>>)
        rest == SubSeq(rhs, it[3] + 2, Len(rhs))
        la == FirstOf(F, N, rest) \cup (IF Range(rest) \subseteq N THEN {it[4]} ELSE {})
    IN  IF s <= 0 THEN {}
        ELSE {<<GoTo(lr, it[1], s), it[2], it[3] + 1, it[4]>>} \cup
             {<<it[1], r, 0, t>> : r \in {q \in Rules(g) : g.rule[q].lhs = s}, t \in la}
ItemsFrom(g, lr, N, F, S) ==
    LET T == S \cup UNION {Follows(g, lr, N, F, it) : it \in S}
    IN  IF T = S THEN S ELSE ItemsFrom(g, lr, N, F, T)
Lookaheads(g, lr) ==
    LET N == set_nullable(g)
        S == ItemsFrom(g, lr, N, First(g, N), {<<0, 2, 0, 0>>})
    IN  [kr \in UNION {{<<k, r>> : r \in Range(lr.reds[k + 1])} : k \in States(lr)} |->
            {it[4] : it \in {i \in S : /\ i[1] = kr[1] /\ i[2] = kr[2]
                                       /\ i[3] = Len(g.rule[kr[2]].rhs)}}]

\* What the tables say of state k on code c, and over variable v.
Decoded(tb, k, c) ==
    LET has(b) == b # 0 /\ b + c \in 0 .. tb.tablesize /\ tb.check[b + c] = c
    IN  IF tb.defred[k] # 0 THEN <<"reduce", tb.defred[k]>>
        ELSE IF has(tb.sindex[k]) THEN <<"shift", tb.table[tb.sindex[k] + c]>>
        ELSE IF has(tb.rindex[k]) THEN <<"reduce", tb.table[tb.rindex[k] + c]>>
        ELSE <<"error", 0>>

DecodedGoto(tb, k, v) ==
    LET b == tb.gindex[v]
    IN  IF b # 0 /\ b + k \in 0 .. tb.tablesize /\ tb.check[b + k] = k
        THEN tb.table[b + k] ELSE tb.dgoto[v]

\* What the report says of state k on symbol t.
Reported(rep, t) ==
    IF \E x \in rep.shifts : x[1] = t
    THEN <<"shift", (CHOOSE x \in rep.shifts : x[1] = t)[2]>>
    ELSE IF \E x \in rep.reductions.on : x[1] = t
    THEN <<"reduce", (CHOOSE x \in rep.reductions.on : x[1] = t)[2]>>
    ELSE IF rep.reductions.default # 0 THEN <<"reduce", rep.reductions.default>>
    ELSE <<"error", 0>>

SymbolNames(g, seq) == [i \in DOMAIN seq |-> g.syms.name[seq[i]]]

TablesReady == gen.phase = "pack" /\ Packed(gen.pk)

\* ocamlyacc is right about the grammar it has read: the rules are those of
\* the source, the lookaheads of yacc/lalr.c, computed with relations between
\* gotos and the digraph traversal, are the ones of the definition of
\* LALR(1), and the packed tables of yacc/output.c give on every token and
\* variable the answer that the report of yacc/verbose.c announces.
GeneratorRight ==
    TablesReady =>
      LET g == gen.g
          user == [i \in 1 .. Len(source.rules) |->
                     <<g.syms.name[g.rule[i + 2].lhs], SymbolNames(g, g.rule[i + 2].rhs)>>]
          tb == WrittenTables(g, gen.par, gen.pk)
          codes == {t \in Tokens(g) : \A u \in Tokens(g) \ {t} : g.syms.value[u] # g.syms.value[t]}
      IN  /\ user = source.rules
          /\ gen.LA = Lookaheads(g, gen.lr)
          /\ \A k \in States(gen.lr) :
               LET rep == print_state(g, gen.lr, gen.par, k)
               IN  /\ \A t \in codes : Decoded(tb, k, g.syms.value[t]) = Reported(rep, t)
                   /\ \A x \in rep.gotos : DecodedGoto(tb, k, g.syms.value[x[1]]) = x[2]

-----------------------------------------------------------------------------
RECURSIVE Yield(_)
Yield(tree) ==
    IF "token" \in DOMAIN tree THEN <<tree>>
    ELSE FlattenSeq([i \in DOMAIN tree.kids |-> Yield(tree.kids[i])])
YieldCodes(tree) == LET y == Yield(tree) IN [i \in DOMAIN y |-> y[i].token]

\* The symbol a tree is a derivation of.
RECURSIVE Derives(_, _, _)
Derives(g, tree, s) ==
    IF "token" \in DOMAIN tree THEN g.syms.value[s] = tree.token /\ ~IsVar(g, s)
    ELSE /\ g.rule[tree.rule].lhs = s
         /\ Len(g.rule[tree.rule].rhs) = Len(tree.kids)
         /\ \A i \in DOMAIN tree.kids : Derives(g, tree.kids[i], g.rule[tree.rule].rhs[i])

\* The variable of the entry point that is being parsed.
EntryVar ==
    gen.g.rule[CHOOSE r \in Rules(gen.g) \ {2} :
        /\ gen.g.rule[r].lhs = gen.g.syms.start_symbol + 1
        /\ gen.g.syms.value[gen.g.rule[r].rhs[1]] = env.entry].rhs[2]

Viable(w) == \E u \in gen.words[EntryVar] : IsPrefix(w, u)

Binary(g, r) == Len(g.rule[r].rhs) = 3 /\ g.rule[r].prec > 0

\* A tree of binary operators groups them as their precedences say.
RECURSIVE Grouped(_, _, _)
Grouped(g, tree, levels) ==
    "rule" \in DOMAIN tree =>
      /\ \A i \in DOMAIN tree.kids : Grouped(g, tree.kids[i], levels)
      /\ Binary(g, tree.rule) => \A i \in {1, 3} :
           LET kid == tree.kids[i]
               r == g.rule[tree.rule]
           IN  "rule" \in DOMAIN kid /\ Binary(g, kid.rule) =>
                 LET q == g.rule[kid.rule]
                 IN  /\ q.prec >= r.prec
                     /\ q.prec = r.prec /\ r.assoc \in levels =>
                          \/ i = 1 /\ r.assoc = "LEFT"
                          \/ i = 3 /\ r.assoc = "RIGHT"

\* The parser does what the grammar says.  It accepts only words of the
\* grammar, with a tree that derives them and that groups operators by
\* precedence; it reports the first error at the first token that no word
\* of the grammar continues with; it ends; and the stack is a path of the
\* automaton, whatever was recovered from.
ParsesRight ==
    env.pc # "idle" =>
      /\ env.steps < MaxSteps
      /\ env.pc = "YYexit" /\ ~source.recovers =>
           /\ Derives(gen.g, env.lval, EntryVar)
           /\ IsPrefix(YieldCodes(env.lval), read)
           /\ Grouped(gen.g, env.lval, {"LEFT", "RIGHT"})
      /\ env.pc = "CALL_ERROR_FUNCTION" /\ gen.clean /\ ~source.recovers =>
           Viable(Front(read)) /\ ~Viable(read)
      /\ env.pc = "loop" =>
           \A i \in env.stackbase + 1 .. env.sp :
              env.s_stack[i] \in Shifts(gen.lr, env.s_stack[i - 1])
      /\ env.pc = "action" /\ ~source.recovers =>
           LET m == Tb.len[env.n]
               y == FlattenSeq([i \in 1 .. m |-> Yield(env.v_stack[env.asp - m + i])])
           IN  y # <<>> /\ Last(y).at > 0 => env.end_stack[env.asp] = 2 * Last(y).at
=============================================================================
