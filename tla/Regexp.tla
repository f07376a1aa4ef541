------------------------------- MODULE Regexp -------------------------------
(* The Str library: the compiler of regular expressions (str.ml) and the    *)
(* backtracking interpreter of its bytecode (strstubs.c), with the stack of *)
(* backtrack points chained in blocks, the recording of groups, the         *)
(* progress registers, the searches and the two-pass replacement.           *)
EXTENDS Integers, Sequences, FiniteSets, SequencesExt

\* A world: [re, fold, chars, len, modes, block, default, registers, repls]:
\* the expression, whether case is folded, the characters and the length of
\* the subjects, the operations called, BACKTRACK_STACK_BLOCK_SIZE,
\* DEFAULT_NUM_GROUPS, NUM_REGISTERS, and the replacement templates.
CONSTANT Worlds

VARIABLES
    world,   \* the world chosen at the start, never changed
    re,      \* its compiled expression, never changed
    m        \* the call in progress: see Idle and Call
vars == <<world, re, m>>

NUL == 0
lower_a == 1
lower_b == 2
upper_a == 3
newline == 4
space == 5
backslash == 6
Digit(n) == 10 + n
Chars == 0..6

NULL == -1
Norm(c) == IF c = upper_a THEN lower_a ELSE c
fold_case(S) == {c \in Chars : \E d \in S : Norm(c) = Norm(d)}
Is_word_letter(c) == c \in {lower_a, lower_b, upper_a}

-----------------------------------------------------------------------------
(* Syntax trees.                                                           *)
Chr(c) == [t |-> "Char", c |-> c]
Str(s) == [t |-> "String", s |-> s]
CharClass(S, compl) == [t |-> "CharClass", set |-> S, compl |-> compl]
Seqn(rl) == [t |-> "Seq", rl |-> rl]
Alt(a, b) == [t |-> "Alt", a |-> a, b |-> b]
Star(r) == [t |-> "Star", r |-> r]
Plus(r) == [t |-> "Plus", r |-> r]
Option(r) == [t |-> "Option", r |-> r]
Group(n, r) == [t |-> "Group", n |-> n, r |-> r]
Refgroup(n) == [t |-> "Refgroup", n |-> n]
Bol == [t |-> "Bol"]
Eol == [t |-> "Eol"]
Wordboundary == [t |-> "Wordboundary"]

RECURSIVE is_nullable(_)
is_nullable(e) ==
    CASE e.t \in {"Char", "CharClass"} -> FALSE
      [] e.t = "String" -> e.s = <<>>
      [] e.t = "Seq" -> \A i \in DOMAIN e.rl : is_nullable(e.rl[i])
      [] e.t = "Alt" -> is_nullable(e.a) \/ is_nullable(e.b)
      [] e.t \in {"Plus", "Group"} -> is_nullable(e.r)
      [] OTHER -> TRUE

ClassOf(e) ==
    IF e.t = "Char" THEN {e.c}
    ELSE IF e.compl THEN Chars \ e.set ELSE e.set

RECURSIVE first(_), first_seq(_)
first(e) ==
    CASE e.t \in {"Char", "CharClass"} -> ClassOf(e)
      [] e.t = "String" -> IF e.s = <<>> THEN Chars ELSE {e.s[1]}
      [] e.t = "Seq" -> first_seq(e.rl)
      [] e.t = "Alt" -> first(e.a) \union first(e.b)
      [] e.t \in {"Plus", "Group"} -> first(e.r)
      [] OTHER -> Chars
first_seq(rl) ==
    IF rl = <<>> THEN Chars
    ELSE IF Head(rl).t \in {"Bol", "Eol", "Wordboundary"}
           THEN first_seq(Tail(rl))
    ELSE IF Head(rl).t \in {"Star", "Option"}
           THEN first(Head(rl).r) \union first_seq(Tail(rl))
    ELSE first(Head(rl))

-----------------------------------------------------------------------------
(* The compiler.  Code is relocatable: GOTO and PUSHBACK hold displacements *)
(* from the instruction that follows them.                                 *)
I(op, arg) == [op |-> op, arg |-> arg]

charclass_of_regexp(fold, e) ==
    LET cl1 == IF e.t = "Char" THEN {e.c} ELSE e.set
        cl2 == IF fold THEN fold_case(cl1) ELSE cl1
    IN IF e.t = "CharClass" /\ e.compl THEN Chars \ cl2 ELSE cl2

disjoint_modulo_case(fold, c1, c2) ==
    IF fold THEN fold_case(c1) \intersect fold_case(c2) = {}
    ELSE c1 \intersect c2 = {}

RECURSIVE emit_string(_, _)
emit_string(fold, s) ==
    LET nul == SelectInSeq(s, LAMBDA c : c = NUL)
    IN IF s = <<>> THEN <<>>
       ELSE IF Len(s) = 1
         THEN <<IF fold THEN I("CHARNORM", Norm(s[1])) ELSE I("CHAR", s[1])>>
       ELSE IF nul # 0
         THEN emit_string(fold, SubSeq(s, 1, nul - 1)) \o <<I("CHAR", NUL)>>
                \o emit_string(fold, SubSeq(s, nul + 1, Len(s)))
       ELSE <<IF fold THEN I("STRINGNORM", [i \in DOMAIN s |-> Norm(s[i])])
              ELSE I("STRING", s)>>

Simple(fold, rl) ==
    /\ Head(rl).t \in {"Star", "Plus", "Option"}
    /\ Head(rl).r.t \in {"Char", "CharClass"}
    /\ disjoint_modulo_case(fold, first(Head(rl).r), first_seq(Tail(rl)))
SimpleOp == [Star |-> "SIMPLESTAR", Plus |-> "SIMPLEPLUS", Option |-> "SIMPLEOPT"]

\* [code, regs]: the instructions of e and the registers used so far.
RECURSIVE emit_code(_, _, _), emit_seq_code(_, _, _)
emit_code(fold, e, n) ==
    LET reg == is_nullable(e.r)
        body == emit_code(fold, e.r, IF reg THEN n + 1 ELSE n)
        mark == IF reg THEN <<I("SETMARK", n)>> ELSE <<>>
        check == IF reg THEN <<I("CHECKPROGRESS", n)>> ELSE <<>>
        loop == mark \o body.code \o check
        a == emit_code(fold, e.a, n)
        b == emit_code(fold, e.b, a.regs)
        inner == emit_code(fold, e.r, n)
    IN CASE e.t = "Char" -> [code |-> emit_string(fold, <<e.c>>), regs |-> n]
         [] e.t = "String" -> [code |-> emit_string(fold, e.s), regs |-> n]
         [] e.t = "CharClass" ->
              [code |-> <<I("CHARCLASS", charclass_of_regexp(fold, e))>>,
               regs |-> n]
         [] e.t = "Seq" -> emit_seq_code(fold, e.rl, n)
         [] e.t = "Alt" ->
              [code |-> <<I("PUSHBACK", Len(a.code) + 1)>> \o a.code
                          \o <<I("GOTO", Len(b.code))>> \o b.code,
               regs |-> b.regs]
         [] e.t = "Star" ->
              [code |-> <<I("PUSHBACK", Len(loop) + 1)>> \o loop
                          \o <<I("GOTO", -(Len(loop) + 2))>>,
               regs |-> body.regs]
         [] e.t = "Plus" ->
              [code |-> body.code \o check \o <<I("PUSHBACK", Len(mark) + 1)>>
                          \o mark \o <<I("GOTO", -(Len(loop) + 2))>>,
               regs |-> body.regs]
         [] e.t = "Option" ->
              [code |-> <<I("PUSHBACK", Len(inner.code))>> \o inner.code,
               regs |-> inner.regs]
         [] e.t = "Group" ->
              [code |-> <<I("BEGGROUP", e.n)>> \o inner.code
                          \o <<I("ENDGROUP", e.n)>>,
               regs |-> inner.regs]
         [] e.t = "Refgroup" -> [code |-> <<I("REFGROUP", e.n)>>, regs |-> n]
         [] e.t = "Bol" -> [code |-> <<I("BOL", 0)>>, regs |-> n]
         [] e.t = "Eol" -> [code |-> <<I("EOL", 0)>>, regs |-> n]
         [] e.t = "Wordboundary" ->
              [code |-> <<I("WORDBOUNDARY", 0)>>, regs |-> n]
emit_seq_code(fold, rl, n) ==
    LET r == Head(rl)
        one == IF Simple(fold, rl)
                 THEN [code |-> <<I(SimpleOp[r.t],
                                    charclass_of_regexp(fold, r.r))>>,
                       regs |-> n]
                 ELSE emit_code(fold, r, n)
        rest == emit_seq_code(fold, Tail(rl), one.regs)
    IN IF rl = <<>> THEN [code |-> <<>>, regs |-> n]
       ELSE [code |-> one.code \o rest.code, regs |-> rest.regs]

RECURSIVE GroupsOf(_)
GroupsOf(e) ==
    CASE e.t = "Seq" -> UNION {GroupsOf(e.rl[i]) : i \in DOMAIN e.rl}
      [] e.t = "Alt" -> GroupsOf(e.a) \union GroupsOf(e.b)
      [] e.t \in {"Star", "Plus", "Option"} -> GroupsOf(e.r)
      [] e.t = "Group" -> {e.n} \union GroupsOf(e.r)
      [] e.t = "Refgroup" -> {e.n}
      [] OTHER -> {}
NumGroups(e) == CHOOSE n \in 1..10 :
                     /\ \A g \in GroupsOf(e) : g < n
                     /\ n = 1 \/ n - 1 \in GroupsOf(e)

compile(fold, e) ==
    LET c == emit_code(fold, e, 0)
        start == first(e)
    IN [prog |-> Append(c.code, I("ACCEPT", 0)),
        regs |-> c.regs,
        groups |-> NumGroups(e),
        startchars |-> IF start = Chars THEN "any"
                       ELSE "some",
        starts |-> IF fold THEN fold_case(start) ELSE start]

-----------------------------------------------------------------------------
(* The interpreter.  A state of re_match: the instruction, the text pointer, *)
(* the groups, the registers, and the chained blocks of backtrack points;    *)
(* "blocks" counts the blocks and "arrays" the group arrays allocated.       *)
Idle == [at |-> "idle", blocks |-> 0, arrays |-> 0]

NoGroups == [g \in 0..(re.groups - 1) |-> [start |-> NULL, end |-> NULL]]

\* re_match's prologue, from position p of the call c.
re_match(c, p) ==
    [c EXCEPT !.at = "run", !.pc = 1, !.txt = p, !.from = p,
              !.groups = [NoGroups EXCEPT ![0].start = p],
              !.regs = [r \in 0..(re.regs - 1) |-> NULL],
              !.stack = <<<<>>>>,
              !.arrays = IF re.groups > world.default THEN @ + 1 ELSE @]

Push(c, back) ==
    IF Len(Last(c.stack)) = world.block
      THEN [c EXCEPT !.stack = Append(@, <<back>>), !.blocks = @ + 1]
      ELSE [c EXCEPT !.stack[Len(c.stack)] = Append(@, back)]

FreeGroups(c) == IF re.groups > world.default THEN c.arrays - 1 ELSE c.arrays

re_alloc_groups(c) ==
    [g \in DOMAIN c.groups |->
        IF c.groups[g].start = NULL \/ c.groups[g].end = NULL
          THEN [start |-> NULL, end |-> NULL]
          ELSE c.groups[g]]

free_backtrack_stack(c) == c.blocks - (Len(c.stack) - 1)

Accept(c) ==
    LET d == [c EXCEPT !.groups[0].end = c.txt]
    IN [d EXCEPT !.at = "matched", !.blocks = free_backtrack_stack(c),
                 !.groups = re_alloc_groups(d), !.arrays = FreeGroups(c),
                 !.stack = <<<<>>>>]

\* The assignments made since the backtrack point are kept.
UndoNothing(c, u) == c

Undo(c, u) ==
    CASE u.loc = "start" -> [c EXCEPT !.groups[u.n].start = u.val]
      [] u.loc = "end" -> [c EXCEPT !.groups[u.n].end = u.val]
      [] u.loc = "reg" -> [c EXCEPT !.regs[u.n] = u.val]

\* The loop at label backtrack.
RECURSIVE Backtrack(_)
Backtrack(c) ==
    LET n == Len(c.stack)
        top == c.stack[n]
        popped == [c EXCEPT !.stack[n] = Front(@)]
    IN IF top = <<>>
         THEN IF n = 1
                THEN [c EXCEPT !.at = "rejected", !.arrays = FreeGroups(c)]
                ELSE Backtrack([c EXCEPT !.stack = Front(@),
                                         !.blocks = @ - 1])
       ELSE IF Last(top).loc = "pos"
         THEN [popped EXCEPT !.pc = Last(top).n, !.txt = Last(top).val]
       ELSE Backtrack(Undo(popped, Last(top)))

\* Label prefix_match: the text ended before the instruction could match.
PrefixMatch(c) ==
    LET d == [c EXCEPT !.txt = Len(c.text)]
    IN IF c.mode = "partial" THEN Accept(d) ELSE Backtrack(c)

Point(loc, n, val) == [loc |-> loc, n |-> n, val |-> val]
Here(c) == c.text[c.txt + 1]
Advance(c, n) == [c EXCEPT !.txt = @ + n]
AtEnd(c) == c.txt = Len(c.text)

TakeOne(c, S) ==
    IF AtEnd(c) THEN PrefixMatch(c)
    ELSE IF Here(c) \notin S THEN Backtrack(c)
    ELSE Advance(c, 1)

\* Match the characters of s one by one with those of the text, given as it is or
\* normalised.
TakeString(c, s, text) ==
    LET left == Len(c.text) - c.txt
        agree == {k \in 0..Len(s) :
                    /\ k <= left
                    /\ \A i \in 1..k : s[i] = text[c.txt + i]}
        k == CHOOSE x \in agree : \A y \in agree : y <= x
    IN IF k = Len(s) THEN Advance(c, k)
       ELSE IF k = left THEN PrefixMatch(c)
       ELSE Backtrack(c)

\* The characters of S from the text pointer on.
Run(c, S) ==
    LET runs == {k \in 0..(Len(c.text) - c.txt) :
                    \A i \in 1..k : c.text[c.txt + i] \in S}
    IN CHOOSE x \in runs : \A y \in runs : y <= x

AtWordBoundary(c) ==
    LET before == Is_word_letter(c.text[c.txt])
        after == Is_word_letter(Here(c))
    IN IF c.txt = 0 THEN after
       ELSE IF AtEnd(c) THEN before
       ELSE before # after

RefGroup(c, g) ==
    IF g.start = NULL \/ g.end = NULL THEN Backtrack(c)
    ELSE TakeString(c, SubSeq(c.text, g.start + 1, g.end), c.text)

\* One turn of the interpreter's loop.
Exec(m0) ==
    LET i == re.prog[m0.pc]
        c == [m0 EXCEPT !.pc = @ + 1]
        a == i.arg
    IN CASE i.op = "CHAR" -> TakeOne(c, {a})
         [] i.op = "CHARNORM" -> TakeOne(c, {x \in Chars : Norm(x) = a})
         [] i.op = "STRING" -> TakeString(c, a, c.text)
         [] i.op = "STRINGNORM" -> TakeString(c, a, [j \in DOMAIN c.text |-> Norm(c.text[j])])
         [] i.op = "CHARCLASS" -> TakeOne(c, a)
         [] i.op = "BOL" ->
              IF c.txt > 0 /\ c.text[c.txt] # newline THEN Backtrack(c) ELSE c
         [] i.op = "EOL" ->
              IF ~AtEnd(c) /\ Here(c) # newline THEN Backtrack(c) ELSE c
         [] i.op = "WORDBOUNDARY" ->
              IF c.txt = 0 /\ AtEnd(c) THEN PrefixMatch(c)
              ELSE IF AtWordBoundary(c) THEN c ELSE Backtrack(c)
         [] i.op = "BEGGROUP" ->
              Push([c EXCEPT !.groups[a].start = c.txt],
                   Point("start", a, c.groups[a].start))
         [] i.op = "ENDGROUP" ->
              Push([c EXCEPT !.groups[a].end = c.txt],
                   Point("end", a, c.groups[a].end))
         [] i.op = "REFGROUP" -> RefGroup(c, c.groups[a])
         [] i.op = "ACCEPT" -> Accept(c)
         [] i.op = "SIMPLEOPT" ->
              IF ~AtEnd(c) /\ Here(c) \in a THEN Advance(c, 1) ELSE c
         [] i.op = "SIMPLESTAR" -> Advance(c, Run(c, a))
         [] i.op = "SIMPLEPLUS" ->
              IF AtEnd(c) THEN PrefixMatch(c)
              ELSE IF Run(c, a) = 0 THEN Backtrack(c)
              ELSE Advance(c, Run(c, a))
         [] i.op = "GOTO" -> [c EXCEPT !.pc = @ + a]
         [] i.op = "PUSHBACK" -> Push(c, Point("pos", c.pc + a, c.txt))
         [] i.op = "SETMARK" ->
              Push([c EXCEPT !.regs[a] = c.txt], Point("reg", a, c.regs[a]))
         [] i.op = "CHECKPROGRESS" ->
              IF c.regs[a] = c.txt THEN Backtrack(c) ELSE c

-----------------------------------------------------------------------------
(* The entry points.                                                       *)
Started(text, mode, pos) ==
    [at |-> "run", mode |-> mode, text |-> text, pc |-> 1, txt |-> 0,
     pos |-> pos, from |-> 0, groups |-> NoGroups, regs |-> <<>>, stack |-> <<<<>>>>,
     blocks |-> 0, arrays |-> 0, repl |-> <<>>, size |-> 0, out |-> <<>>]

CharAt(text, p) == IF p = Len(text) THEN NUL ELSE text[p + 1]

\* The nearest position at or after p (at or before p) where re_match is tried.
SkipForward(text, p) ==
    IF re.startchars = "any" THEN p
    ELSE CHOOSE q \in p..Len(text) :
             /\ q = Len(text) \/ CharAt(text, q) \in re.starts
             /\ \A x \in p..(q - 1) : CharAt(text, x) \notin re.starts
SkipBackward(text, p) ==
    IF re.startchars = "any" THEN p
    ELSE CHOOSE q \in 0..p :
             /\ q = 0 \/ CharAt(text, q) \in re.starts
             /\ \A x \in (q + 1)..p : CharAt(text, x) \notin re.starts

Failed(c) == [c EXCEPT !.at = "failed"]

re_string_match(c, p) == re_match(c, p)
re_partial_match(c, p) == re_match(c, p)
re_search_forward(c, p) ==
    IF p > Len(c.text) THEN Failed(c) ELSE re_match(c, SkipForward(c.text, p))
re_search_backward(c, p) ==
    IF p < 0 THEN Failed(c) ELSE re_match(c, SkipBackward(c.text, p))

Call(text, mode, pos) ==
    LET c == Started(text, mode, pos)
    IN /\ m.at = "idle"
       /\ m' = IF re.regs > world.registers
                 THEN [c EXCEPT !.at = "uncompiled"]
               ELSE IF pos < 0 \/ pos > Len(text)
                 THEN [c EXCEPT !.at = "invalid"]
               ELSE CASE mode = "match" -> re_string_match(c, pos)
                      [] mode = "partial" -> re_partial_match(c, pos)
                      [] mode = "forward" -> re_search_forward(c, pos)
                      [] mode = "backward" -> re_search_backward(c, pos)
       /\ UNCHANGED <<world, re>>

Step ==
    /\ m.at = "run"
    /\ m' = Exec(m)
    /\ UNCHANGED <<world, re>>

\* re_match returned 0.
Retry ==
    /\ m.at = "rejected"
    /\ m' = CASE m.mode = "forward" -> re_search_forward(m, m.from + 1)
              [] m.mode = "backward" -> re_search_backward(m, m.from - 1)
              [] OTHER -> Failed(m)
    /\ UNCHANGED <<world, re>>

(* Replacement: the first pass over the template computes the length of the *)
(* result or fails, the second fills a string of that length.               *)
RECURSIVE ReplacementSize(_, _)
ReplacementSize(t, groups) ==
    LET d == t[2] - Digit(0)
        g == groups[d]
        More(n, k) == LET rest == ReplacementSize(SubSeq(t, k + 1, Len(t)), groups)
                      IN IF rest = NULL THEN NULL ELSE n + rest
    IN IF t = <<>> THEN 0
       ELSE IF Head(t) # backslash THEN More(1, 1)
       ELSE IF Len(t) = 1 THEN NULL
       ELSE IF t[2] = backslash THEN More(1, 2)
       ELSE IF d \in 0..9
         THEN IF d \notin DOMAIN groups THEN NULL
              ELSE IF g.start = NULL THEN NULL
              ELSE More(g.end - g.start, 2)
       ELSE More(2, 2)

RECURSIVE ReplacementFill(_, _, _)
ReplacementFill(t, groups, orig) ==
    LET d == t[2] - Digit(0)
        g == groups[d]
        More(s, k) == s \o ReplacementFill(SubSeq(t, k + 1, Len(t)), groups, orig)
    IN IF t = <<>> THEN <<>>
       ELSE IF Head(t) # backslash THEN More(<<Head(t)>>, 1)
       ELSE IF t[2] = backslash THEN More(<<backslash>>, 2)
       ELSE IF d \in 0..9 THEN More(SubSeq(orig, g.start + 1, g.end), 2)
       ELSE More(<<backslash, t[2]>>, 2)

re_replacement_text(t) ==
    LET size == ReplacementSize(t, m.groups)
    IN /\ m.at = "matched" /\ m.mode # "partial"
       /\ m' = IF size = NULL
                 THEN [m EXCEPT !.at = "illegal", !.repl = t]
                 ELSE [m EXCEPT !.at = "replaced", !.repl = t, !.size = size,
                                !.out = ReplacementFill(t, m.groups, m.text)]
       /\ UNCHANGED <<world, re>>

-----------------------------------------------------------------------------
Init ==
    /\ world \in Worlds
    /\ re = compile(world.fold, world.re)
    /\ m = Idle

Next ==
    \/ \E n \in 0..world.len : \E text \in [1..n -> world.chars] :
         \E mode \in world.modes, pos \in -1..(n + 1) : Call(text, mode, pos)
    \/ Step
    \/ Retry
    \/ \E t \in world.repls : re_replacement_text(t)

Spec == Init /\ [][Next]_vars

-----------------------------------------------------------------------------
(* What an expression means: its matches from a position, best first.       *)
Same(x, y) == IF world.fold THEN Norm(x) = Norm(y) ELSE x = y
RECURSIVE Flatten(_)
Flatten(ss) == IF ss = <<>> THEN <<>> ELSE Head(ss) \o Flatten(Tail(ss))

Literal(s, text, st) ==
    IF /\ Len(s) <= Len(text) - st.pos
       /\ \A i \in 1..Len(s) : Same(s[i], text[st.pos + i])
      THEN <<[st EXCEPT !.pos = @ + Len(s)]>> ELSE <<>>

LineStart(text, p) == p = 0 \/ text[p] = newline
LineEnd(text, p) == p = Len(text) \/ text[p + 1] = newline
WordAt(text, p) == p \in 1..Len(text) /\ Is_word_letter(text[p])

RECURSIVE Matches(_, _, _)
Matches(e, text, st) ==
    LET Then(sts, f) == Flatten([i \in DOMAIN sts |-> Matches(f, text, sts[i])])
        one == Matches(e.r, text, st)
        further == SelectSeq(one, LAMBDA x : x.pos # st.pos)
        If(b) == IF b THEN <<st>> ELSE <<>>
        g == st.groups[e.n]
    IN CASE e.t = "Char" -> Literal(<<e.c>>, text, st)
         [] e.t = "String" -> Literal(e.s, text, st)
         [] e.t = "CharClass" ->
              IF /\ st.pos < Len(text)
                 /\ (\E c \in e.set : Same(c, text[st.pos + 1])) # e.compl
                THEN <<[st EXCEPT !.pos = @ + 1]>> ELSE <<>>
         [] e.t = "Seq" ->
              IF e.rl = <<>> THEN <<st>>
              ELSE Then(Matches(Head(e.rl), text, st), Seqn(Tail(e.rl)))
         [] e.t = "Alt" -> Matches(e.a, text, st) \o Matches(e.b, text, st)
         [] e.t = "Star" -> Then(further, e) \o <<st>>
         [] e.t = "Plus" -> Then(one, Star(e.r))
         [] e.t = "Option" -> one \o <<st>>
         [] e.t = "Group" ->
              LET inside == Matches(e.r, text,
                                    [st EXCEPT !.groups[e.n].start = st.pos])
              IN [i \in DOMAIN inside |->
                     [inside[i] EXCEPT !.groups[e.n].end = inside[i].pos]]
         [] e.t = "Refgroup" ->
              IF g.start = NULL \/ g.end = NULL THEN <<>>
              ELSE LET s == SubSeq(text, g.start + 1, g.end)
                   IN IF /\ Len(s) <= Len(text) - st.pos
                         /\ \A i \in DOMAIN s : s[i] = text[st.pos + i]
                        THEN <<[st EXCEPT !.pos = @ + Len(s)]>> ELSE <<>>
         [] e.t = "Bol" -> If(LineStart(text, st.pos))
         [] e.t = "Eol" -> If(LineEnd(text, st.pos))
         [] e.t = "Wordboundary" ->
              If(WordAt(text, st.pos) # WordAt(text, st.pos + 1))

MatchesAt(text, p) ==
    Matches(world.re, text, [pos |-> p, groups |-> [NoGroups EXCEPT ![0].start = p]])

\* The best match from p, as the groups re_alloc_groups records.
BestAt(text, p) ==
    LET best == Head(MatchesAt(text, p))
        groups == [best.groups EXCEPT ![0].end = best.pos]
    IN re_alloc_groups([groups |-> groups])

Extensions(text) ==
    {text \o x : x \in UNION {[1..n -> world.chars] : n \in 0..3}}

Tried ==
    CASE m.mode = "forward" -> m.pos..(IF m.at = "failed" THEN Len(m.text)
                                       ELSE m.from - 1)
      [] m.mode = "backward" -> (IF m.at = "failed" THEN 0
                                 ELSE m.from + 1)..m.pos
      [] OTHER -> IF m.at = "failed" THEN {m.pos} ELSE {}

\* A finished call agrees with the meaning of the expression: a match reports
\* the best groups from where it starts; no position a search passed over,
\* those excluded by the set of first characters included, has a match; and a
\* partial match succeeds exactly when the text, or an extension of it,
\* matches (expressions without anchors).
MeaningKept ==
    m.at \in {"matched", "failed"} =>
        IF m.mode = "partial"
          THEN m.at = "matched" <=>
                 \E t \in Extensions(m.text) : MatchesAt(t, m.pos) # <<>>
          ELSE /\ \A p \in Tried : MatchesAt(m.text, p) = <<>>
               /\ m.at = "matched" =>
                    /\ MatchesAt(m.text, m.from) # <<>>
                    /\ m.groups = BestAt(m.text, m.from)

\* Every block of backtrack points and every group array a call allocates is
\* freed when re_match returns, whichever way it returns.
MemoryReturned ==
    m.at \notin {"idle", "run"} => m.blocks = 0 /\ m.arrays = 0

\* The string of the second pass over a replacement template has exactly the
\* length the first pass allocated.
ReplacementFits == m.at = "replaced" => Len(m.out) = m.size

\* The three of them: what a caller of Str relies on.
RegexpRight == MeaningKept /\ MemoryReturned /\ ReplacementFits
=============================================================================
