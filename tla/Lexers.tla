------------------------------- MODULE Lexers -------------------------------
(* The two lexical analysers: the table-driven engines of ocamllex           *)
(* (runtime/lexing.c), called by the loop ocamllex generates with a buffer   *)
(* refilled in chunks (stdlib/lexing.ml), and the scanner of the Lox         *)
(* interpreter (Scanner.java).                                               *)
EXTENDS Integers, Sequences, SequencesExt

\* A world is an input with either an automaton [engine, tables, rules, chunk,
\* buffer, max] or Lox's scanner [engine |-> "lox"]; chunk is the length of
\* the auxiliary buffer, buffer the initial length of lex_buffer and max
\* Sys.max_string_length.  Tables: for each state base (negative: minus the
\* action, minus one), backtrk, default, trans (the pairs lex_check accepts),
\* and the memory code codes.  Rules, used by the properties only: for each
\* action its language over short strings and the tags it should record.
CONSTANTS Worlds, Inputs(_)

VARIABLES
    world,   \* the world chosen at the start, never changed
    input,   \* the characters to analyse, never changed
    lexbuf,  \* struct lexer_buffer, or the fields of Scanner
    at,      \* "call", "loop", "refill", "done" or the exception raised
    out      \* the tokens returned so far
vars == <<world, input, lexbuf, at, out>>

EOFchar == "eof"
NoCode == <<>>

-----------------------------------------------------------------------------
(* lexing.c.  Memory code: pairs <<dst, src>>, src = 255 for "here".         *)
Here == 255

RECURSIVE run_mem(_, _, _)
run_mem(pc, mem, curr_pos) ==
    IF pc = <<>> THEN mem
    ELSE run_mem(Tail(pc),
                 [mem EXCEPT ![pc[1][1]] = IF pc[1][2] = Here THEN curr_pos
                                           ELSE mem[pc[1][2]]],
                 curr_pos)

RECURSIVE run_tag(_, _)
run_tag(pc, mem) ==
    IF pc = <<>> THEN mem
    ELSE run_tag(Tail(pc),
                 [mem EXCEPT ![pc[1][1]] = IF pc[1][2] = Here THEN -1
                                           ELSE mem[pc[1][2]]])

T == world.tables
Memory == world.engine = "new"

\* The token the engine returns: its action, its place in the input, the
\* positions recorded in memory.
Token(action, b) ==
    [action |-> action, from |-> b.abs_pos + b.start_pos,
     to |-> b.abs_pos + b.curr_pos,
     mem |-> [i \in DOMAIN b.mem |-> IF b.mem[i] < 0 THEN -1
                                     ELSE b.mem[i] + b.abs_pos]]

\* First entry: the generated code allocates the memory and calls the engine
\* with its initial state.
Enter ==
    /\ at = "call"
    /\ lexbuf' = [lexbuf EXCEPT !.last_pos = lexbuf.curr_pos,
                                !.start_pos = lexbuf.curr_pos,
                                !.last_action = -1, !.state = 0,
                                !.mem = [i \in DOMAIN lexbuf.mem |-> -1]]
    /\ at' = "loop"
    /\ UNCHANGED <<world, input, out>>

Return(action, b) ==
    /\ out' = Append(out, Token(action, b))
    /\ at' = IF action = world.last THEN "done" ELSE "call"
    /\ lexbuf' = b

Fail(b) == at' = "empty token" /\ lexbuf' = b /\ UNCHANGED out

\* The state the automaton moves to on c, or a negative number.
NextState(s, c) ==
    IF c \in DOMAIN T[s].trans THEN T[s].trans[c] ELSE T[s].default

MoveCode(s, c) ==
    IF c \in DOMAIN T[s].move THEN T[s].move[c] ELSE NoCode

\* Back to the last backtrack point.
BackUp(b) ==
    LET d == [b EXCEPT !.curr_pos = b.last_pos]
    IN IF b.last_action = -1 THEN Fail(d) ELSE Return(b.last_action, d)

Transition(b, c) ==
    LET next == NextState(b.state, c)
    IN IF next < 0 THEN BackUp(b)
       ELSE /\ lexbuf' = [b EXCEPT
                            !.state = next,
                            !.mem = IF Memory
                                      THEN run_mem(MoveCode(b.state, c), @,
                                                   b.curr_pos)
                                      ELSE @,
                            !.eof_reached = IF c = EOFchar THEN FALSE ELSE @]
            /\ UNCHANGED <<at, out>>

\* One turn of the loop of caml_lex_engine and caml_new_lex_engine.
Turn ==
    LET s == T[lexbuf.state]
        tagged == IF Memory THEN run_tag(s.tags, lexbuf.mem) ELSE lexbuf.mem
        b == IF s.backtrk >= 0
               THEN [lexbuf EXCEPT !.mem = tagged, !.last_pos = lexbuf.curr_pos,
                                   !.last_action = s.backtrk]
               ELSE lexbuf
    IN /\ at = "loop"
       /\ IF s.base < 0
            THEN Return(-s.base - 1, [lexbuf EXCEPT !.mem = tagged])
          ELSE IF b.curr_pos < b.buffer_len
            THEN Transition([b EXCEPT !.curr_pos = @ + 1],
                            b.buffer[b.curr_pos + 1])
          ELSE IF b.eof_reached THEN Transition(b, EOFchar)
          ELSE at' = "refill" /\ lexbuf' = b /\ UNCHANGED out
       /\ UNCHANGED <<world, input>>

-----------------------------------------------------------------------------
(* lex_refill: read n characters, then make room for them by reclaiming the *)
(* junk before start_pos or by doubling the buffer.                         *)
Minimum(x, y) == IF x < y THEN x ELSE y

\* The memory keeps its positions in the old buffer.
ShiftsText(b, s) ==
    [b EXCEPT !.abs_pos = @ + s, !.curr_pos = @ - s, !.start_pos = 0,
              !.last_pos = @ - s, !.buffer_len = @ - s,
              !.buffer = SubSeq(@, s + 1, Len(@))]

Shift(b, s) ==
    [b EXCEPT !.abs_pos = @ + s, !.curr_pos = @ - s, !.start_pos = 0,
              !.last_pos = @ - s, !.buffer_len = @ - s,
              !.buffer = SubSeq(@, s + 1, Len(@)),
              !.mem = [i \in DOMAIN @ |-> IF @[i] >= 0 THEN @[i] - s ELSE @[i]]]

Fits(b, n) == b.buffer_len + n <= b.size
newlen(b) == Minimum(2 * b.size, world.max)
Needed(b, n) == b.buffer_len - b.start_pos + n

MakeRoom(b, n) ==
    IF Fits(b, n) THEN b
    ELSE IF Needed(b, n) <= b.size THEN Shift(b, b.start_pos)
    ELSE [Shift(b, b.start_pos) EXCEPT !.size = newlen(b)]

lex_refill(n) ==
    LET b == [lexbuf EXCEPT !.eof_reached = @ \/ n = 0]
        from == lexbuf.read
        r == MakeRoom(b, n)
    IN /\ at = "refill"
       /\ n <= Len(input) - from
       /\ n = 0 => from = Len(input)
       /\ IF ~Fits(b, n) /\ Needed(b, n) > b.size /\ Needed(b, n) > newlen(b)
            THEN at' = "cannot grow" /\ lexbuf' = b
            ELSE /\ at' = "loop"
                 /\ lexbuf' = [r EXCEPT
                                 !.buffer = @ \o SubSeq(input, from + 1, from + n),
                                 !.buffer_len = @ + n,
                                 !.read = from + n]
       /\ UNCHANGED <<world, input, out>>

-----------------------------------------------------------------------------
(* Scanner.java.  The fields start, current and line; NUL is what peek      *)
(* returns at the end of the source.                                        *)
NUL == "nul"
digits == {"0", "1"}
letters == {"i", "f", "o", "r", "x"}
keywords == {<<"i", "f">>, <<"o", "r">>}
single == {"(", ")", "{", "}", ",", ".", "-", "+", ";", "*"}
withEqual == {"!", "=", "<", ">"}

EqualTo == [c \in withEqual |-> CASE c = "!" -> "!="  [] c = "=" -> "=="
                                   [] c = "<" -> "<="  [] c = ">" -> ">="]

isDigit(c) == c \in digits
isAlpha(c) == c \in letters
isAlphaNumeric(c) == isAlpha(c) \/ isDigit(c)
isAtEnd(p) == p >= Len(input)
CharAt(p) == input[p + 1]
peek(p) == IF isAtEnd(p) THEN NUL ELSE CharAt(p)
peekNext(p) == IF p + 1 >= Len(input) THEN NUL ELSE CharAt(p + 1)
match(p, expected) == ~isAtEnd(p) /\ CharAt(p) = expected

\* The position after the longest run of characters of a class from p.
RECURSIVE While(_, _)
While(p, class) ==
    LET go == CASE class = "digits" -> isDigit(peek(p))
                [] class = "word" -> isAlphaNumeric(peek(p))
                [] class = "comment" -> peek(p) # "\n" /\ ~isAtEnd(p)
                [] class = "string" -> peek(p) # "\"" /\ ~isAtEnd(p)
    IN IF go THEN While(p + 1, class) ELSE p

Lexeme(from, to) == SubSeq(input, from + 1, to)
Newlines(from, to) ==
    Len(SelectSeq(Lexeme(from, to), LAMBDA c : c = "\n"))

addToken(type, to, line) ==
    out' = Append(out, [type |-> type, start |-> lexbuf.current,
                        text |-> Lexeme(lexbuf.current, to), line |-> line])

Scanned(to, line) == lexbuf' = [current |-> to, line |-> line]

number(p) ==
    LET q == While(p, "digits")
        r == IF peek(q) = "." /\ isDigit(peekNext(q))
               THEN While(q + 1, "digits") ELSE q
    IN addToken("NUMBER", r, lexbuf.line) /\ Scanned(r, lexbuf.line)

\* The code calls isAlphaNumberic, which nothing defines: isAlphaNumeric is taken.
identifier(p) ==
    LET q == While(p, "word")
        type == IF Lexeme(lexbuf.current, q) \in keywords
                  THEN "KEYWORD" ELSE "IDENTIFIER"
    IN addToken(type, q, lexbuf.line) /\ Scanned(q, lexbuf.line)

string(p) ==
    LET q == While(p, "string")
        line == lexbuf.line + Newlines(p, q)
    IN IF isAtEnd(q)
         THEN /\ out' = Append(out, [type |-> "ERROR", start |-> lexbuf.current,
                                     text |-> <<>>, line |-> line])
              /\ Scanned(q, line)
         ELSE addToken("STRING", q + 1, line) /\ Scanned(q + 1, line)

Only(p) == Scanned(p, lexbuf.line) /\ UNCHANGED out
Emit(type, p) == addToken(type, p, lexbuf.line) /\ Scanned(p, lexbuf.line)

scanToken ==
    LET c == CharAt(lexbuf.current)
        p == lexbuf.current + 1
    IN CASE c \in single -> Emit(c, p)
         [] c \in withEqual ->
              IF match(p, "=") THEN Emit(EqualTo[c], p + 1) ELSE Emit(c, p)
         [] c = "/" ->
              IF match(p, "/") THEN Only(While(p + 1, "comment"))
              ELSE Emit("/", p)
         [] c = " " -> Only(p)
         [] c = "\n" -> Scanned(p, lexbuf.line + 1) /\ UNCHANGED out
         [] c = "\"" -> string(p)
         [] c = "o" -> IF peek(p) = "r" THEN Emit("KEYWORD", p) ELSE Only(p)
         [] isDigit(c) -> number(p)
         [] isAlpha(c) /\ c # "o" -> identifier(p)
         [] OTHER ->
              /\ out' = Append(out, [type |-> "ERROR", start |-> lexbuf.current,
                                     text |-> <<>>, line |-> lexbuf.line])
              /\ Scanned(p, lexbuf.line)

\* It has no return, so that the file does not compile: the field tokens is the result.
scanTokens ==
    /\ at = "scan"
    /\ IF isAtEnd(lexbuf.current)
         THEN /\ at' = "done"
              /\ UNCHANGED lexbuf
              /\ out' = Append(out, [type |-> "EOF", start |-> lexbuf.current,
                                     text |-> <<>>, line |-> lexbuf.line])
         ELSE scanToken /\ UNCHANGED at
    /\ UNCHANGED <<world, input>>

-----------------------------------------------------------------------------
Lexbuf ==
    [buffer |-> <<>>, size |-> world.buffer, buffer_len |-> 0, abs_pos |-> 0,
     start_pos |-> 0, curr_pos |-> 0, last_pos |-> 0, last_action |-> -1,
     eof_reached |-> FALSE, mem |-> [i \in world.cells |-> -1],
     state |-> 0, read |-> 0]

Init ==
    /\ world \in Worlds
    /\ input \in Inputs(world)
    /\ IF world.engine = "lox"
         THEN lexbuf = [current |-> 0, line |-> 1] /\ at = "scan"
         ELSE lexbuf = Lexbuf /\ at = "call"
    /\ out = <<>>

Next ==
    \/ Enter
    \/ Turn
    \/ at = "refill" /\ \E n \in 0..world.chunk : lex_refill(n)
    \/ scanTokens

Spec == Init /\ [][Next]_vars

-----------------------------------------------------------------------------
(* Longest match, from the languages of the rules.                          *)
\* The text of the input from p to q, with and without the end of input.
Readings(p, q) ==
    {Lexeme(p, q)} \union
        (IF q = Len(input) THEN {Append(Lexeme(p, q), EOFchar)} ELSE {})

Actions == DOMAIN world.rules
MatchesFrom(p) ==
    {<<a, q, s>> \in UNION {{a} \X {q} \X Readings(p, q) :
                             a \in Actions, q \in p..Len(input)} :
        s \in DOMAIN world.rules[a]}

\* Every token the engine returns is the longest match of a rule from the end
\* of the token before it, of the first rule if there are several, with the
\* tags of that rule at their places in the input, wherever the chunks read
\* ended and whether the buffer was shifted or grown on the way; and the
\* engine fails only where no rule matches.
LongestMatch ==
    world.engine # "lox" =>
        /\ \A k \in DOMAIN out :
             LET t == out[k]
                 all == MatchesFrom(t.from)
                 mine == {x \in all : x[1] = t.action /\ x[2] = t.to}
             IN /\ t.from = IF k = 1 THEN 0 ELSE out[k - 1].to
                /\ \E x \in mine :
                     /\ \A y \in all : \/ Len(y[3]) < Len(x[3])
                                       \/ Len(y[3]) = Len(x[3]) /\ x[1] <= y[1]
                     /\ LET tags == world.rules[t.action][x[3]]
                        IN \A i \in DOMAIN tags :
                             t.mem[i - 1] = IF tags[i] = -1 THEN -1
                                            ELSE t.from + tags[i]
        /\ at = "empty token" =>
             MatchesFrom(lexbuf.abs_pos + lexbuf.start_pos) = {}

-----------------------------------------------------------------------------
(* The lexical grammar of Lox.                                              *)
All(s, S) == \A i \in DOMAIN s : s[i] \in S
IsNumber(s) ==
    \/ s # <<>> /\ All(s, digits)
    \/ \E i \in 2..(Len(s) - 1) :
         s[i] = "." /\ All(SubSeq(s, 1, i - 1), digits)
                   /\ All(SubSeq(s, i + 1, Len(s)), digits)
IsWord(s) == s # <<>> /\ isAlpha(s[1]) /\ All(s, letters \union digits)
IsString(s) ==
    /\ Len(s) >= 2 /\ s[1] = "\"" /\ s[Len(s)] = "\""
    /\ \A i \in 2..(Len(s) - 1) : s[i] # "\""
IsOperator(s) ==
    \/ Len(s) = 1 /\ s[1] \in single \union withEqual \union {"/"}
    \/ Len(s) = 2 /\ s[1] \in withEqual /\ s[2] = "="
IsBlank(s) ==
    \/ s \in {<<" ">>, <<"\n">>}
    \/ /\ Len(s) >= 2 /\ s[1] = "/" /\ s[2] = "/"
       /\ \A i \in DOMAIN s : s[i] # "\n"

Kind(s) ==
    IF IsNumber(s) THEN "NUMBER"
    ELSE IF IsWord(s) THEN IF s \in keywords THEN "KEYWORD" ELSE "IDENTIFIER"
    ELSE IF IsString(s) THEN "STRING"
    ELSE IF Len(s) = 2 THEN EqualTo[s[1]] ELSE s[1]

\* The tokens of the input from p on.
RECURSIVE Tokens(_)
Tokens(p) ==
    LET line(q) == 1 + Newlines(0, q)
        ends == {q \in (p + 1)..Len(input) :
                   LET s == Lexeme(p, q)
                   IN \/ IsNumber(s) \/ IsWord(s) \/ IsString(s)
                      \/ IsOperator(s) \/ IsBlank(s)}
        q == CHOOSE x \in ends : \A y \in ends : y <= x
        tok(type, x, text) == [type |-> type, start |-> p, text |-> text,
                               line |-> line(x)]
    IN IF p = Len(input) THEN <<tok("EOF", p, <<>>)>>
       ELSE IF ends # {}
         THEN IF IsBlank(Lexeme(p, q)) THEN Tokens(q)
              ELSE <<tok(Kind(Lexeme(p, q)), q, Lexeme(p, q))>> \o Tokens(q)
       ELSE IF CharAt(p) = "\""
         THEN <<tok("ERROR", Len(input), <<>>)>> \o Tokens(Len(input))
       ELSE <<tok("ERROR", p, <<>>)>> \o Tokens(p + 1)

\* When Lox's scanner is done its tokens are those of the lexical grammar read
\* by maximal munch, with the line each one ends on.  keywords.put("or", OR)
\* makes "or" a keyword like the others.
ScansRight == world.engine = "lox" /\ at = "done" => out = Tokens(0)

\* Both analysers return the tokens of their grammar.
LexersRight == LongestMatch /\ ScansRight
=============================================================================
