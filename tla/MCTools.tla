------------------------------ MODULE MCTools -------------------------------
(***************************************************************************)
(* Threads, channels, select, and the programs around the interpreter (the *)
(* parser generator and its engine, the lexical analysers, Str, the        *)
(* debugger's side of a program, backtraces, start-up, arithmetic and the  *)
(* primitives on integers and strings), on small instances: each behaviour *)
(* is one of one part, chosen at the start.  The parts share no state      *)
(* here, so they share the variables v1, v2, ...; a variable that a part   *)
(* has no use for stays 0.                                                 *)
(***************************************************************************)
EXTENDS Integers, Sequences, FiniteSets, SequencesExt, TLC

CONSTANTS ThreadWorlds, ChannelWorlds, SelectWorlds, Grammars, RegexpWorlds,
          LexerWorlds, DebuggerWorlds, BacktraceWorlds, StartupWorlds,
          PrimitiveWorlds

VARIABLES part, v1, v2, v3, v4, v5, v6, v7, v8

vars == <<part, v1, v2, v3, v4, v5, v6, v7, v8>>

\* Every text of a world of the lexical analysers.
Texts(w) == SeqOf(w.chars, w.len)

Thread == INSTANCE Threads WITH
  Worlds <- ThreadWorlds, world <- v1, tab <- v2, ml <- v3, thr <- v4, sig <- v5, sync <- v6
Channel == INSTANCE Channels WITH
  Worlds <- ChannelWorlds, world <- v1, out <- v2, inn <- v3, os <- v4, thr <- v5, ref <- v6
Select == INSTANCE WinSelect WITH
  Worlds <- SelectWorlds, world <- v1, fds <- v2, calls <- v3, workers <- v4, pool <- v5,
  running <- v6, left <- v7
Parser == INSTANCE Parsing WITH
  Sources <- Grammars, MaxTokens <- 5, StackSize <- 4, MaxSteps <- 200,
  source <- v1, gen <- v2, env <- v3, read <- v4
Str == INSTANCE Regexp WITH Worlds <- RegexpWorlds, world <- v1, re <- v2, m <- v3
Lexer == INSTANCE Lexers WITH
  Worlds <- LexerWorlds, Inputs <- Texts, world <- v1, input <- v2, lexbuf <- v3, at <- v4, out <- v5
Debug == INSTANCE Debugger WITH Worlds <- DebuggerWorlds, world <- v1, procs <- v2
Trace == INSTANCE Backtrace WITH
  Worlds <- BacktraceWorlds, world <- v1, fibers <- v2, cont <- v3, state <- v4, infos <- v5,
  held <- v6, out <- v7, trace <- v8
Start == INSTANCE Startup WITH Worlds <- StartupWorlds, world <- v1, rt <- v2
Arith == INSTANCE Arithmetic WITH WordBits <- 6, accu <- v1, top <- v2, done <- v3
Prim == INSTANCE Primitives WITH Worlds <- PrimitiveWorlds, world <- v1, strs <- v2, call <- v3
-----------------------------------------------------------------------------
Init ==
  \/ part = "thread" /\ Thread!Init /\ v7 = 0 /\ v8 = 0
  \/ part = "channel" /\ Channel!Init /\ v7 = 0 /\ v8 = 0
  \/ part = "select" /\ Select!Init /\ v8 = 0
  \/ part = "parser" /\ Parser!Init /\ v5 = 0 /\ v6 = 0 /\ v7 = 0 /\ v8 = 0
  \/ part = "str" /\ Str!Init /\ v4 = 0 /\ v5 = 0 /\ v6 = 0 /\ v7 = 0 /\ v8 = 0
  \/ part = "lexer" /\ Lexer!Init /\ v6 = 0 /\ v7 = 0 /\ v8 = 0
  \/ part = "debug" /\ Debug!Init /\ v3 = 0 /\ v4 = 0 /\ v5 = 0 /\ v6 = 0 /\ v7 = 0 /\ v8 = 0
  \/ part = "trace" /\ Trace!Init
  \/ part = "start" /\ Start!Init /\ v3 = 0 /\ v4 = 0 /\ v5 = 0 /\ v6 = 0 /\ v7 = 0 /\ v8 = 0
  \/ part = "arith" /\ Arith!Init /\ v4 = 0 /\ v5 = 0 /\ v6 = 0 /\ v7 = 0 /\ v8 = 0
  \/ part = "prim" /\ Prim!Init /\ v4 = 0 /\ v5 = 0 /\ v6 = 0 /\ v7 = 0 /\ v8 = 0

Next ==
  \/ part = "thread" /\ Thread!Next /\ UNCHANGED <<part, v7, v8>>
  \/ part = "channel" /\ Channel!Next /\ UNCHANGED <<part, v7, v8>>
  \/ part = "select" /\ Select!Next /\ UNCHANGED <<part, v8>>
  \/ part = "parser" /\ Parser!Next /\ UNCHANGED <<part, v5, v6, v7, v8>>
  \/ part = "str" /\ Str!Next /\ UNCHANGED <<part, v4, v5, v6, v7, v8>>
  \/ part = "lexer" /\ Lexer!Next /\ UNCHANGED <<part, v6, v7, v8>>
  \/ part = "debug" /\ Debug!Next /\ UNCHANGED <<part, v3, v4, v5, v6, v7, v8>>
  \/ part = "trace" /\ Trace!Next /\ UNCHANGED part
  \/ part = "start" /\ Start!Next /\ UNCHANGED <<part, v3, v4, v5, v6, v7, v8>>
  \/ part = "arith" /\ Arith!Next /\ UNCHANGED <<part, v4, v5, v6, v7, v8>>
  \/ part = "prim" /\ Prim!Next /\ UNCHANGED <<part, v4, v5, v6, v7, v8>>

Spec == Init /\ [][Next]_vars
-----------------------------------------------------------------------------
(* Programs of up to three threads, with signals, a tick, failing calls,     *)
(* mutexes and conditions, a fork, a thread that C code registers.           *)
MCThreadWorlds ==
  LET Op(o) == [op |-> o]
      New(k) == [op |-> "new", k |-> k]
      Join(k) == [op |-> "join", k |-> k]
      On(o, mutex) == [op |-> o, m |-> mutex]
      Mask(s) == [op |-> "sigmask", set |-> s]
      Install(s, act) == [op |-> "install", s |-> s, act |-> act]
      work == Op("work")
      yield == Op("yield")
      W(p, k, s, n, r, f) ==
        [prog |-> p, kind |-> k, sends |-> s, ticks |-> n, raises |-> r, fails |-> f, ignore |-> {}]
      Lock == On("lock", 1)
      Unlock == On("unlock", 1)
  IN  {W(<<<<New(2), work, New(3), yield, Join(2), Join(3), Op("shutdown")>>, <<work, yield, work>>,
           <<work, Op("block")>>>>, <<"main", "ml", "ml">>, {}, 1, FALSE, FALSE),
       W(<<<<New(2), work, Join(2), work>>, <<Mask({}), work, Op("block"), work>>>>,
         <<"main", "ml">>, {1, 2}, 1, TRUE, FALSE),
       W(<<<<New(2), Lock, work, On("wait", 1), Unlock, Join(2)>>,
           <<Lock, Lock, Op("signal"), On("try_lock", 2), Unlock>>>>,
         <<"main", "ml">>, {}, 1, FALSE, FALSE),
       W(<<<<New(2), Lock, work, On("wait", 1), Unlock, Op("fork"), work, Op("shutdown")>>,
           <<On("try_lock", 1), Unlock, yield, Op("broadcast"), work>>>>,
         <<"main", "ml">>, {}, 1, FALSE, FALSE),
       W(<<<<New(2), work, Op("stop")>>, <<work, yield>>>>, <<"main", "ml">>, {}, 1, FALSE, TRUE),
       W(<<<<work, Op("block"), work, yield, work>>, <<work, work>>>>,
         <<"main", "c">>, {}, 1, FALSE, TRUE),
       W(<<<<Install(-2, "ignore"), Op("block"), Install(-2, "handle"), Mask({-1}),
             [op |-> "wait_signal", set |-> {-1}]>>>>, <<"main">>, {1, 2}, 0, TRUE, FALSE)}

(* Two threads on one channel; partial, interrupted and failing writes, a    *)
(* signal handler that uses the channel, a finalised channel.                *)
MCChannelWorlds ==
  LET Op(o) == [op |-> o]
      Char(c) == [op |-> "char", d |-> <<c>>]
      Bytes(d) == [op |-> "bytes", d |-> d]
      Seek(p) == [op |-> "seek_in", p |-> p]
      In(n) == [op |-> "input", n |-> n]
      line == Op("line")
      get == Op("in_char")
      Text == <<"a", "b", "\n", "c", "d", "e", "f", "\n">>
      W(p, c, s, r, f) ==
        [prog |-> p, size |-> 3, content |-> c, signals |-> s, raises |-> r, fails |-> f]
      Out(p, s, r, f) == W(p, <<>>, s, r, f)
      Read(p, s, r) == W(p, Text, s, r, FALSE)
  IN  {Out(<<<<Bytes(<<"a", "b", "c", "d">>), Op("flush")>>,
             <<Char("x"), [op |-> "seek_out", p |-> 1], Char("y")>>>>, 1, r, f) :
         r \in BOOLEAN, f \in BOOLEAN}
      \cup {Out(<<<<Bytes(<<"a", "b", "c">>)>>,
                  <<Char("y"), Op("close_out"), Op("flush"), Char("z")>>>>, 0, FALSE, FALSE),
            Out(<<<<Op("unbuffered"), Char("a"), Op("drop")>>, <<Op("flush_all")>>>>, 1, TRUE, FALSE),
            Out(<<<<Char("b"), Op("drop")>>, <<Op("flush_all")>>>>, 0, FALSE, FALSE),
            Read(<<<<line, get, Seek(5), get>>, <<get, In(2)>>>>, 0, FALSE),
            Read(<<<<get, In(9), In(9), In(9)>>, <<get, Op("close_in"), get>>>>, 0, FALSE),
            Read(<<<<Seek(4), line, In(9), In(9), In(9), line, In(1), get, line>>>>, 0, FALSE)}
      \cup {Read(<<<<line, In(2), Seek(1), line>>, <<Seek(0), In(9)>>>>, 1, r) : r \in BOOLEAN}
      \* a refill that a signal interrupts, while another thread reads
      \cup {W(<<<<get, get>>, p>>, c, 1, FALSE, FALSE) :
              p \in {<<get, In(2)>>, <<In(1), Seek(0), get>>, <<get, Op("close_in")>>},
              c \in {<<"a", "b">>, Text}}
      \cup {Read(<<<<get, Seek(3), line, In(2), Seek(8), get, line>>>>, 1, r) : r \in BOOLEAN}

(* Calls of select on pipes, sockets, a console, files and descriptors that  *)
(* are none of these, with workers of two or fewer descriptors.              *)
MCSelectWorlds ==
  LET Kinds == <<"pipe", "pipe", "pipe", "socket", "socket", "console", "disk", "unbound",
                 "unknown", "socket">>
      Call(r, w, e, t) == [lists |-> [READ |-> r, WRITE |-> w, EXCEPTIONAL |-> e], timeout |-> t]
      W(cs, a) ==
        [kinds |-> Kinds, calls |-> cs, perJob |-> 2, setsize |-> 2, poolMax |-> 1,
         ready |-> [d \in DOMAIN Kinds |-> {}], arrivals |-> a, failures |-> FALSE,
         nonblocking |-> {5}]
      One(r, w, e, t, a) == W(<<Call(r, w, e, t)>>, a)
  IN  {One(<<1, 4>>, <<>>, <<>>, TRUE, 2),
       [One(<<1, 4>>, <<>>, <<>>, FALSE, 1) EXCEPT !.failures = TRUE],
       One(<<6>>, <<1, 6>>, <<1, 6, 7>>, TRUE, 2),
       One(<<6, 1>>, <<>>, <<>>, FALSE, 2),
       [One(<<1, 2, 3>>, <<>>, <<>>, TRUE, 1) EXCEPT !.ready[3] = {"READ"}],
       One(<<4, 5>>, <<4>>, <<8>>, TRUE, 2),
       One(<<4, 5, 10>>, <<>>, <<>>, TRUE, 1),
       [One(<<4, 5>>, <<4>>, <<4>>, TRUE, 1) EXCEPT !.setsize = 1],
       \* a descriptor twice in a list; a socket at two indices, the second too
       \* large or not; jobs made between two sockets
       [One(<<1, 1, 2>>, <<7, 7>>, <<>>, TRUE, 1) EXCEPT !.ready[2] = {"READ"}],
       One(<<1, 4>>, <<4>>, <<>>, TRUE, 2), One(<<1, 4>>, <<4, 5>>, <<>>, TRUE, 1),
       One(<<4, 1, 5>>, <<>>, <<>>, FALSE, 2), One(<<4>>, <<7>>, <<4>>, TRUE, 1),
       W(<<Call(<<>>, <<>>, <<>>, FALSE), Call(<<>>, <<>>, <<7>>, FALSE)>>, 0),
       W(<<Call(<<1, 9>>, <<>>, <<>>, FALSE), Call(<<7, 8>>, <<7>>, <<>>, FALSE)>>, 0),
       W(<<Call(<<1>>, <<>>, <<>>, TRUE), Call(<<2>>, <<>>, <<>>, FALSE)>>, 1),
       One(<<>>, <<>>, <<7>>, TRUE, 0)}

(* Grammars as the lexical layer of yacc/reader.c gives them: operators with *)
(* precedences, empty rules, a grammar that is LALR(1) and not SLR(1), error *)
(* recovery, conflicts; and sources that are refused.                        *)
MCGrammars ==
  LET K(n) == [k |-> "kw", n |-> n]
      N(n) == [k |-> "name", n |-> n]
      T(n) == [k |-> "tag", n |-> n]
      Lit(n, v) == [k |-> "lit", n |-> n, v |-> v]
      Colon == [k |-> ":"]
      Or == [k |-> "|"]
      A(refs) == [k |-> "act", refs |-> refs]
      Mark == K("mark")
      Source(items, rules) == [items |-> items, rules |-> rules, recovers |-> FALSE, raises |-> {}]
      Head1 == <<K("text"), K("TOKEN"), T("int"), N("A"), K("TOKEN"), N("EOF"),
                 K("type"), T("t"), N("main"), K("start"), N("main")>>
      Expr == Source(
        Head1 \o <<K("TOKEN"), N("PLUS"), N("TIMES"), K("LEFT"), N("PLUS"), K("RIGHT"), N("TIMES"),
          Mark, N("main"), Colon, N("expr"), N("EOF"), A({1}),
          N("expr"), Colon, Or, N("A"), A({1}), Or, N("expr"), N("PLUS"), N("expr"), A({1, 3}),
          Or, N("expr"), N("TIMES"), N("expr"), A({1, 3})>>,
        << <<"main", <<"expr", "EOF">>>>, <<"expr", <<"A">>>>,
           <<"expr", <<"expr", "PLUS", "expr">>>>, <<"expr", <<"expr", "TIMES", "expr">>>> >>)
      Lists == Source(
        Head1 \o <<K("TOKEN"), N("B"), N("S"), Mark,
          N("main"), Colon, N("list"), N("opt"), N("EOF"), A({1}),
          N("list"), Colon, A({}), Or, N("list"), N("item"), A({1}),
          N("item"), Colon, N("A"), A({}), Or, N("B"), N("opt"), N("S"), A({}),
          N("opt"), Colon, A({}), Or, N("S"), A({})>>,
        << <<"main", <<"list", "opt", "EOF">>>>, <<"list", <<>>>>, <<"list", <<"list", "item">>>>,
           <<"item", <<"A">>>>, <<"item", <<"B", "opt", "S">>>>, <<"opt", <<>>>>, <<"opt", <<"S">>>> >>)
      Pointers == Source(
        Head1 \o <<K("TOKEN"), N("EQ"), N("STAR"), Mark,
          N("main"), Colon, N("l"), N("EQ"), N("r"), A({1}), Or, N("r"), A({1}),
          N("l"), Colon, N("STAR"), N("r"), A({2}), Or, N("A"), A({1}), N("r"), Colon, N("l"), A({1})>>,
        << <<"main", <<"l", "EQ", "r">>>>, <<"main", <<"r">>>>, <<"l", <<"STAR", "r">>>>,
           <<"l", <<"A">>>>, <<"r", <<"l">>>> >>)
      Recovery == [Source(
        Head1 \o <<K("TOKEN"), N("S"), Mark, N("main"), Colon, N("list"), N("EOF"), A({1}),
          N("list"), Colon, A({}), Or, N("list"), N("stmt"), A({1}),
          N("stmt"), Colon, N("A"), N("S"), A({}), Or, N("error"), N("S"), A({})>>,
        << <<"main", <<"list", "EOF">>>>, <<"list", <<>>>>, <<"list", <<"list", "stmt">>>>,
           <<"stmt", <<"A", "S">>>>, <<"stmt", <<"error", "S">>>> >>)
        EXCEPT !.recovers = TRUE, !.raises = {4}]
      Dangling == Source(
        <<K("TOKEN"), N("A"), [k |-> "num", v |-> 300], Lit("(", 40), N("IF"), N("ELSE"), N("EOF"),
          K("type"), T("t"), N("main"), N("stmt"), K("start"), N("main"), K("NONASSOC"), N("THEN"),
          K("NONASSOC"), N("ELSE"), Mark, N("main"), Colon, N("stmt"), N("EOF"), A({1}),
          N("stmt"), Colon, N("A"), A({}), Or, Lit("(", 40), N("stmt"), A({2}),
          Or, N("IF"), N("stmt"), [k |-> "prec"], N("THEN"), A({2}),
          Or, N("IF"), N("stmt"), N("ELSE"), N("stmt"), A({2, 4})>>,
        << <<"main", <<"stmt", "EOF">>>>, <<"stmt", <<"A">>>>, <<"stmt", <<"(", "stmt">>>>,
           <<"stmt", <<"IF", "stmt">>>>, <<"stmt", <<"IF", "stmt", "ELSE", "stmt">>>> >>)
      Conflicts == Source(
        <<K("TOKEN"), N("A"), N("P"), N("EOF"), K("type"), T("t"), N("main"), N("e"),
          K("start"), N("main"), N("e"), Mark,
          N("main"), Colon, N("x"), N("EOF"), A({1}), Or, N("e"), N("EOF"), A({1}),
          N("x"), Colon, N("A"), A({}),
          N("e"), Colon, N("A"), A({}), Or, N("e"), N("P"), N("e"), A({1, 3}), Mark>>,
        << <<"main", <<"x", "EOF">>>>, <<"main", <<"e", "EOF">>>>, <<"x", <<"A">>>>,
           <<"e", <<"A">>>>, <<"e", <<"e", "P", "e">>>> >>)
      Main == <<N("main"), Colon>>
      Refused == {Head1 \o <<Mark>> \o items :
                    items \in {Main \o <<N("A"), A({2})>>, Main \o <<N("b"), A({})>>,
                               Main \o <<N("A"), Or, N("A"), A({})>>, <<N("A"), Colon, A({})>>,
                               <<Mark>>, Main \o <<N("EOF"), A({1})>>}}
                 \cup {<<K("TOKEN"), N("A"), K("start"), N("main"), Mark>> \o Main \o <<N("A"), A({})>>,
                       <<K("TOKEN"), N("A"), K("start"), N("A")>>, <<K("TOKEN"), N("$end")>>,
                       <<K("type"), N("A")>>}
  IN  {Expr, Lists, Pointers, Recovery, Dangling, Conflicts} \cup {Source(r, <<>>) : r \in Refused}

(* Regular expressions with groups, back references, nested repetitions,     *)
(* anchors and case folding; texts and replacement templates.                *)
MCRegexpWorlds ==
  LET Alt(x, y) == Str!Alt(x, y)
      Seqn(s) == Str!Seqn(s)
      Star(x) == Str!Star(x)
      Plus(x) == Str!Plus(x)
      Option(x) == Str!Option(x)
      Group(n, x) == Str!Group(n, x)
      Back(n) == Str!Refgroup(n)
      Word(s) == Str!Str(s)
      a == Str!Chr(1)
      b == Str!Chr(2)
      W(e, ch, n, md) ==
        [re |-> e, fold |-> FALSE, chars |-> ch, len |-> n, modes |-> md, block |-> 2, default |-> 2,
         registers |-> 2, repls |-> {}]
      Every == {"match", "forward", "backward"}
      Match(e) == W(e, {1, 2}, 4, {"match"})
      Searched(e) == W(e, {1, 2}, 3, {"forward", "backward"})
      Partial(e) == W(e, {1, 2}, 3, {"partial"})
      R1 == Seqn(<<Group(1, Alt(a, Word(<<1, 2>>))), Star(Group(2, Alt(b, Word(<<2, 1>>)))), a>>)
      R2 == Seqn(<<Star(Group(1, Star(a))), b>>)
      R3 == Seqn(<<Plus(Group(1, Option(a))), Back(1), b>>)
      R4 == Seqn(<<Star(Alt(Group(1, a), Group(2, b))), Back(1), Option(b)>>)
      R5 == Seqn(<<Star(a), b, Plus(a), b, Option(a)>>)
      R6 == Seqn(<<Option(a), b, Star(a)>>)
      R7 == Seqn(<<Star(a), a, Plus(b), b>>)
      R8 == Seqn(<<Plus(Group(1, Star(a))), Star(Group(2, Alt(b, Seqn(<<>>))))>>)
      R9 == Plus(Seqn(<<Star(Plus(Option(a))), Option(b)>>))
      R10 == Star(Group(1, Star(Group(2, Star(Option(a))))))
      Lines == Seqn(<<Str!Bol, Star(a), Str!Eol>>)
      Words == Seqn(<<Str!Wordboundary, Plus(Str!CharClass({1, 5}, FALSE)), Str!Wordboundary>>)
      Folded == Seqn(<<Word(<<3, 2>>), Star(Str!CharClass({1}, TRUE)), Str!Chr(3)>>)
      Nul == Seqn(<<Word(<<1, 0, 1, 2>>)>>)
      Templates == {<<1, 6, 11, 5>>, <<6, 6, 6, 10, 6, 12>>, <<6, 13>>, <<6>>, <<6, 1>>}
  IN  {Match(r) : r \in {R1, R2, R3, R5, R6, R7, R8, R9, R10}}
      \cup {Searched(r) : r \in {R1, R2, R5, R7}}
      \cup {Partial(r) : r \in {R1, R2, R5, R6, R7, R8, Seqn(<<Star(Alt(Group(1, a), b)), Back(1)>>)}}
      \cup {[Match(R4) EXCEPT !.repls = Templates], [W(Lines, {1, 4}, 3, Every) EXCEPT !.block = 1],
            W(Words, {1, 5}, 3, Every), [W(Folded, {1, 2, 3}, 3, Every) EXCEPT !.fold = TRUE],
            W(Nul, {0, 1, 2}, 4, {"match"}),
            [W(Nul, {0, 1, 2}, 4, {"match"}) EXCEPT !.fold = TRUE]}

(* Automata as ocamllex makes them: of the old engine, of the engine with    *)
(* memory cells; and the Lox scanner on texts of a few characters.           *)
MCLexerWorlds ==
  LET none == <<>>
      State(base, back, trans, move, tags) ==
        [base |-> base, backtrk |-> back, trans |-> trans, move |-> move, tags |-> tags,
         default |-> -1]
      Plain(base, back, trans) == State(base, back, trans, none, none)
      Rep(c, n) == [i \in 1 .. n |-> c]
      NoTags(S) == [s \in S |-> none]
      \* ab* | ab*c | c | eof | c eof
      Old == (0 :> Plain(0, -1, ("a" :> 1 @@ "c" :> 4 @@ "eof" :> 5)))
             @@ (1 :> Plain(0, 0, ("b" :> 1 @@ "c" :> 2))) @@ (2 :> Plain(-2, -1, none))
             @@ (4 :> Plain(0, 2, ("eof" :> 6))) @@ (5 :> Plain(-4, -1, none))
             @@ (6 :> Plain(-5, -1, none))
      OldRules == (0 :> NoTags({<<"a">> \o Rep("b", n) : n \in 0 .. 4}))
                  @@ (1 :> NoTags({<<"a">> \o Rep("b", n) \o <<"c">> : n \in 0 .. 4}))
                  @@ (2 :> NoTags({<<"c">>})) @@ (3 :> NoTags({<<"eof">>}))
                  @@ (4 :> NoTags({<<"c", "eof">>}))
      \* a+ (b+ as x)? c | a+ | eof
      A == ("a" :> <<<<2, 255>>>>)
      B == ("b" :> <<<<3, 255>>>>)
      New == (0 :> State(0, -1, ("a" :> 1 @@ "eof" :> 5), A, none))
             @@ (1 :> State(0, 1, ("a" :> 1 @@ "b" :> 2 @@ "c" :> 3), A @@ B, none))
             @@ (2 :> State(0, -1, ("b" :> 2 @@ "c" :> 4), B, none))
             @@ (3 :> State(-1, -1, none, none, <<<<0, 255>>, <<1, 255>>>>))
             @@ (4 :> State(-1, -1, none, none, <<<<0, 2>>, <<1, 3>>>>))
             @@ (5 :> Plain(-3, -1, none))
      Abc(i, j) == Rep("a", i) \o Rep("b", j) \o <<"c">>
      Bound(s) == IF \E i \in DOMAIN s : s[i] = "b"
                  THEN <<Len(SelectSeq(s, LAMBDA c : c = "a")), Len(s) - 1>> ELSE <<-1, -1>>
      NewRules == (0 :> [s \in {Abc(i, j) : i \in 1 .. 5, j \in 0 .. 5} |-> Bound(s)])
                  @@ (1 :> NoTags({Rep("a", i) : i \in 1 .. 6})) @@ (2 :> NoTags({<<"eof">>}))
      W1 == [engine |-> "old", tables |-> Old, rules |-> OldRules, cells |-> {}, last |-> 3,
             chunk |-> 1, buffer |-> 2, max |-> 4, chars |-> {"a", "b", "c"}, len |-> 4]
      W2 == [W1 EXCEPT !.engine = "new", !.tables = New, !.rules = NewRules, !.cells = 0 .. 3,
                       !.last = 2, !.max = 8, !.len = 5]
      Lox(S, n) == [engine |-> "lox", chars |-> S, len |-> n]
  IN  {W1, W2, [W1 EXCEPT !.chars = {"a", "b", "d"}, !.len = 3], [W1 EXCEPT !.chunk = 2, !.max = 3],
       [W2 EXCEPT !.chunk = 2, !.buffer = 3], Lox({"1", ".", "x", "("}, 4), Lox({"i", "f", "1", "@"}, 4),
       Lox({"/", "\n", "\"", " "}, 5), Lox({"=", "!", "/", "\n"}, 4), Lox({"\"", "\n", "x", "="}, 4)}

(* A program that calls, one that loads and unloads code, one that forks,    *)
(* and a debugger that sets events, breakpoints and frames, takes            *)
(* checkpoints and stops its processes.                                      *)
MCDebuggerWorlds ==
  LET Nop == Debug!Nop
      Ret == Debug!Ret
      Calls == <<Debug!PushOp, Debug!CallTo(4, 1), Debug!Stop, Debug!PushOp, Debug!CallTo(7, 0), Ret,
                 Nop, Ret>>
      Loads == <<Debug!Load, Debug!CallLoaded, Debug!Unload, Debug!Load, Debug!CallLoaded, Debug!Stop>>
      Forks == <<Nop, Debug!Fork, Nop, Debug!Stop>>
      W == [main |-> Calls, frags |-> {<<Nop, Ret>>}, bases |-> {100}, places |-> {4, 7},
            requests |-> {}, left |-> 4, counts |-> {1}, procs |-> 1, polite |-> TRUE]
      WF == [W EXCEPT !.main = Forks, !.places = {1, 3}, !.procs = 3]
  IN  {[W EXCEPT !.requests = {"event", "break", "reset"}, !.counts = {1, 2}],
       [W EXCEPT !.requests = {"break", "frame"}],
       [W EXCEPT !.main = Loads, !.bases = {100, 200}, !.places = {5, 100, 101, 200},
                 !.frags = {<<Nop, Ret>>, <<Debug!PushOp, Nop, Ret>>},
                 !.requests = {"event", "break", "reset"}, !.left = 3],
       [WF EXCEPT !.requests = {"event", "break", "reset", "checkpoint", "fork_mode", "stop", "wait",
                                "barrier"}, !.left = 2],
       [WF EXCEPT !.requests = {"checkpoint", "stop", "wait"}, !.left = 3]}

(* Calls, handlers, raises, fibers, raw backtraces and loaded code.          *)
MCBacktraceWorlds ==
  LET E(p, l) == [pc |-> p, lnum |-> l]
      W == [main |-> <<1, 9>>, plugin |-> <<11, 14>>, calls |-> {2}, handlers |-> {7}, exns |-> {1},
            size |-> 3, events |-> {E(2, 1), E(5, 2), E(5, 3), E(8, 1)}, pevents |-> {E(12, 1)},
            reading |-> 1, steps |-> 6, traps |-> 1, fibers |-> 1, active |-> TRUE,
            does |-> {"call", "trap", "raise"}, fails |-> {FALSE}, maxes |-> {2, 9}]
      Loaded == [W EXCEPT !.does = {"call", "trap", "raise", "raw", "locate", "load"},
                          !.calls = {4, 2, 11, 13}, !.steps = 5, !.size = 2]
  IN  {[W EXCEPT !.exns = {1, 2}, !.traps = 2, !.fails = BOOLEAN],
       [W EXCEPT !.does = {"call", "trap", "raise", "raw", "record"}, !.exns = {1, 2}],
       [W EXCEPT !.does = {"call", "trap", "fiber", "stack", "raise"}, !.fibers = 2],
       Loaded, [Loaded EXCEPT !.reading = -1, !.calls = {4}]}

(* Command lines, executables good and bad, directories and libraries.       *)
MCStartupWorlds ==
  LET Sec(n, d) == [name |-> n, data |-> d]
      Toc(dlls, prims) == <<Sec("CODE", <<"c1", "c2">>), Sec("DLPT", <<"exedir">>), Sec("DLLS", dlls),
                            Sec("PRIM", prims), Sec("DATA", <<"d">>)>>
      P == [script |-> FALSE, magic |-> "ok", toc |-> Toc(<<"l1", "l2">>, <<"p0", "p1", "p2">>)]
      Q == [P EXCEPT !.toc = <<Sec("PRIM", <<"p0">>), Sec("CODE", <<"c">>), Sec("DATA", <<"d", "e">>)>>]
      W == [files |-> [prog |-> P], argv |-> <<"ocamlrun", "prog", "x">>, self |-> "", fds |-> 1,
            param |-> [b |-> 0, c |-> 0], ld_library_path |-> <<"env">>, ld_conf |-> <<"conf">>,
            dirs |-> [env |-> [l1 |-> {"p1"}], conf |-> [l1 |-> {"p1", "p9"}, l2 |-> {"p1", "p2"}],
                      inc |-> [l2 |-> {"p2"}]],
            builtin |-> {"p0"}, names |-> <<"p0">>, linked |-> <<>>, pooling |-> FALSE, calls |-> 3,
            dynlinks |-> 1, liblist |-> {"l1", "l2"}, primlist |-> {"p1", "p2", "p9"}]
      Argvs == {<<"prog", "-b">>, <<"prog", "prog", "y">>}
               \cup {<<"ocamlrun">> \o a :
                       a \in {<<"prog", "x">>, <<"-b", "-I", "inc", "prog">>, <<"-m", "prog">>, <<>>,
                              <<"-I">>, <<"-z">>, <<"-config">>, <<"--", "prog", "-v">>, <<"-M">>,
                              <<"-v", "none">>}}
      Progs == {P, Q, [P EXCEPT !.script = TRUE], [P EXCEPT !.magic = "bad"],
                [P EXCEPT !.magic = "none"], [P EXCEPT !.toc = Toc(<<"l9">>, <<"p0">>)],
                [P EXCEPT !.toc = Toc(<<>>, <<"p2">>)], [Q EXCEPT !.toc = Tail(@)],
                [Q EXCEPT !.toc = <<Sec("PRIM", <<>>)>>]}
  IN  {[W EXCEPT !.files = [prog |-> p], !.argv = a, !.self = s] :
         p \in Progs, a \in Argvs, s \in {"", "ocamlrun", "prog"}}
      \cup {[W EXCEPT !.linked = <<"code">>, !.calls = 5, !.self = "prog", !.files = <<>>,
                      !.pooling = TRUE],
            [W EXCEPT !.fds = 0], [W EXCEPT !.param.b = 2]}

(* Machines with words of 4 and of 8 narrow bytes; integers at the ends of   *)
(* their types, texts round the limits, strings of lengths round a word.     *)
MCPrimitiveWorlds ==
  LET Edge(n) == {-(2^(n - 1)), 1 - 2^(n - 1), -3, -1, 0, 1, 2, 5, 2^(n - 1) - 1}
      W == [does |-> "ints", bits |-> 1, word |-> 8, big |-> FALSE, ucrt |-> TRUE, buffer |-> 6,
            max |-> 3, calls |-> 1, ints |-> <<>>, texts |-> {}, formats |-> {}, lens |-> {0},
            values |-> {}]
      Computes(b, w) ==
        [W EXCEPT !.bits = b, !.word = w,
                  !.ints = [int32 |-> Edge(4 * b), int64 |-> Edge(8 * b), native |-> Edge(w * b)]]
      Reads(w) ==
        [W EXCEPT !.does = "texts", !.word = w,
                  !.texts = {<<<<>>, {0, 1, 2, 5, 8}, 3>>, <<<<0, 20>>, {0, 2, 5, 6}, 3>>,
                             <<<<0, 18>>, {0, 1, 15, 21}, 3>>, <<<<0, 19>>, {0, 3, 7, 8}, 3>>,
                             <<<<0, 11>>, {0, 1}, 9>>, <<<<>>, {0, 18, 10, 21, 22}, 3>>},
                  !.formats = {<<"%", "d">>, <<"%", "l", "d">>, <<"%", "5", "n", "x">>,
                               <<"%", "0", "5", "d">>}]
      Strings(does, big) ==
        [W EXCEPT !.does = does, !.bits = 2, !.word = 4, !.big = big, !.ucrt = ~big, !.buffer = 4,
                  !.calls = 2, !.lens = {-1, 3, 4, 9, 12}, !.values = {-1, 30000}]
  IN  {Computes(2, 8), Computes(2, 4), Reads(8), Reads(4)}
      \cup {Strings(does, big) : does \in {"strings", "access"}, big \in BOOLEAN}
-----------------------------------------------------------------------------
(* Properties: those of the parts *)

\* One thread runs at a time, on its own state, and none sleeps for ever while
\* the master lock is free (st_stubs.c, signals.c, domain.c's backup thread).
ThreadsRight == part = "thread" => Thread!ThreadsRight

\* Channels give the file what was written and the program what is in the
\* file, whatever happens between the calls of io.c and the system's.
ChannelsRight == part = "channel" => Channel!ChannelsRight

\* Unix.select on Windows returns what is ready, gives everything back, and
\* its workers never wait for one another (win32unix/select.c).
SelectRight == part = "select" => Select!SelectRight

\* ocamlyacc's tables are those of LALR(1) and the engine of parsing.c accepts
\* with them the words of the grammar, with their tree.
ParserRight == part = "parser" => Parser!GeneratorRight /\ Parser!ParsesRight

\* Str finds the match that the order of the alternatives gives, gives back
\* its stack, and replaces within bounds (re_match, re_replacement_text).
RegexpRight == part = "str" => Str!RegexpRight

\* The engines of lexing.c and the Lox scanner return the longest matches.
LexersRight == part = "lexer" => Lexer!LexersRight

\* A debugged program does what it does alone, stops where it was asked to,
\* and every process talks on its own connection (debugger.c).
DebuggerRight == part = "debug" => Debug!DebuggerRight

\* A backtrace is where the exception was raised and through what it went
\* (caml_stash_backtrace, get_callstack, event_for_location).
BacktraceRight == part = "trace" => Trace!BacktraceRight

\* ocamlrun runs the program it is asked to run, with the right primitives
\* (caml_main, caml_build_primitive_table).
StartupRight == part = "start" => Start!StartupRight

\* Arithmetic instructions compute OCaml's integers, wrapped to a word less its
\* tag bit, and leave the tag in place (interp.c, ADDINT to BOOLNOT); the
\* primitives of ints.c and str.c compute boxed integers, numbers written as
\* text, and strings, at their limits too.
ArithmeticRight ==
  /\ part = "arith" => Arith!ResultRight /\ Arith!DivisionRight /\ Arith!StaysTagged
  /\ part = "prim" => Prim!IntegersRight /\ Prim!StringsRight
=============================================================================
