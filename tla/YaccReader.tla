----------------------------- MODULE YaccReader -----------------------------
(* The reader of ocamlyacc (yacc/reader.c, yacc/symtab.c).  A source is the *)
(* sequence of its lexical items, as nextc, keyword, get_name, get_literal, *)
(* get_number and get_tag deliver them:                                     *)
(*   [k |-> "kw", n |-> "token" | "left" | ... | "mark" | "text"],          *)
(*   [k |-> "name", n |-> name], [k |-> "lit", n |-> name, v |-> code],     *)
(*   [k |-> "num", v |-> number], [k |-> "tag", n |-> type],                *)
(*   [k |-> ":"], [k |-> "|"], [k |-> "prec"],                              *)
(*   [k |-> "act", refs |-> the $n of the action].                          *)
(* The symbols (buckets) are kept in the order of first_symbol, and symbol  *)
(* 1 is "error".  An error message ends the program, and is rd.err here.    *)
EXTENDS Integers, Sequences, SequencesExt, FiniteSetsExt

UNDEFINED == -1
MaxEntryPoint == 255

make_bucket(name) ==
    [name |-> name, tag |-> "", value |-> UNDEFINED, prec |-> 0,
     class |-> "UNKNOWN", assoc |-> "TOKEN", entry |-> 0, true_token |-> FALSE]

create_symbol_table == <<[make_bucket("error") EXCEPT !.class = "TERM"]>>

Find(syms, name) == SelectInSeq(syms, LAMBDA b : b.name = name)

lookup(syms, name) ==
    IF Find(syms, name) # 0 THEN syms ELSE Append(syms, make_bucket(name))

\* The bucket of an item that names a symbol; a literal is a terminal, and
\* one of a single character has the code of that character.
Named(syms, item) ==
    LET s == lookup(syms, item.n)
        i == Find(s, item.n)
    IN  IF item.k = "lit"
        THEN [s EXCEPT ![i].class = "TERM",
                       ![i].value = IF @ = UNDEFINED THEN item.v ELSE @]
        ELSE s

IsSymbol(item) == item.k \in {"name", "lit"}

\* Names that get_name refuses.
Reserved == {".", "$accept", "$end"}

NewReader ==
    [pos |-> 1, mode |-> "declarations", assoc |-> "TOKEN", tag |-> "",
     syms |-> create_symbol_table, prec |-> 0, entries |-> 0, goal |-> 0,
     rules |-> <<>>, last_was_action |-> FALSE, at_first |-> FALSE, err |-> ""]

EndOfFile == [k |-> "EOF"]
Item(source, rd) ==
    IF rd.pos <= Len(source) THEN source[rd.pos] ELSE EndOfFile
After(source, rd) ==
    IF rd.pos < Len(source) THEN source[rd.pos + 1] ELSE EndOfFile

Fails(rd, message) == [rd EXCEPT !.err = message]
Skip(rd, n) == [rd EXCEPT !.pos = @ + n]

-----------------------------------------------------------------------------
(* Declarations.                                                           *)

\* read_declarations, at a keyword.
read_declarations(source, rd) ==
    LET item == Item(source, rd)
        next == After(source, rd)
        tagged == next.k = "tag"
    IN  IF item.k # "kw" THEN Fails(rd, "syntax_error")
        ELSE CASE item.n = "mark" -> [Skip(rd, 1) EXCEPT !.mode = "advance"]
               [] item.n = "text" -> Skip(rd, 1)
               [] item.n = "start" -> [Skip(rd, 1) EXCEPT !.mode = "start"]
               [] item.n = "type" ->
                    IF tagged
                    THEN [Skip(rd, 2) EXCEPT !.mode = "type", !.tag = next.n]
                    ELSE Fails(rd, "syntax_error")
               [] OTHER ->
                    [Skip(rd, IF tagged THEN 2 ELSE 1) EXCEPT
                        !.mode = "tokens", !.assoc = item.n,
                        !.prec = IF item.n # "TOKEN" THEN @ + 1 ELSE @,
                        !.tag = IF tagged THEN next.n ELSE ""]

\* declare_tokens, at one symbol and the number that may follow it.
DeclareToken(source, rd) ==
    LET item == Item(source, rd)
        next == After(source, rd)
        s    == Named(rd.syms, item)
        i    == Find(s, item.n)
        b    == [s[i] EXCEPT
                    !.class = "TERM",
                    !.tag = IF rd.tag # "" THEN rd.tag ELSE @,
                    !.true_token = @ \/ rd.assoc = "TOKEN",
                    !.assoc = IF rd.assoc # "TOKEN" THEN rd.assoc ELSE @,
                    !.prec = IF rd.assoc # "TOKEN" THEN rd.prec ELSE @,
                    !.value = IF next.k = "num" THEN next.v
                              ELSE IF item.n = "EOF" THEN 0 ELSE @]
    IN  IF ~IsSymbol(item) THEN [rd EXCEPT !.mode = "declarations"]
        ELSE [Skip(rd, IF next.k = "num" THEN 2 ELSE 1) EXCEPT
                 !.syms = [s EXCEPT ![i] = b]]

\* declare_types, at one symbol.
DeclareType(source, rd) ==
    LET item == Item(source, rd)
        s    == Named(rd.syms, item)
    IN  IF ~IsSymbol(item) THEN [rd EXCEPT !.mode = "declarations"]
        ELSE [Skip(rd, 1) EXCEPT
                 !.syms = [s EXCEPT ![Find(s, item.n)].tag = rd.tag]]

\* declare_start, at one symbol; called from read_declarations and, before
\* the first rule, from advance_to_start.
DeclareStart(source, rd) ==
    LET item == Item(source, rd)
        s    == Named(rd.syms, item)
        i    == Find(s, item.n)
    IN  CASE item.k # "name" -> [rd EXCEPT !.mode = "declarations"]
          [] item.k = "name" /\ s[i].class = "TERM" ->
                Fails(rd, "terminal_start")
          [] item.k = "name" /\ rd.entries >= MaxEntryPoint ->
                Fails(rd, "too_many_entries")
          [] OTHER -> [Skip(rd, 1) EXCEPT
                          !.entries = @ + 1,
                          !.syms = [s EXCEPT ![i].entry = rd.entries + 1]]

-----------------------------------------------------------------------------
(* Rules.  The rule being read is the last of rd.rules.                    *)

NewRule(lhs) == [lhs |-> lhs, rhs |-> <<>>, prec |-> UNDEFINED, assoc |-> "TOKEN"]

start_rule(rd, i) ==
    IF rd.syms[i].class = "TERM" THEN Fails(rd, "terminal_lhs")
    ELSE [rd EXCEPT !.syms[i].class = "NONTERM", !.at_first = TRUE,
                    !.rules = Append(@, NewRule(i))]

end_rule(rd) ==
    IF ~rd.last_was_action THEN Fails(rd, "default_action_error")
    ELSE [rd EXCEPT !.last_was_action = FALSE]

\* end_rule and the start of the next rule of symbol i.
NextRule(rd, i) ==
    LET r == end_rule(rd) IN IF r.err # "" THEN r ELSE start_rule(r, i)

\* advance_to_start, at the name and the colon of the first rule.
advance_to_start(source, rd) ==
    LET item == Item(source, rd)
        s    == Named(rd.syms, item)
        i    == Find(s, item.n)
    IN  IF item.k = "kw" /\ item.n = "text" THEN Skip(rd, 1)
        ELSE IF item.k = "kw" /\ item.n = "mark" THEN Fails(rd, "no_grammar")
        ELSE IF item.k # "name" \/ After(source, rd).k # ":"
        THEN Fails(rd, "syntax_error")
        ELSE IF s[i].class = "TERM" THEN Fails(rd, "terminal_start")
        ELSE [start_rule([Skip(rd, 2) EXCEPT !.syms = s], i) EXCEPT
                 !.mode = "grammar"]

add_symbol(source, rd) ==
    LET item == Item(source, rd)
        s    == Named(rd.syms, item)
        i    == Find(s, item.n)
        r    == [rd EXCEPT !.syms = s]
        last == Len(rd.rules)
    IN  IF After(source, rd).k = ":" THEN NextRule(Skip(r, 2), i)
        ELSE IF rd.last_was_action THEN Fails(rd, "syntax_error")
        ELSE [Skip(r, 1) EXCEPT !.rules[last].rhs = Append(@, i)]

copy_action(source, rd) ==
    LET refs == Item(source, rd).refs
        rhs  == Last(rd.rules).rhs
        bare(i) == /\ rd.syms[rhs[i]].class = "TERM"
                   /\ rd.syms[rhs[i]].tag = ""
    IN  IF rd.last_was_action THEN Fails(rd, "syntax_error")
        ELSE IF \E i \in refs : i <= 0 \/ i > Len(rhs)
        THEN Fails(rd, "unknown_rhs")
        ELSE IF \E i \in refs : bare(i) THEN Fails(rd, "illegal_token_ref")
        ELSE [Skip(rd, 1) EXCEPT !.last_was_action = TRUE]

\* %prec and the symbol after it; a second one only draws a warning.
mark_symbol(source, rd) ==
    LET item == After(source, rd)
        s    == Named(rd.syms, item)
        b    == s[Find(s, item.n)]
        last == Len(rd.rules)
    IN  IF ~IsSymbol(item) THEN Fails(rd, "syntax_error")
        ELSE [Skip(rd, 2) EXCEPT !.syms = s, !.rules[last].prec = b.prec,
                                 !.rules[last].assoc = b.assoc]

\* The loop of read_grammar, at one item; "|" right after a left-hand side
\* is skipped, and the second mark or the end of the file ends the grammar.
read_grammar(source, rd) ==
    LET item == Item(source, rd)
        r    == [rd EXCEPT !.at_first = FALSE]
    IN  CASE item.k = "|" /\ rd.at_first -> Skip(r, 1)
          [] item.k = "|" /\ ~rd.at_first -> NextRule(Skip(r, 1), Last(rd.rules).lhs)
          [] IsSymbol(item) -> add_symbol(source, r)
          [] item.k = "act" -> copy_action(source, r)
          [] item.k = "prec" -> mark_symbol(source, r)
          [] item.k = "EOF" \/ (item.k = "kw" /\ item.n = "mark") ->
                [end_rule(r) EXCEPT !.mode = "goal"]
          [] OTHER -> Fails(r, "syntax_error")

-----------------------------------------------------------------------------
(* The goal symbol: one rule per entry point, "%entry% : code entry".       *)

RECURSIVE EntryRules(_, _)
EntryRules(rd, i) ==
    IF i > Len(rd.syms) THEN rd
    ELSE IF rd.syms[i].entry = 0 THEN EntryRules(rd, i + 1)
    ELSE LET b == rd.syms[i]
             n == Len(rd.syms) + 1
             c == [make_bucket(<<"code", b.entry>>) EXCEPT
                      !.class = "TERM", !.value = b.entry]
             r == [lhs |-> rd.goal, rhs |-> <<n, i>>,
                   prec |-> UNDEFINED, assoc |-> "TOKEN"]
         IN  IF b.tag = "" THEN Fails(rd, "entry_without_type")
             ELSE EntryRules([rd EXCEPT !.syms = Append([@ EXCEPT ![rd.goal].class = "NONTERM"], c),
                                        !.rules = Append(@, r)], i + 1)

make_goal(rd) ==
    LET s == lookup(rd.syms, "%entry%")
    IN  EntryRules([rd EXCEPT !.syms = s, !.goal = Find(s, "%entry%")], 1)

check_symbols(rd) ==
    IF rd.syms[rd.goal].class = "UNKNOWN" THEN Fails(rd, "undefined_goal")
    ELSE IF \E i \in DOMAIN rd.syms : rd.syms[i].class = "UNKNOWN"
    THEN Fails(rd, "undefined_symbol")
    ELSE rd

Terms(syms) == SelectSeq([i \in 1 .. Len(syms) |-> i],
                         LAMBDA i : syms[i].class = "TERM")
Nonterms(rd) == SelectSeq([i \in 1 .. Len(rd.syms) |-> i],
                          LAMBDA i : rd.syms[i].class # "TERM" /\ i # rd.goal)

\* The values of tokens 1, 2, ..., ntokens - 1: error is 256, a token without
\* a value gets the next one from 257 on that no token has been given.
RECURSIVE TokenValues(_, _, _, _)
TokenValues(syms, given, n, rest) ==
    IF rest = <<>> THEN <<>>
    ELSE LET v == syms[Head(rest)].value
             free == Min({k \in n .. n + Cardinality(given) : k \notin given})
         IN  IF v # UNDEFINED
             THEN <<v>> \o TokenValues(syms, given, n, Tail(rest))
             ELSE <<free>> \o TokenValues(syms, given, free + 1, Tail(rest))

pack_symbols(rd) ==
    LET terms == Terms(rd.syms)
        vars  == <<rd.goal>> \o Nonterms(rd)
        nt    == Len(terms) + 1
        all   == nt + 1 + Len(vars)
        given == {v \in {rd.syms[i].value : i \in Range(terms)} : v > 256}
        error == IF rd.syms[1].value = UNDEFINED THEN 256 ELSE rd.syms[1].value
        vals  == <<error>> \o TokenValues(rd.syms, given, 257, Tail(terms))
        sym(k) == IF k < nt THEN terms[k] ELSE vars[k - nt]
        inner(k) == k # 0 /\ k # nt
    IN  [ntokens |-> nt, nsyms |-> all, start_symbol |-> nt,
         index |-> [i \in 1 .. Len(rd.syms) |->
                       CHOOSE k \in 1 .. all - 1 : k # nt /\ sym(k) = i],
         name  |-> [k \in 0 .. all - 1 |->
                       IF inner(k) THEN rd.syms[sym(k)].name
                       ELSE IF k = 0 THEN "$end" ELSE "$accept"],
         value |-> [k \in 0 .. all - 1 |->
                       CASE k = 0 -> 0 [] k = nt -> -1
                         [] inner(k) -> IF k < nt THEN vals[k] ELSE k - nt - 1],
         prec  |-> [k \in 0 .. all - 1 |-> IF inner(k) THEN rd.syms[sym(k)].prec ELSE 0],
         assoc |-> [k \in 0 .. all - 1 |-> IF inner(k) THEN rd.syms[sym(k)].assoc ELSE "TOKEN"],
         tag   |-> [k \in 1 .. nt - 1 |-> rd.syms[terms[k]].tag],
         true_token |-> [k \in 1 .. nt - 1 |-> rd.syms[terms[k]].true_token]]

\* Rule i of the grammar is rules[i - 2]; the first is "$accept : goal $end".
\* A rule without %prec has the precedence of its last terminal.
pack_grammar(rd, p) ==
    LET own(r) == LET ts == SelectSeq(r.rhs, LAMBDA i : rd.syms[i].class = "TERM")
                  IN  IF ts = <<>> THEN [prec |-> 0, assoc |-> "TOKEN"]
                      ELSE [prec |-> rd.syms[Last(ts)].prec,
                            assoc |-> rd.syms[Last(ts)].assoc]
        packed(r) ==
            [lhs |-> p.index[r.lhs],
             rhs |-> [j \in 1 .. Len(r.rhs) |-> p.index[r.rhs[j]]],
             prec |-> IF r.prec = UNDEFINED THEN own(r).prec ELSE r.prec,
             assoc |-> IF r.prec = UNDEFINED THEN own(r).assoc ELSE r.assoc]
        accept == [lhs |-> p.start_symbol, rhs |-> <<p.start_symbol + 1, 0>>,
                   prec |-> 0, assoc |-> "TOKEN"]
    IN  [j \in 2 .. Len(rd.rules) + 2 |->
            IF j = 2 THEN accept ELSE packed(rd.rules[j - 2])]

\* reader, after read_grammar.
FinishReader(rd) ==
    LET goal == make_goal(rd) IN IF goal.err # "" THEN goal ELSE check_symbols(goal)

Grammar(rd) ==
    LET p == pack_symbols(rd)
    IN  [syms |-> p, nrules |-> Len(rd.rules) + 3, rule |-> pack_grammar(rd, p)]

\* One step of reader(): one item.
ReadStep(source, rd) ==
    CASE Item(source, rd).k = "name" /\ Item(source, rd).n \in Reserved ->
            Fails(rd, "used_reserved")
      [] rd.mode = "declarations" -> read_declarations(source, rd)
      [] rd.mode = "tokens" -> DeclareToken(source, rd)
      [] rd.mode = "type" -> DeclareType(source, rd)
      [] rd.mode = "start" -> DeclareStart(source, rd)
      [] rd.mode = "advance" -> advance_to_start(source, rd)
      [] rd.mode = "grammar" -> read_grammar(source, rd)
=============================================================================
