-------------------------------- MODULE Yacc --------------------------------
(* The parser generator of ocamlyacc: the LR(0) automaton (yacc/lr0.c,      *)
(* yacc/closure.c, yacc/warshall.c), the lookaheads (yacc/lalr.c), the      *)
(* actions of each state (yacc/mkpar.c), the packed tables (yacc/output.c)  *)
(* and the report (yacc/verbose.c).  Arrays are functions from 0; a grammar *)
(* g is the result of YaccReader, and an item is <<rule, dot>>, in the order *)
(* of the positions of ritem.                                               *)
EXTENDS YaccReader, Functions

Tokens(g) == 0 .. g.syms.ntokens - 1
Vars(g) == g.syms.start_symbol .. g.syms.nsyms - 1
Rules(g) == 2 .. g.nrules - 1
IsVar(g, s) == s >= g.syms.start_symbol

\* The symbol after the dot of an item; -1 is the end of the rule, where
\* ritem has a negative number.
After_(g, item) ==
    IF item[2] < Len(g.rule[item[1]].rhs) THEN g.rule[item[1]].rhs[item[2] + 1]
    ELSE -1

ItemLess(a, b) == a[1] < b[1] \/ (a[1] = b[1] /\ a[2] < b[2])

\* The members of a set in the order of Less.
Sorted(S, Less(_, _)) ==
    [i \in 1 .. Cardinality(S) |->
        CHOOSE a \in S : Cardinality({b \in S : Less(b, a)}) = i - 1]
Ascending(S) == Sorted(S, LAMBDA a, b : a < b)
Upto(n) == [i \in 1 .. n |-> i - 1]

set_derives(g) ==
    [v \in Vars(g) |-> Ascending({r \in Rules(g) : g.rule[r].lhs = v})]

RECURSIVE NullableFrom(_, _)
NullableFrom(g, N) ==
    LET more == {g.rule[r].lhs : r \in {q \in Rules(g) : Range(g.rule[q].rhs) \subseteq N}}
    IN  IF more \subseteq N THEN N ELSE NullableFrom(g, N \cup more)
set_nullable(g) == NullableFrom(g, {})

\* Warshall's algorithm, row by row: R[v] is the row of v.
transitive_closure(R, vars) ==
    FoldLeft(LAMBDA rows, i : [j \in DOMAIN rows |->
                 IF i \in rows[j] THEN rows[j] \cup rows[i] ELSE rows[j]],
             R, vars)

reflexive_transitive_closure(R, vars) ==
    LET T == transitive_closure(R, vars) IN [v \in DOMAIN T |-> T[v] \cup {v}]

set_EFF(g) ==
    reflexive_transitive_closure(
        [v \in Vars(g) |-> {s \in Vars(g) : \E r \in Rules(g) :
            g.rule[r].lhs = v /\ After_(g, <<r, 0>>) = s}],
        Ascending(Vars(g)))

\* The rules that may start a derivation from each variable.
set_first_derives(g) ==
    LET eff == set_EFF(g)
    IN  [v \in Vars(g) |-> {r \in Rules(g) : g.rule[r].lhs \in eff[v]}]

\* The items of a state, from its kernel.
closure(g, fd, nucleus) ==
    LET rules == UNION {fd[s] : s \in {After_(g, nucleus[i]) : i \in DOMAIN nucleus} \cap Vars(g)}
    IN  Sorted(Range(nucleus) \cup {<<r, 0>> : r \in rules}, ItemLess)

-----------------------------------------------------------------------------
(* generate_states: lr.states[n + 1] is state n, lr.this the next state to   *)
(* expand, lr.shift and lr.reds the lists of shifts and reductions.         *)

initialize_states(g) ==
    [states |-> <<[acc |-> 0, items |-> <<<<2, 0>>>>]>>, this |-> 0,
     shift |-> <<>>, reds |-> <<>>]

save_reductions(g, itemset) ==
    LET done == SelectSeq(itemset, LAMBDA it : After_(g, it) = -1)
    IN  [i \in DOMAIN done |-> done[i][1]]

\* The kernel reached over each symbol, $end excepted.
new_itemsets(g, itemset, s) ==
    LET from == SelectSeq(itemset, LAMBDA it : After_(g, it) = s)
    IN  [i \in DOMAIN from |-> <<from[i][1], from[i][2] + 1>>]

new_state(states, kernel, s) == Append(states, [acc |-> s, items |-> kernel])

\* get_state: the state with this kernel, or a new one.
get_state(states, kernel, s) ==
    LET k == SelectInSeq(states, LAMBDA c : c.items = kernel)
    IN  IF k # 0 THEN <<states, k - 1>>
        ELSE <<new_state(states, kernel, s), Len(states)>>

RECURSIVE append_states(_, _, _, _, _)
append_states(g, itemset, states, symbols, shiftset) ==
    IF symbols = <<>> THEN <<states, shiftset>>
    ELSE LET s == Head(symbols)
             got == get_state(states, new_itemsets(g, itemset, s), s)
         IN  append_states(g, itemset, got[1], Tail(symbols), Append(shiftset, got[2]))

\* One turn of the loop of generate_states.
ExpandState(g, fd, lr) ==
    LET itemset == closure(g, fd, lr.states[lr.this + 1].items)
        symbols == Ascending({After_(g, itemset[i]) : i \in DOMAIN itemset} \ {-1, 0})
        out == append_states(g, itemset, lr.states, symbols, <<>>)
    IN  [states |-> out[1], this |-> lr.this + 1, shift |-> Append(lr.shift, out[2]),
         reds |-> Append(lr.reds, save_reductions(g, itemset))]

NStates(lr) == Len(lr.states)
States(lr) == 0 .. NStates(lr) - 1
Acc(lr, k) == lr.states[k + 1].acc
Shifts(lr, k) == Range(lr.shift[k + 1])
GoTo(lr, k, s) == CHOOSE t \in Shifts(lr, k) : Acc(lr, t) = s

-----------------------------------------------------------------------------
(* lalr.c.  Goto i is from_state[i] --symbol--> to_state[i]; goto_map has    *)
(* the first goto of each variable.                                         *)

\* The gotos over each variable in turn, by state.
set_goto_map(g, lr) ==
    LET gotos == Sorted(
            UNION {{<<Acc(lr, t), k, t>> : t \in {u \in Shifts(lr, k) : IsVar(g, Acc(lr, u))}} :
                   k \in States(lr)},
            LAMBDA a, b : a[1] < b[1] \/ (a[1] = b[1] /\ a[2] < b[2]))
    IN  [ngotos |-> Len(gotos),
         from_state |-> [i \in 0 .. Len(gotos) - 1 |-> gotos[i + 1][2]],
         to_state |-> [i \in 0 .. Len(gotos) - 1 |-> gotos[i + 1][3]],
         goto_map |-> [s \in g.syms.start_symbol .. g.syms.nsyms |->
             Cardinality({i \in DOMAIN gotos : gotos[i][1] < s})]]

\* Binary search for the goto from a state over a variable.
RECURSIVE Search(_, _, _, _)
Search(gm, state, low, high) ==
    LET middle == (low + high) \div 2
        s == gm.from_state[middle]
    IN  IF s = state THEN middle
        ELSE IF s < state THEN Search(gm, state, middle + 1, high)
        ELSE Search(gm, state, low, middle - 1)
map_goto(gm, state, symbol) ==
    Search(gm, state, gm.goto_map[symbol], gm.goto_map[symbol + 1])

\* digraph: t = [F, INDEX, VERTICES], the last of VERTICES being the top.
Infinity(gm) == gm.ngotos + 2

RECURSIVE PopVertices(_, _, _)
PopVertices(gm, t, i) ==
    LET j == Last(t.VERTICES)
        popped == [t EXCEPT !.VERTICES = Front(@), !.INDEX[j] = Infinity(gm),
                            !.F[j] = t.F[i]]
    IN  IF i = j THEN popped ELSE PopVertices(gm, popped, i)

RECURSIVE traverse(_, _, _, _), Edges(_, _, _, _, _)
Edges(gm, R, t, i, js) ==
    IF js = <<>> THEN t
    ELSE LET j == Head(js)
             u == IF t.INDEX[j] = 0 THEN traverse(gm, R, t, j) ELSE t
             v == [u EXCEPT !.INDEX[i] = IF @ > u.INDEX[j] THEN u.INDEX[j] ELSE @,
                            !.F[i] = @ \cup u.F[j]]
         IN  Edges(gm, R, v, i, Tail(js))
traverse(gm, R, t, i) ==
    LET height == Len(t.VERTICES) + 1
        pushed == [t EXCEPT !.VERTICES = Append(@, i), !.INDEX[i] = height]
        seen == Edges(gm, R, pushed, i, R[i])
    IN  IF seen.INDEX[i] = height THEN PopVertices(gm, seen, i) ELSE seen

digraph(gm, F, R) ==
    LET start == [F |-> F, INDEX |-> [i \in DOMAIN F |-> 0], VERTICES |-> <<>>]
        visit(t, i) == IF t.INDEX[i] = 0 /\ R[i] # <<>> THEN traverse(gm, R, t, i) ELSE t
    IN  FoldLeft(visit, start, Upto(gm.ngotos)).F

\* What can be read after each goto: first directly, then through the
\* variables that derive the empty word.
initialize_F(g, lr, gm, nullable) ==
    LET direct(i) == {Acc(lr, t) : t \in Shifts(lr, gm.to_state[i])} \cap Tokens(g)
        F0 == [i \in DOMAIN gm.to_state |-> direct(i) \cup (IF i = 0 THEN {0} ELSE {})]
        reads(i) == LET ss == Ascending({Acc(lr, t) : t \in Shifts(lr, gm.to_state[i])} \cap nullable)
                    IN  [j \in DOMAIN ss |-> map_goto(gm, gm.to_state[i], ss[j])]
    IN  digraph(gm, F0, [i \in DOMAIN gm.to_state |-> reads(i)])

\* The states along the right-hand side of rule r from state k.
Path(g, lr, k, r) ==
    FoldLeft(LAMBDA path, s : Append(path, GoTo(lr, Last(path), s)), <<k>>, g.rule[r].rhs)

\* build_relations: goto i over the left-hand side of r includes the gotos
\* over the last variables of r, as long as what follows them may be empty.
IncludesEdges(g, lr, gm, nullable, i, r) ==
    LET rhs == g.rule[r].rhs
        path == Path(g, lr, gm.from_state[i], r)
        tail == {n \in 1 .. Len(rhs) : /\ IsVar(g, rhs[n])
                                       /\ \A m \in n + 1 .. Len(rhs) : rhs[m] \in nullable}
    IN  {map_goto(gm, path[n], rhs[n]) : n \in tail}

\* The relation, already transposed: j |-> the gotos i that it includes ....
transpose(gm, R) ==
    [j \in DOMAIN R |-> Ascending({i \in DOMAIN R : j \in R[i]})]

\* For each reduction, the gotos over the left-hand side of its rule that come back to it.
add_lookback_edge(g, lr, gm) ==
    [kr \in UNION {{<<k, r>> : r \in Range(lr.reds[k + 1])} : k \in States(lr)} |->
        {i \in DOMAIN gm.to_state : /\ Acc(lr, gm.to_state[i]) = g.rule[kr[2]].lhs
                                    /\ Last(Path(g, lr, gm.from_state[i], kr[2])) = kr[1]}]

build_relations(g, lr, gm, nullable, derives) ==
    LET lhs(i) == Acc(lr, gm.to_state[i])
        R == [i \in DOMAIN gm.to_state |->
                 UNION {IncludesEdges(g, lr, gm, nullable, i, r) : r \in Range(derives[lhs(i)])}]
    IN  [includes |-> transpose(gm, R), lookback |-> add_lookback_edge(g, lr, gm)]

compute_FOLLOWS(gm, F, includes) == digraph(gm, F, includes)

compute_lookaheads(FOLLOWS, lookback) ==
    [kr \in DOMAIN lookback |-> UNION {FOLLOWS[i] : i \in lookback[kr]}]

\* LA[<<k, r>>]: the tokens on which state k reduces rule r.
lalr(g, lr) ==
    LET nullable == set_nullable(g)
        gm == set_goto_map(g, lr)
        F == initialize_F(g, lr, gm, nullable)
        rel == build_relations(g, lr, gm, nullable, set_derives(g))
        FOLLOWS == compute_FOLLOWS(gm, F, rel.includes)
    IN  [gm |-> gm, LA |-> compute_lookaheads(FOLLOWS, rel.lookback)]

-----------------------------------------------------------------------------
(* mkpar.c: the actions of a state, by symbol, a shift before the           *)
(* reductions, and these by rule.                                           *)

Action(symbol, code, number, prec, assoc) ==
    [symbol |-> symbol, code |-> code, number |-> number, prec |-> prec,
     assoc |-> assoc, suppressed |-> 0]

get_shifts(g, lr, k) ==
    LET to == SelectSeq(lr.shift[k + 1], LAMBDA t : ~IsVar(g, Acc(lr, t)))
    IN  [i \in DOMAIN to |->
            LET s == Acc(lr, to[i])
            IN  Action(s, "SHIFT", to[i], g.syms.prec[s], g.syms.assoc[s])]

\* add_reduce inserts behind smaller symbols, shifts and earlier rules.
add_reduce(g, actions, r, symbol) ==
    LET before == {i \in DOMAIN actions :
            \/ actions[i].symbol < symbol
            \/ /\ actions[i].symbol = symbol
               /\ actions[i].code = "SHIFT" \/ actions[i].number < r}
        new == Action(symbol, "REDUCE", r, g.rule[r].prec, g.rule[r].assoc)
    IN  InsertAt(actions, Cardinality(before) + 1, new)

add_reductions(g, LA, reds, k, actions) ==
    FoldLeft(LAMBDA acts, r :
                 FoldLeft(LAMBDA a, t : add_reduce(g, a, r, t), acts,
                          Reverse(Ascending(LA[<<k, r>>]))),
             actions, reds)

\* The last shift of state 0 over the goal.
find_final_state(g, lr) == GoTo(lr, 0, g.syms.start_symbol + 1)

\* As Associates, with the two sides confused.
AssociatesSwapped(assoc, rule, token, neither) ==
    CASE assoc = "LEFT" -> token [] assoc = "RIGHT" -> rule [] OTHER -> neither

\* A tie is decided by the associativity.
Associates(assoc, rule, token, neither) ==
    CASE assoc = "LEFT" -> rule [] assoc = "RIGHT" -> token [] OTHER -> neither

\* remove_conflicts, at action p of a state; c.pref is the preferred action
\* on the symbol so far.
ResolveAction(g, final, c, p) ==
    LET a == c.acts[p]
        f == c.acts[c.pref]
        conflict == [c EXCEPT !.acts[p].suppressed = 1]
        token == [c EXCEPT !.acts[p].suppressed = 2]
        rule == [c EXCEPT !.acts[c.pref].suppressed = 2, !.pref = p]
        neither == [c EXCEPT !.acts[c.pref].suppressed = 2, !.acts[p].suppressed = 2]
    IN  IF c.pref = 0 THEN [c EXCEPT !.pref = p]
        ELSE IF f.symbol # a.symbol THEN [c EXCEPT !.pref = p]
        ELSE IF final /\ a.symbol = 0 THEN [conflict EXCEPT !.SR = @ + 1]
        ELSE IF f.code # "SHIFT" THEN [conflict EXCEPT !.RR = @ + 1]
        ELSE IF f.prec = 0 \/ a.prec = 0 THEN [conflict EXCEPT !.SR = @ + 1]
        ELSE IF f.prec < a.prec THEN rule
        ELSE IF f.prec > a.prec THEN token
        ELSE Associates(f.assoc, rule, token, neither)

remove_conflicts(g, final, actions) ==
    FoldLeft(LAMBDA c, p : ResolveAction(g, final, c, p),
             [acts |-> actions, pref |-> 0, SR |-> 0, RR |-> 0],
             [i \in DOMAIN actions |-> i])

\* The only rule a state reduces, if it shifts nothing.
sole_reduction(actions) ==
    LET live == SelectSeq(actions, LAMBDA a : a.suppressed = 0)
        rules == {live[i].number : i \in DOMAIN live}
    IN  IF \/ \E i \in DOMAIN live : live[i].code = "SHIFT"
           \/ Cardinality(rules) # 1
           \/ \A i \in DOMAIN live : live[i].symbol = 1
        THEN 0 ELSE CHOOSE r \in rules : TRUE

make_parser(g, lr, LA) ==
    LET final == find_final_state(g, lr)
        parser == [k \in States(lr) |->
            remove_conflicts(g, k = final,
                add_reductions(g, LA, lr.reds[k + 1], k, get_shifts(g, lr, k)))]
        acts == [k \in States(lr) |-> parser[k].acts]
        used == {a.number : a \in {b \in UNION {Range(acts[k]) : k \in States(lr)} :
                                      b.code = "REDUCE" /\ b.suppressed = 0}}
    IN  [final_state |-> final, acts |-> acts,
         SR |-> [k \in States(lr) |-> parser[k].SR],
         RR |-> [k \in States(lr) |-> parser[k].RR],
         unused |-> {r \in Rules(g) \ {2} : r \notin used},
         defred |-> [k \in States(lr) |-> sole_reduction(acts[k])]]

-----------------------------------------------------------------------------
(* output.c: each row of shifts, row of reductions and column of gotos is a *)
(* vector of <<from, to>>.  Vector k is the shifts of state k, n + k its     *)
(* reductions and 2n + v the gotos over the variable with value v.          *)

ByFrom(S) == Sorted(S, LAMBDA a, b : a[1] < b[1])
BySymbol(S) == Sorted(S, LAMBDA a, b : a.symbol < b.symbol)

ShiftVector(g, par, k) ==
    LET as == BySymbol({a \in Range(par.acts[k]) : a.suppressed = 0 /\ a.code = "SHIFT"})
    IN  [i \in DOMAIN as |-> <<g.syms.value[as[i].symbol], as[i].number>>]

ReduceVector(g, par, k) ==
    LET as == BySymbol({a \in Range(par.acts[k]) :
                /\ a.suppressed = 0 /\ a.code = "REDUCE" /\ a.number # par.defred[k]})
    IN  [i \in DOMAIN as |-> <<g.syms.value[as[i].symbol], as[i].number - 2>>]

Width(v) == Max({v[i][1] : i \in DOMAIN v}) - Min({v[i][1] : i \in DOMAIN v}) + 1

GotosOver(gm, s) == gm.goto_map[s] .. gm.goto_map[s + 1] - 1

default_goto(lr, gm, s) ==
    LET count(k) == Cardinality({i \in GotosOver(gm, s) : gm.to_state[i] = k})
    IN  IF GotosOver(gm, s) = {} THEN 0
        ELSE Min({k \in States(lr) : \A j \in States(lr) : count(j) <= count(k)})

save_column(gm, s, default) ==
    ByFrom({<<gm.from_state[i], gm.to_state[i]>> :
            i \in {j \in GotosOver(gm, s) : gm.to_state[j] # default}})

\* sort_actions, inserting vector i: wider first, then longer, then earlier.
InsertVector(vec, order, i) ==
    LET wide(v) == <<Width(vec[v]), Len(vec[v])>>
        stays(v) == \/ wide(v)[1] > wide(i)[1]
                    \/ wide(v)[1] = wide(i)[1] /\ wide(v)[2] >= wide(i)[2]
        kept == {j \in DOMAIN order : \A m \in 1 .. j : stays(order[m])}
    IN  InsertAt(order, Cardinality(kept) + 1, i)

sort_actions(vec) ==
    FoldLeft(LAMBDA order, i : InsertVector(vec, order, i), <<>>,
             Ascending({i \in DOMAIN vec : vec[i] # <<>>}))

output_actions(g, lr, gm, par) ==
    LET n == NStates(lr)
        dgoto == [v \in 0 .. g.syms.nsyms - g.syms.ntokens - 2 |->
                     default_goto(lr, gm, g.syms.start_symbol + 1 + v)]
        vec == [i \in 0 .. 2 * n + g.syms.nsyms - g.syms.ntokens - 2 |->
            CASE i < n -> ShiftVector(g, par, i)
              [] i \in n .. 2 * n - 1 -> ReduceVector(g, par, i - n)
              [] i >= 2 * n -> save_column(gm, g.syms.start_symbol + 1 + i - 2 * n, dgoto[i - 2 * n])]
    IN  [n |-> n, dgoto |-> dgoto, vec |-> vec, order |-> sort_actions(vec), next |-> 1,
         base |-> [i \in DOMAIN vec |-> 0], pos |-> {}, table |-> <<>>, lowzero |-> 0, high |-> 0]

\* A vector of shifts or reductions equal to an earlier one of the same
\* width and length shares its place; -1 when there is none.
matching_vector(pk) ==
    LET i == pk.order[pk.next]
        v == pk.vec[i]
        same(p) == LET w == pk.vec[pk.order[p]] IN Width(w) = Width(v) /\ Len(w) = Len(v)
        found == {p \in 1 .. pk.next - 1 : /\ \A q \in p .. pk.next - 1 : same(q)
                                           /\ pk.vec[pk.order[p]] = v}
    IN  IF i >= 2 * pk.n \/ found = {} THEN -1 ELSE pk.order[Max(found)]

Taken(pk, loc) == loc \in DOMAIN pk.table

\* The first place, from the first free entry on, where the vector fits; 0
\* means "no vector" in the tables, and no two vectors have the same place.
RECURSIVE PlaceFrom(_, _, _)
PlaceFrom(pk, v, j) ==
    IF /\ j # 0 /\ j \notin pk.pos
       /\ \A i \in DOMAIN v : ~Taken(pk, j + v[i][1])
    THEN j ELSE PlaceFrom(pk, v, j + 1)
Place(pk, v) == PlaceFrom(pk, v, Max({pk.lowzero - v[i][1] : i \in DOMAIN v}))

RECURSIVE LowZero(_, _)
LowZero(table, z) == IF z \in DOMAIN table THEN LowZero(table, z + 1) ELSE z

pack_vector(pk, v) ==
    LET j == Place(pk, v)
        new == [loc \in {j + v[i][1] : i \in DOMAIN v} |->
                   [from |-> loc - j,
                    to |-> Max({i \in DOMAIN v : v[i][1] = loc - j})]]
        table == [loc \in DOMAIN pk.table \cup DOMAIN new |->
                     IF loc \in DOMAIN new THEN [from |-> new[loc].from, to |-> v[new[loc].to][2]]
                     ELSE pk.table[loc]]
    IN  [pk EXCEPT !.table = table, !.lowzero = LowZero(table, pk.lowzero),
                   !.high = Max({pk.high} \cup DOMAIN new),
                   !.pos = @ \cup {j}, !.base[pk.order[pk.next]] = j]

\* One turn of the loop of pack_table.
PackStep(pk) ==
    LET m == matching_vector(pk)
        i == pk.order[pk.next]
        packed == IF m < 0 THEN pack_vector(pk, pk.vec[i])
                  ELSE [pk EXCEPT !.base[i] = pk.base[m]]
    IN  [packed EXCEPT !.next = @ + 1]

Packed(pk) == pk.next > Len(pk.order)

\* The tables that are written.
output_rule_data(g) ==
    [lhs |-> [r \in 0 .. g.nrules - 3 |-> IF r = 0 THEN -1 ELSE g.syms.value[g.rule[r + 2].lhs]],
     len |-> [r \in 0 .. g.nrules - 3 |-> Len(g.rule[r + 2].rhs)]]

output_yydefred(par, pk) ==
    [k \in 0 .. pk.n - 1 |-> IF par.defred[k] # 0 THEN par.defred[k] - 2 ELSE 0]

output_base(g, pk) ==
    [sindex |-> [k \in 0 .. pk.n - 1 |-> pk.base[k]],
     rindex |-> [k \in 0 .. pk.n - 1 |-> pk.base[pk.n + k]],
     gindex |-> [v \in 0 .. g.syms.nsyms - g.syms.ntokens - 2 |-> pk.base[2 * pk.n + v]]]

output_table(pk) == [loc \in 0 .. pk.high |-> IF Taken(pk, loc) THEN pk.table[loc].to ELSE 0]
output_check(pk) == [loc \in 0 .. pk.high |-> IF Taken(pk, loc) THEN pk.table[loc].from ELSE -1]

\* The codes of the tokens without and with an argument.
output_transl(g) ==
    LET tokens(T(_)) == SelectSeq([i \in 1 .. g.syms.ntokens - 1 |-> i],
                                  LAMBDA i : g.syms.true_token[i] /\ T(g.syms.tag[i]))
        values(ts) == [i \in 0 .. Len(ts) |-> IF i < Len(ts) THEN g.syms.value[ts[i + 1]] ELSE 0]
    IN  [const |-> values(tokens(LAMBDA tag : tag = "")), block |-> values(tokens(LAMBDA tag : tag # ""))]

WrittenTables(g, par, pk) ==
    [lhs |-> output_rule_data(g).lhs, len |-> output_rule_data(g).len,
     defred |-> output_yydefred(par, pk), dgoto |-> pk.dgoto,
     sindex |-> output_base(g, pk).sindex, rindex |-> output_base(g, pk).rindex,
     gindex |-> output_base(g, pk).gindex, tablesize |-> pk.high,
     table |-> output_table(pk), check |-> output_check(pk),
     transl_const |-> output_transl(g).const, transl_block |-> output_transl(g).block]

-----------------------------------------------------------------------------
(* verbose.c: what the report says of a state.                              *)

print_conflicts(par, k) ==
    {<<a.symbol, a.number>> : a \in {b \in Range(par.acts[k]) : b.suppressed = 1}}

print_shifts(par, k) ==
    {<<a.symbol, a.number>> : a \in {b \in Range(par.acts[k]) :
        b.code = "SHIFT" /\ b.suppressed = 0}}

print_reductions(par, k) ==
    LET any == \E a \in Range(par.acts[k]) : a.code = "REDUCE" /\ a.suppressed < 2
    IN  [on |-> IF any THEN {<<a.symbol, a.number - 2>> : a \in {b \in Range(par.acts[k]) :
                    b.code = "REDUCE" /\ b.suppressed = 0 /\ b.number # par.defred[k]}}
                ELSE {},
         default |-> IF any /\ par.defred[k] > 0 THEN par.defred[k] - 2 ELSE 0]

print_gotos(g, lr, k) ==
    {<<Acc(lr, t), t>> : t \in {u \in Shifts(lr, k) : IsVar(g, Acc(lr, u))}}

print_state(g, lr, par, k) ==
    [conflicts |-> print_conflicts(par, k), shifts |-> print_shifts(par, k),
     reductions |-> print_reductions(par, k), gotos |-> print_gotos(g, lr, k),
     accept |-> k = par.final_state]
=============================================================================
