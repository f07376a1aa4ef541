------------------------------ MODULE MCMemory ------------------------------
(***************************************************************************)
(* The parts of the runtime that manage memory and values, on small        *)
(* instances: each behaviour is one of one part, chosen at the start.      *)
(* The parts share no state here, so they share the variables v1, v2, ...; *)
(* a variable that a part has no use for stays 0.                          *)
(***************************************************************************)
EXTENDS Integers, Sequences, FiniteSets, SequencesExt

CONSTANTS MinorHeaps, PoolWorlds, FinalWorlds, ArrayWorlds, StatWorlds,
          CompareWorlds, MarshalWorlds, BigarrayWorlds, FragmentWorlds

VARIABLES part, v1, v2, v3, v4, v5, v6, v7, v8, v9, v10

all == <<v1, v2, v3, v4, v5, v6, v7, v8, v9, v10>>
vars == <<part, all>>

Minor == INSTANCE MinorGC WITH
  Heaps <- MinorHeaps, start <- v1, heap <- v2, gc <- v3, finished <- v4
Shared == INSTANCE SharedHeap WITH
  Worlds <- PoolWorlds, world <- v1, pools <- v2, large <- v3, glob <- v4, heap <- v5,
  dom <- v6, status <- v7, left <- v8
Final == INSTANCE Finalise WITH
  Worlds <- FinalWorlds, world <- v1, heap <- v2, local <- v3, roots <- v4, lists <- v5,
  final <- v6, state <- v7, full <- v8, ghost <- v9, left <- v10
Array == INSTANCE Arrays WITH Worlds <- ArrayWorlds, world <- v1, m <- v2, model <- v3
Stat == INSTANCE StatPool WITH Worlds <- StatWorlds, world <- v1, mem <- v2, ths <- v3, owned <- v4
Comp == INSTANCE Compare WITH Worlds <- CompareWorlds, world <- v1, walk <- v2, done <- v3
Marsh == INSTANCE Marshal WITH Worlds <- MarshalWorlds, world <- v1, ext <- v2, inp <- v3, th <- v4
Big == INSTANCE Bigarray WITH
  Worlds <- BigarrayWorlds, world <- v1, arrays <- v2, bufs <- v3, proxies <- v4, thr <- v5,
  lock <- v6, left <- v7
Frag == INSTANCE CodeFragments WITH
  Worlds <- FragmentWorlds, world <- v1, cells <- v2, lists <- v3, frags <- v4, bin <- v5,
  counter <- v6, thr <- v7, seen <- v8, won <- v9
-----------------------------------------------------------------------------
Init ==
  \/ part = "minor" /\ Minor!Init /\ v5 = 0 /\ v6 = 0 /\ v7 = 0 /\ v8 = 0 /\ v9 = 0 /\ v10 = 0
  \/ part = "shared" /\ Shared!Init /\ v9 = 0 /\ v10 = 0
  \/ part = "final" /\ Final!Init
  \/ part = "array" /\ Array!Init
     /\ v4 = 0 /\ v5 = 0 /\ v6 = 0 /\ v7 = 0 /\ v8 = 0 /\ v9 = 0 /\ v10 = 0
  \/ part = "stat" /\ Stat!Init /\ v5 = 0 /\ v6 = 0 /\ v7 = 0 /\ v8 = 0 /\ v9 = 0 /\ v10 = 0
  \/ part = "compare" /\ Comp!Init
     /\ v4 = 0 /\ v5 = 0 /\ v6 = 0 /\ v7 = 0 /\ v8 = 0 /\ v9 = 0 /\ v10 = 0
  \/ part = "marshal" /\ Marsh!Init /\ v5 = 0 /\ v6 = 0 /\ v7 = 0 /\ v8 = 0 /\ v9 = 0 /\ v10 = 0
  \/ part = "bigarray" /\ Big!Init /\ v8 = 0 /\ v9 = 0 /\ v10 = 0
  \/ part = "fragment" /\ Frag!Init /\ v10 = 0

Next ==
  \/ part = "minor" /\ Minor!Next /\ UNCHANGED <<part, v5, v6, v7, v8, v9, v10>>
  \/ part = "shared" /\ Shared!Next /\ UNCHANGED <<part, v9, v10>>
  \/ part = "final" /\ Final!Next /\ UNCHANGED part
  \/ part = "array" /\ Array!Next /\ UNCHANGED <<part, v4, v5, v6, v7, v8, v9, v10>>
  \/ part = "stat" /\ Stat!Next /\ UNCHANGED <<part, v5, v6, v7, v8, v9, v10>>
  \/ part = "compare" /\ Comp!Next /\ UNCHANGED <<part, v4, v5, v6, v7, v8, v9, v10>>
  \/ part = "marshal" /\ Marsh!Next /\ UNCHANGED <<part, v5, v6, v7, v8, v9, v10>>
  \/ part = "bigarray" /\ Big!Next /\ UNCHANGED <<part, v8, v9, v10>>
  \/ part = "fragment" /\ Frag!Next /\ UNCHANGED <<part, v10>>

Spec == Init /\ [][Next]_vars
-----------------------------------------------------------------------------
(* Heaps for minor collections by two domains at once: cycles and sharing,   *)
(* infix pointers and continuations, every kind of root; forwards to a plain *)
(* block, and to a float, a lazy value and a forward that two domains        *)
(* promote at once.                                                          *)
MCMinorHeaps ==
  LET P(a) == <<a, 0>>
      Block(tag, f) == Minor!Block(tag, f)
      Imm == Minor!Imm
      None == << <<>>, <<>> >>
      H(n, blocks, glob, rem, cus, fin, eph, loc) ==
        [young |-> n, blocks |-> blocks, global |-> glob, remembered |-> rem, custom |-> cus,
         final |-> fin, ephe |-> eph, local |-> loc]
  IN  {H(3, <<Block("block", <<P(2), Imm>>), Block("block", <<P(1), P(3)>>),
              Block("noscan", <<Imm>>), Block("block", <<P(1), P(2), P(2)>>)>>,
         <<>>, << <<<<4, 3>>>>, <<>> >>, None, None, None, << <<<<4, 1>>>>, <<<<4, 2>>>> >>),
       H(3, <<Block("block", <<P(3), Imm, Imm>>), Block("block", <<<<1, 2>>>>),
              Block("cont", <<P(5)>>), Block("block", <<P(2), <<1, 2>>, P(3)>>),
              Block("block", <<P(2), Imm>>)>>,
         <<<<4, 3>>>>, None, None, None, None, << <<<<4, 1>>>>, <<<<4, 2>>>> >>),
       H(3, <<Block("noscan", <<Imm>>), Block("block", <<P(1)>>), Block("block", <<P(2), P(1)>>),
              Block("block", <<P(1), P(2), P(2), P(3)>>), Block("block", <<P(3), P(2)>>)>>,
         <<>>, << <<<<4, 3>>, <<4, 4>>>>, <<<<4, 4>>>> >>, << <<<<4, 1>>>>, <<>> >>,
         << <<<<4, 2>>>>, <<>> >>, << <<>>, <<<<5, 1>>, <<5, 2>>>> >>, None),
       H(3, <<Block("forward", <<P(2)>>), Block("noscan", <<Imm>>), Block("forward", <<P(1)>>),
              Block("block", <<P(1), P(1), P(3)>>)>>,
         <<>>, None, None, None, None, << <<<<4, 1>>, <<4, 3>>>>, <<<<4, 2>>>> >>),
       H(3, <<Block("forward", <<P(2)>>), Block("double", <<Imm>>), Block("forward", <<P(1)>>),
              Block("block", <<P(3), P(1), P(2)>>)>>,
         <<>>, None, None, None, None, << <<<<4, 1>>>>, <<<<4, 2>>, <<4, 3>>>> >>),
       H(3, <<Block("forward", <<P(2)>>), Block("lazy", <<P(3)>>), Block("noscan", <<Imm>>),
              Block("block", <<P(1), P(2), P(1)>>)>>,
         <<>>, None, None, None, None, << <<<<4, 1>>>>, <<<<4, 2>>, <<4, 3>>>> >>)}

(* Two or three domains that allocate, sweep, adopt pools and end.           *)
MCPoolWorlds ==
  LET Left(a, c, e, p) == [allocs |-> a, cycles |-> c, ends |-> e, maps |-> p]
      W == [domains |-> <<TRUE, TRUE>>, classes |-> <<2, 3>>, pool |-> 5, batch |-> 2,
            sizes |-> {2}, budgets |-> {5}, left |-> Left(3, 2, 0, 1)]
  IN  {W,
       [W EXCEPT !.left = Left(2, 1, 1, 1), !.sizes = {1, 3, 4}, !.budgets = {9}],
       [W EXCEPT !.domains = <<TRUE, TRUE, FALSE>>, !.left = Left(3, 0, 1, 1), !.pool = 3],
       [W EXCEPT !.pool = 3, !.left = Left(2, 2, 1, 1), !.budgets = {9}]}

(* Global roots, finalisers, explicit collections.                           *)
MCFinalWorlds ==
  LET W(v, r, c, l, f, n, fin, cyc, rel, g) ==
        [values |-> v, roots |-> r, customs |-> c, lasts |-> l,
         left |-> [fields |-> f, roots |-> n, finals |-> fin, cycles |-> cyc, releases |-> rel,
                   gcs |-> g]]
  IN  {W(2, 2, FALSE, "young", 0, 3, 0, 1, 0, 0), W(2, 0, FALSE, "old", 1, 0, 2, 2, 1, 0),
       W(2, 0, FALSE, "old", 1, 0, 1, 0, 0, 1), W(2, 0, TRUE, "young", 0, 0, 1, 0, 0, 1),
       W(1, 2, FALSE, "young", 0, 4, 0, 0, 0, 0)}

(* Arrays, tuples and references, young and old, while the heap is marked.   *)
MCArrayWorlds ==
  LET O(y, t, f) == [young |-> y, tag |-> t, f |-> f, mark |-> IF y THEN "black" ELSE "white"]
      Atom0 == [young |-> FALSE, tag |-> "v", f |-> <<>>, mark |-> "black"]
      Heap(os) == [v \in {100} \union {100 + i : i \in DOMAIN os} |->
                     IF v = 100 THEN Atom0 ELSE os[v - 100]]
      W(ops, n, regs, os) ==
        [ops |-> ops, left |-> n, blocks |-> 4, young |-> 1, max |-> 2, alone |-> TRUE,
         regs |-> regs, heap |-> Heap(os)]
      Longer(w) == [w EXCEPT !.max = 3, !.young = 2]
      OldPair == O(FALSE, "t", <<1, 1>>)
      YoungPair == O(TRUE, "t", <<1, 2>>)
      OldArray == O(FALSE, "v", <<102, 2>>)
  IN  {W({"make", "set", "get"}, 2, <<101, 2>>, <<OldArray, OldPair>>),
       Longer(W({"fill", "blit"}, 2, <<101, 103>>,
                <<O(FALSE, "v", <<102, 2, 1>>), OldPair, YoungPair>>)),
       Longer([W({"blit", "append", "sub"}, 1, <<101, 102>>,
                 <<O(TRUE, "v", <<1, 103>>), O(TRUE, "v", <<103, 1, 2>>), YoungPair>>)
               EXCEPT !.alone = FALSE]),
       W({"append", "sub", "concat", "set"}, 2, <<101, 102>>,
         <<O(TRUE, "v", <<103>>), O(FALSE, "v", <<1>>), YoungPair>>),
       W({"floats", "tuple", "array", "get", "make"}, 1, <<101, 102>>,
         <<O(TRUE, "D", <<5, 6>>), O(TRUE, "t", <<103>>), O(TRUE, "d", <<4>>)>>),
       W({"array", "set"}, 2, <<101, 102>>, <<OldPair, YoungPair>>),
       W({"blit", "fill", "append", "floats", "get", "set"}, 2, <<101, 102>>,
         <<O(TRUE, "D", <<5, 6>>), O(TRUE, "d", <<4>>)>>),
       W({"update", "tuple", "exchange"}, 2, <<101, 102>>, <<O(FALSE, "t", <<0, 0>>), YoungPair>>),
       W({"exchange", "cas", "fields", "add"}, 2, <<101, 103>>,
         <<O(FALSE, "t", <<102, 2>>), OldPair, YoungPair>>),
       W({"dummy", "floats", "update"}, 3, <<1, 2>>, <<>>),
       W({"strings", "dup", "blit", "set"}, 2, <<101, 1>>, <<O(FALSE, "v", <<1, 2>>)>>),
       W({"dup", "get", "set", "fill"}, 2, <<101, 103>>, <<OldArray, OldPair, YoungPair>>)}

(* Two domains that allocate and free outside the heap, with and without     *)
(* a pool.                                                                   *)
MCStatWorlds ==
  LET W == [doms |-> 2, addrs |-> {2, 3, 4}, left |-> 4, pooled |-> TRUE, page |-> 4, bits |-> 3,
            destroys |-> TRUE]
  IN  {W, [W EXCEPT !.pooled = FALSE, !.doms = 1]}

(* Sets of values every two of which are compared, and all of which hashed.  *)
MCCompareWorlds ==
  LET Long(n) == Comp!Long(n)
      Dbl(a, x) == Comp!Dbl(a, x)
      Dbls(a, xs) == Comp!Dbls(a, xs)
      Str(a, s) == Comp!Str(a, s)
      Fwd(a, v) == Comp!Fwd(a, v)
      Custom(a, i, x) == Comp!Custom(a, i, x)
      Block(a, t, f) == Comp!Block(a, t, f)
      Two(a, h, t) == Block(a, 0, <<h, t>>)
      One(a, n) == Two(a, Long(n), Long(0))
      Fun(a, info) == Comp!Closure(a, info, <<Long(1), Str(a + 10, <<2>>), Long(3)>>)
      NaN == Comp!NaN
      Deep(a, n) ==
        Two(a, Two(a + 1, Two(a + 2, Two(a + 3, One(a + 4, n), Long(2)), Long(2)), Long(3)), Long(0))
      W == [vals |-> {}, bits |-> 4, init |-> 2, alloc |-> 3, max |-> 7, oom |-> FALSE,
            params |-> {<<10, 100>>, <<2, 3>>, <<3, -1>>}, queue |-> 5, forwards |-> 2]
      V(s) == [W EXCEPT !.vals = s]
  IN  {V({Long(-4), Long(3), Long(0), Fwd(1, Long(3))}),
       V({Dbl(1, NaN), Dbl(2, Comp!OtherNaN), Dbl(3, Comp!NegZero), Dbl(4, 0), Dbl(5, 1)}),
       V({Dbls(1, <<0, NaN>>), Dbls(2, <<Comp!NegZero, Comp!OtherNaN>>), Dbls(3, <<1>>),
          Dbls(4, <<NaN, 1>>)}),
       V({Str(1, <<1, 2>>), Str(2, <<1, 2>>), Str(3, <<1>>), Str(4, <<2>>), Fwd(5, Str(6, <<2>>))}),
       V({Custom(1, "int32", 3), Custom(2, "int32", 3), Custom(3, "big", 5), Custom(4, "none", 0),
          Long(2), Custom(5, "bigarray", NaN), Custom(6, "bigarray", Comp!OtherNaN)}),
       V({Comp!Obj(1, 4), Comp!Obj(2, 5), Fun(3, <<50, 51>>), Comp!Infix(Fun(3, <<50, 51>>), 2),
          Comp!Cont(8),
          Comp!Abstract(4), Block(5, 1, <<>>)}),
       V({One(1, 2), One(2, 2), One(3, 1), Fwd(9, One(4, 2)), Two(5, Dbl(6, NaN), Long(0))}),
       V({Two(1, Two(2, Two(3, Long(1), Long(2)), Long(3)), Long(0)),
          Two(4, Two(5, Fwd(7, Two(6, Long(1), Long(2))), Long(3)), Long(0)),
          Two(8, Two(9, Two(10, Long(1), Long(2)), Long(3)), Long(1))}),
       [W EXCEPT !.max = 6,
                 !.vals = {Deep(1, 1), Deep(11, 1), Fwd(20, Fwd(21, Fwd(22, Long(9))))}],
       [V({One(1, 2), One(2, 2), Two(3, One(4, 2), Long(1))}) EXCEPT !.oom = TRUE],
       V({Block(1, 0, <<Long(1), Long(2), Long(3)>>), Block(8, 0, <<Long(1), Long(2), Long(-1)>>),
          Block(2, 0, <<Long(1), Fwd(3, Fwd(4, Long(2))), Long(3)>>), Block(5, 2, <<Long(1)>>),
          Block(6, 2, <<Fun(7, <<50>>)>>)})}

(* Graphs with sharing and cycles, every kind of block, and some that cannot *)
(* be marshalled; memory that runs out, data that is cut; two threads, with  *)
(* small values too, for which the reader enters the collector.              *)
MCMarshalWorlds ==
  LET L(n) == <<"int", n>>
      P(a) == <<"ptr", a, 0>>
      Inside(a, o) == <<"ptr", a, o>>
      Code(n) == <<"code", "main", n>>
      Closinfo(a, s) == L(Marsh!Closinfo(a, s))
      Of(tag, f, b, i) == [tag |-> tag, fields |-> f, bytes |-> b, ident |-> i]
      B(tag, f) == Of(tag, f, <<>>, "")
      S(b) == Of("String", <<>>, b, "")
      C(i, b) == Of("Custom", <<>>, b, i)
      D(t, b) == Of(t, <<>>, b, "")
      Zeros(n) == [i \in 1 .. n |-> 0]
      Cyclic == << B("Cons", <<L(0), P(2)>>), B("Cons", <<L(-1), P(3)>>),
                   B("Cons", <<L(-2), P(4)>>), B("Triple", <<L(3), P(5), P(1)>>), S(<<1, 0, 1>>),
                   B("Pair", <<P(5), L(-100)>>), B("Pair", <<P(1), P(6)>>) >>
      Kinds == << B("Zero", <<>>), S(<<>>), S(<<1>>), S(Zeros(17)), D("Double", <<1, 0>>),
                  D("DoubleArray", <<0, 1>>), D("DoubleArray", Zeros(6)), C("int", <<1, 0>>),
                  C("big", <<1, 1>>), B("Forward", <<P(3)>>), B("Forward", <<P(5)>>),
                  B("Object", <<P(1), L(7), P(3)>>), B("Object", <<P(1), L(-3)>>),
                  B("Closure", <<Code(1), Closinfo(1, 6), L(3), Code(2), Closinfo(2, 2), Code(3),
                                 P(3), Inside(14, 3)>>),
                  B("Tuple", <<P(1), P(2), P(4), P(10), P(11), P(12), P(13), P(8), P(9), P(7), P(6)>>),
                  B("Pair", <<Inside(14, 3), P(14)>>) >>
      Deep(n) == [i \in 1 .. n |-> B("Node", <<P(IF i = n THEN 1 ELSE i + 1), L(1), P(1)>>)]
      List(n) == [i \in 1 .. n |-> B("Cons", <<L(1), P(IF i = n THEN 1 ELSE i + 1)>>)]
      Refused == {B("Abstract", <<L(0)>>), C("null", <<1>>), C("gone", <<1>>),
                  C("wrong", <<1, 0, 1>>), C("wrong", <<1>>),
                  B("Closure", <<<<"code", "priv", 0>>, Closinfo(1, 2)>>),
                  B("Closure", <<<<"code", "lost", 0>>, Closinfo(1, 2)>>)}
      Call(op, v, flags, len) == [op |-> op, v |-> v, flags |-> flags, len |-> len]
      W(h, calls, cut, bad, e, i) ==
        [heap |-> h, call |-> calls, cut |-> cut, bad |-> bad, ext |-> e, int |-> i]
      One(h, op, v, flags, len, e, i) == W(h, <<Call(op, v, flags, len)>>, 0, FALSE, e, i)
  IN  {One(Cyclic, op, P(7), fl, len, e, i) :
         op \in {"output", "bytes", "block", "malloc", "words"}, fl \in {{}, {Marsh!COMPAT_32}},
         len \in {60, 90}, e \in 0 .. 3, i \in 0 .. 3}
      \cup {W(Cyclic, <<Call(op, P(6), fl, 90)>>, cut, bad, 0, 0) :
              op \in {"output", "bytes"}, fl \in {{}, {Marsh!NO_SHARING}}, cut \in {0, 3, 25, 200},
              bad \in BOOLEAN}
      \cup {One(Kinds, "bytes", v, fl, 90, 0, 0) :
              fl \in SUBSET {Marsh!NO_SHARING, Marsh!CLOSURES}, v \in {P(15), P(4), P(13), P(1), L(5)}}
      \cup {One(<<b>>, "bytes", P(1), {Marsh!CLOSURES}, 90, 0, 0) : b \in Refused}
      \cup {One(Deep(18), "bytes", P(1), {}, 90, e, 0) : e \in {0, 4}}
      \cup {One(Kinds, op, P(16), fl, 90, 0, 0) :
              op \in {"bytes", "words"}, fl \in SUBSET {Marsh!CLOSURES, Marsh!COMPAT_32}}
      \cup {One(Cyclic, op, P(1), {}, len, e, 0) :
              op \in {"block", "malloc"}, len \in {48, 53, 58, 63, 68}, e \in {0, 5, 6, 7, 8, 9}}
      \cup {One(Deep(5), "output", P(1), {Marsh!COMPAT_32}, 90, 0, 0)}
      \cup {One(List(18), "bytes", P(1), {}, 90, 0, i) : i \in {0, 1, 2, 12}}
      \cup {W(Deep(5), <<Call("output", P(1), {}, 90), Call(op, P(3), {}, 90)>>, 0, FALSE, 0, 0) :
              op \in {"output", "words", "bytes"}}
      \cup {W(Deep(2), <<Call(op1, P(1), {}, 90), Call(op2, P(2), {}, 90)>>, 0, FALSE, 0, 0) :
              op1 \in {"output", "bytes", "block"}, op2 \in {"bytes", "malloc"}}

(* Views of views; managed, foreign and mapped data; copies outside the lock *)
(* while arrays are finalised; element kinds and their edges.                *)
MCBigarrayWorlds ==
  LET Left(c, v, w, b, s, f) ==
        [creates |-> c, views |-> v, writes |-> w, copies |-> b, marshals |-> s, forgets |-> f]
      W == [bits |-> 6, kinds |-> {"uint8"}, layouts |-> {"c"}, shapes |-> {<<3>>}, reshapes |-> {},
            managed |-> {"ocaml"}, values |-> {1}, sizes |-> {}, cutoff |-> 50, threads |-> 1,
            parallel |-> FALSE, left |-> Left(1, 0, 0, 0, 0, 0)]
      Views == [W EXCEPT !.layouts = {"c", "fortran"}, !.shapes = {<<2, 2>>},
                         !.reshapes = {<<4>>, <<>>}, !.left = Left(1, 2, 0, 0, 0, 0)]
      Copies == [W EXCEPT !.managed = {"ocaml", "other", "file"}, !.sizes = {3}, !.shapes = {<<2>>},
                          !.cutoff = 2, !.threads = 2, !.left = Left(1, 1, 0, 1, 0, 2)]
  IN  {Views, Copies,
       [W EXCEPT !.kinds = {"uint8", "sint8"}, !.shapes = {<<4>>, <<1>>}, !.values = {1, -1, 6},
                 !.left = Left(1, 0, 2, 0, 1, 0)],
       [W EXCEPT !.kinds = {"float", "complex"}, !.shapes = {<<2>>},
                 !.values = {1, Big!NegZero, Big!NaN1, Big!NaN2}, !.left = Left(1, 0, 2, 1, 1, 0)],
       [W EXCEPT !.kinds = {"int", "native"}, !.shapes = {<<3>>, <<2, 1>>, <<8, 8>>, <<4, 9>>},
                 !.values = {1, -3, 2, -5, 4}, !.left = Left(1, 0, 2, 0, 1, 0)],
       [W EXCEPT !.managed = {"file"}, !.shapes = {<<1>>}, !.sizes = {2},
                 !.left = Left(1, 2, 0, 0, 0, 3)],
       [Views EXCEPT !.shapes = {<<2, 1, 2>>}, !.reshapes = {<<2, 2>>}, !.left.views = 1],
       [W EXCEPT !.managed = {"file"}, !.layouts = {"c", "fortran"}, !.sizes = {3, 4},
                 !.shapes = {<<1, 2>>}, !.left = Left(1, 1, 0, 0, 0, 2)],
       \* mappings of an empty file, and of the empty end of a file
       [W EXCEPT !.managed = {"file"}, !.shapes = {<<1>>}, !.sizes = {0, 1}, !.reshapes = {<<0, 1>>},
                 !.left = Left(1, 1, 0, 1, 0, 2)],
       [Copies EXCEPT !.cutoff = 10, !.threads = 1, !.managed = {"ocaml"}]}

(* Code fragments registered, removed and looked up by two domains, and the  *)
(* clean-up while the world is stopped.                                      *)
MCFragmentWorlds ==
  LET F(s, e, d) == [start |-> s, end |-> e, digest |-> d]
      W(p, a, b, c) ==
        [frags |-> <<F(1, 3, "now"), F(3, 4, "later"), F(5, 6, "ignore"), F(5, 6, "ignore")>>,
         programs |-> p, levels |-> [pc |-> a, num |-> b], cleanups |-> c]
      Reg(f) == <<"register", f>>
      Rem(n) == <<"remove", n>>
  IN  {W(<< <<Reg(1), Rem(1)>>, <<<<"pc", 2>>, <<"num", 1>>, <<"digest", 2>>>> >>, 2, 1, 0),
       W(<< <<Reg(1), Rem(1)>>, <<Rem(1), <<"pc", 4>>>> >>, 2, 1, 0),
       W(<< <<Reg(1)>>, <<Reg(2), Rem(2)>> >>, 2, 1, 0),
       W(<< <<Reg(1), Reg(3), Rem(1), Reg(2), <<"digest", 2>>, <<"pc", 4>>, Rem(2), <<"num", 2>>,
              Reg(4), <<"pc", 5>>>> >>, 2, 2, 3)}
-----------------------------------------------------------------------------
(* Properties: those of the parts *)

\* A minor collection by several domains at once keeps the graph
\* (caml_empty_minor_heap_promote, oldify_one, try_update_object_header).
GraphKept == part = "minor" => Minor!GraphKept

\* The pools and large blocks of the shared heap each belong to one domain and
\* are counted right (caml_shared_try_alloc, caml_sweep, caml_teardown_shared_heap).
HeapRight == part = "shared" => Shared!HeapRight

\* Global roots keep what they hold, finalisers run once and not too early,
\* Gc.full_major collects what it promises (globroots.c, finalise.c, gc_ctrl.c).
RootsRight == part = "final" => Final!RootsRight

\* Stores and initialisations by array.c, alloc.c and obj.c tell both
\* collectors what they must know, and put the right contents in the blocks.
ArraysRight == part = "array" => Array!ArraysRight

\* The ring of blocks outside the heap is the blocks in use (caml_stat_alloc,
\* caml_stat_resize, caml_stat_free of several domains).
PoolRight == part = "stat" => Stat!PoolRight

\* Structural comparison is an order, and hashing respects it (compare_val,
\* caml_hash).
CompareRight == part = "compare" => Comp!CompareRight

\* What is marshalled is read back the same, whatever other threads marshal
\* meanwhile (extern_rec, intern_rec).
MarshalRight == part = "marshal" => Marsh!MarshalRight

\* Bigarrays that share data show it right and give it back once
\* (caml_ba_sub, caml_ba_update_proxy, caml_ba_finalize).
BigarrayRight == part = "bigarray" => Big!BigarrayRight

\* The lock-free table of code fragments answers what it held at some moment
\* (caml_lf_skiplist_find, caml_lf_skiplist_insert, caml_lf_skiplist_remove).
FragmentsRight == part = "fragment" => Frag!FragmentsRight
=============================================================================
