----------------------------- MODULE MCMajorGC -----------------------------
(* Instances of MajorGC: two domains, three blocks and an ephemeron, in    *)
(* small heaps, each with the few program steps that make it interesting.  *)
EXTENDS MajorGC, TLC

MCDomains == {1, 2}
MCBlocks == {11, 12, 13}
MCEphes == {21}

Ops == {"alloc", "load", "drop", "modify", "ephe_set", "ephe_get", "ephe_get_copy",
        "ephe_create", "register", "spawn", "full_major", "terminate"}
Both(a, b) == (1 :> a) @@ (2 :> b)
Nobody == Both(<<>>, <<>>)
Weak(k, d) == 21 :> [key |-> k, data |-> d]
Chain == (11 :> 12) @@ (12 :> None) @@ (13 :> None)
Apart == [b \in MCBlocks |-> None]
Finalise(first, last) == Both([NoFinals EXCEPT !.first = first, !.last = last], NoFinals)

World(doms, used, fld, eph, roots, live, finals, steps) ==
    [domains |-> doms, used |-> used, field |-> fld, ephe |-> eph, roots |-> roots,
     live |-> live, finals |-> finals, heap |-> Both(used, {}),
     left |-> [o \in Ops |-> IF o \in DOMAIN steps THEN steps[o] ELSE 0]]

MCWorlds ==
    { \* one domain unlinks what the other is about to reach
      World({1, 2}, {11, 12}, Chain, Weak(None, None), Both({11}, {11}), Nobody,
            Finalise({}, {}), [load |-> 1, modify |-> 1]),
      \* a block is allocated where garbage was swept
      World({1}, {11, 12}, Chain, Weak(None, None), Both({11}, {}), Nobody,
            Finalise({}, {}), [alloc |-> 1, modify |-> 1, drop |-> 1]),
      \* the key of one domain's ephemeron is held by the other
      World({1, 2}, {11, 12, 21}, Apart, Weak(11, 12), Both({21}, {11}), Both(<<21>>, <<>>),
            Finalise({}, {}), [ephe_get |-> 1, drop |-> 1]),
      \* values with finalisers are dropped
      World({1, 2}, {11, 12}, Chain, Weak(None, None), Both({11}, {12}), Nobody,
            Finalise({11}, {12}), [drop |-> 2]),
      \* a domain ends and leaves finalisers, or an ephemeron, behind
      World({1, 2}, {11, 12}, Apart, Weak(None, None), Both({}, {12}), Nobody,
            Finalise({11}, {12}), [terminate |-> 1]),
      World({1, 2}, {11, 12, 21}, Apart, Weak(11, 12), Both({}, {11, 21}), Both(<<21>>, <<>>),
            Finalise({}, {}), [terminate |-> 1]),
      \* all domains finish a cycle together
      World({1, 2}, {11, 12, 21}, Apart, Weak(11, 12), Both({11}, {21}), Both(<<21>>, <<>>),
            Finalise({12}, {}), [full_major |-> 1]),
      \* a domain and an ephemeron are created in the middle of a cycle
      World({1}, {11}, Apart, Weak(None, None), Both({11}, {}), Nobody,
            Finalise({}, {}), [spawn |-> 1, ephe_create |-> 1, ephe_set |-> 1]),
      World({1}, {11, 12, 21}, Chain, Weak(11, 12), Both({21}, {}), Both(<<21>>, <<>>),
            Finalise({}, {}), [ephe_get_copy |-> 1, register |-> 1]) }

\* The program of a domain is over; the other still has its ephemeron, whose
\* key nobody holds.
HandoverWorlds ==
    { World({1, 2}, {11, 12, 21}, Apart, Weak(11, 12), Both({}, {21}), Both(<<21>>, <<>>),
            Finalise({}, {}), [terminate |-> 1]) }
=============================================================================
