----------------------------- MODULE MCDomains -----------------------------
(* Instances of Domains: two slots, so that a slot is reused after its     *)
(* domain has terminated and its backup thread may still be finishing.     *)
EXTENDS Domains

S(sp, r, c, b, w) ==
    [spawns |-> sp, requests |-> r, cycles |-> c, blocks |-> b, wakes |-> w,
     commits |-> 0, inits |-> 0]

(* After a creation that failed late nothing is asked of the domains.      *)
MCScenarios ==
    {S(1, 1, 0, 0, 0), S(1, 0, 0, 1, 1), S(1, 0, 1, 0, 0),
     [S(2, 0, 0, 0, 1) EXCEPT !.commits = 1], [S(1, 0, 0, 0, 1) EXCEPT !.inits = 1]}
=============================================================================
