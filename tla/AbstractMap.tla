---------------------------- MODULE AbstractMap ----------------------------
(***************************************************************************)
(* What the profiler needs of its hash table: a partial map from keys to   *)
(* values.  A call is made and, in a later step, it takes effect and       *)
(* returns at once.  An update may fail (no memory), and then changes      *)
(* nothing.  Printing lists every key once.                                *)
(***************************************************************************)
EXTENDS Integers

CONSTANTS Key, Val, NULL

VARIABLES map, op, key, value, ret, printed

vars == <<map, op, key, value, ret, printed>>

Init ==
  /\ map = [k \in {} |-> NULL]
  /\ op = "idle"
  /\ key = 0 /\ value = NULL
  /\ ret = NULL
  /\ printed = <<>>

CallGet ==
  /\ op = "idle" /\ op' = "get"
  /\ key' \in Key \cup {0}
  /\ UNCHANGED <<map, value, ret, printed>>

ReturnGet ==
  /\ op = "get" /\ op' = "idle"
  /\ ret' = IF key \in DOMAIN map THEN map[key] ELSE NULL
  /\ UNCHANGED <<map, key, value, printed>>

CallSet ==
  /\ op = "idle"
  /\ key' \in Key \cup {0}
  /\ value' \in Val \cup {NULL}
  /\ op' = IF key' = 0 \/ value' = NULL THEN "halted" ELSE "set"
  /\ UNCHANGED <<map, ret, printed>>

ReturnSet ==
  /\ op = "set" /\ op' = "idle"
  /\ map' = [k \in DOMAIN map \cup {key} |-> IF k = key THEN value ELSE map[k]]
  /\ ret' = key
  /\ UNCHANGED <<key, value, printed>>

FailSet ==
  /\ op = "set" /\ op' = "idle"
  /\ ret' = NULL
  /\ UNCHANGED <<map, key, value, printed>>

PrintAndDestroy ==
  /\ op = "idle" /\ op' = "halted"
  /\ {printed'[n] : n \in DOMAIN printed'} = DOMAIN map
  /\ \A m, n \in DOMAIN printed' : printed'[m] = printed'[n] => m = n
  /\ map' = [k \in {} |-> NULL]
  /\ UNCHANGED <<key, value, ret>>

Next ==
  \/ CallGet \/ ReturnGet
  \/ CallSet \/ ReturnSet \/ FailSet
  \/ PrintAndDestroy

Spec == Init /\ [][Next]_vars
=============================================================================
