---------------------------- MODULE MCHashTable ----------------------------
(***************************************************************************)
(* Four keys that collide on purpose: with four slots 3, 7 and 15 share a  *)
(* home, the last slot, so that their probes wrap round; with eight slots  *)
(* 7 and 15 do.  The table grows from two slots to four and eight; then    *)
(* doubling its size overflows and ht_expand refuses to grow.              *)
(***************************************************************************)
EXTENDS HashTable

WordBits == 24  \* 64 in the build
Word(n) == n % 2 ^ WordBits
Shl(n, b) == IF b >= WordBits THEN 0 ELSE Word(n * 2 ^ b)

\* The hash of an address.  The FNV hash the file's comments speak of is
\* commented out; what runs is this sequence of shifts.
hash_key(k) ==
  LET n1 == Shl(k, 18)
      n2 == Shl(n1, 33)
      n3 == Shl(n2, 3)
      n4 == Shl(n3, 3)
      n5 == Shl(n4, 4)
      n6 == Shl(n5, 2)
  IN  Word(k - n1 - n2 + n3 - n4 + n5 + n6)

MCKey == {3, 4, 7, 15}
MCHash(a) == hash_key(a)
=============================================================================
