------------------------------- MODULE Words --------------------------------
(***************************************************************************)
(* The integers of the interpreter: OCaml integers are kept shifted left   *)
(* by one with the lowest bit set, in machine words of WordBits bits, and  *)
(* the arithmetic instructions compute on the words.  A word is modelled   *)
(* by its signed value.                                                    *)
(***************************************************************************)
EXTENDS Integers

CONSTANT WordBits \* 64 in the code

ASSUME WordsAssumption == WordBits \in Nat /\ WordBits >= 3

\* Conversions of an integer to uintnat and to intnat
Unsigned(n) == n % 2^WordBits
Signed(n) == LET u == Unsigned(n) IN IF u < 2^(WordBits - 1) THEN u ELSE u - 2^WordBits

Word == -(2^(WordBits - 1)) .. 2^(WordBits - 1) - 1

Val_long(n) == Signed(2 * n + 1)
Long_val(w) == w \div 2 \* an arithmetic shift

Val_false == Val_long(0)
Val_true == Val_long(1)
Val_not(w) == Val_false + Val_true - w
Bool(b) == IF b THEN Val_true ELSE Val_false

\* C's division truncates.
Abs(n) == IF n < 0 THEN -n ELSE n
Quot(a, b) == LET q == Abs(a) \div Abs(b) IN IF (a < 0) = (b < 0) THEN q ELSE -q
Rem(a, b) == a - b * Quot(a, b)

\* The word whose bit i is On(bit i of v, bit i of w)
Bit(w, i) == (Unsigned(w) \div 2^i) % 2
BitMap(On(_, _), v, w) ==
  LET Low[i \in 0 .. WordBits] ==
        IF i = 0 THEN 0 ELSE Low[i - 1] + 2^(i - 1) * On(Bit(v, i - 1), Bit(w, i - 1))
  IN  Signed(Low[WordBits])
And(v, w) == LET On(x, y) == x * y IN BitMap(On, v, w)
Or(v, w) == LET On(x, y) == x + y - x * y IN BitMap(On, v, w)
Xor(v, w) == LET On(x, y) == (x + y) % 2 IN BitMap(On, v, w)

\* Shifts by 0 to WordBits - 1
ShiftLeft(w, k) == Signed(w * 2^k)
ShiftRight(w, k) == w \div 2^k
ShiftRightLogical(w, k) == Signed(Unsigned(w) \div 2^k)
-----------------------------------------------------------------------------
(* The instructions, on accu and the popped word *)

NEGINT(a) == Signed(2 - a)
BOOLNOT(a) == Val_not(a)
OFFSETINT(a, n) == Signed(a + ShiftLeft(n, 1))

ADDINT(a, b) == Signed(a + b - 1)
SUBINT(a, b) == Signed(a - b + 1)
MULINT(a, b) == Val_long(Long_val(a) * Long_val(b))
DIVINT(a, b) == Val_long(Quot(Long_val(a), Long_val(b)))
MODINT(a, b) == Val_long(Rem(Long_val(a), Long_val(b)))
ANDINT(a, b) == And(a, b)
ORINT(a, b) == Or(a, b)
XORINT(a, b) == Or(Xor(a, b), 1)
\* Mutant: the tag bit is shifted into the number
MutLSLINT(a, b) == Or(ShiftLeft(a, Long_val(b)), 1)
LSLINT(a, b) == Signed(ShiftLeft(Signed(a - 1), Long_val(b)) + 1)
LSRINT(a, b) == Or(ShiftRightLogical(a, Long_val(b)), 1)
ASRINT(a, b) == Or(ShiftRight(a, Long_val(b)), 1)

ShiftOps == {"LSLINT", "LSRINT", "ASRINT"}
DivisionOps == {"DIVINT", "MODINT"}
ArithOps == {"ADDINT", "SUBINT", "MULINT", "ANDINT", "ORINT", "XORINT"} \cup ShiftOps \cup DivisionOps

Arith(op, a, b) ==
  CASE op = "ADDINT" -> ADDINT(a, b) [] op = "SUBINT" -> SUBINT(a, b)
    [] op = "MULINT" -> MULINT(a, b) [] op = "DIVINT" -> DIVINT(a, b)
    [] op = "MODINT" -> MODINT(a, b) [] op = "ANDINT" -> ANDINT(a, b)
    [] op = "ORINT"  -> ORINT(a, b)  [] op = "XORINT" -> XORINT(a, b)
    [] op = "LSLINT" -> LSLINT(a, b) [] op = "LSRINT" -> LSRINT(a, b)
    [] op = "ASRINT" -> ASRINT(a, b)

\* Integer_comparison compares the tagged words, Integer_branch_comparison an
\* operand of the instruction and the untagged accu.
Tests == {"EQ", "NEQ", "LTINT", "LEINT", "GTINT", "GEINT", "ULTINT", "UGEINT"}
Test(t, x, y) ==
  CASE t = "EQ" -> x = y    [] t = "NEQ" -> x # y
    [] t = "LTINT" -> x < y [] t = "LEINT" -> x <= y
    [] t = "GTINT" -> x > y [] t = "GEINT" -> x >= y
    [] t = "ULTINT" -> Unsigned(x) < Unsigned(y)
    [] t = "UGEINT" -> Unsigned(x) >= Unsigned(y)
Compare(t, a, b) == Bool(Test(t, a, b))
BranchTaken(t, n, a) == Test(t, n, Long_val(a))
=============================================================================
