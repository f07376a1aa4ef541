----------------------------- MODULE Arithmetic -----------------------------
(***************************************************************************)
(* The arithmetic instructions executed on every pair of operands, against *)
(* the arithmetic of OCaml: integers of WordBits - 1 bits that wrap round. *)
(***************************************************************************)
EXTENDS Words

VARIABLES accu, top, done

vars == <<accu, top, done>>

IntBits == WordBits - 1
Int_ == -(2^(IntBits - 1)) .. 2^(IntBits - 1) - 1

Init ==
  /\ accu \in {Val_long(n) : n \in Int_}
  /\ top \in {Val_long(n) : n \in Int_}
  /\ done = <<>>

\* done records the instruction and its operands, as OCaml sees them: a branch
\* compares its own operand with accu.
Done(op, x, y, a) ==
  /\ done = <<>>
  /\ accu' = a
  /\ done' = <<op, x, y>>
  /\ UNCHANGED top
Instruct(op, a) == Done(op, Long_val(accu), Long_val(top), a)

Next ==
  \/ \E op \in ArithOps :
       /\ op \in DivisionOps => Long_val(top) # 0
       /\ op \in ShiftOps => Long_val(top) \in 0 .. IntBits
       /\ Instruct(op, Arith(op, accu, top))
  \/ \E t \in Tests : Instruct(t, Compare(t, accu, top))
  \/ \E t \in Tests : Done(t, Long_val(top), Long_val(accu), Bool(BranchTaken(t, Long_val(top), accu)))
  \/ Instruct("NEGINT", NEGINT(accu))
  \/ Instruct("OFFSETINT", OFFSETINT(accu, Long_val(top)))
  \/ accu \in {Val_false, Val_true} /\ Instruct("BOOLNOT", BOOLNOT(accu))

Spec == Init /\ [][Next]_vars
-----------------------------------------------------------------------------
(* The arithmetic of OCaml *)

Wrap(n) == LET m == n % 2^IntBits IN IF m < 2^(IntBits - 1) THEN m ELSE m - 2^IntBits
Bits(n) == {i \in 0 .. IntBits - 1 : ((n % 2^IntBits) \div 2^i) % 2 = 1}
OfBits(S) == CHOOSE n \in Int_ : Bits(n) = S
Truth(b) == IF b THEN 1 ELSE 0
Compared(t, x, y) ==
  LET u == x % 2^IntBits
      v == y % 2^IntBits
  IN  CASE t = "EQ" -> x = y    [] t = "NEQ" -> x # y
        [] t = "LTINT" -> x < y [] t = "LEINT" -> x <= y
        [] t = "GTINT" -> x > y [] t = "GEINT" -> x >= y
        [] t = "ULTINT" -> u < v [] t = "UGEINT" -> u >= v

\* What x op y is in OCaml
Meaning(op, x, y) ==
  CASE op = "ADDINT" -> Wrap(x + y) [] op = "SUBINT" -> Wrap(x - y)
    [] op = "MULINT" -> Wrap(x * y)
    [] op = "ANDINT" -> OfBits(Bits(x) \cap Bits(y))
    [] op = "ORINT" -> OfBits(Bits(x) \cup Bits(y))
    [] op = "XORINT" -> OfBits((Bits(x) \cup Bits(y)) \ (Bits(x) \cap Bits(y)))
    [] op = "LSLINT" -> OfBits({i \in 0 .. IntBits - 1 : i - y \in Bits(x)})
    [] op = "LSRINT" -> OfBits({i \in 0 .. IntBits - 1 : i + y \in Bits(x)})
    [] op = "ASRINT" -> OfBits({i \in 0 .. IntBits - 1 :
                                  i + y \in Bits(x) \/ (i + y >= IntBits /\ x < 0)})
    [] op = "NEGINT" -> Wrap(-x)
    [] op = "OFFSETINT" -> Wrap(x + y)
    [] op = "BOOLNOT" -> 1 - x
    [] op \in Tests -> Truth(Compared(op, x, y))

\* Every instruction but the two divisions leaves in accu the tagged form of
\* what OCaml's operator gives, also where it wraps round.
ResultRight ==
  done # <<>> /\ done[1] \notin DivisionOps =>
    accu = Val_long(Meaning(done[1], done[2], done[3]))

\* Division and remainder agree: x = q * y + r with |r| < |y| and the sign of
\* x, except that the quotient of the least integer by -1 wraps round.
DivisionRight ==
  done # <<>> /\ done[1] \in DivisionOps =>
    LET x == done[2]
        y == done[3]
    IN  IF done[1] = "DIVINT"
        THEN LET r == x - Long_val(accu) * y
             IN  IF x = -(2^(IntBits - 1)) /\ y = -1 THEN Long_val(accu) = x
                 ELSE Abs(r) < Abs(y) /\ (r # 0 => (r < 0) = (x < 0))
        ELSE LET r == Long_val(accu)
             IN  Abs(r) < Abs(y) /\ (r # 0 => (r < 0) = (x < 0)) /\ (x - r) % Abs(y) = 0

\* accu stays a tagged integer: the lowest bit survives every instruction.
StaysTagged == accu \in Word /\ accu % 2 = 1
=============================================================================
