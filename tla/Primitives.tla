----------------------------- MODULE Primitives -----------------------------
(***************************************************************************)
(* The primitives on integers and strings: the Int32, Int64 and Nativeint  *)
(* of runtime/ints.c with their conversions from text, and the strings and *)
(* byte sequences of runtime/str.c, which are whole words, the last byte   *)
(* of which says how many bytes of the last word are not characters.       *)
(* Bytes have world.bits bits (8 in the code) and words world.word bytes,  *)
(* so an Int32 has 4 * bits bits and a Nativeint word * bits.              *)
(* Conversions from and to floating-point numbers are left out.            *)
(***************************************************************************)
EXTENDS Integers, Sequences, SequencesExt

CONSTANT Worlds \* machines, and the calls made on them

VARIABLES world, strs, call \* the two strings of the program; the last call

vars == <<world, strs, call>>

W(n) == INSTANCE Words WITH WordBits <- n

Bits(bytes) == bytes * world.bits
IntNat == Bits(world.word)
Range_(n) == -(2^(n - 1)) .. 2^(n - 1) - 1
\* The number of bits of the three types of boxed integers
Size(type) == CASE type = "int32" -> Bits(4) [] type = "int64" -> Bits(8) [] type = "native" -> IntNat
-----------------------------------------------------------------------------
(* ints.c: from text.  Characters are numbers: 0 .. 15 are the digits and    *)
(* letters that can be digits of some base.                                  *)
Minus == 16
Plus == 17
X == 18
O == 19
B == 11
U == 20
Underscore == 21
Nul == 22

At(t, p) == IF p <= Len(t) THEN t[p] ELSE Nul

parse_sign_and_base(t) ==
  LET sign == IF At(t, 1) = Minus THEN -1 ELSE 1
      p == IF At(t, 1) \in {Minus, Plus} THEN 2 ELSE 1
      Read(base, signed, n) == [sign |-> sign, base |-> base, signed |-> signed, p |-> p + n]
  IN  CASE At(t, p) = 0 /\ At(t, p + 1) = X -> Read(16, FALSE, 2)
        [] At(t, p) = 0 /\ At(t, p + 1) = O -> Read(8, FALSE, 2)
        [] At(t, p) = 0 /\ At(t, p + 1) = B -> Read(2, FALSE, 2)
        [] At(t, p) = 0 /\ At(t, p + 1) = U -> Read(10, FALSE, 2)
        [] OTHER -> Read(10, TRUE, 0)

parse_digit(c) == IF c \in 0 .. 15 THEN c ELSE -1

\* The loop over the digits, with an accumulator of w bits; -1: an overflow.
RECURSIVE Digits(_, _, _, _, _)
Digits(t, p, res, base, w) ==
  LET d == parse_digit(At(t, p))
      next == (base * res + d) % 2^w
  IN  CASE At(t, p) = Underscore -> Digits(t, p + 1, res, base, w)
        [] At(t, p) # Underscore /\ (d < 0 \/ d >= base) -> [p |-> p, res |-> res]
        [] OTHER -> IF res > (2^w - 1) \div base \/ next < d THEN [p |-> p, res |-> -1]
                    ELSE Digits(t, p + 1, next, base, w)

\* A call returns <<value>>, or <<>> when it raises.
Raised == <<>>

\* The number that the text writes, -1 if it writes none or overflows.
Accumulate(t, w) ==
  LET h == parse_sign_and_base(t)
      first == parse_digit(At(t, h.p))
      end == Digits(t, h.p + 1, first, h.base, w)
  IN  IF first < 0 \/ first >= h.base \/ end.p # Len(t) + 1 THEN -1 ELSE end.res

parse_intnat(t, nbits) ==
  LET h == parse_sign_and_base(t)
      res == Accumulate(t, IntNat)
      max == IF h.signed THEN 2^(nbits - 1) - (IF h.sign > 0 THEN 1 ELSE 0) ELSE 2^nbits - 1
  IN  IF res < 0 \/ res > max THEN Raised ELSE <<W(IntNat)!Signed(h.sign * res)>>

\* It has a loop of its own, in 64 bits on every machine.
caml_int64_of_string(t) ==
  LET h == parse_sign_and_base(t)
      res == Accumulate(t, Bits(8))
      half == 2^(Bits(8) - 1)
  IN  IF res < 0 \/ (h.signed /\ res > half - (IF h.sign > 0 THEN 1 ELSE 0))
      THEN Raised ELSE <<W(Bits(8))!Signed(h.sign * res)>>

Converted(r, Of(_)) == [i \in DOMAIN r |-> Of(r[i])]
caml_int_of_string(t) ==
  LET Of(r) == W(IntNat)!Long_val(W(IntNat)!Val_long(r)) IN Converted(parse_intnat(t, IntNat - 1), Of)
caml_int32_of_string(t) ==
  LET Of(r) == W(Bits(4))!Signed(r) IN Converted(parse_intnat(t, Bits(4)), Of)
caml_nativeint_of_string(t) == parse_intnat(t, IntNat)

of_string(type, t) ==
  CASE type = "int" -> caml_int_of_string(t) [] type = "int32" -> caml_int32_of_string(t)
    [] type = "int64" -> caml_int64_of_string(t) [] type = "native" -> caml_nativeint_of_string(t)
-----------------------------------------------------------------------------
(* ints.c: boxed integers; C's signed arithmetic wraps round (-fwrapv).     *)
AsInt(x) == W(IntNat)!Long_val(W(IntNat)!Val_long(x))

\* A byte sequence, the least significant byte first, as a number, and back
Number(s) == FoldRight(LAMBDA d, acc : d + 2^world.bits * acc, s, 0)
BytesOf(k, x) == [i \in 1 .. k |-> (x \div 2^Bits(i - 1)) % 2^world.bits]

Boxed(n, op, x, y) ==
  LET Copy(i) == <<W(n)!Signed(i)>>
      overflow == x = -(2^(n - 1)) /\ y = -1
  IN  CASE op = "neg" -> Copy(-x) [] op = "add" -> Copy(x + y) [] op = "sub" -> Copy(x - y)
        [] op = "mul" -> Copy(x * y)
        [] op = "div" -> IF y = 0 THEN Raised ELSE IF overflow THEN <<x>> ELSE Copy(W(n)!Quot(x, y))
        [] op = "mod" -> IF y = 0 THEN Raised ELSE IF overflow THEN <<0>> ELSE Copy(W(n)!Rem(x, y))
        [] op = "and" -> Copy(W(n)!And(x, y)) [] op = "or" -> Copy(W(n)!Or(x, y))
        [] op = "xor" -> Copy(W(n)!Xor(x, y))
        [] op = "shift_left" -> Copy(W(n)!ShiftLeft(x, y))
        [] op = "shift_right" -> Copy(W(n)!ShiftRight(x, y))
        [] op = "shift_right_unsigned" -> Copy(W(n)!ShiftRightLogical(x, y))
        [] op = "bswap" -> Copy(Number(Reverse(BytesOf(n \div world.bits, x))))
        [] op = "compare" -> <<(IF x > y THEN 1 ELSE 0) - (IF x < y THEN 1 ELSE 0)>>
        [] op \in {"of_int", "of_int32", "of_native"} -> Copy(x)
        [] op = "to_int" -> <<AsInt(x)>> [] op = "to_int32" -> <<W(Bits(4))!Signed(x)>>
        [] op = "to_native" -> <<W(IntNat)!Signed(x)>>
caml_int32(op, x, y) == Boxed(Bits(4), op, x, y)
caml_int64(op, x, y) == Boxed(Bits(8), op, x, y)
caml_nativeint(op, x, y) == Boxed(IntNat, op, x, y)
Operation(type, op, x, y) ==
  CASE type = "int32" -> caml_int32(op, x, y) [] type = "int64" -> caml_int64(op, x, y)
    [] type = "native" -> caml_nativeint(op, x, y)
caml_bswap16(x) == Number(Reverse(BytesOf(2, x)))

\* Hashed values are used modulo 2^32.
int64_hash(x) == W(Bits(4))!Unsigned(W(Bits(8))!Xor(x \div 2^Bits(4), x))
nativeint_hash(x) ==
  LET Shift(k) == W(IntNat)!ShiftRight(x, k)
  IN  IF world.word = 4 THEN W(Bits(4))!Unsigned(x)
      ELSE W(Bits(4))!Unsigned(W(IntNat)!Xor(W(IntNat)!Xor(Shift(Bits(4)), Shift(Bits(8) - 1)), x))

\* Marshalled: a code and the bytes, the most significant first; read back on a
\* machine with words of word bytes.
nativeint_serialize(x) ==
  IF x \in Range_(Bits(4)) THEN <<1>> \o Reverse(BytesOf(4, x)) ELSE <<2>> \o Reverse(BytesOf(8, x))
nativeint_deserialize(s, word) ==
  LET n == Number(Reverse(Tail(s)))
  IN  CASE s[1] = 1 -> <<W(Bits(4))!Signed(n)>>
        [] s[1] = 2 -> IF word = 8 THEN <<W(Bits(8))!Signed(n)>> ELSE Raised
        [] OTHER -> Raised

\* The format given to printf: the annotation l, n or L of OCaml is replaced by
\* the type's own.
parse_format(fmt, suffix) ==
  LET n == Len(fmt)
      p == IF fmt[n - 1] \in {"l", "n", "L"} THEN n - 1 ELSE n
  IN  IF n + Len(suffix) + 1 >= world.buffer THEN Raised
      ELSE <<SubSeq(fmt, 1, p - 1) \o suffix \o <<fmt[n]>>>>

\* The number printf is given, and the text it makes of it, as OCaml reads it.
caml_format_int(conv, x) ==
  IF conv \in {"u", "x", "o"} THEN W(IntNat)!Unsigned(W(IntNat)!Val_long(x)) \div 2 ELSE x
Printf(conv, x) ==
  LET base == CASE conv = "x" -> 16 [] conv = "o" -> 8 [] OTHER -> 10
      prefix == CASE conv = "x" -> <<0, X>> [] conv = "o" -> <<0, O>> [] conv = "u" -> <<0, U>>
                  [] OTHER -> <<>>
      Numeral[n \in 0 .. W(8)!Abs(x)] ==
        IF n < base THEN <<n>> ELSE Append(Numeral[n \div base], n % base)
  IN  (IF x < 0 THEN <<Minus>> ELSE <<>>) \o prefix \o Numeral[W(8)!Abs(x)]
format(type, conv, x) ==
  CASE type = "int" -> Printf(conv, caml_format_int(conv, x))
    [] OTHER -> Printf(conv, IF conv = "d" THEN x ELSE W(Size(type))!Unsigned(x))
-----------------------------------------------------------------------------
(* str.c: strings are sequences of whole words of bytes *)
caml_string_length(s) == Len(s) - 1 - s[Len(s)]
Contents(s) == SubSeq(s, 1, caml_string_length(s))

\* Only the last word is initialised: junk fills the others.
caml_alloc_string(len, junk) ==
  LET size == world.word * ((len + world.word) \div world.word)
  IN  [i \in 1 .. size |->
         IF i = size THEN size - 1 - len ELSE IF i > size - world.word THEN 0 ELSE junk]

caml_create_bytes(len, junk) ==
  IF len % 2^IntNat > world.max * world.word - 1 THEN Raised ELSE <<caml_alloc_string(len, junk)>>

\* bs written from offset o on
Write(s, o, bs) == [i \in DOMAIN s |-> IF i \in o + 1 .. o + Len(bs) THEN bs[i - o] ELSE s[i]]

\* Access to k bytes, 1, 2, 4 or 8, at index idx, in the order of the machine
InBounds(s, k, idx) == ~(idx < 0 \/ idx + k - 1 >= caml_string_length(s))
Endian(bs) == IF world.big THEN Reverse(bs) ELSE bs
caml_string_get(s, k, idx) ==
  LET n == Number(Endian(SubSeq(s, idx + 1, idx + k)))
  IN  IF ~InBounds(s, k, idx) THEN Raised ELSE <<IF k >= 4 THEN W(Bits(k))!Signed(n) ELSE n>>
caml_bytes_set(s, k, idx, v) ==
  IF ~InBounds(s, k, idx) THEN Raised ELSE <<Write(s, idx, Endian(BytesOf(k, v)))>>

\* Equality compares the words, the order the characters.
caml_string_equal(s, t) == s = t
caml_string_compare(s, t) ==
  LET n == caml_string_length(s)
      m == caml_string_length(t)
      diff == {i \in 1 .. (IF n <= m THEN n ELSE m) : s[i] # t[i]}
      first == CHOOSE i \in diff : \A j \in diff : i <= j
  IN  CASE diff # {} -> IF s[first] < t[first] THEN -1 ELSE 1
        [] diff = {} /\ n < m -> -1 [] diff = {} /\ n > m -> 1 [] OTHER -> 0
caml_string_test(op, s, t) ==
  CASE op = "lessthan" -> caml_string_compare(s, t) < 0
    [] op = "lessequal" -> caml_string_compare(s, t) <= 0
    [] op = "greaterthan" -> caml_string_compare(s, t) > 0
    [] op = "greaterequal" -> caml_string_compare(s, t) >= 0
    [] op = "equal" -> caml_string_equal(s, t) [] op = "notequal" -> ~caml_string_equal(s, t)

caml_blit_bytes(s, o1, t, o2, n) == Write(t, o2, SubSeq(s, o1 + 1, o1 + n))
caml_fill_bytes(s, o, n, c) == Write(s, o, [i \in 1 .. n |-> c])

\* vsnprintf makes text in a buffer of the stack and returns its length, also
\* when it does not fit; then it makes it again in the string, with a final 0
\* (from a copy of the format, which the allocation may move).  Microsoft's
\* needs no room for the 0.
caml_alloc_sprintf(text, junk) ==
  LET n == Len(text)
      res == caml_alloc_string(n, junk)
      buf == [i \in 1 .. world.buffer |->
                IF i <= n /\ (world.ucrt => i < world.buffer) THEN text[i] ELSE 0]
      fits == IF world.ucrt THEN n < world.buffer ELSE n <= world.buffer
  IN  Write(res, 0, IF fits THEN SubSeq(buf, 1, n) ELSE Append(text, 0))
-----------------------------------------------------------------------------
(* A program calls the primitives, one after the other.  A call leaves its   *)
(* arguments, its result and the strings it found.                           *)
Called(op, args, res) ==
  /\ world' = [world EXCEPT !.calls = @ - 1]
  /\ call' = [op |-> op, args |-> args, res |-> res, was |-> strs]
Returns(op, args, res) == Called(op, args, res) /\ UNCHANGED strs
\* String i is replaced if the call returned.
Stores(op, args, i, res) ==
  Called(op, args, <<Len(res) = 1>>) /\ strs' = IF res = Raised THEN strs ELSE [strs EXCEPT ![i] = res[1]]

Types == {"int32", "int64", "native"}
Shifts == {"shift_left", "shift_right", "shift_right_unsigned"}
Ops == {"neg", "add", "sub", "mul", "div", "mod", "and", "or", "xor", "bswap", "compare", "to_int"}
Casts(type) == {"of_int"} \cup CASE type = "int32" -> {} [] type = "native" -> {"of_int32", "to_int32"}
                                [] type = "int64" -> {"of_int32", "to_int32", "of_native", "to_native"}
First(type, op) == CASE op = "of_int" -> {AsInt(x) : x \in world.ints["native"]}
                     [] op = "of_int32" -> world.ints["int32"] [] op = "of_native" -> world.ints["native"]
                     [] OTHER -> world.ints[type]
Second(type, op) == IF op \in Shifts THEN 0 .. Size(type) - 1
                    ELSE IF op \in Ops THEN world.ints[type] ELSE {0}
Ints == \E type \in Types : \E op \in Ops \cup Shifts \cup Casts(type) :
          \E x \in First(type, op), y \in Second(type, op) :
            Returns("int", <<type, op, x, y>>, Operation(type, op, x, y))
Texts == \E <<prefix, chars, len>> \in world.texts, sign \in {<<>>, <<Minus>>, <<Plus>>} :
           \E type \in Types \cup {"int"}, body \in SeqOf(chars, len) :
             LET t == sign \o prefix \o body IN Returns("text", <<type, t>>, of_string(type, t))
Formats == \E type \in Types \cup {"int"}, conv \in {"d", "u", "x", "o"} :
             \E x \in world.ints[IF type = "int" THEN "native" ELSE type] :
               LET n == IF type = "int" THEN AsInt(x) ELSE x
               IN  Returns("format", <<type, n>>, of_string(type, format(type, conv, n)))
Layouts == \E f \in world.formats, suffix \in {<<>>, <<"l">>, <<"l", "l">>} :
             Returns("layout", <<f, suffix>>, parse_format(f, suffix))
Marshals == \E x \in world.ints["native"], word \in {4, 8} :
              Returns("marshal", <<x, word>>, nativeint_deserialize(nativeint_serialize(x), word))
Hashes == \/ \E x \in world.ints["native"] : Returns("hash", <<"native", x>>, <<nativeint_hash(x)>>)
          \/ \E x \in world.ints["int64"] : Returns("hash", <<"int64", x>>, <<int64_hash(x)>>)
Swaps == \E x \in world.ints["native"] : Returns("bswap16", <<x>>, <<caml_bswap16(x)>>)

Widths == {1, 2, 4, 8}
Byte == 0 .. 2^world.bits - 1
Indices(s) == -1 .. caml_string_length(s)
Lengths == world.lens \ {-1}
Create == \E i \in {1, 2}, len \in world.lens, junk \in {0, 2^world.bits - 1} :
            Stores("create", <<i, len>>, i, caml_create_bytes(len, junk))
Get == \E k \in Widths, idx \in Indices(strs[1]) :
         Returns("get", <<1, k, idx>>, caml_string_get(strs[1], k, idx))
Set == \E k \in Widths, v \in world.values, idx \in Indices(strs[1]) :
         Stores("set", <<1, k, idx, v>>, 1, caml_bytes_set(strs[1], k, idx, v))
Tests == \E op \in {"lessthan", "lessequal", "greaterthan", "greaterequal", "equal", "notequal"} :
           Returns(op, <<>>, <<caml_string_test(op, strs[1], strs[2])>>)
\* Bytes.blit and Bytes.fill check their arguments.
Fits(s, o, n) == o + n <= caml_string_length(s)
Blit == \E i \in {1, 2}, j \in {1, 2} : \E o1 \in {0, 1, 4}, o2 \in {0, 2, 4}, n \in {0, 2, 5} :
          /\ Fits(strs[i], o1, n) /\ Fits(strs[j], o2, n)
          /\ Stores("blit", <<i, o1, j, o2, n>>, j, <<caml_blit_bytes(strs[i], o1, strs[j], o2, n)>>)
Fill == \E o \in {0, 2, 4}, n \in {0, 2, 5} :
          /\ Fits(strs[1], o, n)
          /\ Stores("fill", <<1, o, n>>, 1, <<caml_fill_bytes(strs[1], o, n, 1)>>)
Sprintf == \E n \in Lengths, junk \in {0, 2^world.bits - 1} :
             LET text == [p \in 1 .. n |-> 1 + (p % 2)]
             IN  Stores("sprintf", <<1, text>>, 1, <<caml_alloc_sprintf(text, junk)>>)

Init ==
  /\ world \in Worlds
  /\ \E len \in Lengths : strs = [i \in {1, 2} |-> caml_alloc_string(len, 0)]
  /\ call = [op |-> "none", args |-> <<>>, res |-> Raised, was |-> strs]

Next ==
  /\ world.calls > 0
  /\ \/ world.does = "ints" /\ (Ints \/ Formats \/ Marshals \/ Hashes \/ Swaps)
     \/ world.does = "texts" /\ (Texts \/ Layouts)
     \/ world.does = "access" /\ (Get \/ Set)
     \/ world.does = "strings" /\ (Create \/ Tests \/ Blit \/ Fill \/ Sprintf)

Spec == Init /\ [][Next]_vars
-----------------------------------------------------------------------------
(* What the primitives promise *)

\* r is v, wrapped to n bits.
Is(n, r, v) == r \in Range_(n) /\ (r - v) % 2^n = 0
BitsOf(n, x) == {i \in 0 .. n - 1 : (x \div 2^i) % 2 = 1}
Abs(x) == IF x < 0 THEN -x ELSE x

IntMeans(n, op, x, y, r) ==
  CASE op = "neg" -> Is(n, r, -x) [] op = "add" -> Is(n, r, x + y) [] op = "sub" -> Is(n, r, x - y)
    [] op = "mul" -> Is(n, r, x * y)
    [] op = "div" -> IF x = -(2^(n - 1)) /\ y = -1 THEN r = x
                     ELSE Abs(x) - Abs(y) < Abs(r * y) /\ Abs(r * y) <= Abs(x) /\ (r # 0 => (r > 0) = ((x > 0) = (y > 0)))
    [] op = "mod" -> Abs(r) < Abs(y) /\ (x - r) % Abs(y) = 0 /\ (r # 0 => (r > 0) = (x > 0))
    [] op = "and" -> r \in Range_(n) /\ BitsOf(n, r) = BitsOf(n, x) \cap BitsOf(n, y)
    [] op = "or" -> r \in Range_(n) /\ BitsOf(n, r) = BitsOf(n, x) \cup BitsOf(n, y)
    [] op = "xor" -> r \in Range_(n) /\ \A i \in 0 .. n - 1 :
                       i \in BitsOf(n, r) <=> (i \in BitsOf(n, x)) # (i \in BitsOf(n, y))
    [] op = "shift_left" -> Is(n, r, x * 2^y)
    [] op = "shift_right" -> r * 2^y <= x /\ x < (r + 1) * 2^y
    [] op = "shift_right_unsigned" -> Is(n, r, (x % 2^n) \div 2^y)
    [] op = "bswap" -> \A i \in 0 .. n - 1 :
                         LET byte == i \div world.bits
                         IN  i \in BitsOf(n, x) <=> (i + n - Bits(2 * byte + 1)) \in BitsOf(n, r)
    [] op = "compare" -> (r = 0) = (x = y) /\ (r > 0) = (x > y) /\ r \in -1 .. 1
    [] op \in {"of_int", "of_int32", "of_native"} -> Is(n, r, x)
    [] op = "to_int" -> Is(IntNat - 1, r, x) [] op = "to_int32" -> Is(Bits(4), r, x)
    [] op = "to_native" -> Is(IntNat, r, x)

\* How a text can be read: a sign, a prefix, and digits with underscores
Readings(t) ==
  {<<g, b, body>> \in {-1, 1} \X {2, 8, 10, 11, 16} \X {SubSeq(t, p, Len(t)) : p \in 1 .. Len(t)} :
     \E sign \in IF g = 1 THEN {<<>>, <<Plus>>} ELSE {<<Minus>>} :
       /\ t = sign \o (CASE b = 2 -> <<0, B>> [] b = 8 -> <<0, O>> [] b = 11 -> <<0, U>>
                         [] b = 16 -> <<0, X>> [] b = 10 -> <<>>) \o body
       /\ body[1] # Underscore
       /\ \A i \in DOMAIN body : body[i] = Underscore \/ body[i] < (IF b = 11 THEN 10 ELSE b)}
TextMeans(n, t, res) ==
  LET Value(b, body) == FoldLeft(LAMBDA acc, d : (IF b = 11 THEN 10 ELSE b) * acc + d, 0,
                                 SelectSeq(body, LAMBDA c : c # Underscore))
      Allowed(g, b, v) == IF b # 10 THEN v < 2^n ELSE v <= 2^(n - 1) - (IF g = 1 THEN 1 ELSE 0)
  IN  IF \E <<g, b, body>> \in Readings(t) : Allowed(g, b, Value(b, body))
      THEN res # Raised /\ \A <<g, b, body>> \in Readings(t) : Is(n, res[1], g * Value(b, body))
      ELSE res = Raised

\* The integers: results are those of the type's arithmetic, wrapped; a text is
\* read exactly when it writes a number of the type, and a number is read back
\* as it was written; a marshalled Nativeint is read as it was or refused, and
\* hashes alike on 32-bit and 64-bit machines (ints.c).
IntegersRight ==
  LET a == call.args
      res == call.res
  IN  CASE call.op = "int" -> IF a[2] \in {"div", "mod"} /\ a[4] = 0 THEN res = Raised
                              ELSE IntMeans(Size(a[1]), a[2], a[3], a[4], res[1])
        [] call.op = "text" -> TextMeans(IF a[1] = "int" THEN IntNat - 1 ELSE Size(a[1]), a[2], res)
        [] call.op = "format" -> res = <<a[2]>>
        [] call.op = "layout" ->
             IF Len(a[1]) + Len(a[2]) + 1 >= world.buffer THEN res = Raised
             ELSE /\ Len(res[1]) < world.buffer /\ Last(res[1]) = Last(a[1])
                  /\ Len(SelectSeq(res[1], LAMBDA c : c \in {"l", "n", "L"})) = Len(a[2])
        [] call.op = "marshal" -> res = <<a[1]>> \/ (res = Raised /\ a[2] = 4 /\ a[1] \notin Range_(Bits(4)))
        [] call.op = "hash" -> a[1] = "native" /\ a[2] \in Range_(Bits(4)) => res = <<a[2] % 2^Bits(4)>>
        [] call.op = "bswap16" -> BytesOf(2, res[1]) = Reverse(BytesOf(2, a[1]))
        [] OTHER -> TRUE

\* The strings: whatever the calls, a string ends with the padding that says its
\* length; access within its length, and only that, succeeds and touches the
\* bytes named; equality of words is equality of the characters (str.c).
StringsRight ==
  LET a == call.args
      res == call.res
      Now(i) == Contents(strs[i])
      Was(i) == Contents(call.was[i])
      Less(s, t) == \/ Len(s) < Len(t) /\ SubSeq(t, 1, Len(s)) = s
                    \/ \E i \in DOMAIN s \cap DOMAIN t :
                         s[i] < t[i] /\ SubSeq(s, 1, i - 1) = SubSeq(t, 1, i - 1)
      Within(i, k, idx) == idx \in 0 .. Len(Was(i)) - k
      \* the bytes of string i from offset o on are bs, and the others as they were
      Patched(i, o, bs) ==
        /\ Len(Now(i)) = Len(Was(i))
        /\ \A p \in DOMAIN Now(i) : Now(i)[p] = IF p - o \in DOMAIN bs THEN bs[p - o] ELSE Was(i)[p]
  IN  /\ \A i \in {1, 2} :
           LET s == strs[i]
               pad == s[Len(s)]
           IN  /\ Len(s) % world.word = 0 /\ pad < world.word
               /\ \A p \in Len(s) - pad .. Len(s) - 1 : s[p] = 0
      /\ CASE call.op = "create" -> /\ res[1] = (a[2] \in 0 .. world.max * world.word - 1)
                                    /\ res[1] => Len(Now(a[1])) = a[2]
           [] call.op = "get" ->
                IF Within(a[1], a[2], a[3])
                THEN BytesOf(a[2], res[1]) = Endian(SubSeq(Was(a[1]), a[3] + 1, a[3] + a[2]))
                ELSE res = Raised
           [] call.op = "set" -> /\ res[1] = Within(a[1], a[2], a[3])
                                 /\ Patched(a[1], a[3], IF res[1] THEN Endian(BytesOf(a[2], a[4])) ELSE <<>>)
           [] call.op = "equal" -> res[1] = (Was(1) = Was(2))
           [] call.op = "notequal" -> res[1] = (Was(1) # Was(2))
           [] call.op = "lessthan" -> res[1] = Less(Was(1), Was(2))
           [] call.op = "lessequal" -> res[1] = (Less(Was(1), Was(2)) \/ Was(1) = Was(2))
           [] call.op = "greaterthan" -> res[1] = Less(Was(2), Was(1))
           [] call.op = "greaterequal" -> res[1] = (Less(Was(2), Was(1)) \/ Was(1) = Was(2))
           [] call.op = "blit" -> Patched(a[3], a[4], SubSeq(Was(a[1]), a[2] + 1, a[2] + a[5]))
           [] call.op = "fill" -> Patched(a[1], a[2], [p \in 1 .. a[3] |-> 1])
           [] call.op = "sprintf" -> Now(a[1]) = a[2]
           [] OTHER -> TRUE
=============================================================================
