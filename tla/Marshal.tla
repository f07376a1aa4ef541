------------------------------ MODULE Marshal -------------------------------
(* Marshaling (runtime/extern.c) and its inverse (runtime/intern.c): threads *)
(* write values to channels, byte strings, buffers or malloc blocks and read *)
(* them back.  The state of each direction is shared by the threads of a     *)
(* domain, which may switch while a channel is written or read, and where a  *)
(* reader allocates in the minor heap the block to fill: the allocation may  *)
(* yield or run a finaliser that reads a value of its own.  A byte holds     *)
(* BASE values and the limits of the formats are scaled with it; a code byte *)
(* is a tuple that carries the operand packed in it.                         *)
EXTENDS Integers, Sequences, FiniteSets, SequencesExt

CONSTANT Worlds    \* [heap, call: thread -> call, cut, bad, ext, int]: the heap, the calls,
                   \* the bytes lost at the end of the data, whether its magic number is
                   \* damaged, and the allocation that fails in each direction
VARIABLES world, ext, inp, th

vars == <<world, ext, inp, th>>

BASE == 2                        \* values of a byte
WORD32 == 1                      \* bytes of a word
WORD64 == 2
DIGEST == 2
OUTPUT_BLOCK == 6                \* SIZE_EXTERN_OUTPUT_BLOCK
STACK_INIT_SIZE == 2
STACK_MAX_SIZE == 16
POS_TABLE_INIT_SIZE == 2
FAST_GROWTH == 10                \* tables below this size grow eightfold
MAX_YOUNG_WOSIZE == 12
SMALL_INT == 1                   \* operands packed in the code byte are below
SMALL_STRING == 1
SMALL_SIZE == 3
NO_SHARING == "NO_SHARING"
CLOSURES == "CLOSURES"
COMPAT_32 == "COMPAT_32"

Long(n) == <<"int", n>>
Ptr(a, o) == <<"ptr", a, o>>
Code(f, o) == <<"code", f, o>>
IsInt(v) == v[1] = "int"

Block(tag, fields) == [tag |-> tag, fields |-> fields, bytes |-> <<>>, ident |-> ""]
Bytes(tag, ident, bytes) == [tag |-> tag, fields |-> <<>>, bytes |-> bytes, ident |-> ident]

\* What the infix header of a pointer into a closure says: tag of the pointer.
TagOf(h, v) == IF v[3] > 0 THEN "Infix" ELSE h[v[2]].tag
Wosize(b) ==
    CASE b.tag = "String" -> (Len(b.bytes) + WORD64) \div WORD64
      [] b.tag \in {"Double", "DoubleArray"} -> Len(b.bytes) \div WORD64
      [] b.tag = "Custom" -> 1 + (Len(b.bytes) + WORD64 - 1) \div WORD64
      [] OTHER -> Len(b.fields)

\* The long value of a closure's information: its arity and where its environment starts.
Closinfo(arity, startenv) == arity * 16 + startenv
Arity_closinfo(n) == n \div 16
Start_env_closinfo(n) == n % 16

\* Registered custom operations: no serializer, fixed length, length, unknown when read.
CustomOps == [int |-> [fixed |-> 2, known |-> TRUE], big |-> [fixed |-> 0, known |-> TRUE],
              null |-> [fixed |-> -1, known |-> TRUE], gone |-> [fixed |-> 0, known |-> FALSE],
              wrong |-> [fixed |-> 3, known |-> TRUE]]
\* Fragments whose code can be named by a digest, here and in the reader.
Digests == {"main", "lost"}
Fragments == {"main"}

store(n, k) == [i \in 1 .. k |-> (n \div BASE ^ (k - i)) % BASE]
Unsigned(b) == FoldLeft(LAMBDA a, d : a * BASE + d, 0, b)
Signed(b) == Unsigned(b) - IF b[1] >= BASE \div 2 THEN BASE ^ Len(b) ELSE 0
Flat(blocks) == FoldLeft(LAMBDA a, b : a \o b, <<>>, blocks)

-----------------------------------------------------------------------------
(* extern.c: the state, its buffers and its two tables.                      *)

NewTable(size) == [size |-> size, entries |-> [h \in {} |-> <<>>]]
NewExt(budget) ==
    [mode |-> "idle", flags |-> {}, counter |-> 0, size_32 |-> 0, size_64 |-> 0, v |-> Long(0),
     sp |-> <<>>, cap |-> STACK_INIT_SIZE, table |-> NewTable(POS_TABLE_INIT_SIZE),
     user |-> FALSE, out |-> <<>>, room |-> 0, words |-> 0, err |-> "", budget |-> budget]

\* Each allocation may be the one that fails.
Alloc(s) == [s EXCEPT !.budget = IF @ > 0 THEN @ - 1 ELSE 0]
AllocFails(s) == s.budget = 1

extern_free_stack(s) == [s EXCEPT !.sp = <<>>, !.cap = STACK_INIT_SIZE]
extern_free_position_table(s) ==
    IF NO_SHARING \in s.flags THEN s
    ELSE [s EXCEPT !.table = NewTable(POS_TABLE_INIT_SIZE)]
free_extern_output(s) ==
    extern_free_position_table(extern_free_stack([s EXCEPT !.out = IF s.user THEN @ ELSE <<>>]))
extern_fail(s, e) == [free_extern_output(s) EXCEPT !.err = e, !.mode = "end"]

Hash(obj, size) == (obj * 5) % size
Threshold(size) == (size * 2) \div 3

\* Linear probing from h to the first slot that is free or, when looking, holds obj.
RECURSIVE Probe(_, _, _)
Probe(table, obj, h) ==
    IF h \notin DOMAIN table.entries \/ table.entries[h].obj = obj THEN h
    ELSE Probe(table, obj, (h + 1) % table.size)

SetEntry(table, h, e) == [table EXCEPT !.entries =
    [k \in DOMAIN @ \cup {h} |-> IF k = h THEN e ELSE @[k]]]

RECURSIVE Reinsert(_, _, _)
Reinsert(old, i, new) ==
    IF i = old.size THEN new
    ELSE IF i \notin DOMAIN old.entries THEN Reinsert(old, i + 1, new)
    ELSE LET e == old.entries[i]
         IN  Reinsert(old, i + 1, SetEntry(new, Probe(new, e.obj, Hash(e.obj, new.size)), e))

extern_resize_position_table(s) ==
    LET size == s.table.size * IF s.table.size < FAST_GROWTH THEN 8 ELSE 2
    IN  IF AllocFails(s) THEN extern_fail(Alloc(s), "memory")
        ELSE [Alloc(s) EXCEPT !.table = Reinsert(s.table, 0, NewTable(size))]

extern_lookup_position(s, obj) ==
    LET h == Probe(s.table, obj, Hash(obj, s.table.size))
    IN  [found |-> h \in DOMAIN s.table.entries, h |-> h,
         pos |-> IF h \in DOMAIN s.table.entries THEN s.table.entries[h].pos ELSE 0]

extern_record_location(s, obj, h) ==
    IF s.err # "" \/ NO_SHARING \in s.flags THEN s
    ELSE LET r == [s EXCEPT !.table = SetEntry(@, h, [obj |-> obj, pos |-> s.counter]),
                            !.counter = @ + 1]
         IN  IF r.counter >= Threshold(r.table.size) THEN extern_resize_position_table(r) ELSE r

\* A push moves the stack pointer first: slot 0 is never used.
PushExtern(s, item) ==
    LET full == Len(s.sp) + 1 >= s.cap
    IN  IF s.err # "" THEN s
        ELSE IF full /\ (2 * s.cap >= STACK_MAX_SIZE \/ AllocFails(s))
             THEN extern_fail(IF 2 * s.cap >= STACK_MAX_SIZE THEN s ELSE Alloc(s), "memory")
        ELSE [IF full THEN Alloc(s) ELSE s EXCEPT
                  !.sp = Append(@, item), !.cap = IF full THEN 2 * @ ELSE @]

grow_extern_output(s, required) ==
    IF s.user THEN extern_fail(s, "overflow")
    ELSE IF AllocFails(s) THEN extern_fail(Alloc(s), "memory")
    ELSE [Alloc(s) EXCEPT !.out = Append(@, <<>>),
              !.room = OUTPUT_BLOCK + IF required <= OUTPUT_BLOCK \div 2 THEN 0 ELSE required]

\* write, writeblock, the writecodes and the caml_serialize functions: one piece
\* of output that does not straddle two blocks.
Write(s, piece) ==
    LET r == IF s.err = "" /\ Len(piece) > s.room THEN grow_extern_output(s, Len(piece)) ELSE s
    IN  IF r.err # "" THEN r
        ELSE [r EXCEPT !.out[Len(r.out)] = @ \o piece, !.room = @ - Len(piece)]
caml_serialize(s, data) == Write(s, data)
WriteCode(s, code, n, k) == Write(s, <<<<code>>>> \o store(n, k))

-----------------------------------------------------------------------------
(* extern.c: what is written for each kind of value.                         *)

extern_int(s, n) ==
    CASE n >= 0 /\ n < SMALL_INT -> Write(s, <<<<"SMALL_INT", n>>>>)
      [] ~(n >= 0 /\ n < SMALL_INT) /\ n >= -(BASE \div 2) /\ n < BASE \div 2 ->
            WriteCode(s, "INT8", n, 1)
      [] ~(n >= -(BASE \div 2) /\ n < BASE \div 2) /\ n >= -(BASE ^ 2 \div 2) /\ n < BASE ^ 2 \div 2 ->
            WriteCode(s, "INT16", n, 2)
      [] n < -(BASE ^ 4 \div 4) \/ n >= BASE ^ 4 \div 4 ->
            IF COMPAT_32 \in s.flags THEN extern_fail(s, "compat") ELSE WriteCode(s, "INT64", n, 8)
      [] OTHER -> WriteCode(s, "INT32", n, 4)

extern_shared_reference(s, d) ==
    CASE d < BASE -> WriteCode(s, "SHARED8", d, 1)
      [] d >= BASE /\ d < BASE ^ 2 -> WriteCode(s, "SHARED16", d, 2)
      [] d >= BASE ^ 4 -> WriteCode(s, "SHARED64", d, 8)
      [] OTHER -> WriteCode(s, "SHARED32", d, 4)

\* The tag takes one byte of the header that follows the code.
extern_header(s, sz, tag) ==
    IF sz < SMALL_SIZE /\ tag # "Closure" THEN Write(s, <<<<"SMALL_BLOCK", tag, sz>>>>)
    ELSE IF sz > BASE ^ 3 - 1 /\ COMPAT_32 \in s.flags THEN extern_fail(s, "compat")
    ELSE IF sz < BASE ^ 3 THEN Write(s, <<<<"BLOCK32">>, <<tag>>>> \o store(sz, 3))
    ELSE Write(s, <<<<"BLOCK64">>, <<tag>>>> \o store(sz, 7))

extern_string(s, b) ==
    LET len == Len(b)
        r == CASE len < SMALL_STRING -> Write(s, <<<<"SMALL_STRING", len>>>>)
               [] len >= SMALL_STRING /\ len < BASE -> WriteCode(s, "STRING8", len, 1)
               [] len >= BASE /\ len > BASE ^ 3 - 2 /\ COMPAT_32 \in s.flags -> extern_fail(s, "compat")
               [] len >= BASE ^ 4 /\ COMPAT_32 \notin s.flags -> WriteCode(s, "STRING64", len, 8)
               [] OTHER -> WriteCode(s, "STRING32", len, 4)
    IN  Write(r, b)

extern_double_array(s, b) ==
    LET n == Len(b) \div WORD64
        r == CASE n < BASE -> WriteCode(s, "DOUBLE_ARRAY8", n, 1)
               [] n >= BASE /\ n > BASE ^ 3 \div 2 - 1 /\ COMPAT_32 \in s.flags -> extern_fail(s, "compat")
               [] n >= BASE ^ 4 /\ COMPAT_32 \notin s.flags -> WriteCode(s, "DOUBLE_ARRAY64", n, 8)
               [] OTHER -> WriteCode(s, "DOUBLE_ARRAY32", n, 4)
    IN  Write(r, b)

\* The lengths are stored, after serialization, in the bytes reserved before it.
extern_custom(s, b) ==
    LET ops == CustomOps[b.ident]
        head == Write(Write(s, <<<<IF ops.fixed = 0 THEN "CUSTOM_LEN" ELSE "CUSTOM_FIXED">>>>),
                      <<<<b.ident>>>>)
        lens == IF ops.fixed = 0 THEN Write(head, store(Len(b.bytes), 4) \o store(Len(b.bytes), 8))
                ELSE head
        done == caml_serialize(lens, b.bytes)
    IN  IF ops.fixed = -1 THEN extern_fail(s, "abstract")
        ELSE IF ops.fixed > 0 /\ done.err = "" /\ ops.fixed # Len(b.bytes)
             THEN [done EXCEPT !.err = "fatal", !.mode = "end"]
        ELSE done

extern_code_pointer(s, c) ==
    IF s.err # "" THEN s
    ELSE IF CLOSURES \notin s.flags THEN extern_fail(s, "functional")
    ELSE IF c[2] \notin Digests THEN extern_fail(s, "private")
    ELSE Write(WriteCode(s, "CODEPOINTER", c[3], 4), [i \in 1 .. DIGEST |-> <<c[2]>>])

\* The entry points of a closure, up to its environment.
RECURSIVE UpToEnv(_, _, _)
UpToEnv(s, f, i) ==
    LET infix == IF i > 1 THEN extern_int(s, f[i][2]) ELSE s
        c == IF i > 1 THEN i + 1 ELSE i
        info == extern_int(extern_code_pointer(infix, f[c]), f[c + 1][2])
        direct == Arity_closinfo(f[c + 1][2]) \notin {0, 1}
        r == IF direct THEN extern_code_pointer(info, f[c + 2]) ELSE info
        next == c + IF direct THEN 3 ELSE 2
    IN  IF s.err # "" THEN s
        ELSE IF next <= Start_env_closinfo(f[2][2]) THEN UpToEnv(r, f, next) ELSE r
extern_closure_up_to_env(s, f) == UpToEnv(s, f, 1)

next_item(s) ==
    IF s.err # "" THEN s
    ELSE IF s.sp = <<>> THEN [extern_free_position_table(extern_free_stack(s)) EXCEPT !.mode = "end"]
    ELSE LET top == Last(s.sp)
         IN  [s EXCEPT !.v = world.heap[top.a].fields[top.i],
                       !.sp = IF top.n = 1 THEN Front(@)
                              ELSE Append(Front(@), [top EXCEPT !.i = @ + 1, !.n = @ - 1])]

\* Fields i + 1 .. are left for later, and field i is next.
Descend(s, a, i) ==
    LET f == world.heap[a].fields
        r == IF i < Len(f) THEN PushExtern(s, [a |-> a, i |-> i + 1, n |-> Len(f) - i]) ELSE s
    IN  IF r.err # "" THEN r ELSE [r EXCEPT !.v = f[i]]

Grows(s, w32, w64) == IF s.err # "" THEN s ELSE [s EXCEPT !.size_32 = @ + w32, !.size_64 = @ + w64]

\* A forward block is replaced by what it forwards to, unless that would show.
ShortCircuit(f) == ~IsInt(f) => TagOf(world.heap, f) \notin {"Forward", "Lazy", "Forcing", "Double"}

extern_rec(s) ==
    LET v == s.v
        b == world.heap[v[2]]
        sz == Wosize(b)
        seen == extern_lookup_position(s, v[2])
        header == extern_record_location(
                      Grows(extern_header(s, sz, b.tag), 1 + sz, 1 + sz), v[2], seen.h)
        leaf(r, w32) == next_item(extern_record_location(Grows(r, 1 + w32, 1 + sz), v[2], seen.h))
    IN  IF IsInt(v) THEN next_item(extern_int(s, v[2]))
        ELSE IF TagOf(world.heap, v) = "Forward" /\ ShortCircuit(b.fields[1])
             THEN [s EXCEPT !.v = b.fields[1]]
        ELSE IF sz = 0 THEN next_item(extern_header(s, 0, b.tag))
        ELSE IF v[3] > 0 THEN [WriteCode(s, "INFIXPOINTER", v[3], 4) EXCEPT !.v = Ptr(v[2], 0)]
        ELSE IF NO_SHARING \notin s.flags /\ seen.found
             THEN next_item(extern_shared_reference(s, s.counter - seen.pos))
        ELSE CASE b.tag = "String" ->
                    leaf(extern_string(s, b.bytes), (Len(b.bytes) + WORD32) \div WORD32)
               [] b.tag = "Double" -> leaf(Write(Write(s, <<<<"DOUBLE">>>>), b.bytes), 2)
               [] b.tag = "DoubleArray" -> leaf(extern_double_array(s, b.bytes), 2 * sz)
               [] b.tag = "Abstract" -> extern_fail(s, "abstract")
               [] b.tag = "Custom" ->
                    leaf(extern_custom(s, b), 1 + (Len(b.bytes) + WORD32 - 1) \div WORD32)
               [] b.tag = "Closure" ->
                    LET r == extern_closure_up_to_env(header, b.fields)
                        i == Start_env_closinfo(b.fields[2][2])
                    IN  IF i >= sz THEN next_item(r) ELSE Descend(r, v[2], i + 1)
               [] OTHER -> Descend(header, v[2], 1)

\* One step of caml_obj_reachable_words: the same traversal, counting.
caml_obj_reachable_words(s) ==
    LET v == s.v
        b == world.heap[v[2]]
        seen == extern_lookup_position(s, v[2])
        r == [extern_record_location(s, v[2], seen.h) EXCEPT !.words = @ + 1 + Wosize(b)]
        i == IF b.tag = "Closure" THEN Start_env_closinfo(b.fields[2][2]) ELSE 0
    IN  IF IsInt(v) THEN next_item(s)
        ELSE IF v[3] > 0 THEN [s EXCEPT !.v = Ptr(v[2], 0)]
        ELSE IF seen.found THEN next_item(s)
        ELSE IF b.tag # "Abstract" /\ i < Len(b.fields) THEN Descend(r, v[2], i + 1) ELSE next_item(r)

init_extern_output(s, call) ==
    LET new == [NewExt(s.budget) EXCEPT !.mode = "run", !.v = call.v, !.out = <<<<>>>>]
    IN  CASE call.op = "words" -> new
          [] call.op = "block" ->
                [new EXCEPT !.flags = call.flags, !.user = TRUE, !.room = call.len - 20]
          [] OTHER -> IF AllocFails(s) THEN [Alloc(s) EXCEPT !.err = "memory", !.mode = "end"]
                      ELSE [Alloc(new) EXCEPT !.flags = call.flags, !.room = OUTPUT_BLOCK]

\* The header that extern_value writes before the data.
Magic(m) == [i \in 1 .. 4 |-> <<m>>]
IsBig(s) == \/ Len(Flat(s.out)) >= BASE ^ 4
            \/ s.size_32 >= BASE ^ 4
            \/ s.size_64 >= BASE ^ 4
extern_value(s) ==
    IF IsBig(s) THEN Magic("big") \o store(0, 4) \o store(Len(Flat(s.out)), 8)
                       \o store(s.counter, 8) \o store(s.size_64, 8)
    ELSE Magic("small") \o store(Len(Flat(s.out)), 4) \o store(s.counter, 4)
           \o store(s.size_32, 4) \o store(s.size_64, 4)

-----------------------------------------------------------------------------
(* intern.c: the state of the reader, with the heap it builds; "from" is the *)
(* thread whose data the pointer "src" points into.  Address 1 is the atom.  *)

NULL == -1
NewInp(budget) ==
    [mode |-> "idle", src |-> <<>>, from |-> 0, input |-> FALSE, table |-> <<>>, num |-> 0, counter |-> 0,
     sp |-> <<>>, cap |-> STACK_INIT_SIZE, dest |-> NULL, whsize |-> 0, err |-> "", oid |-> 50,
     root |-> Long(0), budget |-> budget, heap |-> <<Block("Zero", <<>>)>>]

intern_cleanup(r) ==
    [r EXCEPT !.input = FALSE, !.table = <<>>, !.num = 0, !.dest = NULL, !.sp = <<>>,
              !.cap = STACK_INIT_SIZE]
intern_fail(r, e) == [intern_cleanup(r) EXCEPT !.err = e, !.mode = "end"]
Check(r, cond) == IF cond THEN r ELSE [r EXCEPT !.err = "assertion", !.mode = "end"]

intern_init(r, t, src, input) ==
    Check([r EXCEPT !.src = src, !.from = t, !.input = input, !.mode = "run", !.err = ""],
           ~r.input /\ r.num = 0)

Take(r, n) == SubSeq(r.src, 1, n)
Skip(r, n) == [r EXCEPT !.src = SubSeq(@, n + 1, Len(@))]

\* The fields of a header: its length, and those of the data, objects and heap.
caml_parse_header(b) ==
    IF b[1] = <<"small">>
    THEN [len |-> 20, data |-> Unsigned(SubSeq(b, 5, 8)), num |-> Unsigned(SubSeq(b, 9, 12)),
          whsize |-> Unsigned(SubSeq(b, 17, 20))]
    ELSE [len |-> 32, data |-> Unsigned(SubSeq(b, 9, 16)), num |-> Unsigned(SubSeq(b, 17, 24)),
          whsize |-> Unsigned(SubSeq(b, 25, 32))]
BadMagic(b) == b[1] \notin {<<"small">>, <<"big">>}
caml_marshal_data_size(b) ==
    IF b[1] = <<"small">> THEN Unsigned(SubSeq(b, 5, 8)) ELSE (32 - 20) + Unsigned(SubSeq(b, 9, 16))

\* caml_alloc_small is called, and may enter the collector.
AllocatesSmall(h) == h.whsize - 1 <= MAX_YOUNG_WOSIZE /\ h.whsize > 1

intern_alloc_storage(r, h) ==
    LET minor == AllocatesSmall(h)
    IN  IF h.whsize = 0 \/ r.err # "" THEN r
        ELSE IF h.num > 0 /\ AllocFails(r) THEN intern_fail(Alloc(r), "memory")
        ELSE [IF h.num > 0 THEN Alloc(r) ELSE r EXCEPT
                  !.counter = 0, !.num = h.num, !.whsize = h.whsize,
                  !.dest = IF minor THEN 0 ELSE NULL]

PushIntern(r, item) ==
    LET full == Len(r.sp) + 1 >= r.cap
    IN  IF r.err # "" THEN r
        ELSE IF full /\ (2 * r.cap >= STACK_MAX_SIZE \/ AllocFails(r))
             THEN intern_fail(IF 2 * r.cap >= STACK_MAX_SIZE THEN r ELSE Alloc(r), "memory")
        ELSE [IF full THEN Alloc(r) ELSE r EXCEPT
                  !.sp = Append(@, item), !.cap = IF full THEN 2 * @ ELSE @]
ReadItems(r, a, i, n) ==
    IF n > 0 THEN PushIntern(r, [op |-> "OReadItems", a |-> a, i |-> i, n |-> n]) ELSE r

\* The new block has the last address of the heap.
intern_alloc_obj(r, b) ==
    LET used == r.dest + 1 + Wosize(b)
    IN  IF r.dest = NULL /\ AllocFails(r) THEN intern_fail(Alloc(r), "memory")
        ELSE IF r.dest = NULL THEN [Alloc(r) EXCEPT !.heap = Append(@, b)]
        ELSE Check([r EXCEPT !.dest = used, !.heap = Append(@, b)], used <= r.whsize)
New(r) == Ptr(Len(r.heap), 0)
Enter(r) ==
    IF r.err # "" \/ r.num = 0 THEN r
    ELSE Check([r EXCEPT !.table = Append(@, New(r)), !.counter = @ + 1], r.counter < r.num)

Store(r, a, i, v) ==
    IF r.err # "" THEN r
    ELSE IF a = 0 THEN [r EXCEPT !.root = v] ELSE [r EXCEPT !.heap[a].fields[i] = v]
Load(r, a, i) == IF a = 0 THEN r.root ELSE r.heap[a].fields[i]

\* Results of reading: the state and the value for *dest.
Reads(r, v) == [r |-> r, v |-> v]

read_block(r, tag, size) ==
    LET n == Enter(intern_alloc_obj(r, Block(tag, [i \in 1 .. size |-> <<"undef">>])))
        a == Len(n.heap)
        rest == PushIntern(ReadItems(n, a, 3, size - 2), [op |-> "OFreshOID", a |-> a, i |-> 2, n |-> 1])
    IN  IF size = 0 THEN Reads(r, Ptr(1, 0))
        ELSE IF tag = "Object" THEN Reads(ReadItems(rest, a, 1, 2), New(n))
        ELSE Reads(ReadItems(n, a, 1, size), New(n))

\* Strings, doubles and arrays of doubles: a block filled with the next bytes.
read_bytes(r, tag, len) ==
    LET n == Enter(intern_alloc_obj(r, Bytes(tag, "", Take(r, len))))
    IN  Reads(Skip(n, len), New(n))

read_shared(r, ofs) ==
    LET ok == ofs > 0 /\ ofs <= r.counter /\ r.num > 0
    IN  Reads(Check(r, ok), IF ok THEN r.table[r.counter - ofs + 1] ELSE Long(0))

\* The deserializer of a custom block: how many bytes it reads.
Deserialized(ident, b) ==
    IF ident = "big" THEN 1 + b[1] ELSE IF ident = "wrong" THEN 2 ELSE CustomOps[ident].fixed
caml_deserialize(r, n) == Take(r, n)
read_custom(r, code) ==
    LET ident == r.src[1][1]
        ops == CustomOps[ident]
        q == IF code = "CUSTOM_FIXED" THEN Skip(r, 1) ELSE Skip(r, 5)
        expected == IF code = "CUSTOM_FIXED" THEN ops.fixed ELSE Unsigned(Take(q, 8))
        data == IF code = "CUSTOM_FIXED" THEN q ELSE Skip(q, 8)
        size == Deserialized(ident, data.src)
        n == intern_alloc_obj(data, Bytes("Custom", ident, caml_deserialize(data, size)))
    IN  IF ~ops.known THEN Reads(intern_fail(r, "unknown"), Long(0))
        ELSE IF code = "CUSTOM_FIXED" /\ ops.fixed = 0 THEN Reads(intern_fail(r, "fixed"), Long(0))
        ELSE IF n.err = "" /\ size # expected THEN Reads(intern_fail(n, "custom length"), Long(0))
        ELSE Reads(Enter(Skip(n, size)), New(n))

intern_resolve_code_pointer(r, ofs) ==
    LET digest == r.src[1][1]
    IN  IF digest \in Fragments THEN Reads(Skip(r, DIGEST), Code(digest, ofs))
        ELSE Reads(intern_fail(r, "code"), Long(0))

Operand == [INT8 |-> 1, INT16 |-> 2, INT32 |-> 4, INT64 |-> 8, SHARED8 |-> 1, SHARED16 |-> 2,
            SHARED32 |-> 4, SHARED64 |-> 8, STRING8 |-> 1, STRING32 |-> 4, STRING64 |-> 8,
            DOUBLE_ARRAY8 |-> 1, DOUBLE_ARRAY32 |-> 4, DOUBLE_ARRAY64 |-> 8, CODEPOINTER |-> 4,
            INFIXPOINTER |-> 4, BLOCK32 |-> 4, BLOCK64 |-> 8]

\* The item that code c and its operand stand for; r is past them.
ReadItem(r, c, b) ==
    CASE c[1] = "SMALL_INT" -> Reads(r, Long(c[2]))
      [] c[1] = "SMALL_BLOCK" -> read_block(r, c[2], c[3])
      [] c[1] = "SMALL_STRING" -> read_bytes(r, "String", c[2])
      [] c[1] \in {"INT8", "INT16", "INT32", "INT64"} -> Reads(r, Long(Signed(b)))
      [] c[1] \in {"SHARED8", "SHARED16", "SHARED32", "SHARED64"} -> read_shared(r, Unsigned(b))
      [] c[1] \in {"BLOCK32", "BLOCK64"} -> read_block(r, b[1][1], Unsigned(Tail(b)))
      [] c[1] \in {"STRING8", "STRING32", "STRING64"} -> read_bytes(r, "String", Unsigned(b))
      [] c[1] = "DOUBLE" -> read_bytes(r, "Double", WORD64)
      [] c[1] \in {"DOUBLE_ARRAY8", "DOUBLE_ARRAY32", "DOUBLE_ARRAY64"} ->
            read_bytes(r, "DoubleArray", WORD64 * Unsigned(b))
      [] c[1] = "CODEPOINTER" -> intern_resolve_code_pointer(r, Unsigned(b))
      [] c[1] \in {"CUSTOM_LEN", "CUSTOM_FIXED"} -> read_custom(r, c[1])

\* One turn of the loop of intern_rec: one operation of the stack.
intern_rec(r) ==
    LET top == Last(r.sp)
        popped == [r EXCEPT !.sp = IF top.n = 1 THEN Front(@)
                      ELSE Append(Front(@), [top EXCEPT !.i = @ + 1, !.n = @ - 1])]
        old == Load(r, top.a, top.i)
        c == r.src[1]
        k == IF c[1] \in DOMAIN Operand THEN Operand[c[1]] ELSE 0
        b == SubSeq(r.src, 2, k + 1)
        q == Skip(popped, k + 1)
        item == ReadItem(q, c, b)
    IN  IF r.sp = <<>> THEN [r EXCEPT !.mode = "end", !.cap = STACK_INIT_SIZE]
        ELSE IF top.op = "OFreshOID"
             THEN LET p == [r EXCEPT !.sp = Front(@)]
                  IN  IF old[2] >= 0 THEN [Store(p, top.a, top.i, Long(p.oid)) EXCEPT !.oid = @ + 1] ELSE p
        ELSE IF top.op = "OShift"
             THEN Store([r EXCEPT !.sp = Front(@)], top.a, top.i, Ptr(old[2], old[3] + top.n))
        ELSE IF c[1] = "INFIXPOINTER"
             THEN ReadItems(PushIntern(q, [op |-> "OShift", a |-> top.a, i |-> top.i, n |-> Unsigned(b)]),
                            top.a, top.i, 1)
        ELSE Store(item.r, top.a, top.i, item.v)

-----------------------------------------------------------------------------
(* The calls of the threads.                                                 *)

Threads == DOMAIN world.call
NewThread == [pc |-> "idle", blk |-> <<>>, data |-> <<>>, h |-> <<>>, res |-> Long(0), err |-> "",
              full |-> TRUE]

Init ==
    /\ world \in Worlds
    /\ ext = NewExt(world.ext)
    /\ inp = NewInp(world.int)
    /\ th = [t \in Threads |-> NewThread]

\* The master lock is given up while a channel blocks and in the collector, which
\* caml_alloc_small may enter ("alloc"); a failed assertion ends the process.
Free(t) ==
    \A u \in Threads \ {t} :
        /\ th[u].pc \notin {"extern", "words", "intern"} /\ th[u].err # "assertion"
        /\ th[u].pc = "alloc" => AllocatesSmall(th[u].h)
Fails(t, e) == th' = [th EXCEPT ![t].pc = "failed", ![t].err = e]

caml_output_value(t) ==
    /\ th[t].pc = "idle" /\ Free(t)
    /\ ext' = init_extern_output(ext, world.call[t])
    /\ th' = [th EXCEPT ![t].pc = IF world.call[t].op = "words" THEN "words" ELSE "extern"]
    /\ UNCHANGED <<world, inp>>

ExternItem(t) ==
    /\ th[t].pc \in {"extern", "words"} /\ ext.mode = "run"
    /\ ext' = IF th[t].pc = "words" THEN caml_obj_reachable_words(ext) ELSE extern_rec(ext)
    /\ UNCHANGED <<world, inp, th>>

WordsEnd(t) ==
    /\ th[t].pc = "words" /\ ext.mode = "end"
    /\ IF ext.err # "" THEN Fails(t, ext.err)
       ELSE th' = [th EXCEPT ![t].pc = "counted", ![t].res = Long(ext.words)]
    /\ UNCHANGED <<world, ext, inp>>

\* The end of extern_value, and what each entry point does with the blocks: the
\* chain to write on the channel is kept by the thread.
ExternEnd(t) ==
    LET op == world.call[t].op
        header == extern_value(ext)
        all == header \o Flat(ext.out)
    IN  /\ th[t].pc = "extern" /\ ext.mode = "end"
        /\ CASE ext.err # "" -> Fails(t, ext.err) /\ UNCHANGED ext
             [] ext.err = "" /\ IsBig(ext) /\ COMPAT_32 \in ext.flags ->
                    Fails(t, "compat") /\ ext' = free_extern_output(ext)
             [] ext.err = "" /\ ~(IsBig(ext) /\ COMPAT_32 \in ext.flags) /\ op = "output" ->
                    /\ th' = [th EXCEPT ![t].pc = "put", ![t].blk = <<header>> \o ext.out]
                    /\ UNCHANGED ext
             [] ext.err = "" /\ op = "block" /\ Len(all) > world.call[t].len ->
                    Fails(t, "overflow") /\ UNCHANGED ext
             [] ext.err = "" /\ op = "malloc" /\ AllocFails(ext) ->
                    Fails(t, "memory") /\ ext' = free_extern_output(Alloc(ext))
             [] OTHER -> /\ th' = [th EXCEPT ![t].pc = "ready", ![t].data = all]
                         /\ ext' = IF op = "malloc" THEN Alloc(ext) ELSE ext
    /\ UNCHANGED <<world, inp>>

\* As caml_really_putblock, with the blocks taken from the state of the domain.
PutsCurrentChain(t) ==
    LET i == Len(ext.out) - Len(th[t].blk) + 1
    IN  /\ th[t].pc = "put" /\ Free(t)
        /\ th' = [th EXCEPT ![t].data = @ \o IF @ # <<>> /\ i \in DOMAIN ext.out THEN ext.out[i] ELSE Head(th[t].blk),
                            ![t].blk = Tail(@),
                            ![t].pc = IF Len(th[t].blk) = 1 THEN "ready" ELSE "put"]
        /\ UNCHANGED <<world, ext, inp>>

caml_really_putblock(t) ==
    /\ th[t].pc = "put" /\ Free(t)
    /\ th' = [th EXCEPT ![t].data = @ \o Head(th[t].blk), ![t].blk = Tail(@),
                        ![t].pc = IF Len(th[t].blk) = 1 THEN "ready" ELSE "put"]
    /\ UNCHANGED <<world, ext, inp>>

\* What the reader finds of the data.
Found(t) ==
    LET d == th[t].data
        n == IF world.cut > Len(d) THEN 0 ELSE Len(d) - world.cut
    IN  SubSeq(IF world.bad THEN Magic("bad") \o SubSeq(d, 5, Len(d)) ELSE d, 1, n)

\* caml_input_val up to the read of the data, during which threads may switch.
ReadHeader(t) ==
    LET b == Found(t)
        e == CASE b = <<>> -> "eof"
               [] b # <<>> /\ (Len(b) < 20 \/ (b[1] = <<"big">> /\ Len(b) < 32)) -> "truncated"
               [] Len(b) >= 20 /\ BadMagic(b) -> "bad"
               [] OTHER -> ""
    IN  /\ th[t].pc = "ready" /\ world.call[t].op = "output" /\ Free(t)
        /\ IF e # "" THEN Fails(t, e)
           ELSE th' = [th EXCEPT ![t].pc = "get", ![t].h = caml_parse_header(b)]
        /\ UNCHANGED <<world, ext, inp>>

ReadData(t) ==
    LET h == th[t].h
        b == SubSeq(Found(t), h.len + 1, Len(Found(t)))
    IN  /\ th[t].pc = "get" /\ Free(t)
        /\ IF Len(b) < h.data THEN Fails(t, "truncated") /\ UNCHANGED inp
           ELSE LET r == intern_init(inp, t, b, TRUE)
                IN  /\ inp' = r
                    /\ IF r.err # "" THEN Fails(t, r.err) ELSE th' = [th EXCEPT ![t].pc = "alloc"]
        /\ UNCHANGED <<world, ext>>

\* caml_input_val_from_bytes (called by Marshal.from_bytes once the header is known to
\* be there), caml_input_value_from_block and caml_input_value_from_malloc.
InputFromMemory(t) ==
    LET op == world.call[t].op
        b == Found(t)
        h == caml_parse_header(b)
        r == intern_init(inp, t, b, op = "malloc")
        e == IF Len(b) < 20 THEN "length"
             ELSE IF r.err # "" THEN r.err
             ELSE IF BadMagic(b) THEN "bad"
             ELSE IF op # "malloc" /\ Len(b) - 20 < caml_marshal_data_size(b) THEN "length"
             ELSE ""
    IN  /\ th[t].pc = "ready" /\ op # "output" /\ Free(t)
        /\ IF e # "" THEN Fails(t, e) /\ inp' = (IF Len(b) < 20 THEN inp ELSE r)
           ELSE /\ inp' = Skip(r, h.len)
                /\ th' = [th EXCEPT ![t].pc = "alloc", ![t].h = h]
        /\ UNCHANGED <<world, ext>>

\* The rest of intern_alloc_storage, once caml_alloc_small has returned.  Only
\* caml_input_val_from_bytes then sets the pointer to its data again; a call that
\* finds it in the data of another one reads what is not its own ("astray": from
\* there the code does anything).
InternAlloc(t) ==
    LET own == SubSeq(Found(t), th[t].h.len + 1, Len(Found(t)))
        r == IF world.call[t].op = "bytes" THEN [inp EXCEPT !.src = own, !.from = t] ELSE inp
    IN  /\ th[t].pc = "alloc" /\ Free(t)
        /\ IF r.from # t THEN Fails(t, "astray") /\ UNCHANGED inp
           ELSE /\ inp' = ReadItems(intern_alloc_storage([r EXCEPT !.mode = "run", !.err = ""],
                                                        th[t].h), 0, 0, 1)
                /\ th' = [th EXCEPT ![t].pc = "intern"]
        /\ UNCHANGED <<world, ext>>

InternItem(t) ==
    /\ th[t].pc = "intern" /\ inp.mode = "run"
    /\ inp' = intern_rec(inp)
    /\ UNCHANGED <<world, ext, th>>

intern_end(t) ==
    /\ th[t].pc = "intern" /\ inp.mode = "end"
    /\ IF inp.err # "" THEN Fails(t, inp.err) /\ UNCHANGED inp
       ELSE /\ th' = [th EXCEPT ![t].pc = "done", ![t].res = inp.root,
                        ![t].full = /\ inp.dest # NULL => inp.dest = inp.whsize
                                    /\ inp.num > 0 => inp.counter = inp.num]
            /\ inp' = intern_cleanup(inp)
    /\ UNCHANGED <<world, ext>>

Step(t) ==
    \/ caml_output_value(t) \/ ExternItem(t) \/ WordsEnd(t) \/ ExternEnd(t)
    \/ caml_really_putblock(t) \/ ReadHeader(t) \/ ReadData(t) \/ InputFromMemory(t)
    \/ InternAlloc(t) \/ InternItem(t) \/ intern_end(t)

Next == \E t \in Threads : Step(t)

Spec == Init /\ [][Next]_vars

-----------------------------------------------------------------------------

\* A value without the forward blocks that marshaling removes.
RECURSIVE Resolve(_)
Resolve(v) ==
    IF ~IsInt(v) /\ v[1] = "ptr" /\ TagOf(world.heap, v) = "Forward"
       /\ ShortCircuit(world.heap[v[2]].fields[1])
    THEN Resolve(world.heap[v[2]].fields[1]) ELSE v

SourceFields(a) == [i \in DOMAIN world.heap[a].fields |-> Resolve(world.heap[a].fields[i])]

\* Pairs of a value and its image reached together from a pair.
RECURSIVE Pairs(_)
Pairs(R) ==
    LET below(p) == {<<SourceFields(p[1][2])[i], inp.heap[p[2][2]].fields[i]>> :
                        i \in DOMAIN world.heap[p[1][2]].fields \cap DOMAIN inp.heap[p[2][2]].fields}
        S == R \cup UNION {below(p) : p \in {q \in R : q[1][1] = "ptr" /\ q[2][1] = "ptr"}}
    IN  IF S = R THEN R ELSE Pairs(S)

SameBlock(b, c) ==
    /\ b.tag = c.tag /\ b.bytes = c.bytes /\ b.ident = c.ident /\ Len(b.fields) = Len(c.fields)

FreshId(p) == \E a \in DOMAIN world.heap :
                 world.heap[a].tag = "Object" /\ world.heap[a].fields[2] = p[1] /\ p[1][2] >= 0
                 /\ p[2][2] >= 50

\* The image is the same graph: the same nodes, shared when sharing is kept.
Copies(v, w, flags) ==
    LET R == Pairs({<<Resolve(v), w>>})
        B == {<<p[1][2], p[2][2]>> : p \in {q \in R : q[1][1] = "ptr"}}
        shared == {p \in B : Wosize(world.heap[p[1]]) > 0}
    IN  /\ \A p \in R :
            IF p[1][1] = "ptr"
            THEN /\ p[2][1] = "ptr" /\ p[1][3] = p[2][3]
                 /\ SameBlock(world.heap[p[1][2]], inp.heap[p[2][2]])
            ELSE p[1] = p[2] \/ FreshId(p)
        /\ \A p, q \in shared : p[2] = q[2] => p[1] = q[1]
        /\ NO_SHARING \notin flags => \A p, q \in shared : p[1] = q[1] => p[2] = q[2]

RECURSIVE ReachFrom(_)
ReachFrom(S) ==
    LET T == S \cup {v[2] : v \in {w \in UNION {ToSet(world.heap[a].fields) : a \in S} : w[1] = "ptr"}}
    IN  IF S = T THEN S ELSE ReachFrom(T)
Reached(t) == LET v == world.call[t].v IN IF IsInt(v) THEN {} ELSE ReachFrom({v[2]})
Words(t) == FoldFunctionOnSet(+, 0, [a \in DOMAIN world.heap |-> 1 + Wosize(world.heap[a])], Reached(t))

\* What justifies the error that a call of thread t ended with.
Justified(t, e) ==
    LET B == {world.heap[a] : a \in Reached(t)}
        has(tags, idents) == \E b \in B : b.tag \in tags /\ b.ident \in idents
    IN  CASE e = "memory" -> \/ world.ext > 0 \/ world.int > 0
                           \/ 2 * Cardinality(Reached(t)) >= STACK_MAX_SIZE
          [] e \in {"eof", "truncated", "length"} -> world.cut > 0
          [] e = "bad" -> world.bad
          [] e = "compat" -> COMPAT_32 \in world.call[t].flags
          [] e = "overflow" -> world.call[t].op = "block" /\ world.call[t].len < 90
          [] e \in {"functional", "private", "code"} -> has({"Closure"}, {""})
          [] e = "abstract" -> has({"Abstract"}, {""}) \/ has({"Custom"}, {"null"})
          [] e = "assertion" ->
                \E u \in Threads \ {t} : th[u].pc = "alloc" /\ world.call[u].op \in {"output", "malloc"}
          [] e = "astray" -> world.call[t].op # "bytes" /\ inp.from # t
          [] e = "unknown" -> has({"Custom"}, {"gone"})
          [] e \in {"custom length", "fatal"} -> has({"Custom"}, {"wrong"})
          [] OTHER -> FALSE

\* What is read back is the graph that was written, with its sharing, its cycles,
\* its closures and its custom blocks, whatever the other threads marshal while a
\* channel is written or read (comments of caml_output_val, extern.c:946, and
\* caml_input_val, intern.c:765); the storage announced by the header is exactly
\* filled; a call fails only for a reason that its value, its flags, the memory or
\* the data gives, and never on an assertion of intern_rec; and Obj.reachable_words
\* counts every block once.  Two reasons are those of another reading that comes
\* while intern_alloc_storage is in caml_alloc_small: it fails on the assertion of
\* intern_init, whose comment knows only an exception as the cause, if the call it
\* overtakes owns its input; and the overtaken call loses its place in the data,
\* unless it is caml_input_val_from_bytes, which finds it again ("If a GC occurred").
MarshalRight ==
    \A t \in Threads :
        /\ th[t].pc = "done" => Copies(world.call[t].v, th[t].res, world.call[t].flags) /\ th[t].full
        /\ th[t].pc = "failed" => Justified(t, th[t].err)
        /\ th[t].pc = "counted" => th[t].res = Long(Words(t))
        /\ th[t].pc = "ready" => caml_marshal_data_size(th[t].data) = Len(th[t].data) - 20
=============================================================================
