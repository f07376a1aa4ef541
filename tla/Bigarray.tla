------------------------------ MODULE Bigarray ------------------------------
(* Bigarrays (runtime/bigarray.c) and the mapping of files (unix/mmap.c,   *)
(* unix/mmap_ba.c): arrays that share data, the proxy that counts them,    *)
(* the finalisers that free or unmap the data, copies made outside the     *)
(* runtime lock, comparison, hashing and marshalling.  A byte has Byte     *)
(* values, a machine word 2^world.bits, and the sizes of the kinds keep    *)
(* their order.  Floats are 0, NegZero, NaN1, NaN2 and the integers.       *)
EXTENDS Integers, Sequences, FiniteSets

CONSTANT Worlds

VARIABLES
    world,
    arrays,   \* struct caml_ba_array
    bufs,     \* what data points to; buffer 0 is NULL
    proxies,  \* struct caml_ba_proxy
    thr,      \* thread -> what it is doing
    lock,     \* the thread that has the runtime lock, or 0
    left      \* how many operations of each sort may still be done

vars == <<world, arrays, bufs, proxies, thr, lock, left>>

Byte == 4
MaxWord == 2 ^ world.bits
NegZero == 50
NaN1 == 98
NaN2 == 99
IsNaN(x) == x \in {NaN1, NaN2}
NULL == 0

Floats == {"float", "complex"}
Bytes == {"uint8", "sint8"}
Comps(kind) == IF kind = "complex" THEN 2 ELSE 1
caml_ba_element_size ==
    [uint8 |-> 1, sint8 |-> 1, float |-> 2, int |-> 2, native |-> 2, complex |-> 4]

Threads == 1 .. world.threads
Idle == [pc |-> "idle", a |-> 0, b |-> 0, v |-> 0, seen |-> 0]
Elems(s) == {s[i] : i \in DOMAIN s}
Reversed(s) == [i \in DOMAIN s |-> s[Len(s) + 1 - i]]

(* A world has: bits; kinds, layouts and shapes, what is created; managed, *)
(* how (by OCaml, by others, from a file); values, what is written;        *)
(* cutoff, the size from which a copy leaves the runtime; threads; and     *)
(* left, the operations.                                                   *)
Init ==
    /\ world \in Worlds
    /\ arrays = << >> /\ bufs = << >> /\ proxies = << >>
    /\ thr = [t \in Threads |-> Idle]
    /\ lock = 0 /\ left = world.left

Spend(what) == left[what] > 0 /\ left' = [left EXCEPT ![what] = @ - 1]

\* A thread starts an operation: it has the lock for as long as the
\* operation does not give it up.  Domains that run in parallel need none.
Runs(t) == thr[t].pc = "idle" /\ lock = 0

-----------------------------------------------------------------------------
(* Sizes and offsets.                                                      *)

RECURSIVE Product(_)
Product(dims) == IF dims = << >> THEN 1 ELSE Product(Tail(dims)) * Head(dims)

caml_ba_num_elts(a) == Product(a.dims) % MaxWord
caml_ba_byte_size(a) == (caml_ba_num_elts(a) * caml_ba_element_size[a.kind]) % MaxWord

\* caml_umul_overflow at every step: no partial product may overflow.
RECURSIVE Overflows(_, _)
Overflows(n, dims) ==
    dims # << >> /\ (n * Head(dims) >= MaxWord \/ Overflows(n * Head(dims), Tail(dims)))

\* caml_ba_offset, or -1 when an index is out of bounds.
RECURSIVE OffsetFrom(_, _, _)
OffsetFrom(dims, index, offset) ==
    IF dims = << >> THEN offset
    ELSE IF Head(index) < 0 \/ Head(index) >= Head(dims) THEN -1
    ELSE OffsetFrom(Tail(dims), Tail(index), offset * Head(dims) + Head(index))

caml_ba_offset(a, index) ==
    IF a.layout = "c" THEN OffsetFrom(a.dims, index, 0)
    ELSE OffsetFrom(Reversed(a.dims),
                    [i \in DOMAIN index |-> Reversed(index)[i] - 1], 0)

First(layout) == IF layout = "c" THEN 0 ELSE 1
IndexSet(a) ==
    {x \in [DOMAIN a.dims -> 0 .. 4] :
        \A i \in DOMAIN a.dims :
            x[i] >= First(a.layout) /\ x[i] < a.dims[i] + First(a.layout)}
Where(a, index) == <<a.buf, a.ofs + caml_ba_offset(a, index)>>

-----------------------------------------------------------------------------
(* Allocation.                                                             *)

Zeros(n) == [i \in 0 .. n - 1 |-> 0]
NewBuf(n, how) == [cells |-> Zeros(n), how |-> how, freed |-> 0, mapped |-> 0, unmapped |-> 0]
Root == [sort |-> "new", parent |-> 0, arg |-> << >>]

Struct(kind, layout, managed, dims, buf, ofs, from) ==
    [kind |-> kind, layout |-> layout, managed |-> managed, dims |-> dims,
     buf |-> buf, ofs |-> ofs, proxy |-> NULL, from |-> from, start |-> 0,
     live |-> TRUE, rooted |-> TRUE]

\* caml_ba_alloc without data.  malloc(0) may return NULL.
AllocRaises(kind, dims) ==
    Overflows(1, dims) \/ Product(dims) * caml_ba_element_size[kind] >= MaxWord

caml_ba_create(t, kind, layout, dims) ==
    /\ Runs(t) /\ Spend("creates")
    /\ IF AllocRaises(kind, dims) THEN UNCHANGED <<arrays, bufs>>
       ELSE /\ bufs' = Append(bufs, NewBuf(Product(dims) * Comps(kind), "malloc"))
            /\ arrays' = Append(arrays, Struct(kind, layout, {"MANAGED"}, dims,
                                               Len(bufs) + 1, 0, Root))
    /\ UNCHANGED <<proxies, thr, lock>>

\* caml_ba_alloc with the data of a C library.
External(t, kind, layout, dims) ==
    /\ Runs(t) /\ Spend("creates") /\ ~AllocRaises(kind, dims)
    /\ bufs' = Append(bufs, NewBuf(Product(dims) * Comps(kind), "static"))
    /\ arrays' = Append(arrays, Struct(kind, layout, {}, dims, Len(bufs) + 1, 0, Root))
    /\ UNCHANGED <<proxies, thr, lock>>

\* caml_unix_map_file: the major dimension may be left to the size of the
\* file after the position start, and a file that is too short grows.
\* Nothing is mapped for an empty array: its data is then NULL plus what
\* precedes the position in its page, so NULL, or an address where nothing
\* is.  The code divides by the size of a row: no row may be empty here.
Page == 2
Mapping(n, kind, start) ==
    IF n = 0 THEN IF start % Page = 0 THEN << >> ELSE <<NewBuf(0, "static")>>
    ELSE <<[NewBuf(n * Comps(kind), "mmap") EXCEPT
              !.mapped = n * caml_ba_element_size[kind] + (start % Page)]>>
RowSize(dims, major, esize) ==
    Product([i \in DOMAIN dims |-> IF i = major THEN 1 ELSE dims[i]]) * esize
MapFails(size, start, row) == size < start \/ (size - start) % row # 0
MapDims(dims, major, size, start, row) ==
    IF dims[major] = -1 THEN [dims EXCEPT ![major] = (size - start) \div row] ELSE dims

caml_unix_mapped_alloc(kind, layout, dims, buf, start) ==
    [Struct(kind, layout, {"MAPPED_FILE"}, dims, buf, 0, Root) EXCEPT !.start = start]

caml_unix_map_file(t, kind, layout, vdim, size, start) ==
    LET major == IF layout = "c" THEN 1 ELSE Len(vdim)
        row == RowSize(vdim, major, caml_ba_element_size[kind])
        dims == MapDims(vdim, major, size, start, row)
        n == Product(dims)
    IN  /\ Runs(t) /\ Spend("creates") /\ vdim # << >>
        /\ vdim[major] = -1 => row # 0
        /\ IF vdim[major] = -1 /\ MapFails(size, start, row)
           THEN UNCHANGED <<arrays, bufs>>
           ELSE LET m == Mapping(n, kind, start) IN
                /\ bufs' = bufs \o m
                /\ arrays' = Append(arrays,
                     caml_unix_mapped_alloc(kind, layout, dims,
                         IF m = << >> THEN NULL ELSE Len(bufs) + 1, start))
        /\ UNCHANGED <<proxies, thr, lock>>

-----------------------------------------------------------------------------
(* Arrays that share the data of another.                                  *)

\* caml_ba_alloc again: data that is NULL is taken as a request to allocate,
\* so that a view of an empty mapping is MANAGED as well as MAPPED_FILE.
View(a, layout, dims, ofs, from) ==
    IF a.buf = NULL
    THEN Struct(a.kind, layout, a.managed \union {"MANAGED"}, dims, Len(bufs) + 1, 0, from)
    ELSE [Struct(a.kind, layout, a.managed, dims, a.buf, ofs, from) EXCEPT
            !.start = a.start]

\* The new array, then caml_ba_update_proxy, which first reads the proxy.
MakeView(t, i, v) ==
    /\ Spend("views")
    /\ bufs' = IF arrays[i].buf = NULL
               THEN Append(bufs, NewBuf(0, "void")) ELSE bufs
    /\ arrays' = Append(arrays, v)
    /\ thr' = [thr EXCEPT ![t] = [pc |-> "proxy", a |-> i, b |-> Len(arrays) + 1,
                                  v |-> 0, seen |-> arrays[i].proxy]]
    /\ lock' = IF world.parallel THEN 0 ELSE t
    /\ UNCHANGED proxies

SliceIndex(a, inds) ==
    LET rest == [i \in 1 .. Len(a.dims) - Len(inds) |-> First(a.layout)]
    IN  IF a.layout = "c" THEN inds \o rest ELSE rest \o inds
SliceDims(a, inds) ==
    IF a.layout = "c" THEN SubSeq(a.dims, Len(inds) + 1, Len(a.dims))
    ELSE SubSeq(a.dims, 1, Len(a.dims) - Len(inds))

caml_ba_slice(t, i, inds) ==
    LET a == arrays[i]
        offset == caml_ba_offset(a, SliceIndex(a, inds))
    IN  /\ Runs(t) /\ Len(inds) <= Len(a.dims) /\ offset >= 0
        /\ MakeView(t, i, View(a, a.layout, SliceDims(a, inds), a.ofs + offset,
                               [sort |-> "slice", parent |-> i, arg |-> inds]))

caml_ba_change_layout(t, i) ==
    LET a == arrays[i] IN
    /\ Runs(t)
    /\ MakeView(t, i, View(a, IF a.layout = "c" THEN "fortran" ELSE "c",
                           Reversed(a.dims), a.ofs,
                           [sort |-> "layout", parent |-> i, arg |-> << >>]))

Others(a, changed) == Product([k \in DOMAIN a.dims |-> IF k = changed THEN 1 ELSE a.dims[k]])

caml_ba_sub(t, i, vofs, len) ==
    LET a == arrays[i]
        changed == IF a.layout = "c" THEN 1 ELSE Len(a.dims)
        ofs == vofs - First(a.layout)
    IN  /\ Runs(t) /\ a.dims # << >>
        /\ ofs >= 0 /\ len >= 0 /\ ofs + len <= a.dims[changed]
        /\ MakeView(t, i, View(a, a.layout, [a.dims EXCEPT ![changed] = len],
                               a.ofs + ofs * Others(a, changed),
                               [sort |-> "sub", parent |-> i, arg |-> <<vofs, len>>]))

\* The product of the new dimensions is computed in a machine word.
caml_ba_reshape(t, i, dims) ==
    LET a == arrays[i] IN
    /\ Runs(t) /\ Product(dims) % MaxWord = caml_ba_num_elts(a)
    /\ MakeView(t, i, View(a, a.layout, dims, a.ofs,
                           [sort |-> "reshape", parent |-> i, arg |-> << >>]))

\* The size is that of the mapping the array is the whole of.
NewProxy(a) ==
    [refcount |-> 2, buf |-> a.buf, freed |-> FALSE,
     size |-> IF "MAPPED_FILE" \in a.managed THEN caml_ba_byte_size(a) ELSE 0]

\* caml_ba_update_proxy: count one more, or make the proxy.
ProxyForgetful(t) ==
    LET th == thr[t]
        a == arrays[th.a]
    IN  /\ th.pc = "proxy"
        /\ IF a.managed = {} \/ th.seen # NULL
           THEN /\ arrays' = [arrays EXCEPT ![th.b].proxy = th.seen]
                /\ UNCHANGED proxies
           ELSE /\ proxies' = Append(proxies, NewProxy(a))
                /\ arrays' = [arrays EXCEPT ![th.a].proxy = Len(proxies) + 1,
                                            ![th.b].proxy = Len(proxies) + 1]
        /\ thr' = [thr EXCEPT ![t] = Idle] /\ lock' = 0
        /\ UNCHANGED <<bufs, left>>

caml_ba_update_proxy(t) ==
    LET th == thr[t]
        a == arrays[th.a]
    IN  /\ th.pc = "proxy"
        /\ IF a.managed = {} THEN UNCHANGED <<arrays, proxies>>
           ELSE IF th.seen # NULL
           THEN /\ arrays' = [arrays EXCEPT ![th.b].proxy = th.seen]
                /\ proxies' = [proxies EXCEPT ![th.seen].refcount = @ + 1]
           ELSE /\ proxies' = Append(proxies, NewProxy(a))
                /\ arrays' = [arrays EXCEPT ![th.a].proxy = Len(proxies) + 1,
                                            ![th.b].proxy = Len(proxies) + 1]
        /\ thr' = [thr EXCEPT ![t] = Idle] /\ lock' = 0
        /\ UNCHANGED <<bufs, left>>

-----------------------------------------------------------------------------
(* Elements.                                                               *)

\* What a store keeps of a value, and what a load makes of it.
Stored(kind, v) == IF kind \in Bytes THEN v % Byte ELSE v
Loaded(kind, x) == IF kind = "sint8" /\ x >= Byte \div 2 THEN x - Byte ELSE x

\* The components of an element, in the cells of its buffer.
CellsOf(a, n) == [c \in 1 .. Comps(a.kind) |-> (a.ofs + n) * Comps(a.kind) + c - 1]
Contents(a) ==
    [k \in 1 .. caml_ba_num_elts(a) * Comps(a.kind) |->
        Loaded(a.kind, bufs[a.buf].cells[a.ofs * Comps(a.kind) + k - 1])]

\* caml_ba_set_aux; a complex number has the value in both parts.
caml_ba_set(t, i, index, v) ==
    LET a == arrays[i]
        n == caml_ba_offset(a, index)
    IN  /\ Runs(t) /\ Spend("writes") /\ n >= 0
        /\ bufs' = [bufs EXCEPT ![a.buf].cells =
                      [x \in DOMAIN @ |-> IF x \in Elems(CellsOf(a, n))
                                          THEN Stored(a.kind, v) ELSE @[x]]]
        /\ UNCHANGED <<arrays, proxies, thr, lock>>

\* caml_ba_uint8_set16, 32 and 64: width bytes, the lowest first.
WideFits(a, idx, width) == idx >= 0 /\ idx < a.dims[1] - (width - 1)
caml_ba_uint8_set(t, i, idx, width, v) ==
    LET a == arrays[i] IN
    /\ Runs(t) /\ Spend("writes") /\ a.kind \in Bytes /\ Len(a.dims) = 1
    /\ WideFits(a, idx, width)
    /\ bufs' = [bufs EXCEPT ![a.buf].cells =
                  [x \in DOMAIN @ |->
                     IF x >= a.ofs + idx /\ x < a.ofs + idx + width
                     THEN (v \div Byte ^ (x - a.ofs - idx)) % Byte ELSE @[x]]]
    /\ UNCHANGED <<arrays, proxies, thr, lock>>
RECURSIVE FromBytes(_)
FromBytes(bs) == IF bs = << >> THEN 0 ELSE Head(bs) + Byte * FromBytes(Tail(bs))
caml_ba_uint8_get(a, idx, width) ==
    FromBytes([k \in 1 .. width |-> bufs[a.buf].cells[a.ofs + idx + k - 1]])

\* caml_ba_blit and caml_ba_fill: a large copy, or one with a mapped file,
\* is made without the lock; the arrays are roots of the thread meanwhile.
Leaves(n, S) == n >= world.cutoff \/ \E i \in S : "MAPPED_FILE" \in arrays[i].managed

Moved(src, dst) ==
    LET n == caml_ba_num_elts(src) * Comps(src.kind)
        base == dst.ofs * Comps(dst.kind)
    IN  IF n = 0 THEN bufs
        ELSE [bufs EXCEPT ![dst.buf].cells =
           [x \in DOMAIN @ |->
              IF x >= base /\ x < base + n
              THEN bufs[src.buf].cells[src.ofs * Comps(src.kind) + x - base] ELSE @[x]]]
Filled(a, v) ==
    LET n == caml_ba_num_elts(a) * Comps(a.kind)
        base == a.ofs * Comps(a.kind)
    IN  IF n = 0 THEN bufs
        ELSE [bufs EXCEPT ![a.buf].cells =
           [x \in DOMAIN @ |-> IF x >= base /\ x < base + n THEN Stored(a.kind, v) ELSE @[x]]]

caml_ba_blit(t, i, j) ==
    LET a == arrays[i]
        b == arrays[j]
    IN  /\ Runs(t) /\ Spend("copies")
        /\ a.kind = b.kind /\ a.layout = b.layout
        /\ IF a.dims # b.dims THEN UNCHANGED <<thr, bufs>>
           ELSE IF Leaves(caml_ba_byte_size(a), {i, j})
           THEN /\ thr' = [thr EXCEPT ![t] = [Idle EXCEPT !.pc = "blit", !.a = i, !.b = j]]
                /\ UNCHANGED bufs
           ELSE bufs' = Moved(a, b) /\ UNCHANGED thr
        /\ UNCHANGED <<arrays, proxies, lock>>

caml_ba_fill(t, i, v) ==
    LET a == arrays[i] IN
    /\ Runs(t) /\ Spend("copies")
    /\ IF Leaves(caml_ba_num_elts(a) * Comps(a.kind), {i})
       THEN /\ thr' = [thr EXCEPT ![t] = [Idle EXCEPT !.pc = "fill", !.a = i, !.v = v]]
            /\ UNCHANGED bufs
       ELSE bufs' = Filled(a, v) /\ UNCHANGED thr
    /\ UNCHANGED <<arrays, proxies, lock>>

EndCopy(t) ==
    LET th == thr[t] IN
    /\ \/ th.pc = "blit" /\ bufs' = Moved(arrays[th.a], arrays[th.b])
       \/ th.pc = "fill" /\ bufs' = Filled(arrays[th.a], th.v)
    /\ thr' = [thr EXCEPT ![t] = Idle]
    /\ UNCHANGED <<arrays, proxies, lock, left>>

-----------------------------------------------------------------------------
(* The end of an array.                                                    *)

\* The program forgets an array.
Forget(i) ==
    /\ lock = 0 /\ arrays[i].rooted /\ Spend("forgets")
    /\ arrays' = [arrays EXCEPT ![i].rooted = FALSE]
    /\ UNCHANGED <<bufs, proxies, thr, lock>>

Held(i) == \E t \in Threads : thr[t].pc # "idle" /\ i \in {thr[t].a, thr[t].b}

\* caml_ba_unmap_file adds what precedes the data in its page, and leaves
\* alone what has no length.
Freed(b) == IF b = NULL THEN bufs ELSE [bufs EXCEPT ![b].freed = @ + 1]
Unmapped(a, b, len) ==
    IF len = 0 THEN bufs
    ELSE [bufs EXCEPT ![b].freed = @ + 1, ![b].unmapped = len + (a.start % Page)]

\* The array is gone; the proxy counts one less, and goes with the last.
Finalised(i) ==
    LET a == arrays[i] IN
    /\ a.live /\ ~a.rooted /\ ~Held(i) /\ lock = 0
    /\ arrays' = [arrays EXCEPT ![i].live = FALSE]
    /\ proxies' = IF a.managed = {} \/ a.proxy = NULL THEN proxies
                  ELSE [proxies EXCEPT ![a.proxy].refcount = @ - 1,
                                       ![a.proxy].freed = (proxies[a.proxy].refcount = 1)]
    /\ UNCHANGED <<thr, lock, left>>
IsLast(a) == a.proxy # NULL /\ proxies[a.proxy].refcount = 1

caml_ba_finalize(i) ==
    LET a == arrays[i] IN
    /\ "MAPPED_FILE" \notin a.managed /\ Finalised(i)
    /\ bufs' = IF a.managed = {} THEN bufs
               ELSE IF a.proxy = NULL THEN Freed(a.buf)
               ELSE IF IsLast(a) THEN Freed(proxies[a.proxy].buf) ELSE bufs

\* A view of a mapped file has the finaliser of the file.
caml_ba_mapped_finalize(i) ==
    LET a == arrays[i] IN
    /\ "MAPPED_FILE" \in a.managed /\ Finalised(i)
    /\ bufs' = IF a.proxy = NULL THEN Unmapped(a, a.buf, caml_ba_byte_size(a))
               ELSE IF IsLast(a)
               THEN Unmapped(a, proxies[a.proxy].buf, proxies[a.proxy].size) ELSE bufs

-----------------------------------------------------------------------------
(* Marshalling, comparison, hashing.                                       *)

\* A dimension in two bytes, or the escape and eight; the integers of the
\* machine in four bytes each when they all fit.
Escape == 3
DimOut(d) == IF d < Escape THEN <<d>> ELSE <<Escape, d>>
RECURSIVE DimsOut(_)
DimsOut(dims) == IF dims = << >> THEN << >> ELSE DimOut(Head(dims)) \o DimsOut(Tail(dims))
RECURSIVE DimsIn(_, _)
DimsIn(n, s) ==
    IF n = 0 THEN << >>
    ELSE IF s[1] = Escape THEN <<s[2]>> \o DimsIn(n - 1, SubSeq(s, 3, Len(s)))
    ELSE <<s[1]>> \o DimsIn(n - 1, Tail(s))

Half32(kind) == IF kind = "int" THEN 2 ELSE 4      \* 2^30 and 2^31
Truncate32(x) == LET y == x % 8 IN IF y >= 4 THEN y - 8 ELSE y
FitsIn32(kind, s) == \A i \in DOMAIN s : s[i] >= 0 - Half32(kind) /\ s[i] < Half32(kind)
LongsOut(kind, s) ==
    IF FitsIn32(kind, s) THEN [i \in DOMAIN s |-> Truncate32(s[i])] ELSE s

caml_ba_serialize(a) ==
    [num_dims |-> Len(a.dims), kind |-> a.kind, layout |-> a.layout,
     dims |-> DimsOut(a.dims),
     data |-> IF a.kind \in {"int", "native"} THEN LongsOut(a.kind, Contents(a))
              ELSE Contents(a)]

\* caml_ba_deserialize: a new array with data of its own.
caml_ba_deserialize(t, i) ==
    LET m == caml_ba_serialize(arrays[i])
        dims == DimsIn(m.num_dims, m.dims)
        n == Len(m.data)
    IN  /\ Runs(t) /\ Spend("marshals")
        /\ bufs' = Append(bufs, [NewBuf(n, "malloc") EXCEPT !.cells =
                                   [k \in 0 .. n - 1 |-> Stored(m.kind, m.data[k + 1])]])
        /\ arrays' = Append(arrays, Struct(m.kind, m.layout, {"MANAGED"}, dims,
                              Len(bufs) + 1, 0,
                              [sort |-> "copy", parent |-> i, arg |-> Contents(arrays[i])]))
        /\ UNCHANGED <<proxies, thr, lock>>

\* caml_ba_compare.  Two floats that are neither less nor greater nor equal:
\* one of them is not a number, and it comes first.
Number(x) == IF x = NegZero THEN 0 ELSE x
Compare1(kind, x, y) ==
    IF kind \notin Floats THEN IF x < y THEN -1 ELSE IF x > y THEN 1 ELSE 0
    ELSE IF IsNaN(x) THEN IF IsNaN(y) THEN 0 ELSE -1
    ELSE IF IsNaN(y) THEN 1
    ELSE IF Number(x) < Number(y) THEN -1 ELSE IF Number(x) > Number(y) THEN 1 ELSE 0
RECURSIVE Lexico(_, _, _)
Lexico(kind, s, u) ==
    IF s = << >> THEN 0
    ELSE IF Compare1(kind, Head(s), Head(u)) # 0 THEN Compare1(kind, Head(s), Head(u))
    ELSE Lexico(kind, Tail(s), Tail(u))
caml_ba_compare(a, b) ==
    IF Len(a.dims) # Len(b.dims) THEN IF Len(a.dims) > Len(b.dims) THEN -1 ELSE 1
    ELSE IF a.dims # b.dims THEN Lexico("int", a.dims, b.dims)
    ELSE Lexico(a.kind, Contents(a), Contents(b))

\* caml_ba_hash mixes the first elements; a NaN and a zero are made unique.
HashLimit == [uint8 |-> 4, sint8 |-> 4, float |-> 2, complex |-> 2, int |-> 2, native |-> 2]
Mixed(kind, x) ==
    IF kind \notin Floats THEN x ELSE IF IsNaN(x) THEN NaN1 ELSE Number(x)
caml_ba_hash(a) ==
    LET s == Contents(a)
        n == IF Len(s) > HashLimit[a.kind] THEN HashLimit[a.kind] ELSE Len(s)
    IN  [k \in 1 .. n |-> Mixed(a.kind, s[k])]

-----------------------------------------------------------------------------
Usable == {i \in DOMAIN arrays : arrays[i].rooted}
Op(t) ==
    \/ \E k \in world.kinds, l \in world.layouts, d \in world.shapes :
          \/ "ocaml" \in world.managed /\ caml_ba_create(t, k, l, d)
          \/ "other" \in world.managed /\ External(t, k, l, d)
          \/ "file" \in world.managed /\
                \E size \in world.sizes, free \in BOOLEAN, start \in {0, 1} :
                    caml_unix_map_file(t, k, l,
                        IF free /\ d # << >>
                        THEN [d EXCEPT ![IF l = "c" THEN 1 ELSE Len(d)] = -1] ELSE d, size, start)
    \/ \E i \in Usable :
          \/ \E inds \in UNION {[1 .. n -> 0 .. 2] : n \in 0 .. 2} : caml_ba_slice(t, i, inds)
          \/ caml_ba_change_layout(t, i)
          \/ \E ofs \in 0 .. 2, len \in 0 .. 2 : caml_ba_sub(t, i, ofs, len)
          \/ \E d \in world.reshapes : caml_ba_reshape(t, i, d)
          \/ \E x \in IndexSet(arrays[i]), v \in world.values : caml_ba_set(t, i, x, v)
          \/ \E x \in 0 .. 3, n \in {2, 3}, v \in {6, 27} : caml_ba_uint8_set(t, i, x, n, v)
          \/ \E j \in Usable : caml_ba_blit(t, i, j)
          \/ \E v \in world.values : caml_ba_fill(t, i, v)
          \/ caml_ba_deserialize(t, i)

Next ==
    /\ \/ \E t \in Threads : Op(t) \/ caml_ba_update_proxy(t) \/ EndCopy(t)
       \/ \E i \in DOMAIN arrays : Forget(i) \/ caml_ba_finalize(i) \/ caml_ba_mapped_finalize(i)
    /\ UNCHANGED world

Spec == Init /\ [][Next]_vars
-----------------------------------------------------------------------------
Live == {i \in DOMAIN arrays : arrays[i].live}
Settled == \A t \in Threads : thr[t].pc # "proxy"

\* The element of the parent that an element of a view stands for.
ParentIndex(a, x) ==
    LET p == arrays[a.from.parent]
        arg == a.from.arg
    IN  CASE a.from.sort = "slice" -> IF a.layout = "c" THEN arg \o x ELSE x \o arg
          [] a.from.sort = "sub" ->
               LET k == IF a.layout = "c" THEN 1 ELSE Len(x)
               IN  [x EXCEPT ![k] = @ + arg[1] - First(a.layout)]
          [] a.from.sort = "layout" ->
               [k \in DOMAIN x |-> Reversed(x)[k] + First(p.layout) - First(a.layout)]

\* Views are views: every element is the element of the parent the
\* documentation says, and those of a reshaped array are all the parent's.
ViewsRight ==
    \A i \in Live : LET a == arrays[i] IN
        CASE a.from.sort \in {"slice", "sub", "layout"} ->
               \A x \in IndexSet(a) :
                   Where(a, x) = Where(arrays[a.from.parent], ParentIndex(a, x))
          [] a.from.sort = "reshape" ->
               {Where(a, x) : x \in IndexSet(a)}
               = {Where(arrays[a.from.parent], x) : x \in IndexSet(arrays[a.from.parent])}
          [] a.from.sort \in {"new", "copy"} ->
               Cardinality({Where(a, x) : x \in IndexSet(a)}) = Product(a.dims)

\* The mapping that a view is a view of, through other views.
RECURSIVE RootOf(_)
RootOf(i) == IF arrays[i].from = Root \/ arrays[i].from.sort = "copy" THEN i
             ELSE RootOf(arrays[i].from.parent)

\* Data is there as long as an array that is not finalised, or a copy under
\* way, can reach it; it is given back once, in the way it was obtained, and
\* the flags say which way.  The views of an empty mapping are excepted from
\* the last two: caml_ba_alloc (bigarray.c:111-113) gives them data and a flag
\* of their own, their finaliser takes the data for the mapping's, so that the
\* assertion at mmap_ba.c:32 fails, or the data ("void") is never freed.
DataRight ==
    /\ \A i \in Live : arrays[i].buf # NULL => bufs[arrays[i].buf].freed = 0
    /\ \A b \in DOMAIN bufs :
          bufs[b].freed <= 1 /\ (bufs[b].how = "static" => bufs[b].freed = 0)
    /\ \A b \in DOMAIN bufs : bufs[b].freed = 1 => bufs[b].unmapped = bufs[b].mapped
    /\ \A i \in Live : \A x \in IndexSet(arrays[i]) :
          LET a == arrays[i] IN Elems(CellsOf(a, caml_ba_offset(a, x)))
                                \subseteq DOMAIN bufs[a.buf].cells
    /\ Settled => \A p \in DOMAIN proxies :
          proxies[p].refcount = Cardinality({i \in Live : arrays[i].proxy = p})
    /\ (Live = {} /\ Settled) =>
          \A b \in DOMAIN bufs : bufs[b].how \notin {"static", "void"} => bufs[b].freed = 1
    /\ \A i \in Live : Cardinality(arrays[i].managed) <= 1 \/ arrays[RootOf(i)].buf = NULL

\* A wide access that is allowed stays inside the array.
WideRight ==
    \A i \in Live : LET a == arrays[i] IN
        (a.kind \in Bytes /\ Len(a.dims) = 1) =>
            \A x \in 0 .. 3, n \in {2, 3} :
                WideFits(a, x, n) => /\ x + n <= a.dims[1]
                                     /\ caml_ba_uint8_get(a, x, n) < Byte ^ n

\* Comparison is antisymmetric, equal arrays have equal hashes, and what is
\* read back is what was written out.
ContentsRight ==
    /\ \A i, j \in Live :
         LET a == arrays[i]
             b == arrays[j]
         IN  (a.kind = b.kind /\ a.layout = b.layout /\ NULL \notin {a.buf, b.buf}) =>
               /\ caml_ba_compare(a, b) = 0 - caml_ba_compare(b, a)
               /\ caml_ba_compare(a, b) = 0 => caml_ba_hash(a) = caml_ba_hash(b)
    /\ \A i \in Live : LET a == arrays[i] IN
         a.from.sort = "copy" /\ left.writes = world.left.writes =>
             /\ a.dims = arrays[a.from.parent].dims
             /\ left.copies = world.left.copies => Contents(a) = a.from.arg

\* Bigarrays that share data: what a view shows, how long the data lives
\* (with copies outside the runtime lock and finalisers in between), what
\* comparing, hashing and marshalling make of the contents.
BigarrayRight == ViewsRight /\ DataRight /\ WideRight /\ ContentsRight
=============================================================================
