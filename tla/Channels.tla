------------------------------ MODULE Channels ------------------------------
(* Buffered channels (runtime/io.c, with the system calls of                 *)
(* runtime/unix.c): threads use an output channel and an input channel.  A   *)
(* channel operation holds the channel's lock, except while a signal handler *)
(* runs in check_pending; closing does not take it.  A write may be partial, *)
(* interrupted, or fail; a read may be short or interrupted.  caml_ml_out_   *)
(* channels_list and the finaliser share the list of opened channels.        *)
EXTENDS Integers, Sequences, FiniteSets, SequencesExt

CONSTANT Worlds       \* [prog: thread -> operations, size: of a buffer, content: of the
                      \*  file read, signals, raises, fails]
VARIABLES world, out, inn, os, thr, ref

vars == <<world, out, inn, os, thr, ref>>

Threads == DOMAIN world.prog
NEWLINE == "\n"
Free == 0                        \* no thread holds the lock

\* The program's view (ref): bytes accepted and where, position of the reader, and
\* whether every result so far was right.  thr[t].left: the call of t under way gave
\* the lock up in check_pending.
Init ==
    /\ world \in Worlds
    /\ out = [fd |-> TRUE, max |-> "NULL", buff |-> <<>>, offset |-> 0, unbuffered |-> FALSE,
              lock |-> Free, linked |-> TRUE, refcount |-> 1, vals |-> 1, freed |-> FALSE]
    /\ inn = [fd |-> TRUE, buff |-> <<>>, curr |-> 0, offset |-> 0, lock |-> Free]
    /\ os = [file |-> <<>>, wpos |-> 0, rpos |-> 0, signals |-> world.signals, pending |-> FALSE]
    /\ thr = [t \in Threads |-> [ip |-> 1, pc |-> "idle", d |-> <<>>, flush |-> FALSE, n |-> 0,
                                 listed |-> FALSE, left |-> FALSE]]
    /\ ref = [file |-> <<>>, wpos |-> 0, rpos |-> 0, ok |-> TRUE]

Op(t) == world.prog[t][thr[t].ip]
IsOut(t) == Op(t).op \in {"char", "bytes", "flush", "seek_out", "close_out", "unbuffered", "flush_all"}
Lock(t) == IF IsOut(t) THEN out.lock ELSE inn.lock

\* File f with bytes d at offset p; a gap reads as zeros.
Overlay(f, p, d) ==
    [i \in 1 .. (IF d # <<>> /\ p + Len(d) > Len(f) THEN p + Len(d) ELSE Len(f)) |->
        IF i > p /\ i <= p + Len(d) THEN d[i - p] ELSE IF i <= Len(f) THEN f[i] ELSE "0"]

Goto(t, pc) == thr' = [thr EXCEPT ![t].pc = pc]
Done(t) == thr' = [thr EXCEPT ![t].pc = "idle", ![t].ip = @ + 1, ![t].flush = FALSE, ![t].d = <<>>,
                              ![t].left = FALSE]

\* caml_ml_... entry points: take the lock.  Flushing a closed channel does nothing.
Start(t) ==
    LET op == Op(t).op
        flushes == op \in {"flush", "seek_out", "close_out", "unbuffered", "flush_all"}
    IN  /\ thr[t].pc = "idle" /\ thr[t].ip <= Len(world.prog[t])
        /\ op \notin {"drop", "close_in"} /\ (op = "flush_all" => thr[t].listed)
        /\ IF flushes /\ op # "seek_out" /\ ~out.fd
           THEN Done(t) /\ UNCHANGED <<out, inn>>
           ELSE /\ Lock(t) = Free
                /\ out' = IF IsOut(t) THEN [out EXCEPT !.lock = t,
                                                      !.unbuffered = @ \/ op = "unbuffered"] ELSE out
                /\ inn' = IF IsOut(t) THEN inn ELSE [inn EXCEPT !.lock = t]
                /\ thr' = [thr EXCEPT ![t].flush = flushes,
                       ![t].d = IF op \in {"char", "bytes"} THEN Op(t).d ELSE <<>>,
                       ![t].pc = IF flushes \/ op \in {"input", "line"} THEN "pending" ELSE "work"]
        /\ UNCHANGED <<world, os, ref>>

Accept(d) ==
    ref' = [ref EXCEPT !.file = Overlay(@, ref.wpos, d), !.wpos = @ + Len(d)]

\* Putch and caml_putblock: fill the buffer, and flush it when it is full.
Output(t) ==
    LET d == thr[t].d
        free == world.size - Len(out.buff)
        n == IF Len(d) < free \/ Op(t).op = "char" THEN Len(d) ELSE free
        full == IF Op(t).op = "char" THEN free = 0 ELSE Len(d) >= free
    IN  /\ thr[t].pc = "work" /\ IsOut(t) /\ d # <<>>
        /\ IF Op(t).op = "char" /\ full THEN Goto(t, "pending") /\ UNCHANGED <<out, ref>>
           ELSE /\ out' = [out EXCEPT !.buff = @ \o SubSeq(d, 1, n)]
                /\ Accept(SubSeq(d, 1, n))
                /\ thr' = [thr EXCEPT ![t].d = SubSeq(d, n + 1, Len(d)),
                                      ![t].pc = IF full THEN "pending" ELSE "work"]
        /\ UNCHANGED <<world, inn, os>>

\* Flush_if_unbuffered, then Unlock.
OutputEnd(t) ==
    /\ thr[t].pc = "work" /\ IsOut(t) /\ thr[t].d = <<>>
    /\ IF out.unbuffered THEN thr' = [thr EXCEPT ![t].pc = "pending", ![t].flush = TRUE] /\ UNCHANGED out
       ELSE Done(t) /\ out' = [out EXCEPT !.lock = Free]
    /\ UNCHANGED <<world, inn, os, ref>>

\* last_channel_locked is unlocked when an exception is raised.
Unlocked(c, t) == IF c.lock = t THEN [c EXCEPT !.lock = Free] ELSE c
Raise(t) ==
    /\ Done(t)
    /\ out' = Unlocked(out, t) /\ inn' = Unlocked(inn, t)

\* A signal arrives: it is handled at the next check_pending.
Signal ==
    /\ os.signals > 0 /\ ~os.pending
    /\ os' = [os EXCEPT !.signals = @ - 1, !.pending = TRUE]
    /\ UNCHANGED <<world, out, inn, thr, ref>>

check_pending(t) ==
    /\ thr[t].pc = "pending"
    /\ IF os.pending
       THEN /\ os' = [os EXCEPT !.pending = FALSE]
            /\ out' = Unlocked(out, t) /\ inn' = Unlocked(inn, t)
            /\ thr' = [thr EXCEPT ![t].pc = "handler", ![t].left = TRUE]
       ELSE Goto(t, "sys") /\ UNCHANGED <<os, out, inn>>
    /\ UNCHANGED <<world, ref>>

HandlerReturns(t) ==
    /\ thr[t].pc = "handler" /\ Lock(t) = Free
    /\ out' = IF IsOut(t) THEN [out EXCEPT !.lock = t] ELSE out
    /\ inn' = IF IsOut(t) THEN inn ELSE [inn EXCEPT !.lock = t]
    /\ Goto(t, "sys")
    /\ UNCHANGED <<world, os, ref>>

HandlerRaises(t) ==
    /\ thr[t].pc = "handler" /\ world.raises
    /\ Raise(t)
    /\ UNCHANGED <<world, os, ref>>

Unread == SubSeq(inn.buff, inn.curr + 1, Len(inn.buff))

\* caml_refill reads without looking at the buffer; the others when it has nothing to give.
Reads(t) ==
    CASE Op(t).op = "in_char" -> TRUE
      [] Op(t).op = "input" -> Unread = <<>>
      [] Op(t).op = "line" -> Len(Unread) < world.size /\ ~Contains(Unread, NEWLINE)
      [] OTHER -> FALSE

Interrupted(t) ==
    /\ thr[t].pc = "sys" /\ os.pending
    /\ (IF IsOut(t) THEN out.buff # <<>> /\ out.fd ELSE inn.fd /\ Reads(t))
    /\ Goto(t, "pending")
    /\ UNCHANGED <<world, out, inn, os, ref>>

\* After caml_flush_partial.
Flushed(t, buff) ==
    IF ~thr[t].flush THEN "work" ELSE IF buff = <<>> THEN "end" ELSE "pending"

caml_flush_partial(t) ==
    /\ thr[t].pc = "sys" /\ IsOut(t)
    /\ IF out.buff = <<>> THEN Goto(t, Flushed(t, <<>>)) /\ UNCHANGED <<out, inn, os>>
       ELSE IF ~out.fd THEN Raise(t) /\ UNCHANGED os
       ELSE \E n \in 1 .. Len(out.buff) :
               /\ os' = [os EXCEPT !.file = Overlay(@, os.wpos, SubSeq(out.buff, 1, n)), !.wpos = @ + n]
               /\ thr' = [thr EXCEPT ![t].pc = "wrote", ![t].n = n]
               /\ UNCHANGED <<out, inn>>
    /\ UNCHANGED <<world, ref>>

WriteFails(t) ==
    /\ thr[t].pc = "sys" /\ IsOut(t) /\ out.buff # <<>> /\ world.fails
    /\ Raise(t)
    /\ UNCHANGED <<world, os, ref>>

\* As Wrote, without moving what was not written to the start of the buffer.
WroteUnmoved(t) ==
    LET rest == SubSeq(out.buff, 1, Len(out.buff) - thr[t].n)
    IN  /\ thr[t].pc = "wrote"
        /\ out' = [out EXCEPT !.offset = @ + thr[t].n, !.buff = rest]
        /\ Goto(t, Flushed(t, rest))
        /\ UNCHANGED <<world, inn, os, ref>>

Wrote(t) ==
    LET rest == SubSeq(out.buff, thr[t].n + 1, Len(out.buff))
    IN  /\ thr[t].pc = "wrote"
        /\ out' = [out EXCEPT !.offset = @ + thr[t].n, !.buff = rest]
        /\ Goto(t, Flushed(t, rest))
        /\ UNCHANGED <<world, inn, os, ref>>

\* caml_seek_out, and the end of the calls that flush.
FlushEnd(t) ==
    LET op == Op(t)
    IN  /\ thr[t].pc = "end"
        /\ out' = [out EXCEPT !.lock = Free, !.offset = IF op.op = "seek_out" THEN op.p ELSE @]
        /\ os' = [os EXCEPT !.wpos = IF op.op = "seek_out" THEN op.p ELSE @]
        /\ ref' = [ref EXCEPT !.wpos = IF op.op = "seek_out" THEN op.p ELSE @]
        /\ IF op.op = "close_out" THEN Goto(t, "close") ELSE Done(t)
        /\ UNCHANGED <<world, inn>>

\* Every later read or write finds the buffer exhausted.
Junk == [i \in 1 .. world.size |-> "?"]
caml_ml_close_channel(t) ==
    /\ \/ thr[t].pc = "close"
       \/ thr[t].pc = "idle" /\ thr[t].ip <= Len(world.prog[t]) /\ Op(t).op = "close_in"
    /\ IF Op(t).op = "close_in"
       THEN /\ inn' = [inn EXCEPT !.fd = FALSE, !.buff = Junk, !.curr = world.size]
            /\ UNCHANGED out
       ELSE /\ out' = [out EXCEPT !.fd = FALSE, !.max = "end", !.buff = Junk]
            /\ UNCHANGED inn
    /\ Done(t)
    /\ UNCHANGED <<world, os, ref>>

-----------------------------------------------------------------------------
(* Input.                                                                    *)

\* The program gets d: the bytes of the file after those that are skipped.
DeliverAfter(t, skipped, d) ==
    LET p == ref.rpos + skipped
    IN  /\ ref' = [ref EXCEPT !.rpos = p + Len(d),
                              !.ok = /\ @ /\ d = SubSeq(world.content, p + 1, p + Len(d))
                                     /\ skipped # 0 => thr[t].left]
        /\ Done(t)
Deliver(t, d) == DeliverAfter(t, 0, d)

\* The program is told that the file is at its end.
DeliverEnd(t) ==
    /\ ref' = [ref EXCEPT !.ok = @ /\ (ref.rpos >= Len(world.content) \/ thr[t].left)]
    /\ Done(t)

\* The program is told the length of the next line, negative without a newline.
DeliverLine(t, n) ==
    LET m == IF n < 0 THEN -n ELSE n
        d == SubSeq(world.content, ref.rpos + 1, ref.rpos + m)
    IN  /\ ref' = [ref EXCEPT !.ok = /\ @ /\ Len(d) = m
                                     /\ \A i \in 1 .. m : (d[i] = NEWLINE) = (n > 0 /\ i = m)
                                     /\ (n = 0 => ref.rpos = Len(world.content))]
        /\ Done(t)

Unlock(c) == [c EXCEPT !.lock = Free]

caml_getch(t) ==
    /\ thr[t].pc = "work" /\ Op(t).op = "in_char"
    /\ IF inn.curr < Len(inn.buff)
       THEN /\ Deliver(t, <<inn.buff[inn.curr + 1]>>)
            /\ inn' = Unlock([inn EXCEPT !.curr = @ + 1])
       ELSE Goto(t, "pending") /\ UNCHANGED <<inn, ref>>
    /\ UNCHANGED <<world, out, os>>

caml_ml_input(t) ==
    LET avail == Len(inn.buff) - inn.curr
        n == IF Op(t).n < avail THEN Op(t).n ELSE avail
    IN  /\ thr[t].pc = "sys" /\ Op(t).op = "input" /\ avail > 0
        /\ Deliver(t, SubSeq(Unread, 1, n))
        /\ inn' = Unlock([inn EXCEPT !.curr = @ + n])
        /\ UNCHANGED <<world, out, os>>

\* A line found in the buffer, or a full buffer without one.
caml_input_scan_line(t) ==
    LET i == SelectInSeq(Unread, LAMBDA c : c = NEWLINE)
        shifted == [inn EXCEPT !.buff = Unread, !.curr = 0]
    IN  /\ thr[t].pc = "sys" /\ Op(t).op = "line"
        /\ i > 0 \/ Len(Unread) = world.size
        /\ DeliverLine(t, IF i > 0 THEN i ELSE -Len(Unread))
        /\ inn' = Unlock(IF i > 0 THEN inn ELSE shifted)
        /\ UNCHANGED <<world, out, os>>

\* The read of caml_refill, caml_ml_input and caml_input_scan_line.
caml_read_fd(t) ==
    LET op == Op(t).op
        keep == IF op = "line" THEN Unread ELSE <<>>
        left == Len(world.content) - os.rpos
        room == world.size - Len(keep)
    IN  /\ thr[t].pc = "sys" /\ op \in {"in_char", "input", "line"}
        /\ Reads(t)
        /\ IF ~inn.fd THEN Raise(t) /\ UNCHANGED os
           ELSE /\ \E n \in 0 .. room :
                      /\ n <= left /\ (n = 0 <=> left = 0)
                      /\ thr' = [thr EXCEPT ![t].pc = "read", ![t].n = n,
                                     ![t].d = SubSeq(world.content, os.rpos + 1, os.rpos + n)]
                      /\ os' = [os EXCEPT !.rpos = @ + n]
                /\ UNCHANGED <<out, inn>>
        /\ UNCHANGED <<world, ref>>

\* What each of them does with the bytes; caml_raise_end_of_file in caml_refill, which
\* overwrites what another thread has put in the buffer and not read.
ReadReturns(t) ==
    LET op == Op(t)
        d == thr[t].d
        n == IF op.op = "in_char" THEN 1 ELSE IF op.op = "input" /\ op.n < Len(d) THEN op.n ELSE Len(d)
        moved == [inn EXCEPT !.offset = @ + Len(d), !.buff = d, !.curr = n]
    IN  /\ thr[t].pc = "read"
        /\ CASE op.op = "line" /\ d # <<>> ->
                  /\ inn' = [inn EXCEPT !.offset = @ + Len(d), !.buff = Unread \o d, !.curr = 0]
                  /\ Goto(t, "sys") /\ UNCHANGED ref
             [] op.op = "line" /\ d = <<>> ->
                  /\ inn' = Unlock([inn EXCEPT !.buff = Unread, !.curr = 0])
                  /\ DeliverLine(t, -Len(Unread))
             [] op.op = "in_char" /\ d = <<>> -> DeliverEnd(t) /\ inn' = Unlock(inn)
             [] OTHER -> inn' = Unlock(moved) /\ DeliverAfter(t, inn.offset - ref.rpos, SubSeq(d, 1, n))
        /\ UNCHANGED <<world, out, os>>

\* Within the buffer, or by lseek.
caml_seek_in(t) ==
    LET dest == Op(t).p
    IN  /\ thr[t].pc = "work" /\ Op(t).op = "seek_in"
        /\ IF dest >= inn.offset - Len(inn.buff) /\ dest <= inn.offset
           THEN inn' = Unlock([inn EXCEPT !.curr = Len(inn.buff) - (inn.offset - dest)]) /\ UNCHANGED os
           ELSE /\ inn' = Unlock([inn EXCEPT !.offset = dest, !.buff = <<>>, !.curr = 0])
                /\ os' = [os EXCEPT !.rpos = dest]
        /\ ref' = [ref EXCEPT !.rpos = dest]
        /\ Done(t)
        /\ UNCHANGED <<world, out>>

caml_pos_in == inn.offset - (Len(inn.buff) - inn.curr)
caml_pos_out == out.offset + Len(out.buff)

-----------------------------------------------------------------------------
(* The list of channels and their finalisation.                              *)

\* caml_ml_out_channels_list: the count is raised under the list's lock.
ListChannels(t) ==
    /\ thr[t].pc = "idle" /\ thr[t].ip <= Len(world.prog[t]) /\ Op(t).op = "flush_all" /\ ~thr[t].listed
    /\ IF out.linked /\ out.max = "NULL"
       THEN Goto(t, "listing") /\ out' = [out EXCEPT !.refcount = @ + 1]
       ELSE Done(t) /\ UNCHANGED out
    /\ UNCHANGED <<world, inn, os, ref>>

caml_alloc_channel(t) ==
    /\ thr[t].pc = "listing"
    /\ out' = [out EXCEPT !.refcount = (@ + 1) - 1, !.vals = @ + 1]
    /\ thr' = [thr EXCEPT ![t].pc = "idle", ![t].listed = TRUE]
    /\ UNCHANGED <<world, inn, os, ref>>

\* caml_finalize_channel, in two steps: the list's lock is not held between them.
FinalizeUnlink(t) ==
    /\ thr[t].pc = "idle" /\ thr[t].ip <= Len(world.prog[t]) /\ Op(t).op = "drop"
    /\ out' = [out EXCEPT !.linked = FALSE, !.vals = @ - 1]
    /\ Goto(t, "final")
    /\ UNCHANGED <<world, inn, os, ref>>

Unflushed == out.max = "NULL" /\ out.buff # <<>>

caml_finalize_channel(t) ==
    /\ thr[t].pc = "final"
    /\ out' = [out EXCEPT !.refcount = @ - 1, !.linked = out.refcount > 1,
                          !.freed = out.refcount <= 1 /\ ~Unflushed]
    /\ Done(t)
    /\ UNCHANGED <<world, inn, os, ref>>

Step(t) ==
    \/ Start(t) \/ Output(t) \/ OutputEnd(t) \/ check_pending(t) \/ HandlerReturns(t)
    \/ HandlerRaises(t) \/ Interrupted(t) \/ caml_flush_partial(t) \/ WriteFails(t) \/ Wrote(t)
    \/ FlushEnd(t) \/ caml_ml_close_channel(t) \/ caml_getch(t) \/ caml_ml_input(t)
    \/ caml_input_scan_line(t) \/ caml_read_fd(t) \/ ReadReturns(t) \/ caml_seek_in(t)
    \/ ListChannels(t) \/ caml_alloc_channel(t) \/ FinalizeUnlink(t) \/ caml_finalize_channel(t)

Next == Signal \/ \E t \in Threads : Step(t)

Spec == Init /\ [][Next]_vars

-----------------------------------------------------------------------------

Between(pcs) == \E t \in Threads : thr[t].pc \in pcs

\* While the channel is open, the file with the buffer laid over it at the channel's
\* offset is what the program has written, and the positions agree, although writes are
\* partial, interrupted, fail, or find that a handler or another thread used the
\* channel; the bytes and lines read are the consecutive ones of the file, the end of the
\* file is told at its end, and pos_in tells where they end; the channel is not freed
\* while a list or a value refers to it.  One case is excepted: a caml_refill that gave
\* the lock up in check_pending (io.c:361) does not look again at the buffer, so that
\* the bytes another thread has put there meanwhile are skipped, or the end of the file
\* is told before them.
ChannelsRight ==
    /\ out.fd => /\ Overlay(os.file, out.offset, out.buff) = ref.file
                 /\ caml_pos_out = ref.wpos
                 /\ Between({"wrote"}) \/ os.wpos = out.offset
    /\ ref.ok
    /\ inn.fd /\ ~Between({"read"}) => caml_pos_in = ref.rpos /\ os.rpos = inn.offset
    /\ out.freed => out.vals = 0 /\ ~Between({"listing"})
=============================================================================
