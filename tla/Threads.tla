------------------------------ MODULE Threads ------------------------------
(* The system threads of one domain (otherlibs/systhreads, posix), the       *)
(* mutexes and conditions of runtime/sync.c, and the signals of              *)
(* runtime/signals.c: the master lock and its hand-over, the list of thread  *)
(* blocks, the tick thread, blocking sections that handle signals first.     *)
(* Caml_state is the pair <<thread, steps>> of the runtime state it holds.   *)
EXTENDS Integers, Sequences, FiniteSets, SequencesExt

CONSTANT Worlds   \* [prog, kind, sends, ticks, raises, fails, alone, ignore]

VARIABLES world, tab, ml, thr, sig, sync

vars == <<world, tab, ml, thr, sig, sync>>

NULL == 0
Backup == -1                      \* the backup thread of Domains
Ts == DOMAIN world.prog
AllSignals == 1 .. 2              \* signal numbers, in the order they are scanned

Op(t) == IF thr[t].ip <= Len(world.prog[t]) THEN world.prog[t][thr[t].ip] ELSE [op |-> "end"]

-----------------------------------------------------------------------------
(* The pending signals.                                                      *)

\* Bit i of caml_pending_signals; a signal that is not handled leaves no trace.
caml_record_signal(p, s) == IF s <= 0 THEN p ELSE p \cup {s}

\* The next bit to handle, scanning upwards from j, as caml_process_pending_signals_exn.
NextSignal(p, mask, j) ==
    LET S == {s \in p \ mask : s >= j}
    IN  IF S = {} THEN NULL ELSE CHOOSE s \in S : \A u \in S : s <= u

\* Programs number the signals -1, -2, ...
posix_signals == <<2, 1>>
caml_convert_signal_number(n) ==
    IF n < 0 /\ n >= -Len(posix_signals) THEN posix_signals[-n] ELSE n
st_decode_sigset(S) == {caml_convert_signal_number(n) : n \in S}

-----------------------------------------------------------------------------
(* The list of threads and the runtime state of the current one.             *)

Follower(l, t) == LET i == CHOOSE i \in DOMAIN l : l[i] = t IN l[(i % Len(l)) + 1]
InsertAfter(l, t, u) == LET i == CHOOSE i \in DOMAIN l : l[i] = t IN InsertAt(l, i + 1, u)

caml_thread_save_runtime_state(b, cur) == [b EXCEPT !.info[cur] = b.state]
caml_thread_restore_runtime_state(b) == [b EXCEPT !.state = b.info[b.current]]

\* Current_thread is the thread the key of this system thread refers to.
Enter(b, t) == caml_thread_restore_runtime_state([b EXCEPT !.current = t])
Leave(b, t) == caml_thread_save_runtime_state([b EXCEPT !.current = t], t)

caml_thread_new_info(b, t) == [b EXCEPT !.info[t] = <<t, 0>>]

caml_thread_remove_info(b, t) ==
    [b EXCEPT !.all = IF Len(b.list) = 1 THEN NULL ELSE IF @ = t THEN Follower(b.list, t) ELSE @,
              !.list = Remove(@, t), !.info[t] = <<NULL, 0>>]

Init ==
    /\ world \in Worlds
    /\ tab = [list |-> <<1>>, all |-> 1, current |-> 1, state |-> <<1, 0>>,
              info |-> [t \in Ts |-> <<NULL, 0>>],
              running |-> FALSE, tick |-> "none", stop |-> FALSE, req |-> FALSE, ticks |-> world.ticks]
    /\ ml = [lock |-> NULL, busy |-> TRUE, waiters |-> 0, sleeping |-> {}, woken |-> {},
             domain |-> 1, bt |-> "entering"]
    /\ thr = [t \in Ts |-> [pc |-> IF t = 1 THEN "run" ELSE IF world.kind[t] = "c" THEN "outside" ELSE "none",
                            ip |-> 1, n |-> 0, mask |-> {}, old |-> {}, j |-> 1,
                            cont |-> "op", after |-> "finish", tgt |-> NULL, holds |-> {}]]
    /\ sig = [pending |-> {}, toSend |-> world.sends, handled |-> {}, sent |-> {}, ignored |-> world.ignore]
    /\ sync = [owner |-> [m \in 1 .. 2 |-> NULL], waiting |-> {}, over |-> {}]

-----------------------------------------------------------------------------
(* The master lock.                                                          *)

\* pthread_cond_signal(is_free) after m: some sleeper wakes up.
Signalled(m) ==
    IF m.sleeping = {} THEN {m}
    ELSE {[m EXCEPT !.sleeping = @ \ {w}, !.woken = @ \cup {w}] : w \in m.sleeping}

st_bt_lock_release(m) ==
    [m EXCEPT !.bt = IF m.waiters = 0 THEN "blocking" ELSE @, !.domain = NULL]

\* st_masterlock_release: the records it can leave.
Released(m) == Signalled(st_bt_lock_release([m EXCEPT !.busy = FALSE]))

\* The loop of st_masterlock_acquire.
Try(t, m) ==
    IF m.busy
    THEN /\ ml' = [m EXCEPT !.waiters = @ + 1, !.sleeping = @ \cup {t}]
         /\ thr' = [thr EXCEPT ![t].pc = "waiting"]
    ELSE /\ ml' = [m EXCEPT !.busy = TRUE, !.lock = t]
         /\ thr' = [thr EXCEPT ![t].pc = "lockdomain"]

st_masterlock_acquire(t) ==
    /\ thr[t].pc = "leave" /\ ml.lock = NULL
    /\ Try(t, ml)
    /\ UNCHANGED <<world, tab, sig, sync>>

Woken(t) ==
    /\ thr[t].pc = "waiting" /\ t \in ml.woken /\ ml.lock = NULL
    /\ Try(t, [ml EXCEPT !.waiters = @ - 1, !.woken = @ \ {t}])
    /\ UNCHANGED <<world, tab, sig, sync>>

\* st_bt_lock_acquire with the lock of m held, then what the caller does first: a
\* thread that registers or unregisters does not become the current one.
st_bt_lock_acquire(t) ==
    /\ thr[t].pc = "lockdomain" /\ ml.domain = NULL
    /\ ml' = [ml EXCEPT !.lock = NULL, !.domain = t,
                        !.bt = IF @ = "blocking" THEN "entering" ELSE @]
    /\ thr' = [thr EXCEPT ![t].pc = thr[t].after, ![t].after = "finish"]
    /\ tab' = IF thr[t].after \in {"register", "unregister"} THEN tab ELSE Enter(tab, t)
    /\ UNCHANGED <<world, sig, sync>>

\* The backup thread serves an interrupt while no thread runs.
BackupServes ==
    /\ ml.bt = "blocking" /\ ml.domain = NULL
    /\ ml' = [ml EXCEPT !.domain = Backup]
    /\ UNCHANGED <<world, tab, thr, sig, sync>>

BackupDone ==
    /\ ml.domain = Backup
    /\ ml' = [ml EXCEPT !.domain = NULL]
    /\ UNCHANGED <<world, tab, thr, sig, sync>>

-----------------------------------------------------------------------------
(* Signals and blocking sections.                                            *)

Goto(t, pc) == thr' = [thr EXCEPT ![t].pc = pc]

\* The operation is over; a preemption resumes the one it interrupted.
Finished(t, f) ==
    [f EXCEPT ![t].pc = "run", ![t].ip = IF f[t].cont = "op" THEN @ + 1 ELSE @, ![t].cont = "op"]

\* A signal reaches a thread that does not block it: handle_signal or SIG_IGN.
Deliver(t) ==
    /\ thr[t].pc \notin {"none", "done"}
    /\ \E s \in sig.toSend \ thr[t].mask :
          sig' = [sig EXCEPT !.toSend = @ \ {s},
                             !.sent = IF s \in sig.ignored THEN @ ELSE @ \cup {s},
                             !.pending = IF s \in sig.ignored THEN @ ELSE caml_record_signal(@, s)]
    /\ UNCHANGED <<world, tab, ml, thr, sync>>

\* caml_process_pending_signals_exn: claim the next bit and block the signal.
caml_process_pending_signals(t) ==
    LET s == NextSignal(sig.pending, thr[t].mask, thr[t].j)
    IN  /\ thr[t].pc = "signals"
        /\ IF s = NULL
           THEN /\ thr' = IF thr[t].after = "finish" THEN Finished(t, thr)
                          ELSE [thr EXCEPT ![t].pc = thr[t].after, ![t].after = "finish"]
                /\ UNCHANGED sig
           ELSE /\ sig' = [sig EXCEPT !.pending = @ \ {s}, !.handled = @ \cup {s}]
                /\ thr' = [thr EXCEPT ![t].pc = "handler", ![t].j = s + 1,
                                      ![t].old = thr[t].mask, ![t].mask = @ \cup {s}]
        /\ UNCHANGED <<world, tab, ml, sync>>

\* caml_execute_signal_exn: the mask is restored even when the handler raises.
caml_execute_signal_exn(t) ==
    /\ thr[t].pc = "handler"
    /\ \/ thr' = [thr EXCEPT ![t].pc = "signals", ![t].mask = thr[t].old, ![t].old = {}]
       \/ /\ world.raises
          /\ thr' = Finished(t, [thr EXCEPT ![t].mask = thr[t].old, ![t].old = {}, ![t].after = "finish"])
    /\ UNCHANGED <<world, tab, ml, sig, sync>>

\* The pending signals are processed, then the runtime is released.
Blocking(t, f) == [f EXCEPT ![t].pc = "signals", ![t].j = 1, ![t].after = "enter"]

caml_enter_blocking_section(t) ==
    /\ thr[t].pc = "enter" /\ ml.lock = NULL
    /\ tab' = Leave(tab, t)
    /\ ml' \in Released(ml)
    /\ Goto(t, "recheck")
    /\ UNCHANGED <<world, sig, sync>>

\* A signal that came meanwhile is handled first.
CheckAgain(t) ==
    /\ thr[t].pc = "recheck"
    /\ thr' = IF sig.pending = {} THEN [thr EXCEPT ![t].pc = "blocked"]
              ELSE [thr EXCEPT ![t].pc = "leave", ![t].after = "again"]
    /\ UNCHANGED <<world, tab, ml, sig, sync>>

Again(t) ==
    /\ thr[t].pc = "again"
    /\ thr' = Blocking(t, thr)
    /\ UNCHANGED <<world, tab, ml, sig, sync>>

\* caml_leave_blocking_section, and back to the operation.
Back(t, f) == [f EXCEPT ![t].pc = "leave", ![t].after = "back"]

BackInOp(t) ==
    /\ thr[t].pc = "back"
    /\ thr' = IF Op(t).op = "sigmask" THEN [thr EXCEPT ![t].pc = "signals", ![t].j = 1]
              ELSE Finished(t, thr)
    /\ UNCHANGED <<world, tab, ml, sig, sync>>

\* What the system call does; a mutex that this thread holds makes an error.
Blocked(t) ==
    LET op == Op(t)
    IN  /\ thr[t].pc = "blocked"
        /\ CASE op.op = "block" -> thr' = Back(t, thr) /\ UNCHANGED <<sig, sync>>
             [] op.op \in {"join", "stop"} ->
                  /\ thr[t].tgt \in sync.over
                  /\ thr' = Back(t, thr) /\ UNCHANGED <<sig, sync>>
             [] op.op = "lock" ->
                  /\ sync.owner[op.m] \in {NULL, t}
                  /\ sync' = [sync EXCEPT !.owner[op.m] = t]
                  /\ thr' = Back(t, [thr EXCEPT ![t].holds = @ \cup {op.m}]) /\ UNCHANGED sig
             [] op.op = "wait" ->
                  /\ thr' = [thr EXCEPT ![t].pc = "sleeping", ![t].holds = @ \ {op.m}]
                  /\ sync' = [sync EXCEPT !.owner[op.m] = NULL, !.waiting = @ \cup {t}] /\ UNCHANGED sig
             [] op.op = "sigmask" ->
                  /\ thr' = Back(t, [thr EXCEPT ![t].mask = st_decode_sigset(op.set)]) /\ UNCHANGED <<sig, sync>>
             [] op.op = "wait_signal" ->
                  /\ sig.toSend \cap st_decode_sigset(op.set) # {}
                  /\ \E s \in sig.toSend \cap st_decode_sigset(op.set) : sig' = [sig EXCEPT !.toSend = @ \ {s}]
                  /\ thr' = Back(t, thr) /\ UNCHANGED sync
        /\ UNCHANGED <<world, tab, ml>>

\* pthread_cond_wait returns with the mutex.
Relock(t) ==
    /\ thr[t].pc = "sleeping" /\ t \notin sync.waiting
    /\ sync.owner[Op(t).m] = NULL
    /\ sync' = [sync EXCEPT !.owner[Op(t).m] = t]
    /\ thr' = Back(t, [thr EXCEPT ![t].holds = @ \cup {Op(t).m}])
    /\ UNCHANGED <<world, tab, ml, sig>>

-----------------------------------------------------------------------------
(* Yielding, and the tick thread that asks for it.                           *)

\* caml_thread_yield does nothing when nobody waits.
Yielding(t, f) ==
    IF ml.waiters = 0 THEN Finished(t, f)
    ELSE [f EXCEPT ![t].pc = "signals", ![t].j = 1, ![t].after = "yield"]

\* As st_thread_yield, without saving the runtime state before it.
YieldsUnsaved(t) ==
    /\ thr[t].pc = "yield" /\ ml.lock = NULL
    /\ IF ml.waiters = 0
       THEN thr' = [thr EXCEPT ![t].pc = "signals", ![t].j = 1] /\ UNCHANGED <<tab, ml>>
       ELSE /\ \E m \in Signalled([ml EXCEPT !.busy = FALSE, !.waiters = @ + 1, !.domain = NULL]) :
                  ml' = [m EXCEPT !.sleeping = @ \cup {t}]
            /\ Goto(t, "ywait")
            /\ UNCHANGED tab
    /\ UNCHANGED <<world, sig, sync>>

st_thread_yield(t) ==
    /\ thr[t].pc = "yield" /\ ml.lock = NULL
    /\ tab' = caml_thread_save_runtime_state(tab, tab.current)
    /\ IF ml.waiters = 0
       THEN thr' = [thr EXCEPT ![t].pc = "signals", ![t].j = 1] /\ UNCHANGED ml
       ELSE /\ \E m \in Signalled([ml EXCEPT !.busy = FALSE, !.waiters = @ + 1, !.domain = NULL]) :
                  ml' = [m EXCEPT !.sleeping = @ \cup {t}]
            /\ Goto(t, "ywait")
    /\ UNCHANGED <<world, sig, sync>>

YieldWoken(t) ==
    /\ thr[t].pc = "ywait" /\ t \in ml.woken /\ ml.lock = NULL
    /\ IF ml.busy
       THEN ml' = [ml EXCEPT !.woken = @ \ {t}, !.sleeping = @ \cup {t}] /\ UNCHANGED thr
       ELSE /\ ml' = [ml EXCEPT !.woken = @ \ {t}, !.busy = TRUE, !.waiters = @ - 1, !.lock = t]
            /\ Goto(t, "ylock")
    /\ UNCHANGED <<world, tab, sig, sync>>

YieldReturns(t) ==
    /\ thr[t].pc = "ylock" /\ ml.domain = NULL
    /\ ml' = [ml EXCEPT !.domain = t, !.lock = NULL]
    /\ tab' = Enter(tab, t)
    /\ thr' = [thr EXCEPT ![t].pc = "signals", ![t].j = 1, ![t].after = "finish"]
    /\ UNCHANGED <<world, sig, sync>>

\* caml_thread_tick: a request every Thread_timeout, until it is told to stop.
caml_thread_tick ==
    /\ tab.tick = "alive"
    /\ IF tab.stop THEN tab' = [tab EXCEPT !.tick = "gone"]
       ELSE tab.ticks > 0 /\ tab' = [tab EXCEPT !.req = TRUE, !.ticks = @ - 1]
    /\ UNCHANGED <<world, ml, thr, sig, sync>>

\* The running thread polls between two operations.
caml_thread_interrupt_hook(t) ==
    /\ thr[t].pc = "run" /\ tab.req
    /\ tab' = [tab EXCEPT !.req = FALSE]
    /\ thr' = Yielding(t, [thr EXCEPT ![t].cont = "poll"])
    /\ UNCHANGED <<world, ml, sig, sync>>

-----------------------------------------------------------------------------
(* The operations of a running thread.                                       *)

Runs(t, name) == thr[t].pc = "run" /\ Op(t).op = name

Compute(t) ==
    /\ Runs(t, "work")
    /\ tab' = [tab EXCEPT !.state[2] = @ + 1]
    /\ thr' = Finished(t, [thr EXCEPT ![t].n = @ + 1])
    /\ UNCHANGED <<world, ml, sig, sync>>

create_tick_thread(b) ==
    IF b.running THEN b ELSE [b EXCEPT !.running = TRUE, !.tick = "alive"]

\* The new thread starts with all signals blocked, then sets init_mask.
caml_thread_new(t) ==
    LET k == Op(t).k
    IN  /\ Runs(t, "new") /\ thr[k].pc = "none"
        /\ \/ LET listed == [caml_thread_new_info(tab, k) EXCEPT
                                 !.list = InsertAfter(@, tab.current, k)]
              IN  /\ \/ tab' = create_tick_thread(listed)
                     \/ world.fails /\ ~tab.running /\ tab' = listed   \* no tick thread: k runs all the same
                  /\ thr' = Finished(t, [thr EXCEPT ![k].pc = "leave", ![k].after = "start",
                                            ![k].mask = AllSignals])
           \/ /\ world.fails       \* no block: raises before the mask is restored
              /\ thr' = Finished(t, [thr EXCEPT ![t].mask = AllSignals]) /\ UNCHANGED tab
           \/ /\ world.fails       \* pthread_create fails: the block is removed again
              /\ thr' = Finished(t, thr) /\ UNCHANGED tab
        /\ UNCHANGED <<world, ml, sig, sync>>

\* init_mask is the mask that caml_thread_new filled, not the one it saved.
caml_thread_start(t) ==
    /\ thr[t].pc = "start"
    /\ thr' = [thr EXCEPT ![t].pc = "run", ![t].mask = AllSignals]
    /\ UNCHANGED <<world, tab, ml, sig, sync>>

\* The state of the next thread becomes current, for the backup thread.
caml_thread_stop(t) ==
    LET saved == caml_thread_save_runtime_state(tab, tab.current)
        next == Follower(tab.list, t)
    IN  /\ Runs(t, "end") /\ world.kind[t] = "ml" /\ ml.lock = NULL
        /\ tab' = caml_thread_restore_runtime_state(
                     [caml_thread_remove_info(saved, t) EXCEPT !.current = next])
        /\ sync' = [sync EXCEPT !.over = @ \cup {t}]
        /\ ml' \in Released(ml)
        /\ Goto(t, "done")
        /\ UNCHANGED <<world, sig>>

\* Thread.at_shutdown; the tick thread is joined without releasing the runtime.
caml_thread_cleanup(t) ==
    /\ Runs(t, "shutdown")
    /\ IF ~tab.running THEN thr' = Finished(t, thr) /\ UNCHANGED tab
       ELSE IF tab.tick = "alive" THEN ~tab.stop /\ tab' = [tab EXCEPT !.stop = TRUE] /\ UNCHANGED thr
       ELSE /\ tab' = [tab EXCEPT !.stop = FALSE, !.running = FALSE]
            /\ thr' = Finished(t, thr)
    /\ UNCHANGED <<world, ml, sig, sync>>

\* The end of the main thread is the end of the process.
Exit(t) ==
    /\ Runs(t, "end") /\ world.kind[t] = "main"
    /\ thr' = [u \in Ts |-> [thr[u] EXCEPT !.pc = "done"]]
    /\ UNCHANGED <<world, tab, ml, sig, sync>>

\* Unix.fork: the model follows the child, in which only this thread runs.
caml_thread_reinitialize(t) ==
    /\ Runs(t, "fork") /\ ml.lock \in {NULL, t}
    /\ tab' = [tab EXCEPT !.list = <<t>>, !.all = t, !.current = t,
                          !.tick = "none", !.req = FALSE]
    /\ ml' = [ml EXCEPT !.lock = NULL, !.busy = TRUE, !.waiters = 0, !.sleeping = {}, !.woken = {}, !.domain = t]
    /\ thr' = Finished(t, [u \in Ts |-> IF u = t THEN thr[u] ELSE [thr[u] EXCEPT !.pc = "done", !.holds = {}]])
    /\ UNCHANGED <<world, sig, sync>>

\* A domain that is not the last one joins its threads before it stops.
caml_thread_domain_stop_hook(t) ==
    /\ Runs(t, "stop")
    /\ IF Len(tab.list) > 1
       THEN /\ thr' = Blocking(t, [thr EXCEPT ![t].tgt = Follower(tab.list, tab.current), ![t].cont = "poll"])
            /\ UNCHANGED <<tab, sync>>
       ELSE /\ sync' = [sync EXCEPT !.over = @ \cup {t}]
            /\ tab' = [tab EXCEPT !.current = NULL, !.all = NULL, !.list = <<>>]
            /\ Goto(t, "done")
    /\ UNCHANGED <<world, ml, sig>>

\* A thread of C joins the list; it does not become the current thread.
caml_c_thread_register(t) ==
    \/ /\ thr[t].pc = "outside"
       /\ thr' = [thr EXCEPT ![t].pc = "leave", ![t].after = "register"]
       /\ UNCHANGED <<world, tab, ml, sig, sync>>
    \/ /\ thr[t].pc = "register" /\ ml.lock = NULL
       /\ ml' \in Released(ml)
       /\ \/ /\ tab' = create_tick_thread([caml_thread_new_info(tab, t) EXCEPT
                                             !.list = IF tab.all = NULL THEN <<t>> ELSE InsertAfter(@, tab.all, t),
                                             !.all = IF @ = NULL THEN t ELSE @])
             /\ thr' = [thr EXCEPT ![t].pc = "leave", ![t].after = "run"]
          \/ /\ world.fails       \* no block
             /\ Goto(t, "done") /\ UNCHANGED tab
       /\ UNCHANGED <<world, sig, sync>>

\* It leaves the runtime, then takes the master lock again to be forgotten.
caml_c_thread_unregister(t) ==
    \/ /\ Runs(t, "end") /\ world.kind[t] = "c" /\ ml.lock = NULL
       /\ tab' = Leave(tab, t)
       /\ ml' \in Released(ml)
       /\ thr' = [thr EXCEPT ![t].pc = "leave", ![t].after = "unregister"]
       /\ UNCHANGED <<world, sig, sync>>
    \/ /\ thr[t].pc = "unregister" /\ ml.lock = NULL
       /\ LET b == caml_thread_remove_info(tab, t)
          IN  tab' = IF b.all = NULL THEN [b EXCEPT !.current = NULL]
                     ELSE caml_thread_restore_runtime_state([b EXCEPT !.current = b.all])
       /\ ml' \in Released(ml)
       /\ Goto(t, "done")
       /\ UNCHANGED <<world, sig, sync>>

\* Operations that block: Thread.join, Condition.wait, Thread.sigmask, a system call.
EnterOp(t) ==
    /\ thr[t].pc = "run" /\ Op(t).op \in {"block", "join", "wait", "sigmask", "wait_signal"}
    /\ thr' = Blocking(t, [thr EXCEPT ![t].tgt = IF Op(t).op = "join" THEN Op(t).k ELSE @])
    /\ UNCHANGED <<world, tab, ml, sig, sync>>

Takes(t, m) ==
    /\ sync' = [sync EXCEPT !.owner[m] = t]
    /\ thr' = Finished(t, [thr EXCEPT ![t].holds = @ \cup {m}])

\* First without releasing the runtime.
caml_ml_mutex_lock(t) ==
    /\ Runs(t, "lock")
    /\ IF sync.owner[Op(t).m] = NULL THEN Takes(t, Op(t).m)
       ELSE thr' = Blocking(t, thr) /\ UNCHANGED sync
    /\ UNCHANGED <<world, tab, ml, sig>>

caml_ml_mutex_try_lock(t) ==
    /\ Runs(t, "try_lock")
    /\ IF sync.owner[Op(t).m] = NULL THEN Takes(t, Op(t).m)
       ELSE thr' = Finished(t, thr) /\ UNCHANGED sync
    /\ UNCHANGED <<world, tab, ml, sig>>

\* Another thread's mutex is not unlocked: EPERM.
caml_ml_mutex_unlock(t) ==
    /\ Runs(t, "unlock")
    /\ sync' = IF sync.owner[Op(t).m] = t THEN [sync EXCEPT !.owner[Op(t).m] = NULL] ELSE sync
    /\ thr' = Finished(t, [thr EXCEPT ![t].holds = @ \ {Op(t).m}])
    /\ UNCHANGED <<world, tab, ml, sig>>

caml_ml_condition_signal(t) ==
    /\ Runs(t, "signal")
    /\ IF sync.waiting = {} THEN UNCHANGED sync
       ELSE \E w \in sync.waiting : sync' = [sync EXCEPT !.waiting = @ \ {w}]
    /\ thr' = Finished(t, thr)
    /\ UNCHANGED <<world, tab, ml, sig>>

caml_ml_condition_broadcast(t) ==
    /\ Runs(t, "broadcast")
    /\ sync' = [sync EXCEPT !.waiting = {}]
    /\ thr' = Finished(t, thr)
    /\ UNCHANGED <<world, tab, ml, sig>>

caml_thread_yield(t) ==
    /\ Runs(t, "yield")
    /\ thr' = Yielding(t, thr)
    /\ UNCHANGED <<world, tab, ml, sig, sync>>

\* Sys.signal; the pending signals are processed before it returns.
caml_install_signal_handler(t) ==
    LET s == caml_convert_signal_number(Op(t).s)
    IN  /\ Runs(t, "install")
        /\ sig' = [sig EXCEPT !.ignored = IF Op(t).act = "ignore" THEN @ \cup {s} ELSE @ \ {s}]
        /\ thr' = [thr EXCEPT ![t].pc = "signals", ![t].j = 1]
        /\ UNCHANGED <<world, tab, ml, sync>>

Step(t) ==
    \/ st_masterlock_acquire(t) \/ Woken(t) \/ st_bt_lock_acquire(t)
    \/ caml_process_pending_signals(t) \/ caml_execute_signal_exn(t)
    \/ caml_enter_blocking_section(t) \/ CheckAgain(t) \/ Again(t) \/ BackInOp(t)
    \/ Blocked(t) \/ Relock(t) \/ st_thread_yield(t) \/ YieldWoken(t) \/ YieldReturns(t)
    \/ caml_thread_interrupt_hook(t) \/ Compute(t) \/ caml_thread_new(t) \/ caml_thread_start(t)
    \/ caml_thread_stop(t) \/ caml_thread_cleanup(t) \/ Exit(t) \/ caml_thread_reinitialize(t)
    \/ caml_thread_domain_stop_hook(t) \/ caml_c_thread_register(t) \/ caml_c_thread_unregister(t)
    \/ EnterOp(t) \/ caml_ml_mutex_lock(t) \/ caml_ml_mutex_try_lock(t) \/ caml_ml_mutex_unlock(t)
    \/ caml_ml_condition_signal(t) \/ caml_ml_condition_broadcast(t) \/ caml_thread_yield(t)
    \/ caml_install_signal_handler(t)

Next == \/ \E t \in Ts : Step(t) \/ Deliver(t)
        \/ caml_thread_tick \/ BackupServes \/ BackupDone

Spec == Init /\ [][Next]_vars

-----------------------------------------------------------------------------

Running == {"run", "signals", "handler", "enter", "again", "back", "yield", "start", "register", "unregister"}

\* One thread runs at a time, holding both locks; the state in Caml_state and in the
\* blocks of the list is for each thread the state it left, so that a collection by the
\* running thread or by the backup thread scans every stack where it is; a mutex that a
\* thread locked is its own; the count of waiters is right and nobody sleeps while the
\* master lock is free and no one else is on the way to it; all threads are joined or
\* at work when no step is possible.
ThreadsRight ==
    /\ \A t \in Ts : thr[t].pc \in Running => ml.busy /\ ml.domain = t
    /\ \A t, u \in Ts : thr[t].pc \in Running /\ thr[u].pc \in Running => t = u
    /\ tab.current # NULL =>
          \A t \in ToSet(tab.list) :
             (IF t = tab.current THEN tab.state ELSE tab.info[t]) = <<t, thr[t].n>>
    /\ \A t \in Ts : thr[t].pc \in {"run", "handler"} => tab.current = t
    /\ \A t \in Ts : \A m \in thr[t].holds : sync.owner[m] = t
    /\ (\A t \in Ts : thr[t].pc = "done") \/ ml.waiters = Cardinality({t \in Ts : thr[t].pc \in {"waiting", "ywait"}})
    /\ ml.sleeping # {} /\ ~ml.busy =>
          ml.woken # {} \/ \E t \in Ts : thr[t].pc \in {"leave", "recheck", "blocked"}
    /\ ml.domain # Backup /\ ~tab.stop /\ (\A t \in Ts : ~ENABLED Step(t)) =>
          \A t \in Ts : \/ thr[t].pc \in {"done", "none", "sleeping"}
                        \/ thr[t].pc = "blocked" /\ Op(t).op = "wait_signal"
=============================================================================
