------------------------------ MODULE Domains ------------------------------
(***************************************************************************)
(* Domains, stop-the-world sections and backup threads of the runtime      *)
(* (runtime/domain.c, with the section callbacks of minor_gc.c and         *)
(* major_gc.c and the blocking sections of signals.c).                     *)
(*                                                                         *)
(* An actor is a thread: 0 is the program's first thread, t > 0 the t-th   *)
(* thread pthread_create started for caml_domain_spawn, Backup(d) the      *)
(* backup thread of domain slot d.  A step of an actor goes from one       *)
(* access of shared memory (an atomic word, a mutex, a condition variable) *)
(* to the next.  The critical sections under interruptor.lock contain no   *)
(* wait but their own, so each is one step; broadcast and signal move the  *)
(* sleeping actors on, and a sleeper may also wake by itself, as POSIX     *)
(* allows.                                                                 *)
(***************************************************************************)
EXTENDS Integers, Sequences, FiniteSets

CONSTANTS
    Max_domains,      \* number of domain slots
    MaxSpawns,        \* bound: calls of caml_domain_spawn
    Scenarios         \* bounds on what OCaml code does; one is chosen at start

(* A scenario bounds the calls of caml_domain_spawn, the collections asked *)
(* for by OCaml code, the sections that end a major cycle, the blocking    *)
(* sections, the wake-ups without a signal, and the allocations of         *)
(* create_domain that fail, before and after the slot is marked running.   *)
Scenario == [spawns : 0 .. MaxSpawns, requests : Nat, cycles : Nat,
             blocks : Nat, wakes : Nat, commits : Nat, inits : Nat]

ASSUME DomainsAssumption ==
    /\ Max_domains \in Nat \ {0} /\ MaxSpawns \in Nat
    /\ \A s \in Scenarios : s \in Scenario

VARIABLES
    th,     \* per actor: program counter, return frames, local variables
    dom,    \* per slot: interruptor, domain_lock, backup thread, GC requests
    stw,    \* stw_leader, stw_request, all_domains_lock
    proc,   \* stw_domains, caml_num_domains_running, cycle counters
    left    \* what the scenario still allows

vars == <<th, dom, stw, proc, left>>

Slots == 0 .. Max_domains - 1
Threads == 0 .. MaxSpawns
Backup(d) == -1 - d
Actors == Threads \cup {Backup(d) : d \in Slots}
Free == MaxSpawns + 1            \* no owner of a mutex
NoDomain == Max_domains          \* domain_self and stw_leader equal to 0
Kinds == {"minor", "major"}

-----------------------------------------------------------------------------
(* Control: a frame holds the label to return to and the locals of the     *)
(* loop that called (the kind of section asked for, the cycle count saved  *)
(* before the loop).                                                       *)

Goto(a, l) == [th EXCEPT ![a].pc = l]

Frame(a, l) == [pc |-> l, kind |-> th[a].kind, saved |-> th[a].saved]

Call(a, l, ret) ==
    [th EXCEPT ![a].pc = l, ![a].stack = <<Frame(a, ret)>> \o @]

Return(a) ==
    LET f == Head(th[a].stack)
    IN  [th EXCEPT ![a] = [@ EXCEPT !.pc = f.pc, !.kind = f.kind,
                                    !.saved = f.saved, !.stack = Tail(@),
                                    !.step = 0]]

At(a, l) == th[a].pc = l
Self(a) == th[a].self

(* Who sleeps on the condition variable of interruptor s of slot d: its    *)
(* backup thread, or its own thread inside caml_domain_spawn.              *)
Woken(t, d) ==
    [a \in Actors |->
        IF t[a].self = d /\ t[a].pc = "wait_intr"
        THEN [t[a] EXCEPT !.pc = "bt"]
        ELSE IF t[a].self = d /\ t[a].pc = "spawn_sleep"
             THEN [t[a] EXCEPT !.pc = "spawn"] ELSE t[a]]

(* caml_plat_signal(&domain_cond): only the backup thread sleeps on it.    *)
Signalled(t, d) ==
    IF t[Backup(d)].pc = "wait_domain"
    THEN [t EXCEPT ![Backup(d)].pc = "relock"] ELSE t

(* One use of what the scenario bounds.                                    *)
Spend(what) == left[what] > 0 /\ left' = [left EXCEPT ![what] = @ - 1]

Participants == {stw.participating[i] : i \in DOMAIN stw.participating}

-----------------------------------------------------------------------------
(* Initial state: caml_init_domains has created the first domain in slot   *)
(* 0, which has no backup thread until it spawns.                          *)

Local(a) ==
    [pc |-> IF a = 0 THEN "ocaml" ELSE "off",
     self |-> IF a = 0 THEN 0 ELSE IF a < 0 THEN -1 - a ELSE NoDomain,
     stack |-> << >>, kind |-> "minor", saved |-> 0, step |-> 0, i |-> 0,
     sense |-> 0, count |-> 0, child |-> 0, parent |-> NoDomain,
     status |-> "starting"]

Slot(d) ==
    [running |-> d = 0, pending |-> FALSE, word |-> FALSE,
     lock |-> IF d = 0 THEN 0 ELSE Free, msg |-> "INIT", backup |-> FALSE,
     requested |-> {}, sweeping_done |-> TRUE, marking_done |-> TRUE]

Init ==
    /\ th = [a \in Actors |-> Local(a)]
    /\ dom = [d \in Slots |-> Slot(d)]
    /\ stw = [leader |-> NoDomain, lock |-> Free, kind |-> "minor",
              still_running |-> 0, num_domains |-> 0, processing |-> 0,
              barrier |-> [sense |-> 0, count |-> 0],
              participating |-> << >>, served |-> {}]
    /\ proc = [domains |-> [i \in 1 .. Max_domains |-> i - 1],
               participating |-> 1, num_running |-> 1, finished |-> 0,
               cycles |-> [k \in Kinds |-> 0], spawned |-> 0]
    /\ left \in Scenarios

-----------------------------------------------------------------------------
(* OCaml code of a domain: what it may do between two poll points.         *)

(* caml_request_minor_gc, caml_request_major_slice                         *)
RequestGC(t, k) ==
    /\ At(t, "ocaml") /\ Spend("requests")
    /\ dom' = [dom EXCEPT ![Self(t)].requested = @ \cup {k},
                          ![Self(t)].word = TRUE]
    /\ UNCHANGED <<th, stw, proc>>

(* handle_gc_interrupt: the interrupt word is put back to young_start,     *)
(* then the incoming interrupt is handled, then the GC is polled.          *)
Poll(t) ==
    /\ At(t, "ocaml") /\ dom[Self(t)].word
    /\ dom' = [dom EXCEPT ![Self(t)].word = FALSE]
    /\ th' = [th EXCEPT ![t].pc = "handle",
                        ![t].stack = <<Frame(t, "poll"), Frame(t, "ocaml")>>]
    /\ UNCHANGED <<stw, proc>>

(* caml_enter_blocking_section: caml_bt_exit_ocaml, then the domain lock   *)
(* is released.                                                            *)
EnterBlocking(t) ==
    /\ At(t, "ocaml") /\ Spend("blocks")
    /\ LET d == Self(t) IN
       IF dom[d].backup
       THEN /\ dom' = [dom EXCEPT ![d].msg = "IN_BLOCKING_SECTION"]
            /\ th' = [Signalled(th, d) EXCEPT ![t].pc = "release"]
       ELSE dom' = dom /\ th' = Goto(t, "release")
    /\ UNCHANGED <<stw, proc>>

release(t) ==
    /\ At(t, "release")
    /\ dom' = [dom EXCEPT ![Self(t)].lock = Free]
    /\ th' = Goto(t, "blocked")
    /\ UNCHANGED <<stw, proc>>

(* caml_leave_blocking_section: caml_bt_enter_ocaml, then the domain lock  *)
(* is acquired.                                                            *)
LeaveBlocking(t) ==
    /\ At(t, "blocked")
    /\ dom' = IF dom[Self(t)].backup
              THEN [dom EXCEPT ![Self(t)].msg = "ENTERING_OCAML"] ELSE dom
    /\ th' = Goto(t, "acquire")
    /\ UNCHANGED <<stw, proc>>

acquire(t) ==
    /\ At(t, "acquire") /\ dom[Self(t)].lock = Free
    /\ dom' = [dom EXCEPT ![Self(t)].lock = t]
    /\ th' = Goto(t, "ocaml")
    /\ UNCHANGED <<stw, proc>>

-----------------------------------------------------------------------------
(* Serving an interrupt: handle_incoming and stw_handler, by the domain's  *)
(* own thread or by its backup thread.                                     *)

handle_incoming(a) ==
    /\ At(a, "handle")
    /\ IF dom[Self(a)].pending
       THEN /\ dom' = [dom EXCEPT ![Self(a)].pending = FALSE]
            /\ th' = Call(a, "enter_spin", "poll")
       ELSE dom' = dom /\ th' = Return(a)
    /\ UNCHANGED <<stw, proc>>

EnterSpin(a) ==
    /\ At(a, "enter_spin") /\ stw.still_running = 0
    /\ th' = [th EXCEPT ![a].pc = "callback", ![a].step = 1]
    /\ stw' = [stw EXCEPT !.served = @ \cup {Self(a)}]
    /\ UNCHANGED <<dom, proc>>

(* The callbacks, as the order of their synchronisations:                  *)
(* caml_stw_empty_minor_heap and cycle_all_domains_callback.               *)
Steps(kind) ==
    IF kind = "minor" THEN <<"promote", "leave">>
    ELSE <<"setup_barrier", "promote", "leave",
           "cycle_barrier", "roots", "last_barrier">>

Here(a) == IF At(a, "callback") THEN Steps(stw.kind)[th[a].step] ELSE "none"

Advance(a, t) ==
    IF th[a].step = Len(Steps(stw.kind))
    THEN [t EXCEPT ![a].pc = "decrement"]
    ELSE [t EXCEPT ![a].pc = "callback", ![a].step = @ + 1]

(* caml_empty_minor_heap_promote: participant 0 counts the cycle; the      *)
(* interrupt word is reset before domains_finished_minor_gc is increased.  *)
Promote(a) ==
    /\ Here(a) = "promote"
    /\ proc' = [proc EXCEPT
         !.cycles["minor"] = IF stw.participating[1] = Self(a) THEN @ + 1 ELSE @,
         !.finished = IF stw.num_domains > 1 THEN @ + 1 ELSE @]
    /\ dom' = [dom EXCEPT ![Self(a)].word = FALSE]
    /\ th' = Advance(a, th)
    /\ UNCHANGED stw

(* Leaving the minor collection: every participant has finished promoting. *)
(* The plain minor collection then asks for a major slice.                 *)
LeaveMinor(a) ==
    /\ Here(a) = "leave"
    /\ stw.num_domains > 1 => proc.finished = stw.num_domains
    /\ dom' = IF stw.kind = "minor"
              THEN [dom EXCEPT ![Self(a)].requested = @ \cup {"major"},
                               ![Self(a)].word = TRUE]
              ELSE dom
    /\ th' = Advance(a, th)
    /\ UNCHANGED <<stw, proc>>

(* caml_global_barrier_begin; the last domain to arrive does the work that *)
(* is done once, before it calls caml_global_barrier_end.                  *)
Barriers == {"setup_barrier", "cycle_barrier", "last_barrier"}

BarrierBegin(a) ==
    /\ Here(a) \in Barriers
    /\ LET b == stw.barrier
           final == b.count + 1 = stw.num_domains
       IN  /\ stw' = [stw EXCEPT !.barrier.count = @ + 1]
           /\ th' = [th EXCEPT ![a].pc = "barrier", ![a].sense = b.sense,
                               ![a].count = b.count + 1]
           /\ proc' = IF ~final THEN proc
                      ELSE IF Here(a) = "setup_barrier"
                           THEN [proc EXCEPT !.finished = 0]
                      ELSE IF Here(a) = "cycle_barrier"
                           THEN [proc EXCEPT !.cycles["major"] = @ + 1]
                      ELSE proc
    /\ UNCHANGED dom

(* caml_global_barrier_end: the last one flips the sense, which also       *)
(* resets the count; the others wait for the flip.                         *)
BarrierEnd(a) ==
    /\ At(a, "barrier")
    /\ IF th[a].count = stw.num_domains
       THEN stw' = [stw EXCEPT !.barrier = [sense |-> 1 - th[a].sense,
                                            count |-> 0]]
       ELSE stw.barrier.sense # th[a].sense /\ stw' = stw
    /\ th' = [Advance(a, th) EXCEPT ![a].sense = 0, ![a].count = 0]
    /\ UNCHANGED <<dom, proc>>

(* The rest of cycle_all_domains_callback: the new cycle's roots are       *)
(* darkened; a domain whose mark stack stays empty has finished marking.   *)
MarkRoots(a) ==
    /\ Here(a) = "roots"
    /\ \E empty \in BOOLEAN :
         dom' = [dom EXCEPT ![Self(a)].sweeping_done = FALSE,
                            ![Self(a)].marking_done = empty]
    /\ th' = Advance(a, th)
    /\ UNCHANGED <<stw, proc>>

(* decrement_stw_domains_still_processing                                  *)
Decrement(a) ==
    /\ At(a, "decrement")
    /\ stw' = [stw EXCEPT !.processing = @ - 1]
    /\ th' = IF stw.processing = 1 THEN Goto(a, "clear") ELSE Return(a)
    /\ UNCHANGED <<dom, proc>>

ClearLeader(a) ==
    /\ At(a, "clear") /\ stw.lock = Free
    /\ stw' = [stw EXCEPT !.leader = NoDomain]
    /\ th' = [b \in Actors |-> IF th[b].pc = "create_wait"
                               THEN [th[b] EXCEPT !.pc = "create"]
                               ELSE Return(a)[b]]
    /\ UNCHANGED <<dom, proc>>

(* caml_poll_gc_work: a minor collection is retried until some domain has  *)
(* run one (caml_empty_minor_heaps_once); a major slice may find that the  *)
(* cycle can end, and then retries until it has.                           *)
poll_minor(a) ==
    /\ At(a, "poll")
    /\ LET d == Self(a) IN
       IF "minor" \in dom[d].requested
       THEN /\ dom' = [dom EXCEPT ![d].requested = @ \ {"minor"}]
            /\ th' = [Call(a, "try", "poll_major") EXCEPT
                        ![a].kind = "minor", ![a].saved = proc.cycles["minor"]]
       ELSE dom' = dom /\ th' = Goto(a, "poll_major")
    /\ UNCHANGED <<stw, proc>>

poll_major(a) ==
    /\ At(a, "poll_major")
    /\ LET d == Self(a) IN
       IF "major" \in dom[d].requested
       THEN /\ dom' = [dom EXCEPT ![d].requested = @ \ {"major"}]
            /\ \/ th' = Return(a)
               \/ /\ proc.cycles["major"] < left.cycles
                  /\ th' = [Goto(a, "try") EXCEPT
                              ![a].kind = "major",
                              ![a].saved = proc.cycles["major"]]
       ELSE dom' = dom /\ th' = Return(a)
    /\ UNCHANGED <<stw, proc>>

-----------------------------------------------------------------------------
(* Asking for a section: caml_try_run_on_all_domains_with_spin_work inside *)
(* the loops that retry it until the cycle count has moved.                *)

TryLeader(a) ==
    /\ At(a, "try")
    /\ th' = IF stw.leader # NoDomain THEN Call(a, "handle", "again")
             ELSE Goto(a, "try_lock")
    /\ UNCHANGED <<dom, stw, proc>>

TryLock(a) ==
    /\ At(a, "try_lock")
    /\ IF stw.lock # Free
       THEN stw' = stw /\ th' = Call(a, "handle", "again")
       ELSE stw' = [stw EXCEPT !.lock = a] /\ th' = Goto(a, "claim")
    /\ UNCHANGED <<dom, proc>>

Claim(a) ==
    /\ At(a, "claim")
    /\ IF stw.leader # NoDomain
       THEN /\ stw' = [stw EXCEPT !.lock = Free]
            /\ th' = Call(a, "handle", "again")
            /\ proc' = proc
       ELSE /\ stw' = [stw EXCEPT
                 !.leader = Self(a), !.kind = th[a].kind,
                 !.barrier = [sense |-> 0, count |-> 0],
                 !.still_running = 1, !.num_domains = proc.participating,
                 !.processing = proc.participating,
                 !.participating = SubSeq(proc.domains, 1, proc.participating),
                 !.served = {}]
            /\ th' = [th EXCEPT ![a].pc = "send", ![a].i = 1]
            /\ proc' = IF th[a].kind = "minor"
                       THEN [proc EXCEPT !.finished = 0] ELSE proc
    /\ UNCHANGED dom

Target(a) == proc.domains[th[a].i]

(* caml_send_interrupt: the pending flag, the broadcast, the word.         *)
SendPending(a) ==
    /\ At(a, "send") /\ th[a].i <= proc.participating
    /\ IF Target(a) = Self(a)
       THEN dom' = dom /\ th' = [th EXCEPT ![a].i = @ + 1]
       ELSE /\ dom' = [dom EXCEPT ![Target(a)].pending = TRUE]
            /\ th' = Goto(a, "send_wake")
    /\ UNCHANGED <<stw, proc>>

SendWake(a) ==
    /\ At(a, "send_wake")
    /\ th' = [Woken(th, Target(a)) EXCEPT ![a].pc = "send_word"]
    /\ UNCHANGED <<dom, stw, proc>>

SendWord(a) ==
    /\ At(a, "send_word")
    /\ dom' = [dom EXCEPT ![Target(a)].word = TRUE]
    /\ th' = [th EXCEPT ![a].pc = "send", ![a].i = @ + 1]
    /\ UNCHANGED <<stw, proc>>

SendDone(a) ==
    /\ At(a, "send") /\ th[a].i > proc.participating
    /\ stw' = [stw EXCEPT !.lock = Free]
    /\ th' = [th EXCEPT ![a].pc = "await", ![a].i = 0]
    /\ UNCHANGED <<dom, proc>>

\* Bug: the leader waits for the first participant only.
AwaitFirst(a) ==
    /\ At(a, "await")
    /\ ~dom[stw.participating[1]].pending
    /\ stw' = [stw EXCEPT !.still_running = 0, !.served = @ \cup {Self(a)}]
    /\ th' = [Call(a, "callback", "again") EXCEPT ![a].step = 1]
    /\ UNCHANGED <<dom, proc>>

(* caml_wait_interrupt_serviced on every participant, then the enter       *)
(* barrier is opened and the leader runs the callback itself.              *)
Await(a) ==
    /\ At(a, "await")
    /\ \A d \in Participants : ~dom[d].pending
    /\ stw' = [stw EXCEPT !.still_running = 0, !.served = @ \cup {Self(a)}]
    /\ th' = [Call(a, "callback", "again") EXCEPT ![a].step = 1]
    /\ UNCHANGED <<dom, proc>>

Again(a) ==
    /\ At(a, "again")
    /\ th' = IF proc.cycles[th[a].kind] = th[a].saved THEN Goto(a, "try")
             ELSE Return(a)
    /\ UNCHANGED <<dom, stw, proc>>

-----------------------------------------------------------------------------
(* caml_domain_spawn, domain_thread_func and create_domain.                *)

Spawn(t) ==
    /\ At(t, "ocaml") /\ Spend("spawns")
    /\ LET c == proc.spawned + 1 IN
       /\ proc' = [proc EXCEPT !.spawned = c]
       /\ th' = [th EXCEPT ![t].pc = "spawn", ![t].child = c,
                           ![c].pc = "create", ![c].parent = Self(t)]
    /\ UNCHANGED <<dom, stw>>

\* Bug: only the child installs a backup thread.
SpawnWaitNoInstall(t) ==
    /\ At(t, "spawn")
    /\ th' = IF th[th[t].child].status # "starting" THEN Goto(t, "ocaml")
             ELSE IF dom[Self(t)].pending THEN Call(t, "handle", "spawn")
             ELSE Goto(t, "spawn_sleep")
    /\ UNCHANGED <<dom, stw, proc>>

(* The parent waits under its interruptor's lock, serving interrupts.      *)
SpawnWait(t) ==
    /\ At(t, "spawn")
    /\ LET s == th[th[t].child].status IN
       th' = IF s = "started" THEN Goto(t, "install")
             ELSE IF s = "failed" THEN Goto(t, "ocaml")
             ELSE IF dom[Self(t)].pending THEN Call(t, "handle", "spawn")
             ELSE Goto(t, "spawn_sleep")
    /\ UNCHANGED <<dom, stw, proc>>

CreateLock(t) ==
    /\ At(t, "create") /\ stw.lock = Free
    /\ stw' = [stw EXCEPT !.lock = t]
    /\ th' = Goto(t, "create_check")
    /\ UNCHANGED <<dom, proc>>

(* Wait until no section is in progress, then take the next free slot.     *)
CreateCheck(t) ==
    /\ At(t, "create_check")
    /\ IF stw.leader # NoDomain \/ proc.participating = Max_domains
       THEN /\ stw' = [stw EXCEPT !.lock = Free]
            /\ th' = Goto(t, IF stw.leader # NoDomain THEN "create_wait"
                             ELSE "handshake")
            /\ UNCHANGED <<dom, proc>>
       ELSE LET d == proc.domains[proc.participating + 1] IN
            /\ dom' = [dom EXCEPT ![d].running = TRUE]
            /\ proc' = [proc EXCEPT !.num_running = @ + 1]
            /\ th' = [th EXCEPT ![t].pc = "create_init", ![t].self = d]
            /\ stw' = stw

(* The domain lock is taken and the domain's state is set up.              *)
CreateInit(t) ==
    /\ At(t, "create_init") /\ dom[Self(t)].lock = Free
    /\ dom' = [dom EXCEPT ![Self(t)] = [@ EXCEPT
                 !.lock = t, !.word = FALSE, !.requested = {},
                 !.sweeping_done = TRUE, !.marking_done = TRUE]]
    /\ proc' = [proc EXCEPT !.participating = @ + 1]
    /\ th' = Goto(t, "handshake")
    /\ stw' = [stw EXCEPT !.lock = Free]

(* The memory of a slot never used before cannot be committed: no domain.  *)
CommitFails(t) ==
    /\ At(t, "create_check") /\ stw.leader = NoDomain
    /\ proc.participating < Max_domains /\ proc.spawned = 1
    /\ Spend("commits")
    /\ th' = Goto(t, "handshake")
    /\ stw' = [stw EXCEPT !.lock = Free]
    /\ UNCHANGED <<dom, proc>>

(* A later allocation of create_domain fails: what was allocated before it *)
(* is given back, and the thread has no domain; the slot stays marked      *)
(* running, counted and locked.                                            *)
CreateFails(t) ==
    /\ At(t, "create_init") /\ dom[Self(t)].lock = Free
    /\ Spend("inits")
    /\ dom' = [dom EXCEPT ![Self(t)].lock = t]
    /\ th' = [th EXCEPT ![t].pc = "handshake", ![t].self = NoDomain]
    /\ stw' = [stw EXCEPT !.lock = Free]
    /\ UNCHANGED proc

\* Bug: the parent is not woken.
HandshakeSilent(t) ==
    /\ At(t, "handshake")
    /\ LET ok == Self(t) # NoDomain IN
       th' = [th EXCEPT ![t].pc = IF ok THEN "install" ELSE "dead",
                        ![t].status = IF ok THEN "started" ELSE "failed"]
    /\ UNCHANGED <<dom, stw, proc>>

Handshake(t) ==
    /\ At(t, "handshake")
    /\ LET ok == Self(t) # NoDomain IN
       th' = [Woken(th, th[t].parent) EXCEPT
                ![t].pc = IF ok THEN "install" ELSE "dead",
                ![t].status = IF ok THEN "started" ELSE "failed"]
    /\ UNCHANGED <<dom, stw, proc>>

(* install_backup_thread: on a reused slot, lets the old backup thread     *)
(* finish first.                                                           *)
InstallBackup(t) ==
    /\ At(t, "install")
    /\ LET d == Self(t) IN
       IF dom[d].backup THEN dom' = dom /\ th' = Goto(t, "ocaml")
       ELSE IF dom[d].msg # "INIT"
            THEN /\ dom' = [dom EXCEPT ![d].lock = Free]
                 /\ th' = Goto(t, "install_relock")
            ELSE /\ dom' = [dom EXCEPT ![d].msg = "ENTERING_OCAML",
                                       ![d].backup = TRUE]
                 /\ th' = [th EXCEPT ![t].pc = "ocaml",
                                     ![Backup(d)].pc = "bt"]
    /\ UNCHANGED <<stw, proc>>

InstallRelock(t) ==
    /\ At(t, "install_relock") /\ dom[Self(t)].lock = Free
    /\ dom' = [dom EXCEPT ![Self(t)].lock = t]
    /\ th' = Goto(t, "install")
    /\ UNCHANGED <<stw, proc>>

-----------------------------------------------------------------------------
(* domain_terminate, by the thread whose callback has returned.            *)

TermSweep(t) ==
    /\ t # 0 /\ th[t].pc \in {"ocaml", "term"}
    /\ dom' = [dom EXCEPT ![Self(t)].sweeping_done = TRUE]
    /\ th' = [Call(t, "try", "term_mark") EXCEPT
                ![t].kind = "minor", ![t].saved = proc.cycles["minor"]]
    /\ UNCHANGED <<stw, proc>>

(* caml_finish_marking and the handovers; handover_finalisers may have to  *)
(* finish the major cycle.                                                 *)
TermMark(t) ==
    /\ At(t, "term_mark")
    /\ dom' = [dom EXCEPT ![Self(t)].marking_done = TRUE]
    /\ \/ th' = Goto(t, "term_lock")
       \/ /\ proc.cycles["major"] < left.cycles
          /\ th' = [Call(t, "try", "term_lock") EXCEPT
                      ![t].kind = "major", ![t].saved = proc.cycles["major"]]
    /\ UNCHANGED <<stw, proc>>

TermLock(t) ==
    /\ At(t, "term_lock") /\ stw.lock = Free
    /\ stw' = [stw EXCEPT !.lock = t]
    /\ th' = Goto(t, "term_check")
    /\ UNCHANGED <<dom, proc>>

(* The last test under all_domains_lock, and remove_from_stw_domains.      *)
Removed(d) ==
    LET n == proc.participating
        i == CHOOSE j \in 1 .. n : proc.domains[j] = d
    IN  [proc.domains EXCEPT ![i] = proc.domains[n], ![n] = d]

TermCheck(t) ==
    /\ At(t, "term_check")
    /\ stw' = [stw EXCEPT !.lock = Free]
    /\ LET d == Self(t) IN
       IF ~dom[d].pending /\ dom[d].marking_done /\ dom[d].sweeping_done
       THEN /\ dom' = [dom EXCEPT ![d].running = FALSE, ![d].backup = FALSE]
            /\ proc' = [proc EXCEPT !.domains = Removed(d),
                                    !.participating = @ - 1]
            /\ th' = [Woken(th, d) EXCEPT ![t].pc = "term_msg"]
       ELSE UNCHANGED <<dom, proc>> /\ th' = Goto(t, "term")

TermMsg(t) ==
    /\ At(t, "term_msg")
    /\ dom' = [dom EXCEPT ![Self(t)].msg = "TERMINATE"]
    /\ th' = [Signalled(th, Self(t)) EXCEPT ![t].pc = "term_unlock"]
    /\ UNCHANGED <<stw, proc>>

TermUnlock(t) ==
    /\ At(t, "term_unlock")
    /\ dom' = [dom EXCEPT ![Self(t)].lock = Free]
    /\ th' = Goto(t, "term_end")
    /\ UNCHANGED <<stw, proc>>

TermEnd(t) ==
    /\ At(t, "term_end")
    /\ proc' = [proc EXCEPT !.num_running = @ - 1]
    /\ th' = Goto(t, "dead")
    /\ UNCHANGED <<dom, stw>>

-----------------------------------------------------------------------------
(* backup_thread_func                                                      *)

BackupLoop(b) ==
    /\ At(b, "bt")
    /\ LET d == Self(b) IN
       CASE dom[d].msg = "TERMINATE" ->
              dom' = [dom EXCEPT ![d].msg = "INIT"] /\ th' = Goto(b, "off")
         [] dom[d].msg = "IN_BLOCKING_SECTION" ->
              dom' = dom /\ th' = Goto(b, IF dom[d].pending THEN "bt_try"
                                          ELSE "bt_idle")
         [] dom[d].msg = "ENTERING_OCAML" ->
              dom' = dom /\ th' = Goto(b, "bt_entering")
    /\ UNCHANGED <<stw, proc>>

BackupTry(b) ==
    /\ At(b, "bt_try")
    /\ IF dom[Self(b)].lock = Free
       THEN /\ dom' = [dom EXCEPT ![Self(b)].lock = b]
            /\ th' = Call(b, "handle", "bt_unlock")
       ELSE dom' = dom /\ th' = Goto(b, "bt_idle")
    /\ UNCHANGED <<stw, proc>>

BackupUnlock(b) ==
    /\ At(b, "bt_unlock")
    /\ dom' = [dom EXCEPT ![Self(b)].lock = Free]
    /\ th' = Goto(b, "bt_idle")
    /\ UNCHANGED <<stw, proc>>

\* Bug: sleeps without looking at the pending flag again.
BackupIdleBlind(b) ==
    /\ At(b, "bt_idle")
    /\ th' = Goto(b, IF dom[Self(b)].msg = "IN_BLOCKING_SECTION"
                     THEN "wait_intr" ELSE "bt")
    /\ UNCHANGED <<dom, stw, proc>>

BackupIdle(b) ==
    /\ At(b, "bt_idle")
    /\ th' = Goto(b, IF /\ dom[Self(b)].msg = "IN_BLOCKING_SECTION"
                        /\ ~dom[Self(b)].pending
                     THEN "wait_intr" ELSE "bt")
    /\ UNCHANGED <<dom, stw, proc>>

BackupEntering(b) ==
    /\ At(b, "bt_entering") /\ dom[Self(b)].lock = Free
    /\ th' = Goto(b, IF dom[Self(b)].msg = "ENTERING_OCAML"
                     THEN "wait_domain" ELSE "bt")
    /\ UNCHANGED <<dom, stw, proc>>

BackupRelock(b) ==
    /\ At(b, "relock") /\ dom[Self(b)].lock = Free
    /\ th' = Goto(b, "bt")
    /\ UNCHANGED <<dom, stw, proc>>

(* A condition variable may wake its sleeper without a signal.             *)
SpuriousWake(a) ==
    /\ Spend("wakes")
    /\ \/ At(a, "wait_intr") /\ th' = Goto(a, "bt")
       \/ At(a, "wait_domain") /\ th' = Goto(a, "relock")
       \/ At(a, "spawn_sleep") /\ th' = Goto(a, "spawn")
       \/ At(a, "create_wait") /\ th' = Goto(a, "create")
    /\ UNCHANGED <<dom, stw, proc>>

-----------------------------------------------------------------------------

(* What OCaml code may choose to do, or the system outside may cause.      *)
Choose(a) ==
    \/ \E k \in Kinds : RequestGC(a, k)
    \/ EnterBlocking(a) \/ Spawn(a) \/ SpuriousWake(a)
    \/ CommitFails(a) \/ CreateFails(a)
    \/ LeaveBlocking(a) /\ UNCHANGED left
    \/ At(a, "ocaml") /\ TermSweep(a) /\ UNCHANGED left

(* Blocking on a mutex.                                                    *)
Lock(a) ==
    \/ acquire(a) \/ ClearLeader(a) \/ CreateLock(a) \/ CreateInit(a)
    \/ InstallRelock(a) \/ TermLock(a) \/ BackupEntering(a) \/ BackupRelock(a)

Run(a) ==
    \/ Poll(a) \/ release(a) \/ handle_incoming(a) \/ EnterSpin(a)
    \/ Promote(a) \/ LeaveMinor(a) \/ BarrierBegin(a) \/ BarrierEnd(a)
    \/ MarkRoots(a) \/ Decrement(a) \/ poll_minor(a) \/ poll_major(a)
    \/ TryLeader(a) \/ TryLock(a) \/ Claim(a) \/ SendPending(a) \/ SendWake(a)
    \/ SendWord(a) \/ SendDone(a) \/ Await(a) \/ Again(a) \/ SpawnWait(a)
    \/ CreateCheck(a) \/ Handshake(a) \/ InstallBackup(a)
    \/ At(a, "term") /\ TermSweep(a)
    \/ TermMark(a) \/ TermCheck(a) \/ TermMsg(a) \/ TermUnlock(a) \/ TermEnd(a)
    \/ BackupLoop(a) \/ BackupTry(a) \/ BackupUnlock(a) \/ BackupIdle(a)

Next == \E a \in Actors :
    \/ Choose(a)
    \/ (Lock(a) \/ Run(a)) /\ UNCHANGED left

(* Every thread runs on, and a mutex that is free again and again is       *)
(* acquired in the end; OCaml code need not call, block or return.         *)
Fairness == \A a \in Actors :
    /\ WF_vars(Run(a) /\ UNCHANGED left)
    /\ SF_vars(Lock(a) /\ UNCHANGED left)

Spec == Init /\ [][Next]_vars /\ Fairness

-----------------------------------------------------------------------------
(* Properties.                                                             *)

(* An actor that has not yet come to the last synchronisation of the       *)
(* section's callback.                                                     *)
Working(a) ==
    Here(a) \in {"setup_barrier", "promote", "cycle_barrier", "roots"}

(* The world is stopped: from the moment one participant runs the callback *)
(* of caml_try_run_on_all_domains until all have come to its last          *)
(* synchronisation, no thread of the process runs OCaml code.              *)
WorldStopped ==
    (\E a \in Actors : Working(a)) => \A t \in Threads : ~At(t, "ocaml")

(* The section served by stw_handler is one section: every participant,    *)
(* and nobody else, runs the callback exactly once before stw_leader is    *)
(* cleared, whether its thread or its backup thread serves it, and does    *)
(* not terminate before.                                                   *)
EveryoneServesOnce ==
    /\ stw.served \subseteq Participants
    /\ stw.leader = NoDomain => stw.served = Participants
    /\ \A d \in Participants \ stw.served : dom[d].running
    /\ \A a \in Actors : At(a, "enter_spin") =>
         Self(a) \in Participants \ stw.served

(* The sense-reversing barrier of caml_global_barrier_begin/end separates  *)
(* the phases of a callback: no participant is a phase ahead of one that   *)
(* has not arrived.                                                        *)
Phase(a) == th[a].step
BarrierSeparates ==
    \A a, b \in Actors :
        /\ th[a].pc \in {"callback", "barrier"} /\ Phase(a) > 0
        /\ \/ th[b].pc \in {"callback", "barrier"}
           \/ th[b].pc = "enter_spin"
        => \A k \in 1 .. Phase(a) - 1 :
             Steps(stw.kind)[k] \in Barriers => Phase(b) >= k

(* domain_lock excludes the domain's thread and its backup thread: whoever *)
(* runs OCaml code or serves a section for a slot owns the slot's lock.    *)
Inside == {"ocaml", "handle", "enter_spin", "callback", "barrier",
           "decrement", "clear", "poll", "poll_major", "try", "try_lock",
           "claim", "send", "send_wake", "send_word", "await", "again"}
LockHeld ==
    \A a \in Actors : th[a].pc \in Inside => dom[Self(a)].lock = a

(* The assertions of create_domain: the slot next_free_domain returns is   *)
(* not running and has no interrupt pending.                               *)
FreshSlot ==
    \A t \in Threads :
        /\ At(t, "create_check") /\ stw.leader = NoDomain
        /\ proc.participating < Max_domains
        => LET d == proc.domains[proc.participating + 1]
           IN  ~dom[d].running /\ ~dom[d].pending

(* The assertions of domain.c: besides the fresh slot, an interrupt is     *)
(* only sent to a domain that has none pending; install_backup_thread      *)
(* finds the old backup thread finished or finishing; a terminating domain *)
(* has a backup thread; the domains marked running are the participants    *)
(* when a section starts; blocking sections are left to a backup thread    *)
(* unless the domain is alone.                                             *)
Assertions ==
    FreshSlot /\ \A a \in Actors :
    /\ At(a, "send") /\ th[a].i <= proc.participating =>
         ~dom[Target(a)].pending
    /\ At(a, "send") => Cardinality({d \in Slots : dom[d].running})
                          = proc.participating
    /\ At(a, "install") /\ ~dom[Self(a)].backup =>
         dom[Self(a)].msg \in {"INIT", "TERMINATE"}
    /\ At(a, "term_check") => dom[Self(a)].backup
    /\ th[a].pc \in {"release", "acquire"} =>
         proc.num_running = 1 \/ dom[Self(a)].backup

(* caml_domain_alone, which compares caml_num_domains_running with 1 and   *)
(* guards the lock-free paths of the shared heap, never holds while two    *)
(* threads are between create_domain and the end of domain_terminate.      *)
Alive(t) == th[t].self # NoDomain /\ th[t].pc \notin {"dead", "off"}
AloneIsAlone ==
    proc.num_running = 1 => Cardinality({t \in Threads : Alive(t)}) <= 1

(* The world is stopped, by one section at a time, for all its             *)
(* participants: the conjunction of the above, which the collectors rely   *)
(* on (caml_try_run_on_all_domains_with_spin_work, stw_handler).           *)
StopTheWorld ==
    /\ WorldStopped /\ EveryoneServesOnce /\ BarrierSeparates
    /\ LockHeld /\ AloneIsAlone

(* A section always ends: stw_leader is cleared, whatever domains block,   *)
(* spawn or terminate meanwhile, and even if no blocking section ever      *)
(* returns.                                                                *)
SectionEnds == stw.leader # NoDomain ~> stw.leader = NoDomain

(* The handshakes end: caml_domain_spawn returns to OCaml code, a new      *)
(* domain installs its backup thread although the slot's former one may    *)
(* still be finishing, and a thread that has run the first minor           *)
(* collection of domain_terminate terminates.                              *)
HandshakesEnd ==
    \A t \in Threads :
        th[t].pc \in {"spawn", "install", "term_mark"}
            ~> th[t].pc \in {"ocaml", "dead"}
=============================================================================
