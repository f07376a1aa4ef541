----------------------------- MODULE WinSelect -----------------------------
(* Unix.select on Windows (win32unix/select.c) and the pool of worker      *)
(* threads it uses (winworker.c, winlist.c).  A call sorts its descriptors *)
(* into jobs, gives each job to a worker, waits for one of them or for the *)
(* timeout, stops them all, waits for them all and collects what they      *)
(* found.  The system calls are external: a descriptor has a kind and the  *)
(* set of modes it is ready for, which only grows.                         *)
EXTENDS Naturals, Sequences, FiniteSets

CONSTANT Worlds   \* the calls and the descriptors (see Init)

VARIABLES
    world,
    fds,       \* descriptor -> [ready, blocking]
    calls,     \* call -> its local variables
    workers,   \* worker -> struct _WORKER and where its thread is
    pool,      \* lpWorkers
    running,   \* nWorkersCurrent
    left       \* how many times a descriptor may still become ready

vars == <<world, fds, calls, workers, pool, running, left>>

READ == "READ"
WRITE == "WRITE"
EXCEPTIONAL == "EXCEPTIONAL"
Modes == {READ, WRITE, EXCEPTIONAL}
MAXIMUM_SELECT_OBJECTS == world.perJob
FD_SETSIZE == world.setsize
THREAD_WORKERS_MAX == world.poolMax
Kind(d) == world.kinds[d]
Fds == DOMAIN world.kinds
Calls == DOMAIN world.calls
Fdlist(c, m) == world.calls[c].lists[m]
Elems(s) == {s[i] : i \in DOMAIN s}
Reversed(s) == [i \in DOMAIN s |-> s[Len(s) + 1 - i]]

NoResult == [m \in Modes |-> << >>]
NewCall == [pc |-> "start", jobs |-> << >>, i |-> 1, err |-> FALSE,
            out |-> NoResult, before |-> << >>]

(* A world has: kinds, the kind of each descriptor; calls, the three lists *)
(* of each call and whether it has a timeout; the limits perJob, setsize   *)
(* and poolMax; ready, the modes a descriptor is ready for at the start;   *)
(* nonblocking, the sockets the program has made so; and arrivals, how     *)
(* many more there may be.                                                 *)
FlaggedBlocking(d) == d \notin world.nonblocking
Init ==
    /\ world \in Worlds
    /\ fds = [d \in Fds |-> [ready |-> world.ready[d], blocking |-> FlaggedBlocking(d)]]
    /\ calls = [c \in Calls |-> NewCall]
    /\ workers = << >> /\ pool = << >> /\ running = 0
    /\ left = world.arrivals

At(c, l) == calls[c].pc = l
Goto(c, l) == calls' = [calls EXCEPT ![c].pc = l]
Ready(d, m) == m \in fds[d].ready

-----------------------------------------------------------------------------
(* Sorting the descriptors into jobs.  The jobs are a list whose head is   *)
(* the last one made; a query remembers the index of its descriptor.       *)

select_data_new(type) ==
    [EType |-> type, queries |-> << >>, results |-> << >>, state |-> "NONE",
     worker |-> 0]

Query(m, d, idx) == [modes |-> {m}, fd |-> d, idx |-> idx]
Result(m, idx) == [mode |-> m, idx |-> idx]
First(P(_), s) == IF \E i \in DOMAIN s : P(s[i])
                  THEN CHOOSE i \in DOMAIN s : P(s[i]) /\ \A j \in 1 .. i - 1 : ~P(s[j])
                  ELSE 0

\* select_data_job_search: the head is updated when a job is made.
select_data_job_search(jobs, type) ==
    LET Free(j) == j.EType = type /\ Len(j.queries) < MAXIMUM_SELECT_OBJECTS
        i == First(Free, jobs)
    IN  IF i # 0 THEN [jobs |-> jobs, at |-> i]
        ELSE [jobs |-> <<select_data_new(type)>> \o jobs, at |-> 1]

QueryAdded(s, m, d, idx) ==
    [s.jobs EXCEPT ![s.at].queries = Append(@, Query(m, d, idx))]

read_console_poll_add(jobs, d, idx) ==
    QueryAdded([jobs |-> <<select_data_new("CONSOLE")>> \o jobs, at |-> 1],
               READ, d, idx)

read_pipe_poll_add(jobs, m, d, idx) ==
    QueryAdded(select_data_job_search(jobs, "PIPE"), m, d, idx)

static_poll_add(jobs, m, d, idx) ==
    LET s == select_data_job_search(jobs, "STATIC")
    IN  [QueryAdded(s, m, d, idx) EXCEPT ![s.at].results =
                                     Append(@, Result(m, idx))]

\* A socket has one query, with all its modes.  The list that is returned
\* starts at the job that was found.
socket_poll_add(jobs, m, d, idx) ==
    LET Same(q) == q.fd = d
        Found(j) == j.EType = "SOCKET" /\ First(Same, j.queries) # 0
        Room(j) == j.EType = "SOCKET" /\ Len(j.queries) < MAXIMUM_SELECT_OBJECTS
        at == First(Found, jobs)
        rooms == {i \in DOMAIN jobs : Room(jobs[i])}
        last == CHOOSE i \in rooms : \A j \in rooms : j <= i
    IN  IF at # 0
        THEN SubSeq([jobs EXCEPT ![at].queries[First(Same, jobs[at].queries)].modes =
                                    @ \union {m}], at, Len(jobs))
        ELSE IF rooms # {}
        THEN SubSeq(QueryAdded([jobs |-> jobs, at |-> last], m, d, idx),
                    last, Len(jobs))
        ELSE QueryAdded([jobs |-> <<select_data_new("SOCKET")>> \o jobs, at |-> 1],
                        m, d, idx)

\* A handle of no known type raises; the jobs made so far stay allocated.
select_data_dispatch(jobs, m, d, idx) ==
    CASE Kind(d) = "disk" ->
           IF m = EXCEPTIONAL THEN jobs ELSE static_poll_add(jobs, m, d, idx)
      [] Kind(d) = "console" ->
           CASE m = READ -> read_console_poll_add(jobs, d, idx)
             [] m = WRITE -> static_poll_add(jobs, m, d, idx)
             [] OTHER -> jobs
      [] Kind(d) = "pipe" ->
           CASE m = READ -> read_pipe_poll_add(jobs, m, d, idx)
             [] m = WRITE -> static_poll_add(jobs, m, d, idx)
             [] OTHER -> jobs
      [] Kind(d) = "unbound" /\ m # EXCEPTIONAL -> static_poll_add(jobs, m, d, idx)
      [] OTHER -> socket_poll_add(jobs, m, d, idx)

IsSocket(d) == Kind(d) \in {"socket", "unbound"}

handle_set_mem(hds, d) == d \in hds
handle_set_add(hds, d) == hds \union {d}

\* One of the three lists: a descriptor that comes again is discarded, and
\* the index counts those that are not.
RECURSIVE DispatchList(_, _, _, _, _)
DispatchList(jobs, m, l, hds, i) ==
    IF l = << >> THEN jobs
    ELSE IF handle_set_mem(hds, Head(l)) THEN DispatchList(jobs, m, Tail(l), hds, i)
    ELSE DispatchList(select_data_dispatch(jobs, m, Head(l), i), m, Tail(l),
                      handle_set_add(hds, Head(l)), i + 1)

DispatchAll(c) ==
    LET r == DispatchList(<< >>, READ, Fdlist(c, READ), {}, 0)
        w == DispatchList(r, WRITE, Fdlist(c, WRITE), {}, 0)
    IN  DispatchList(w, EXCEPTIONAL, Fdlist(c, EXCEPTIONAL), {}, 0)

\* fdlist_to_fdset: all sockets, and not too many.
AllSockets(c) ==
    \A m \in Modes : /\ Len(Fdlist(c, m)) <= FD_SETSIZE
                     /\ \A d \in Elems(Fdlist(c, m)) : IsSocket(d)

Nothing(c) == \A m \in Modes : Fdlist(c, m) = << >>
Unknown(c) == \E m \in Modes : \E d \in Elems(Fdlist(c, m)) : Kind(d) = "unknown"

Begin(c) ==
    /\ At(c, "start")
    /\ calls' = [calls EXCEPT
         ![c].before = fds,
         ![c].pc = CASE Nothing(c) -> "sleep"
                     [] AllSockets(c) /\ ~Nothing(c) -> "classic"
                     [] Unknown(c) /\ ~AllSockets(c) -> "done"
                     [] OTHER -> "submit",
         ![c].err = Unknown(c),
         ![c].jobs = IF Nothing(c) \/ AllSockets(c) \/ Unknown(c) THEN << >>
                     ELSE DispatchAll(c)]
    /\ UNCHANGED <<fds, workers, pool, running, left>>

-----------------------------------------------------------------------------
(* Waiting without workers.                                                *)

HasTimeout(c) == world.calls[c].timeout

\* Sleep: with no timeout, for ever, unless the three lists are empty.
SleepEnds(c) ==
    /\ At(c, "sleep") /\ (HasTimeout(c) \/ Nothing(c))
    /\ Goto(c, "done")
    /\ UNCHANGED <<fds, workers, pool, running, left>>

\* The select of the socket library, and fdset_to_fdlist.
ClassicSelect(c) ==
    LET Set(m) == {d \in Elems(Fdlist(c, m)) : Ready(d, m)} IN
    /\ At(c, "classic")
    /\ HasTimeout(c) \/ \E m \in Modes : Set(m) # {}
    /\ calls' = [calls EXCEPT
         ![c].out = [m \in Modes |->
                       Reversed(SelectSeq(Fdlist(c, m), LAMBDA d : d \in Set(m)))],
         ![c].pc = "done"]
    /\ UNCHANGED <<fds, workers, pool, running, left>>

-----------------------------------------------------------------------------
(* Workers.                                                                *)

worker_new == [pc |-> "new", ready |-> FALSE, command |-> FALSE, ECommand |-> "NONE",
               stop |-> FALSE, done |-> FALSE, data |-> <<0, 0>>]
Job(w) == calls[workers[w].data[1]].jobs[workers[w].data[2]]
W(w, l) == workers[w].pc = l

\* The job's results, as its thread writes them.
PutJob(w, job) ==
    calls' = [calls EXCEPT ![workers[w].data[1]].jobs[workers[w].data[2]] = job]
JobEnds(w) == workers' = [workers EXCEPT ![w].pc = "new", ![w].done = TRUE]

\* SignalObjectAndWait: ready is signalled, then the command is waited for.
WorkerReady(w) ==
    /\ W(w, "new")
    /\ workers' = [workers EXCEPT ![w].pc = "idle", ![w].ready = TRUE]
    /\ UNCHANGED <<fds, calls, pool, running, left>>

WorkerCommand(w) ==
    /\ W(w, "idle") /\ workers[w].command
    /\ workers' = [workers EXCEPT ![w].command = FALSE,
                                  ![w].pc = IF workers[w].ECommand = "STOP" THEN "exited"
                                            ELSE "poll"]
    /\ UNCHANGED <<fds, calls, pool, running, left>>

AddResults(job, S) ==
    [job EXCEPT !.results = @ \o S, !.state = IF S = << >> THEN @ ELSE "SIGNALED"]

\* read_console_poll: the stop event comes first; an event that is not a key
\* is read and thrown away.
read_console_poll(w) ==
    LET job == Job(w)
        q == job.queries[1]
    IN  /\ W(w, "poll") /\ job.EType = "CONSOLE"
        /\ \/ /\ workers[w].stop /\ JobEnds(w) /\ UNCHANGED <<calls, fds>>
           \/ /\ ~workers[w].stop /\ Ready(q.fd, READ)
              /\ PutJob(w, AddResults(job, <<Result(READ, q.idx)>>))
              /\ JobEnds(w) /\ UNCHANGED fds
           \/ /\ ~workers[w].stop /\ Ready(q.fd, "other") /\ ~Ready(q.fd, READ)
              /\ fds' = [fds EXCEPT ![q.fd].ready = @ \ {"other"}]
              /\ UNCHANGED <<calls, workers>>
        /\ UNCHANGED <<pool, running, left>>

\* read_pipe_poll: all the pipes are looked at before the stop event is; the
\* first that fails ends the pass.
PipeResults(qs) ==
    LET fails == {i \in DOMAIN qs : Ready(qs[i].fd, "fails")}
        last == IF fails = {} THEN Len(qs)
                ELSE (CHOOSE i \in fails : \A j \in fails : i <= j) - 1
        found == SelectSeq(SubSeq(qs, 1, last), LAMBDA q : Ready(q.fd, READ))
    IN  [results |-> [i \in DOMAIN found |-> Result(READ, found[i].idx)],
         failed |-> fails # {}]

StopsFirst(w) ==
    LET p == PipeResults(Job(w).queries) IN
    /\ W(w, "poll") /\ Job(w).EType = "PIPE"
    /\ p.failed \/ p.results # << >> \/ workers[w].stop
    /\ PutJob(w, IF workers[w].stop THEN Job(w)
                 ELSE [AddResults(Job(w), p.results) EXCEPT
                         !.state = IF p.failed THEN "ERROR" ELSE @])
    /\ JobEnds(w)
    /\ UNCHANGED <<fds, pool, running, left>>

read_pipe_poll(w) ==
    LET p == PipeResults(Job(w).queries) IN
    /\ W(w, "poll") /\ Job(w).EType = "PIPE"
    /\ p.failed \/ p.results # << >> \/ workers[w].stop
    /\ PutJob(w, [AddResults(Job(w), p.results) EXCEPT
                    !.state = IF p.failed THEN "ERROR" ELSE @])
    /\ JobEnds(w)
    /\ UNCHANGED <<fds, pool, running, left>>

\* socket_poll: WSAEventSelect makes the sockets nonblocking; it may fail.
\* Those that are blocking for the program are made so again at the end.
SocketSetup(w) ==
    LET qs == Job(w).queries
        fails == \E i \in DOMAIN qs : Ready(qs[i].fd, "fails")
    IN  /\ W(w, "poll") /\ Job(w).EType = "SOCKET"
        /\ fds' = [d \in Fds |->
                     IF \E i \in DOMAIN qs : qs[i].fd = d /\ ~Ready(d, "fails")
                     THEN [fds[d] EXCEPT !.blocking = FALSE] ELSE fds[d]]
        /\ IF fails THEN PutJob(w, [Job(w) EXCEPT !.state = "ERROR"]) /\ JobEnds(w)
           ELSE /\ workers' = [workers EXCEPT ![w].pc = "sockets"]
                /\ UNCHANGED calls
        /\ UNCHANGED <<pool, running, left>>

ModeOrder == <<READ, WRITE, EXCEPTIONAL>>
RECURSIVE SocketResults(_)
SocketResults(qs) ==
    IF qs = << >> THEN << >>
    ELSE LET q == Head(qs)
             ms == SelectSeq(ModeOrder, LAMBDA m : m \in q.modes /\ Ready(q.fd, m))
         IN  [i \in DOMAIN ms |-> Result(ms[i], q.idx)] \o SocketResults(Tail(qs))

SocketWait(w) ==
    LET rs == SocketResults(Job(w).queries) IN
    /\ W(w, "sockets") /\ (rs # << >> \/ workers[w].stop)
    /\ PutJob(w, [Job(w) EXCEPT !.results = @ \o rs])
    /\ fds' = [d \in Fds |->
                 IF \E i \in DOMAIN Job(w).queries : Job(w).queries[i].fd = d
                 THEN [fds[d] EXCEPT !.blocking = FlaggedBlocking(d)] ELSE fds[d]]
    /\ JobEnds(w)
    /\ UNCHANGED <<pool, running, left>>

-----------------------------------------------------------------------------
(* The call, with workers.                                                 *)

\* worker_pop: a worker of the pool, or a new one, with its events reset.
worker_pop(c) ==
    LET w == IF pool = << >> THEN Len(workers) + 1 ELSE Head(pool) IN
    /\ running' = running + 1
    /\ pool' = IF pool = << >> THEN pool ELSE Tail(pool)
    /\ workers' = IF pool = << >> THEN Append(workers, worker_new)
                  ELSE [workers EXCEPT ![w].stop = FALSE, ![w].done = FALSE]
    /\ calls' = [calls EXCEPT ![c].pc = "ready", ![c].jobs[calls[c].i].worker = w]

Submit(c) ==
    LET call == calls[c] IN
    /\ At(c, "submit")
    /\ IF call.i > Len(call.jobs)
       THEN /\ calls' = [calls EXCEPT ![c].pc = "wait"]
            /\ UNCHANGED <<workers, pool, running>>
       ELSE IF call.jobs[call.i].EType = "STATIC"
       THEN /\ calls' = [calls EXCEPT ![c].i = @ + 1]
            /\ UNCHANGED <<workers, pool, running>>
       ELSE worker_pop(c)
    /\ UNCHANGED <<fds, left>>

\* worker_job_submit: the call waits for the worker outside the runtime lock.
SubmitReady(c) ==
    LET call == calls[c]
        w == call.jobs[call.i].worker
    IN  /\ At(c, "ready") /\ workers[w].ready
        /\ workers' = [workers EXCEPT ![w].ready = FALSE, ![w].command = TRUE,
                                      ![w].ECommand = "EXEC", ![w].data = <<c, call.i>>]
        /\ calls' = [calls EXCEPT ![c].pc = "submit", ![c].i = @ + 1]
        /\ UNCHANGED <<fds, pool, running, left>>

MyWorkers(c) == {calls[c].jobs[i].worker : i \in DOMAIN calls[c].jobs} \ {0}
HasStatic(c) == \E i \in DOMAIN calls[c].jobs : calls[c].jobs[i].EType = "STATIC"

Wait(c) ==
    /\ At(c, "wait")
    /\ \/ /\ MyWorkers(c) = {} /\ HasStatic(c)
          /\ Goto(c, "build") /\ UNCHANGED workers
       \/ /\ MyWorkers(c) = {} /\ ~HasStatic(c)
          /\ Goto(c, "sleep") /\ UNCHANGED workers
       \/ /\ MyWorkers(c) # {}
          /\ HasStatic(c) \/ HasTimeout(c) \/ \E w \in MyWorkers(c) : workers[w].done
          /\ workers' = [w \in DOMAIN workers |->
                           IF w \in MyWorkers(c) THEN [workers[w] EXCEPT !.stop = TRUE]
                           ELSE workers[w]]
          /\ Goto(c, "waitall")
    /\ UNCHANGED <<fds, pool, running, left>>

WaitAll(c) ==
    /\ At(c, "waitall") /\ \A w \in MyWorkers(c) : workers[w].done
    /\ Goto(c, "build")
    /\ UNCHANGED <<fds, workers, pool, running, left>>

\* find_handle: the descriptor at that index of the list of the mode.  It
\* raises when there is none; the jobs stay allocated, with their workers.
NotFound(c, r) == r.idx >= Len(Fdlist(c, r.mode))
find_handle(c, r) == Fdlist(c, r.mode)[r.idx + 1]

RECURSIVE Collect(_, _, _)
Collect(c, rs, m) ==
    IF rs = << >> THEN << >>
    ELSE IF Head(rs).mode # m THEN Collect(c, Tail(rs), m)
    ELSE Append(Collect(c, Tail(rs), m), find_handle(c, Head(rs)))

RECURSIVE AllResults(_)
AllResults(jobs) ==
    IF jobs = << >> THEN << >> ELSE Head(jobs).results \o AllResults(Tail(jobs))

Build(c) ==
    LET rs == AllResults(calls[c].jobs) IN
    /\ At(c, "build")
    /\ calls' = IF \E i \in DOMAIN rs : NotFound(c, rs[i])
                THEN [calls EXCEPT ![c].err = TRUE, ![c].pc = "done"]
                ELSE [calls EXCEPT
         ![c].out = [m \in Modes |-> Collect(c, rs, m)],
         ![c].err = \E i \in DOMAIN calls[c].jobs : calls[c].jobs[i].state = "ERROR",
         ![c].pc = "free", ![c].i = 1]
    /\ UNCHANGED <<fds, workers, pool, running, left>>

\* worker_push: the worker goes back to the pool, or exits when it is full.
worker_push(c, w) ==
    /\ running' = running - 1
    /\ IF Len(pool) < THREAD_WORKERS_MAX
       THEN pool' = <<w>> \o pool /\ calls' = [calls EXCEPT ![c].i = @ + 1]
       ELSE pool' = pool /\ Goto(c, "quit")
    /\ UNCHANGED workers

\* select_data_free: worker_job_finish waits for the job.
Free(c) ==
    LET call == calls[c]
        w == call.jobs[call.i].worker
    IN  /\ At(c, "free")
        /\ IF call.i > Len(call.jobs)
           THEN Goto(c, "done") /\ UNCHANGED <<workers, pool, running>>
           ELSE IF w = 0
           THEN /\ calls' = [calls EXCEPT ![c].i = @ + 1]
                /\ UNCHANGED <<workers, pool, running>>
           ELSE workers[w].done /\ worker_push(c, w)
        /\ UNCHANGED <<fds, left>>

\* worker_free: wait for the worker to be ready, tell it to stop, wait for
\* its thread.
WorkerQuit(c) ==
    LET w == calls[c].jobs[calls[c].i].worker IN
    /\ At(c, "quit") /\ workers[w].ready
    /\ workers' = [workers EXCEPT ![w].ready = FALSE, ![w].ECommand = "STOP",
                                  ![w].command = TRUE]
    /\ Goto(c, "joined")
    /\ UNCHANGED <<fds, pool, running, left>>

WorkerJoined(c) ==
    LET w == calls[c].jobs[calls[c].i].worker IN
    /\ At(c, "joined") /\ workers[w].pc = "exited"
    /\ calls' = [calls EXCEPT ![c].pc = "free", ![c].i = @ + 1]
    /\ UNCHANGED <<fds, workers, pool, running, left>>

\* worker_cleanup, when the library is unloaded: the workers of the pool are
\* taken out one at a time and told to stop; the mutex is kept meanwhile.
worker_cleanup ==
    /\ \A c \in Calls : At(c, "done")
    /\ pool # << >> /\ workers[Head(pool)].ready
    /\ workers' = [workers EXCEPT ![Head(pool)].ready = FALSE,
                                  ![Head(pool)].ECommand = "STOP",
                                  ![Head(pool)].command = TRUE]
    /\ pool' = Tail(pool) /\ running' = running + 1
    /\ UNCHANGED <<fds, calls, left>>

\* The world outside: a descriptor becomes ready for a mode, a console has an
\* event that is not a key, or operations on the descriptor start to fail.
Becomes(d) ==
    CASE Kind(d) \in {"socket", "unbound"} -> Modes \union {"fails"}
      [] Kind(d) = "pipe" -> {READ, "fails"}
      [] Kind(d) = "console" -> {READ, "other"}
      [] OTHER -> {}
Arrive(d, m) ==
    /\ left > 0 /\ left' = left - 1 /\ m \in Becomes(d) \ fds[d].ready
    /\ \E c \in Calls, l \in Modes : d \in Elems(Fdlist(c, l))
    /\ m = "fails" => world.failures
    /\ fds' = [fds EXCEPT ![d].ready = @ \union {m}]
    /\ UNCHANGED <<calls, workers, pool, running>>

-----------------------------------------------------------------------------
CallStep(c) ==
    \/ Begin(c) \/ SleepEnds(c) \/ ClassicSelect(c) \/ Submit(c) \/ SubmitReady(c)
    \/ Wait(c) \/ WaitAll(c) \/ Build(c) \/ Free(c) \/ WorkerQuit(c) \/ WorkerJoined(c)
WorkerStep(w) ==
    \/ WorkerReady(w) \/ WorkerCommand(w) \/ read_console_poll(w)
    \/ read_pipe_poll(w) \/ SocketSetup(w) \/ SocketWait(w)

Next ==
    /\ \/ \E c \in Calls : CallStep(c)
       \/ \E w \in DOMAIN workers : WorkerStep(w)
       \/ worker_cleanup
       \/ \E d \in Fds, m \in Modes \union {"other", "fails"} : Arrive(d, m)
    /\ UNCHANGED world

Spec == Init /\ [][Next]_vars
-----------------------------------------------------------------------------
Returned(c) == At(c, "done") /\ ~calls[c].err
Watched(c, m) == Elems(Fdlist(c, m))
Always(d, m) == Kind(d) \in {"disk", "unbound"} \/ (m = WRITE /\ Kind(d) \in {"pipe", "console"})

\* The calls whose indices are right: no list names a descriptor twice (the
\* index of a query, select.c:1098-1113, counts what comes again once, and
\* find_handle, 921-929, each time), and a socket has the same place in each
\* list that names it (its one query has one index, 705).
Indexed(c) ==
    \A m, n \in Modes : \A i \in DOMAIN Fdlist(c, m), j \in DOMAIN Fdlist(c, n) :
        (Fdlist(c, m)[i] = Fdlist(c, n)[j] /\ (m = n \/ IsSocket(Fdlist(c, m)[i]))) => i = j

\* The calls of which no job is lost: socket_poll_add returns the job that it
\* found (709), so that the jobs made between two sockets are dropped.
Asked(c) == Fdlist(c, READ) \o Fdlist(c, WRITE) \o Fdlist(c, EXCEPTIONAL)
NoneDropped(c) ==
    \A i, j, k \in DOMAIN Asked(c) :
        (i < j /\ j < k /\ IsSocket(Asked(c)[i]) /\ IsSocket(Asked(c)[k])) => IsSocket(Asked(c)[j])

\* What is returned was asked for in that list and is ready.
OutRight(c) ==
    \A m \in Modes : \A d \in Elems(calls[c].out[m]) :
        d \in Watched(c, m) /\ (Ready(d, m) \/ Always(d, m))

\* A pipe or a socket that was ready when the call began is returned.
NoneMissed(c) ==
    \A m \in Modes : \A d \in Watched(c, m) :
        (Kind(d) \in {"pipe", "socket"} /\ m \in calls[c].before[d].ready)
        => d \in Elems(calls[c].out[m])

\* When all the calls have returned, the workers are idle, no more than the
\* pool takes; a socket that no call failed on blocks as it did before.
AllBack ==
    (\A c \in Calls : At(c, "done")) =>
        /\ Len(pool) <= THREAD_WORKERS_MAX
        /\ \A w \in DOMAIN workers : W(w, "exited") \/ W(w, "idle") \/ W(w, "new")
        /\ \A d \in Fds : (\A c \in Calls : ~calls[c].err) =>
                             fds[d].blocking = FlaggedBlocking(d)

\* A call raises for a descriptor that is not one or fails.
ErrRight(c) ==
    \E m \in Modes : \E d \in Watched(c, m) : Kind(d) = "unknown" \/ Ready(d, "fails")

\* A call only waits for a worker that is on its way to what the call waits
\* for: to be ready, to end the call's own job (after the stop, whatever the
\* descriptors do) or to exit.
ToReady(w) == W(w, "new") \/ (W(w, "idle") /\ workers[w].ready /\ ~workers[w].command)
ToDone(w, c, i) ==
    \/ workers[w].done
    \/ /\ workers[w].data = <<c, i>> /\ workers[w].ECommand = "EXEC"
       /\ (W(w, "idle") /\ workers[w].command) \/ W(w, "poll") \/ W(w, "sockets")
       /\ calls[c].pc \in {"waitall", "free"} => workers[w].stop
WaitsRight ==
    \A c \in Calls : \A i \in DOMAIN calls[c].jobs :
        LET w == calls[c].jobs[i].worker IN
        w # 0 =>
            /\ (At(c, "ready") \/ At(c, "quit")) /\ i = calls[c].i => ToReady(w)
            /\ calls[c].pc \in {"wait", "waitall"} => ToDone(w, c, i)
            /\ At(c, "free") /\ i >= calls[c].i => ToDone(w, c, i)
            /\ At(c, "joined") /\ i = calls[c].i =>
                 W(w, "exited") \/ (W(w, "idle") /\ workers[w].command
                                    /\ workers[w].ECommand = "STOP")

\* Unix.select on Windows: what it returns was asked for and is ready, a pipe
\* or socket that was ready is not missed even when the timeout has passed
\* before the worker ran, an error is one of the descriptors, the workers and
\* the sockets are given back, and no call or worker waits for another for
\* ever.  What a call returns is excepted where it uses workers and select.c
\* mistakes the indices of its descriptors or drops some of its jobs.
SelectRight ==
    /\ \A c \in Calls : Returned(c) =>
          /\ AllSockets(c) \/ Indexed(c) => OutRight(c)
          /\ AllSockets(c) \/ (Indexed(c) /\ NoneDropped(c)) => NoneMissed(c)
    /\ \A c \in Calls : (At(c, "done") /\ calls[c].err /\ Indexed(c)) => ErrRight(c)
    /\ AllBack /\ WaitsRight
=============================================================================
