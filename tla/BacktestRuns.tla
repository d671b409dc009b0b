------------------------------ MODULE BacktestRuns ------------------------------
(***************************************************************************)
(* Backtest runs: the API inserts or re-arms a Run row, hands it to an RQ  *)
(* worker when one seems to be there and runs it itself otherwise; whoever *)
(* executes it writes artifacts under run_<id> and then the row.           *)
(*                                                                         *)
(* Processes: API requests (each handler is one thread) and RQ workers,    *)
(* which share the run table, the artifact directories and the queue in    *)
(* Redis.  A session writes only the columns whose value differs from the  *)
(* one it loaded (SQLAlchemy's unit of work): the worker keeps one session *)
(* for the whole job and /runs/program keeps one during its preflight, so  *)
(* what they compare with is as old as their start.  Reading a row,        *)
(* changing it and committing at once is one step here.                    *)
(***************************************************************************)
EXTENDS Naturals, Sequences, FiniteSets

CONSTANTS
    Runs,       \* ids of Run rows
    ApiThreads,   \* handlers the API can have in flight
    Workers,    \* RQ worker processes
    MaxAsked,   \* bound on the requests for a run
    MaxKills,   \* bound on processes killed
    Null        \* None

ASSUME RunsAssumption ==
    /\ MaxAsked \in Nat /\ MaxKills \in Nat
    /\ IsFiniteSet(ApiThreads)
    /\ Null \notin Runs \cup {"rejected", "failed"}

VARIABLES
    run,       \* [Runs -> row]; status "absent" before the insert; code says it
               \* has a program
    artifact,  \* [Runs -> what artifacts/run_<id> holds]
    queue,     \* the RQ queue "lpft": run ids, oldest first
    api,       \* [ApiThreads -> handler]
    worker,    \* [Workers -> worker]
    listed,    \* workers the registry in Redis names
    kills,     \* processes killed so far
    \* History.
    asked,     \* [Runs -> requests that armed the run]
    doubled,   \* [Runs -> enqueues that raised after the push]
    started,   \* [Runs -> executions begun]
    met,       \* runs two processes have worked on at once since the last
               \* request that found nobody working
    mixed      \* runs whose row was last written by one of such two

store == <<run, artifact>>
history == <<asked, doubled, started, met, mixed>>
runsVars == <<store, queue, api, worker, listed, kills, history>>

--------------------------------------------------------------------------------

Statuses == {"absent", "pending", "running", "completed", "failed"}

\* "rejected" is a DataQualityError's summary, "failed" any other exception's
\* text.
Errors == {"rejected", "failed"}

Results == {"ok"} \cup Errors

\* loaded is the [status, error] a session compares with.
IdleHandler == [pc |-> "idle", r |-> Null, loaded |-> Null, result |-> Null]

IdleWorker == [pc |-> "idle", r |-> Null, loaded |-> Null, result |-> Null]

RunsInit ==
    /\ run = [r \in Runs |-> [status |-> "absent", error |-> Null,
                           code |-> FALSE]]
    /\ artifact = [r \in Runs |-> "none"]
    /\ queue = <<>>
    /\ api = [q \in ApiThreads |-> IdleHandler]
    /\ listed \in SUBSET Workers
    /\ worker = [w \in Workers |->
                    IF w \in listed THEN IdleWorker
                                    ELSE [IdleWorker EXCEPT !.pc = "down"]]
    /\ kills = 0
    /\ asked = [r \in Runs |-> 0]
    /\ doubled = [r \in Runs |-> 0]
    /\ started = [r \in Runs |-> 0]
    /\ met = {} /\ mixed = {}

\* Some process has loaded run r and still has to write it.
Busy(r) ==
    \/ \E q \in ApiThreads :
          api[q].r = r /\ api[q].pc \in {"preflight", "running", "computed"}
    \/ \E w \in Workers : worker[w].r = r /\ worker[w].pc \in {"running", "computed"}

\* The values a column may have after a flush of new by a session that loaded
\* old.  Two error texts of one kind may differ or not.
Flushed(new, old, current) ==
    IF new # old THEN {new}
    ELSE IF new \in Errors THEN {new, current}
    ELSE {current}

\* What running a program leaves in the directory: a rejection writes the
\* validation artifact, a failure of the program nothing.
Artifacts(r, result) ==
    IF result = "failed" THEN artifact
    ELSE [artifact EXCEPT ![r] = result]

RunStatus(result) == IF result = "ok" THEN "completed" ELSE "failed"

RunError(result) == IF result = "ok" THEN Null ELSE result

--------------------------------------------------------------------------------
(* The API *)

\* /generate-and-backtest and /assistant/stream insert the row, after a
\* preflight of the market data that may reject the request with no row.
CreateRun(q, r) ==
    /\ api[q].pc = "idle"
    /\ run[r].status = "absent"
    /\ asked[r] < MaxAsked
    /\ run' = [run EXCEPT ![r] = [status |-> "pending", error |-> Null,
                                  code |-> TRUE]]
    /\ api' = [api EXCEPT ![q] = [IdleHandler EXCEPT !.pc = "check", !.r = r]]
    /\ asked' = [asked EXCEPT ![r] = @ + 1]
    /\ UNCHANGED <<artifact, queue, worker, listed, kills, doubled, started, met,
                   mixed>>

\* POST /runs inserts a row without a program.
CreateBareRun(r) ==
    /\ run[r].status = "absent"
    /\ run' = [run EXCEPT ![r] = [@ EXCEPT !.status = "pending"]]
    /\ UNCHANGED <<artifact, queue, api, worker, listed, kills, history>>

\* /runs/program reads a run that has a program, whatever its status, and
\* fetches its market data.
RerunRead(q, r) ==
    /\ api[q].pc = "idle"
    /\ run[r].status # "absent" /\ run[r].code
    /\ asked[r] < MaxAsked
    /\ api' = [api EXCEPT ![q] =
                 [IdleHandler EXCEPT !.pc = "preflight", !.r = r, !.loaded =
                     [status |-> run[r].status, error |-> run[r].error]]]
    /\ met' = IF Busy(r) THEN met \cup {r} ELSE met \ {r}
    /\ UNCHANGED <<store, queue, worker, listed, kills, asked, doubled, started,
                   mixed>>

\* The handler of q writes status and error through the session it has kept.
RerunWrite(q, status, error) ==
    LET r == api[q].r
        loaded == api[q].loaded
    IN  \E s \in Flushed(status, loaded.status, run[r].status),
           e \in Flushed(error, loaded.error, run[r].error) :
              run' = [run EXCEPT ![r] = [@ EXCEPT !.status = s, !.error = e]]

Wrote(r) == mixed' = IF r \in met THEN mixed \cup {r} ELSE mixed \ {r}

\* The data is good: the run is armed again.
RerunArm(q) ==
    /\ api[q].pc = "preflight"
    /\ RerunWrite(q, "pending", Null)
    /\ api' = [api EXCEPT ![q] = [IdleHandler EXCEPT !.pc = "check", !.r = api[q].r]]
    /\ asked' = [asked EXCEPT ![api[q].r] = @ + 1]
    /\ Wrote(api[q].r)
    /\ UNCHANGED <<artifact, queue, worker, listed, kills, doubled, started, met>>

\* The data is rejected: the run fails on the spot.
RerunRejected(q) ==
    /\ api[q].pc = "preflight"
    /\ artifact' = Artifacts(api[q].r, "rejected")
    /\ RerunWrite(q, "failed", "rejected")
    /\ api' = [api EXCEPT ![q] = IdleHandler]
    /\ Wrote(api[q].r)
    /\ UNCHANGED <<queue, worker, listed, kills, asked, doubled, started, met>>

\* The preflight raises anything else: nothing is written.
RerunAborts(q) ==
    /\ api[q].pc = "preflight"
    /\ api' = [api EXCEPT ![q] = IdleHandler]
    /\ UNCHANGED <<store, queue, worker, listed, kills, history>>

\* lpft_worker_available: the registry names a worker of the queue.  Redis may
\* also fail to answer.
CheckWorker(q) ==
    /\ api[q].pc = "check"
    /\ \E pc \in {"start"} \cup (IF listed # {} THEN {"push"} ELSE {}) :
          api' = [api EXCEPT ![q] = [@ EXCEPT !.pc = pc]]
    /\ UNCHANGED <<store, queue, worker, listed, kills, history>>

Enqueue(q) ==
    /\ api[q].pc = "push"
    /\ queue' = Append(queue, api[q].r)
    /\ api' = [api EXCEPT ![q] = IdleHandler]
    /\ UNCHANGED <<store, worker, listed, kills, history>>

\* enqueue raises, before the push or after it: the handler falls back to the
\* inline run.
EnqueueRaises(q) ==
    /\ api[q].pc = "push"
    /\ \/ UNCHANGED <<queue, doubled>>
       \/ /\ queue' = Append(queue, api[q].r)
          /\ doubled' = [doubled EXCEPT ![api[q].r] = @ + 1]
    /\ api' = [api EXCEPT ![q] = [@ EXCEPT !.pc = "start"]]
    /\ UNCHANGED <<store, worker, listed, kills, asked, started, met,
                   mixed>>

Begin(r) ==
    /\ started' = [started EXCEPT ![r] = @ + 1]
    /\ met' = IF Busy(r) THEN met \cup {r} ELSE met
    /\ UNCHANGED <<asked, doubled, mixed>>

\* _inline_complete_run, one session per write.
InlineStart(q) ==
    /\ api[q].pc = "start"
    /\ run' = [run EXCEPT ![api[q].r] =
                 [@ EXCEPT !.status = "running", !.error = Null]]
    /\ api' = [api EXCEPT ![q] = [@ EXCEPT !.pc = "running"]]
    /\ Begin(api[q].r)
    /\ UNCHANGED <<artifact, queue, worker, listed, kills>>

InlineCompute(q) ==
    /\ api[q].pc = "running"
    /\ \E result \in Results :
          /\ artifact' = Artifacts(api[q].r, result)
          /\ api' = [api EXCEPT ![q] =
                       [@ EXCEPT !.pc = "computed", !.result = result]]
    /\ UNCHANGED <<run, queue, worker, listed, kills, history>>

\* Mutant of InlineFinish: the exception handler reports the run as done.
InlineFinishCompletes(q) ==
    /\ api[q].pc = "computed"
    /\ run' = [run EXCEPT ![api[q].r] =
                 [@ EXCEPT !.status = "completed", !.error = RunError(api[q].result)]]
    /\ api' = [api EXCEPT ![q] = IdleHandler]
    /\ Wrote(api[q].r)
    /\ UNCHANGED <<artifact, queue, worker, listed, kills, asked, doubled, started,
                   met>>

InlineFinish(q) ==
    /\ api[q].pc = "computed"
    /\ run' = [run EXCEPT ![api[q].r] =
                 [@ EXCEPT !.status = RunStatus(api[q].result),
                           !.error = RunError(api[q].result)]]
    /\ api' = [api EXCEPT ![q] = IdleHandler]
    /\ Wrote(api[q].r)
    /\ UNCHANGED <<artifact, queue, worker, listed, kills, asked, doubled, started,
                   met>>

--------------------------------------------------------------------------------
(* The workers *)

\* Mutant of WorkerStart: the job stays at the head of the queue.
WorkerStartPeeks(w) ==
    LET r == Head(queue) IN
    /\ worker[w].pc = "idle"
    /\ queue # <<>>
    /\ run' = [run EXCEPT ![r] = [@ EXCEPT !.status = "running"]]
    /\ worker' = [worker EXCEPT ![w] = [pc |-> "running", r |-> r,
                                        loaded |-> run[r].error, result |-> Null]]
    /\ Begin(r)
    /\ UNCHANGED <<artifact, queue, api, listed, kills>>

\* program_backtest_job from the pop to the first commit: status running, error
\* as it was.  The session then loads the row again.
WorkerStart(w) ==
    LET r == Head(queue) IN
    /\ worker[w].pc = "idle"
    /\ queue # <<>>
    /\ queue' = Tail(queue)
    /\ run' = [run EXCEPT ![r] = [@ EXCEPT !.status = "running"]]
    /\ worker' = [worker EXCEPT ![w] = [pc |-> "running", r |-> r,
                                        loaded |-> run[r].error, result |-> Null]]
    /\ Begin(r)
    /\ UNCHANGED <<artifact, api, listed, kills>>

WorkerCompute(w) ==
    /\ worker[w].pc = "running"
    /\ \E result \in Results :
          /\ artifact' = Artifacts(worker[w].r, result)
          /\ worker' = [worker EXCEPT ![w] =
                          [@ EXCEPT !.pc = "computed", !.result = result]]
    /\ UNCHANGED <<run, queue, api, listed, kills, history>>

\* Mutant of WorkerFinish: an exception of the program is only raised again.
WorkerFinishSilent(w) ==
    LET r == worker[w].r IN
    /\ worker[w].pc = "computed"
    /\ run' = IF worker[w].result = "failed" THEN run
              ELSE [run EXCEPT ![r] = [@ EXCEPT !.status = RunStatus(worker[w].result),
                                               !.error = RunError(worker[w].result)]]
    /\ worker' = [worker EXCEPT ![w] = IdleWorker]
    /\ Wrote(r)
    /\ UNCHANGED <<artifact, queue, api, listed, kills, asked, doubled, started,
                   met>>

\* The session loaded status "running" after its first commit.
WorkerFinish(w) ==
    LET r == worker[w].r IN
    /\ worker[w].pc = "computed"
    /\ \E e \in Flushed(RunError(worker[w].result), worker[w].loaded, run[r].error) :
          run' = [run EXCEPT ![r] = [@ EXCEPT !.status = RunStatus(worker[w].result),
                                              !.error = e]]
    /\ worker' = [worker EXCEPT ![w] = IdleWorker]
    /\ Wrote(r)
    /\ UNCHANGED <<artifact, queue, api, listed, kills, asked, doubled, started,
                   met>>

--------------------------------------------------------------------------------
(* Processes that die *)

\* A worker is killed: RQ does not run its job again, and the registry names the
\* worker until its key expires.
KillWorker(w) ==
    /\ kills < MaxKills
    /\ worker[w].pc # "down"
    /\ kills' = kills + 1
    /\ worker' = [worker EXCEPT ![w] = [IdleWorker EXCEPT !.pc = "down"]]
    /\ UNCHANGED <<store, queue, api, listed, history>>

RegistryExpires(w) ==
    /\ worker[w].pc = "down"
    /\ w \in listed
    /\ listed' = listed \ {w}
    /\ UNCHANGED <<store, queue, api, worker, kills, history>>

StartWorker(w) ==
    /\ worker[w].pc = "down"
    /\ worker' = [worker EXCEPT ![w] = IdleWorker]
    /\ listed' = listed \cup {w}
    /\ UNCHANGED <<store, queue, api, kills, history>>

\* The API process dies with a handler in it.
KillHandler(q) ==
    /\ kills < MaxKills
    /\ api[q].pc # "idle"
    /\ kills' = kills + 1
    /\ api' = [api EXCEPT ![q] = IdleHandler]
    /\ UNCHANGED <<store, queue, worker, listed, history>>

--------------------------------------------------------------------------------

RunHandlerStep(q) ==
    RerunArm(q) \/ RerunRejected(q) \/ RerunAborts(q)
        \/ CheckWorker(q) \/ Enqueue(q) \/ EnqueueRaises(q)
        \/ InlineStart(q) \/ InlineCompute(q) \/ InlineFinish(q)

WorkerStep(w) == WorkerStart(w) \/ WorkerCompute(w) \/ WorkerFinish(w)

RunsNext ==
    \/ \E r \in Runs : CreateBareRun(r)
    \/ \E q \in ApiThreads :
          \/ \E r \in Runs : CreateRun(q, r) \/ RerunRead(q, r)
          \/ RunHandlerStep(q)
          \/ KillHandler(q)
    \/ \E w \in Workers :
          WorkerStep(w) \/ KillWorker(w) \/ RegistryExpires(w) \/ StartWorker(w)

RunsSpec == RunsInit /\ [][RunsNext]_runsVars

\* A handler runs to its end, and a worker that is up serves its queue.  No
\* worker has to be started.
RunsFairness ==
    /\ \A q \in ApiThreads : WF_runsVars(RunHandlerStep(q))
    /\ \A w \in Workers : WF_runsVars(WorkerStep(w))

--------------------------------------------------------------------------------
(* Properties *)

\* Rows, directories and processes have the shapes the two services give them.
RunsTypeOK ==
    /\ run \in [Runs -> [status : Statuses, error : Errors \cup {Null},
                         code : BOOLEAN]]
    /\ artifact \in [Runs -> {"none", "ok", "rejected"}]
    /\ queue \in Seq(Runs)
    /\ api \in [ApiThreads -> [pc : {"idle", "preflight", "check", "push",
                                   "start", "running", "computed"},
                             r : Runs \cup {Null},
                             loaded : {Null} \cup
                                 [status : Statuses, error : Errors \cup {Null}],
                             result : Results \cup {Null}]]
    /\ worker \in [Workers -> [pc : {"down", "idle", "running", "computed"},
                               r : Runs \cup {Null},
                               loaded : Errors \cup {Null},
                               result : Results \cup {Null}]]
    /\ listed \subseteq Workers
    /\ kills \in Nat
    /\ asked \in [Runs -> Nat] /\ doubled \in [Runs -> Nat]
    /\ started \in [Runs -> Nat]
    /\ met \subseteq Runs /\ mixed \subseteq Runs

\* A run is executed at most once for every request that armed it and every
\* enqueue that raised after the push: neither the queue nor the fallback
\* executes a request twice otherwise.
ExecutionsAccounted ==
    \A r \in Runs : started[r] <= asked[r] + doubled[r]

\* A row last written by a process that nobody overlapped with tells the truth,
\* however long ago its session loaded it and whatever earlier executions left:
\* completed means no error and the artifacts of a run, failed means an error,
\* and a rejection its validation artifact.
RowMatchesArtifacts ==
    \A r \in Runs \ mixed :
        /\ run[r].status = "completed" =>
              run[r].error = Null /\ artifact[r] = "ok"
        /\ run[r].status = "failed" =>
              /\ run[r].error # Null
              /\ run[r].error = "rejected" => artifact[r] = "rejected"

\* A run with a program is completed or failed in the end, unless a process is
\* killed.  (A run of POST /runs has none, and nothing ever executes it.)
RunsSettle ==
    \A r \in Runs : run[r].code /\ run[r].status \in {"pending", "running"} ~>
                        run[r].status \in {"completed", "failed"} \/ kills > 0
================================================================================
