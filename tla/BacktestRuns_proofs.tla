--------------------------- MODULE BacktestRuns_proofs ---------------------------
(***************************************************************************)
(* Proofs about BacktestRuns, for any runs, handlers, workers and bounds:  *)
(* the shapes, the account of executions and the truth of the rows.        *)
(***************************************************************************)
EXTENDS BacktestRuns, FiniteSetTheorems, SequenceTheorems, TLAPS

ApiPcs == {"idle", "preflight", "check", "push", "start", "running", "computed"}

Loaded == [status : Statuses, error : Errors \cup {Null}]

Loads == {Null} \cup Loaded

Handlers == [pc : ApiPcs, r : Runs \cup {Null}, loaded : Loads, result : Results \cup {Null}]

WorkerPcs == {"down", "idle", "running", "computed"}

WorkerStates == [pc : WorkerPcs, r : Runs \cup {Null}, loaded : Errors \cup {Null},
                 result : Results \cup {Null}]

Rows == [status : Statuses, error : Errors \cup {Null}, code : BOOLEAN]

\* A handler works on a run that was inserted, and a worker too.
HandlerKnown(h, rows) ==
    /\ h.pc # "idle" => h.r \in Runs /\ rows[h.r].status # "absent"
    /\ h.pc = "idle" => h.r = Null
    /\ h.pc = "preflight" => h.loaded \in Loaded
    /\ h.pc = "computed" => h.result \in Results

WorkerKnown(w, rows) ==
    /\ w.pc \in {"running", "computed"} => w.r \in Runs /\ rows[w.r].status # "absent"
    /\ w.pc \in {"idle", "down"} => w.r = Null
    /\ w.pc = "computed" => w.result \in Results

KnownRuns ==
    /\ \A q \in ApiThreads : HandlerKnown(api[q], run)
    /\ \A w \in Workers : WorkerKnown(worker[w], run)
    /\ \A k \in 1..Len(queue) : run[queue[k]].status # "absent"

\* The parts of the type invariant that few steps touch.
Ledger ==
    /\ artifact \in [Runs -> {"none", "ok", "rejected"}]
    /\ listed \subseteq Workers /\ kills \in Nat
    /\ asked \in [Runs -> Nat] /\ doubled \in [Runs -> Nat] /\ started \in [Runs -> Nat]
    /\ met \subseteq Runs /\ mixed \subseteq Runs

ShapeInv == RunsTypeOK /\ KnownRuns

--------------------------------------------------------------------------------
(* The shapes *)

LEMMA NullIsNothing == Null \notin Runs /\ Null \notin Errors
BY RunsAssumption DEF Errors

LEMMA HandlersFit == \A q \in ApiThreads : RunsTypeOK => api[q] \in Handlers
BY DEF RunsTypeOK, Handlers, ApiPcs, Loads, Loaded

LEMMA WorkersFit == \A w \in Workers : RunsTypeOK => worker[w] \in WorkerStates
BY DEF RunsTypeOK, WorkerStates, WorkerPcs

\* A flush leaves a column with the new value or as it was.
LEMMA FlushedIs == \A new, old, current : Flushed(new, old, current) \subseteq {new, current}
BY DEF Flushed

LEMMA ArtifactsFit ==
    ASSUME NEW r \in Runs, NEW result \in Results,
           artifact \in [Runs -> {"none", "ok", "rejected"}]
    PROVE  Artifacts(r, result) \in [Runs -> {"none", "ok", "rejected"}]
BY DEF Artifacts, Results, Errors

LEMMA InitShape == RunsInit => ShapeInv
<1> SUFFICES ASSUME RunsInit PROVE ShapeInv
  OBVIOUS
<1>1. IdleHandler \in Handlers /\ IdleWorker \in WorkerStates
      /\ [IdleWorker EXCEPT !.pc = "down"] \in WorkerStates
  BY DEF IdleHandler, IdleWorker, Handlers, ApiPcs, Loads, Loaded, WorkerStates, WorkerPcs
<1>2. /\ api \in [ApiThreads -> Handlers] /\ worker \in [Workers -> WorkerStates]
  BY <1>1 DEF RunsInit
<1>3. run \in [Runs -> Rows]
  BY DEF RunsInit, Rows, Statuses, Errors
<1>4. /\ artifact \in [Runs -> {"none", "ok", "rejected"}] /\ queue = <<>> /\ queue \in Seq(Runs)
      /\ listed \subseteq Workers /\ kills \in Nat /\ asked \in [Runs -> Nat]
      /\ doubled \in [Runs -> Nat] /\ started \in [Runs -> Nat]
      /\ met \subseteq Runs /\ mixed \subseteq Runs
  BY EmptySeq DEF RunsInit
<1>5. RunsTypeOK
  BY <1>2, <1>3, <1>4 DEF RunsTypeOK, Handlers, ApiPcs, Loads, Loaded, WorkerStates, WorkerPcs, Rows
<1>6. KnownRuns
  BY <1>4 DEF RunsInit, KnownRuns, HandlerKnown, WorkerKnown, IdleHandler, IdleWorker
<1> QED BY <1>5, <1>6 DEF ShapeInv

LEMMA TypeParts ==
    RunsTypeOK <=> /\ run \in [Runs -> Rows] /\ queue \in Seq(Runs)
                   /\ api \in [ApiThreads -> Handlers]
                   /\ worker \in [Workers -> WorkerStates] /\ Ledger
BY DEF RunsTypeOK, Rows, Handlers, ApiPcs, Loads, Loaded, WorkerStates, WorkerPcs, Ledger

\* No step takes a row out of the table.
RowsStay == \A r \in Runs : run[r].status # "absent" => run'[r].status # "absent"

\* A handler takes a step, which may push its run.
LEMMA HandlerMoves ==
    ASSUME ShapeInv, NEW q \in ApiThreads, NEW h \in Handlers, HandlerKnown(h, run'),
           api' = [api EXCEPT ![q] = h], run' \in [Runs -> Rows], RowsStay, Ledger',
           worker' = worker,
           queue' = queue \/ (api[q].pc # "idle" /\ queue' = Append(queue, api[q].r))
    PROVE  ShapeInv'
<1>1. /\ queue \in Seq(Runs) /\ api \in [ApiThreads -> Handlers]
      /\ worker \in [Workers -> WorkerStates]
  BY TypeParts DEF ShapeInv
<1>2. HandlerKnown(api[q], run)
  BY DEF ShapeInv, KnownRuns
<1>3. \A k \in 1..Len(queue) : queue[k] \in Runs /\ run'[queue[k]].status # "absent"
  BY <1>1, ElementOfSeq DEF ShapeInv, KnownRuns, RowsStay
<1>4. queue' \in Seq(Runs) /\ \A k \in 1..Len(queue') : run'[queue'[k]].status # "absent"
  <2>1. CASE queue' = queue
    BY <1>1, <1>3, <2>1
  <2>2. CASE api[q].pc # "idle" /\ queue' = Append(queue, api[q].r)
    <3>1. api[q].r \in Runs /\ run'[api[q].r].status # "absent"
      BY <1>2, <2>2 DEF HandlerKnown, RowsStay
    <3>2. /\ queue' \in Seq(Runs) /\ Len(queue') = Len(queue) + 1
          /\ \A k \in 1..Len(queue) : queue'[k] = queue[k]
          /\ queue'[Len(queue) + 1] = api[q].r
      BY <1>1, <2>2, <3>1, AppendProperties
    <3>3. Len(queue) \in Nat
      BY <1>1, LenProperties
    <3>4. \A k \in 1..Len(queue') : k \in 1..Len(queue) \/ k = Len(queue) + 1
      BY <3>2, <3>3
    <3> QED BY <1>3, <3>1, <3>2, <3>4
  <2> QED BY <2>1, <2>2
<1>5. api' \in [ApiThreads -> Handlers] /\ api'[q] = h
      /\ \A p \in ApiThreads : p # q => api'[p] = api[p]
  BY <1>1
<1>6. \A p \in ApiThreads : HandlerKnown(api'[p], run')
  <2> TAKE p \in ApiThreads
  <2>1. HandlerKnown(api[p], run)
    BY DEF ShapeInv, KnownRuns
  <2>2. HandlerKnown(api[p], run')
    BY <2>1 DEF HandlerKnown, RowsStay
  <2> QED BY <1>5, <2>2
<1>7. \A w \in Workers : WorkerKnown(worker'[w], run')
  <2> TAKE w \in Workers
  <2>1. WorkerKnown(worker[w], run)
    BY DEF ShapeInv, KnownRuns
  <2> QED BY <2>1 DEF WorkerKnown, RowsStay
<1>8. RunsTypeOK'
  BY <1>1, <1>4, <1>5
     DEF RunsTypeOK, Rows, Handlers, ApiPcs, Loads, Loaded, WorkerStates, WorkerPcs, Ledger
<1> QED BY <1>4, <1>6, <1>7, <1>8 DEF ShapeInv, KnownRuns

\* A worker takes a step, which may pop the queue.
LEMMA WorkerMoves ==
    ASSUME ShapeInv, NEW w \in Workers, NEW h \in WorkerStates, WorkerKnown(h, run'),
           worker' = [worker EXCEPT ![w] = h], run' \in [Runs -> Rows], RowsStay, Ledger',
           api' = api,
           queue' = queue \/ (queue # <<>> /\ queue' = Tail(queue))
    PROVE  ShapeInv'
<1>1. /\ queue \in Seq(Runs) /\ api \in [ApiThreads -> Handlers]
      /\ worker \in [Workers -> WorkerStates]
  BY TypeParts DEF ShapeInv
<1>2. \A k \in 1..Len(queue) : queue[k] \in Runs /\ run'[queue[k]].status # "absent"
  BY <1>1, ElementOfSeq DEF ShapeInv, KnownRuns, RowsStay
<1>3. queue' \in Seq(Runs) /\ \A k \in 1..Len(queue') : run'[queue'[k]].status # "absent"
  <2>1. CASE queue' = queue
    BY <1>1, <1>2, <2>1
  <2>2. CASE queue # <<>> /\ queue' = Tail(queue)
    <3>1. /\ queue' \in Seq(Runs) /\ Len(queue') = Len(queue) - 1
          /\ \A k \in 1..Len(queue') : queue'[k] = queue[k + 1]
      BY <1>1, <2>2, HeadTailProperties
    <3>2. \A k \in 1..Len(queue') : k + 1 \in 1..Len(queue)
      BY <1>1, <3>1, LenProperties
    <3> QED BY <1>2, <3>1, <3>2
  <2> QED BY <2>1, <2>2
<1>4. worker' \in [Workers -> WorkerStates] /\ worker'[w] = h
      /\ \A v \in Workers : v # w => worker'[v] = worker[v]
  BY <1>1
<1>5. \A q \in ApiThreads : HandlerKnown(api'[q], run')
  <2> TAKE q \in ApiThreads
  <2>1. HandlerKnown(api[q], run)
    BY DEF ShapeInv, KnownRuns
  <2> QED BY <2>1 DEF HandlerKnown, RowsStay
<1>6. \A v \in Workers : WorkerKnown(worker'[v], run')
  <2> TAKE v \in Workers
  <2>1. WorkerKnown(worker[v], run)
    BY DEF ShapeInv, KnownRuns
  <2>2. WorkerKnown(worker[v], run')
    BY <2>1 DEF WorkerKnown, RowsStay
  <2> QED BY <1>4, <2>2
<1>7. RunsTypeOK'
  BY <1>1, <1>3, <1>4
     DEF RunsTypeOK, Rows, Handlers, ApiPcs, Loads, Loaded, WorkerStates, WorkerPcs, Ledger
<1> QED BY <1>3, <1>5, <1>6, <1>7 DEF ShapeInv, KnownRuns

\* What the shapes say before any step.
LEMMA Shapes ==
    ASSUME ShapeInv
    PROVE  /\ run \in [Runs -> Rows] /\ queue \in Seq(Runs) /\ Ledger
           /\ \A q \in ApiThreads : api[q] \in Handlers /\ HandlerKnown(api[q], run)
           /\ \A w \in Workers : worker[w] \in WorkerStates /\ WorkerKnown(worker[w], run)
BY TypeParts DEF ShapeInv, KnownRuns

LEMMA IdleFit == /\ IdleHandler \in Handlers /\ IdleHandler.pc = "idle" /\ IdleHandler.r = Null
                 /\ IdleWorker \in WorkerStates /\ IdleWorker.pc = "idle" /\ IdleWorker.r = Null
BY DEF IdleHandler, IdleWorker, Handlers, ApiPcs, Loads, Loaded, WorkerStates, WorkerPcs

\* Writing some columns of a row.
LEMMA RowWritten ==
    ASSUME ShapeInv, NEW r \in Runs, NEW row \in Rows, row.status # "absent",
           run' = [run EXCEPT ![r] = row]
    PROVE  run' \in [Runs -> Rows] /\ RowsStay
BY Shapes DEF RowsStay

LEMMA RunStatusFits ==
    \A result \in Results : /\ RunStatus(result) \in {"completed", "failed"}
                            /\ RunError(result) \in Errors \cup {Null}
BY DEF RunStatus, RunError, Results

--------------------------------------------------------------------------------
(* The steps keep the shapes *)

LEMMA CreateRunShape ==
    ASSUME ShapeInv, NEW q \in ApiThreads, NEW r \in Runs, CreateRun(q, r)
    PROVE  ShapeInv'
<1> DEFINE h == [IdleHandler EXCEPT !.pc = "check", !.r = r]
           row == [status |-> "pending", error |-> Null, code |-> TRUE]
<1>1. row \in Rows /\ row.status # "absent" /\ run' = [run EXCEPT ![r] = row]
  BY DEF CreateRun, Rows, Statuses
<1>2. api' = [api EXCEPT ![q] = h]
  BY DEF CreateRun
<1>3. h \in Handlers /\ h.pc = "check" /\ h.r = r
  BY IdleFit DEF Handlers, ApiPcs
<1> HIDE DEF h, row
<1>4. run' \in [Runs -> Rows] /\ RowsStay /\ run'[r].status # "absent"
  BY <1>1, RowWritten, Shapes
<1>5. HandlerKnown(h, run')
  BY <1>3, <1>4 DEF HandlerKnown
<1>6. Ledger'
  BY Shapes DEF CreateRun, Ledger
<1>7. worker' = worker /\ queue' = queue
  BY DEF CreateRun
<1> QED BY <1>2, <1>3, <1>4, <1>5, <1>6, <1>7, HandlerMoves

LEMMA CreateBareRunShape ==
    ASSUME ShapeInv, NEW r \in Runs, CreateBareRun(r)
    PROVE  ShapeInv'
<1> DEFINE row == [run[r] EXCEPT !.status = "pending"]
<1>1. row \in Rows /\ row.status # "absent" /\ run' = [run EXCEPT ![r] = row]
  BY Shapes DEF CreateBareRun, Rows, Statuses
<1> HIDE DEF row
<1>2. run' \in [Runs -> Rows] /\ RowsStay
  BY <1>1, RowWritten
<1>3. /\ artifact' = artifact /\ queue' = queue /\ api' = api /\ worker' = worker
      /\ listed' = listed /\ kills' = kills /\ Ledger'
  BY Shapes DEF CreateBareRun, history, Ledger
<1>4. \A q \in ApiThreads : HandlerKnown(api'[q], run')
  BY <1>2, <1>3, Shapes DEF HandlerKnown, RowsStay
<1>5. \A w \in Workers : WorkerKnown(worker'[w], run')
  BY <1>2, <1>3, Shapes DEF WorkerKnown, RowsStay
<1>6. \A k \in 1..Len(queue') : run'[queue'[k]].status # "absent"
  BY <1>2, <1>3, Shapes, ElementOfSeq DEF ShapeInv, KnownRuns, RowsStay
<1>7. RunsTypeOK'
  BY <1>2, <1>3, TypeParts
     DEF ShapeInv, RunsTypeOK, Rows, Handlers, ApiPcs, Loads, Loaded, WorkerStates, WorkerPcs, Ledger
<1> QED BY <1>4, <1>5, <1>6, <1>7 DEF ShapeInv, KnownRuns

LEMMA RerunReadShape ==
    ASSUME ShapeInv, NEW q \in ApiThreads, NEW r \in Runs, RerunRead(q, r)
    PROVE  ShapeInv'
<1> DEFINE l == [status |-> run[r].status, error |-> run[r].error]
           h == [IdleHandler EXCEPT !.pc = "preflight", !.r = r, !.loaded = l]
<1>1. run[r] \in Rows /\ run[r].status # "absent"
  BY Shapes DEF RerunRead
<1>2. l \in Loaded /\ l \in Loads
  BY <1>1 DEF Rows, Loaded, Loads
<1>3. api' = [api EXCEPT ![q] = h]
  BY DEF RerunRead
<1> HIDE DEF l
<1>4. h \in Handlers /\ h.pc = "preflight" /\ h.r = r /\ h.loaded = l
  BY <1>2, IdleFit DEF Handlers, ApiPcs
<1> HIDE DEF h
<1>5. run' = run /\ run' \in [Runs -> Rows] /\ RowsStay
  BY Shapes DEF RerunRead, store, RowsStay
<1>6. HandlerKnown(h, run')
  BY <1>1, <1>2, <1>4, <1>5 DEF HandlerKnown
<1>7. Ledger'
  BY Shapes DEF RerunRead, store, Ledger
<1>8. worker' = worker /\ queue' = queue
  BY DEF RerunRead
<1> QED BY <1>3, <1>4, <1>5, <1>6, <1>7, <1>8, HandlerMoves

\* What the kept session writes into the row.
LEMMA RerunWrites ==
    ASSUME ShapeInv, NEW q \in ApiThreads, api[q].pc = "preflight",
           NEW status \in Statuses \ {"absent"}, NEW error \in Errors \cup {Null},
           RerunWrite(q, status, error)
    PROVE  /\ api[q].r \in Runs /\ run' \in [Runs -> Rows] /\ RowsStay
           /\ run'[api[q].r].status # "absent"
<1>1. api[q].r \in Runs /\ run[api[q].r].status # "absent"
  BY Shapes DEF HandlerKnown
<1> DEFINE r == api[q].r
<1>2. PICK s \in Flushed(status, api[q].loaded.status, run[r].status),
           e \in Flushed(error, api[q].loaded.error, run[r].error) :
              run' = [run EXCEPT ![r] = [@ EXCEPT !.status = s, !.error = e]]
  BY DEF RerunWrite
<1>3. s \in {status, run[r].status} /\ e \in {error, run[r].error}
  BY FlushedIs
<1>4. run[r] \in Rows
  BY <1>1, Shapes
<1>5. s \in Statuses /\ s # "absent" /\ e \in Errors \cup {Null}
  BY <1>1, <1>3, <1>4 DEF Rows
<1> DEFINE row == [run[r] EXCEPT !.status = s, !.error = e]
<1>6. row \in Rows /\ row.status = s
  BY <1>4, <1>5 DEF Rows
<1>7. run' = [run EXCEPT ![r] = row]
  BY <1>2
<1> HIDE DEF row
<1>8. run' \in [Runs -> Rows] /\ RowsStay /\ run'[r] = row
  BY <1>1, <1>5, <1>6, <1>7, RowWritten, Shapes
<1> QED BY <1>1, <1>5, <1>6, <1>8

LEMMA RerunArmShape ==
    ASSUME ShapeInv, NEW q \in ApiThreads, RerunArm(q)
    PROVE  ShapeInv'
<1> DEFINE h == [IdleHandler EXCEPT !.pc = "check", !.r = api[q].r]
<1>1. /\ api[q].r \in Runs /\ run' \in [Runs -> Rows] /\ RowsStay
      /\ run'[api[q].r].status # "absent"
  BY RerunWrites DEF RerunArm, Statuses
<1>2. api' = [api EXCEPT ![q] = h]
  BY DEF RerunArm
<1>3. h \in Handlers /\ h.pc = "check" /\ h.r = api[q].r
  BY <1>1, IdleFit DEF Handlers, ApiPcs
<1> HIDE DEF h
<1>4. HandlerKnown(h, run')
  BY <1>1, <1>3 DEF HandlerKnown
<1>5. Ledger'
  BY <1>1, Shapes DEF RerunArm, Wrote, Ledger
<1>6. worker' = worker /\ queue' = queue
  BY DEF RerunArm
<1> QED BY <1>1, <1>2, <1>3, <1>4, <1>5, <1>6, HandlerMoves

LEMMA RerunRejectedShape ==
    ASSUME ShapeInv, NEW q \in ApiThreads, RerunRejected(q)
    PROVE  ShapeInv'
<1>1. /\ api[q].r \in Runs /\ run' \in [Runs -> Rows] /\ RowsStay
  BY RerunWrites DEF RerunRejected, Statuses, Errors
<1>2. api' = [api EXCEPT ![q] = IdleHandler] /\ worker' = worker /\ queue' = queue
  BY DEF RerunRejected
<1>3. HandlerKnown(IdleHandler, run')
  BY IdleFit DEF HandlerKnown
<1>4. "rejected" \in Results
  BY DEF Results, Errors
<1>5. Ledger'
  BY <1>1, <1>4, Shapes, ArtifactsFit DEF RerunRejected, Wrote, Ledger
<1> QED BY <1>1, <1>2, <1>3, <1>5, IdleFit, HandlerMoves

\* A handler that only goes on, and perhaps pushes its run.
LEMMA HandlerGoesOn ==
    ASSUME ShapeInv, NEW q \in ApiThreads, NEW pc \in ApiPcs \ {"preflight", "computed", "idle"},
           api[q].pc # "idle", api' = [api EXCEPT ![q] = [@ EXCEPT !.pc = pc]],
           run' \in [Runs -> Rows], RowsStay, Ledger', worker' = worker,
           queue' = queue \/ queue' = Append(queue, api[q].r)
    PROVE  ShapeInv'
<1> DEFINE h == [api[q] EXCEPT !.pc = pc]
<1>1. api[q] \in Handlers /\ HandlerKnown(api[q], run)
  BY Shapes
<1>2. h \in Handlers /\ h.pc = pc /\ h.r = api[q].r
  BY <1>1 DEF Handlers
<1>3. api' = [api EXCEPT ![q] = h]
  OBVIOUS
<1> HIDE DEF h
<1>4. HandlerKnown(h, run')
  BY <1>1, <1>2 DEF HandlerKnown, RowsStay
<1> QED BY <1>2, <1>3, <1>4, HandlerMoves

\* A handler that ends without touching a row.
LEMMA HandlerEnds ==
    ASSUME ShapeInv, NEW q \in ApiThreads, api' = [api EXCEPT ![q] = IdleHandler],
           run' = run, Ledger', worker' = worker,
           queue' = queue \/ (api[q].pc # "idle" /\ queue' = Append(queue, api[q].r))
    PROVE  ShapeInv'
<1>1. HandlerKnown(IdleHandler, run')
  BY IdleFit DEF HandlerKnown
<1>2. run' \in [Runs -> Rows] /\ RowsStay
  BY Shapes DEF RowsStay
<1> QED BY <1>1, <1>2, IdleFit, HandlerMoves

LEMMA RerunAbortsShape ==
    ASSUME ShapeInv, NEW q \in ApiThreads, RerunAborts(q)
    PROVE  ShapeInv'
<1>1. Ledger'
  BY Shapes DEF RerunAborts, store, history, Ledger
<1> QED BY <1>1, HandlerEnds DEF RerunAborts, store

LEMMA KillHandlerShape ==
    ASSUME ShapeInv, NEW q \in ApiThreads, KillHandler(q)
    PROVE  ShapeInv'
<1>1. Ledger'
  BY Shapes DEF KillHandler, store, history, Ledger
<1> QED BY <1>1, HandlerEnds DEF KillHandler, store

LEMMA CheckWorkerShape ==
    ASSUME ShapeInv, NEW q \in ApiThreads, CheckWorker(q)
    PROVE  ShapeInv'
<1>1. Ledger' /\ run' \in [Runs -> Rows] /\ RowsStay /\ worker' = worker /\ queue' = queue
  BY Shapes DEF CheckWorker, store, history, Ledger, RowsStay
<1>2. PICK pc \in {"start", "push"} : api' = [api EXCEPT ![q] = [@ EXCEPT !.pc = pc]]
  BY DEF CheckWorker
<1>3. api[q].pc # "idle" /\ pc \in ApiPcs \ {"preflight", "computed", "idle"}
  BY DEF CheckWorker, ApiPcs
<1> QED BY <1>1, <1>2, <1>3, HandlerGoesOn

LEMMA EnqueueShape ==
    ASSUME ShapeInv, NEW q \in ApiThreads, Enqueue(q)
    PROVE  ShapeInv'
<1>1. Ledger'
  BY Shapes DEF Enqueue, store, history, Ledger
<1> QED BY <1>1, HandlerEnds DEF Enqueue, store

LEMMA EnqueueRaisesShape ==
    ASSUME ShapeInv, NEW q \in ApiThreads, EnqueueRaises(q)
    PROVE  ShapeInv'
<1>1. api[q].r \in Runs
  BY Shapes DEF EnqueueRaises, HandlerKnown
<1>4. doubled' \in [Runs -> Nat]
  <2>1. doubled \in [Runs -> Nat]
    BY Shapes DEF Ledger
  <2>2. doubled' = doubled \/ doubled' = [doubled EXCEPT ![api[q].r] = @ + 1]
    BY DEF EnqueueRaises
  <2> QED BY <1>1, <2>1, <2>2
<1>2. Ledger' /\ run' \in [Runs -> Rows] /\ RowsStay /\ worker' = worker
  BY <1>1, <1>4, Shapes DEF EnqueueRaises, store, Ledger, RowsStay
<1>3. /\ api[q].pc # "idle" /\ "start" \in ApiPcs \ {"preflight", "computed", "idle"}
      /\ api' = [api EXCEPT ![q] = [@ EXCEPT !.pc = "start"]]
      /\ queue' = queue \/ queue' = Append(queue, api[q].r)
  BY DEF EnqueueRaises, ApiPcs
<1> QED BY <1>2, <1>3, HandlerGoesOn

LEMMA InlineStartShape ==
    ASSUME ShapeInv, NEW q \in ApiThreads, InlineStart(q)
    PROVE  ShapeInv'
<1> DEFINE r == api[q].r
           row == [run[r] EXCEPT !.status = "running", !.error = Null]
<1>1. r \in Runs /\ run[r] \in Rows
  BY Shapes DEF InlineStart, HandlerKnown
<1>2. row \in Rows /\ row.status = "running"
  BY <1>1 DEF Rows, Statuses
<1>6. run' = [run EXCEPT ![r] = row]
  BY DEF InlineStart
<1> HIDE DEF row
<1>3. run' \in [Runs -> Rows] /\ RowsStay
  BY <1>1, <1>2, <1>6, RowWritten
<1>4. Ledger'
  BY <1>1, Shapes DEF InlineStart, Begin, Ledger
<1>5. /\ api[q].pc # "idle" /\ "running" \in ApiPcs \ {"preflight", "computed", "idle"}
      /\ api' = [api EXCEPT ![q] = [@ EXCEPT !.pc = "running"]]
      /\ queue' = queue /\ worker' = worker
  BY DEF InlineStart, ApiPcs
<1> QED BY <1>3, <1>4, <1>5, HandlerGoesOn

LEMMA InlineComputeShape ==
    ASSUME ShapeInv, NEW q \in ApiThreads, InlineCompute(q)
    PROVE  ShapeInv'
<1>1. api[q] \in Handlers /\ HandlerKnown(api[q], run) /\ api[q].r \in Runs
  BY Shapes DEF InlineCompute, HandlerKnown
<1>2. PICK result \in Results :
         /\ artifact' = Artifacts(api[q].r, result)
         /\ api' = [api EXCEPT ![q] = [@ EXCEPT !.pc = "computed", !.result = result]]
  BY DEF InlineCompute
<1> DEFINE h == [api[q] EXCEPT !.pc = "computed", !.result = result]
<1>3. h \in Handlers /\ h.pc = "computed" /\ h.r = api[q].r /\ h.result = result
  BY <1>1 DEF Handlers, ApiPcs
<1>4. api' = [api EXCEPT ![q] = h]
  BY <1>2
<1> HIDE DEF h
<1>5. run' = run /\ run' \in [Runs -> Rows] /\ RowsStay /\ worker' = worker /\ queue' = queue
  BY Shapes DEF InlineCompute, RowsStay
<1>7. HandlerKnown(h, run')
  BY <1>1, <1>3, <1>5 DEF HandlerKnown, InlineCompute
<1>8. Ledger'
  BY <1>1, <1>2, Shapes, ArtifactsFit DEF InlineCompute, history, Ledger
<1> QED BY <1>3, <1>4, <1>5, <1>7, <1>8, HandlerMoves

LEMMA InlineFinishShape ==
    ASSUME ShapeInv, NEW q \in ApiThreads, InlineFinish(q)
    PROVE  ShapeInv'
<1> DEFINE r == api[q].r
           row == [run[r] EXCEPT !.status = RunStatus(api[q].result), !.error = RunError(api[q].result)]
<1>1. r \in Runs /\ run[r] \in Rows /\ api[q].result \in Results
  BY Shapes DEF InlineFinish, HandlerKnown, Handlers
<1>2. /\ RunStatus(api[q].result) \in {"completed", "failed"}
      /\ RunError(api[q].result) \in Errors \cup {Null}
  BY <1>1, RunStatusFits
<1> DEFINE s == RunStatus(api[q].result)
           e == RunError(api[q].result)
<1> HIDE DEF s, e
<1>3. row \in Rows /\ row.status = s
  BY <1>1, <1>2 DEF s, e, Rows, Statuses
<1>8. run' = [run EXCEPT ![r] = row]
  BY DEF InlineFinish
<1> HIDE DEF row
<1>4. run' \in [Runs -> Rows] /\ RowsStay
  BY <1>1, <1>2, <1>3, <1>8, RowWritten DEF s
<1>5. HandlerKnown(IdleHandler, run')
  BY IdleFit DEF HandlerKnown
<1>6. Ledger'
  BY <1>1, Shapes DEF InlineFinish, Wrote, Ledger
<1>7. api' = [api EXCEPT ![q] = IdleHandler] /\ worker' = worker /\ queue' = queue
  BY DEF InlineFinish
<1> QED BY <1>4, <1>5, <1>6, <1>7, IdleFit, HandlerMoves

LEMMA WorkerStartShape ==
    ASSUME ShapeInv, NEW w \in Workers, WorkerStart(w)
    PROVE  ShapeInv'
<1> DEFINE r == Head(queue)
           row == [run[r] EXCEPT !.status = "running"]
           h == [pc |-> "running", r |-> r, loaded |-> run[r].error, result |-> Null]
<1>1. queue \in Seq(Runs) /\ queue # <<>> /\ queue' = Tail(queue)
  BY Shapes DEF WorkerStart
<1>2. r \in Runs
  BY <1>1, HeadTailProperties
<1>3. run[r] \in Rows
  BY <1>2, Shapes
<1> HIDE DEF r
<1>4. row \in Rows /\ row.status = "running"
  BY <1>3 DEF Rows, Statuses
<1>5. h \in WorkerStates /\ h.pc = "running" /\ h.r = r
  BY <1>2, <1>3 DEF WorkerStates, WorkerPcs, Rows
<1>6. run' = [run EXCEPT ![r] = row] /\ worker' = [worker EXCEPT ![w] = h] /\ api' = api
  BY DEF WorkerStart, r
<1> HIDE DEF row, h
<1>7. run' \in [Runs -> Rows] /\ RowsStay /\ run'[r].status # "absent"
  BY <1>2, <1>4, <1>6, RowWritten, Shapes
<1>8. WorkerKnown(h, run')
  BY <1>2, <1>5, <1>7 DEF WorkerKnown
<1>9. Ledger'
  BY <1>2, Shapes DEF WorkerStart, Begin, Ledger, r
<1> QED BY <1>1, <1>5, <1>6, <1>7, <1>8, <1>9, WorkerMoves

LEMMA WorkerComputeShape ==
    ASSUME ShapeInv, NEW w \in Workers, WorkerCompute(w)
    PROVE  ShapeInv'
<1>1. worker[w] \in WorkerStates /\ WorkerKnown(worker[w], run) /\ worker[w].r \in Runs
  BY Shapes DEF WorkerCompute, WorkerKnown
<1>2. PICK result \in Results :
         /\ artifact' = Artifacts(worker[w].r, result)
         /\ worker' = [worker EXCEPT ![w] = [@ EXCEPT !.pc = "computed", !.result = result]]
  BY DEF WorkerCompute
<1> DEFINE h == [worker[w] EXCEPT !.pc = "computed", !.result = result]
<1>3. h \in WorkerStates /\ h.pc = "computed" /\ h.r = worker[w].r /\ h.result = result
  BY <1>1 DEF WorkerStates, WorkerPcs
<1>4. worker' = [worker EXCEPT ![w] = h]
  BY <1>2
<1> HIDE DEF h
<1>5. run' = run /\ run' \in [Runs -> Rows] /\ RowsStay /\ api' = api /\ queue' = queue
  BY Shapes DEF WorkerCompute, RowsStay
<1>6. WorkerKnown(h, run')
  BY <1>1, <1>3, <1>5 DEF WorkerKnown, WorkerCompute
<1>7. Ledger'
  BY <1>1, <1>2, Shapes, ArtifactsFit DEF WorkerCompute, history, Ledger
<1> QED BY <1>3, <1>4, <1>5, <1>6, <1>7, WorkerMoves

LEMMA WorkerFinishShape ==
    ASSUME ShapeInv, NEW w \in Workers, WorkerFinish(w)
    PROVE  ShapeInv'
<1> DEFINE r == worker[w].r
           s == RunStatus(worker[w].result)
<1>1. r \in Runs /\ run[r] \in Rows /\ worker[w].result \in Results
  BY Shapes DEF WorkerFinish, WorkerKnown
<1>2. s \in {"completed", "failed"} /\ RunError(worker[w].result) \in Errors \cup {Null}
  BY <1>1, RunStatusFits
<1>3. PICK e \in Flushed(RunError(worker[w].result), worker[w].loaded, run[r].error) :
         run' = [run EXCEPT ![r] = [@ EXCEPT !.status = s, !.error = e]]
  BY DEF WorkerFinish
<1>4. e \in Errors \cup {Null}
  BY <1>1, <1>2, <1>3, FlushedIs DEF Rows
<1> DEFINE row == [run[r] EXCEPT !.status = s, !.error = e]
<1> HIDE DEF s
<1>5. row \in Rows /\ row.status = s
  BY <1>1, <1>2, <1>4 DEF Rows, Statuses
<1>6. run' = [run EXCEPT ![r] = row]
  BY <1>3
<1> HIDE DEF row
<1>7. run' \in [Runs -> Rows] /\ RowsStay
  BY <1>1, <1>2, <1>5, <1>6, RowWritten
<1>8. WorkerKnown(IdleWorker, run')
  BY IdleFit DEF WorkerKnown
<1>9. Ledger'
  BY <1>1, Shapes DEF WorkerFinish, Wrote, Ledger
<1>10. worker' = [worker EXCEPT ![w] = IdleWorker] /\ api' = api /\ queue' = queue
  BY DEF WorkerFinish
<1> QED BY <1>7, <1>8, <1>9, <1>10, IdleFit, WorkerMoves

\* A worker that stops or starts.
LEMMA WorkerTurns ==
    ASSUME ShapeInv, NEW w \in Workers, NEW h \in WorkerStates, h.pc \in {"idle", "down"},
           h.r = Null, worker' = [worker EXCEPT ![w] = h], run' = run, Ledger', api' = api,
           queue' = queue
    PROVE  ShapeInv'
<1>1. WorkerKnown(h, run')
  BY DEF WorkerKnown
<1>2. run' \in [Runs -> Rows] /\ RowsStay
  BY Shapes DEF RowsStay
<1> QED BY <1>1, <1>2, WorkerMoves

LEMMA KillWorkerShape ==
    ASSUME ShapeInv, NEW w \in Workers, KillWorker(w)
    PROVE  ShapeInv'
<1> DEFINE h == [IdleWorker EXCEPT !.pc = "down"]
<1>1. Ledger'
  BY Shapes DEF KillWorker, store, history, Ledger
<1>2. h \in WorkerStates /\ h.pc = "down" /\ h.r = Null
  BY IdleFit DEF WorkerStates, WorkerPcs
<1>3. /\ worker' = [worker EXCEPT ![w] = h] /\ run' = run /\ api' = api /\ queue' = queue
  BY DEF KillWorker, store
<1> HIDE DEF h
<1> QED BY <1>1, <1>2, <1>3, WorkerTurns

LEMMA StartWorkerShape ==
    ASSUME ShapeInv, NEW w \in Workers, StartWorker(w)
    PROVE  ShapeInv'
<1>1. Ledger'
  BY Shapes DEF StartWorker, store, history, Ledger
<1>2. /\ worker' = [worker EXCEPT ![w] = IdleWorker] /\ run' = run /\ api' = api
      /\ queue' = queue
  BY DEF StartWorker, store
<1> QED BY <1>1, <1>2, IdleFit, WorkerTurns

LEMMA RegistryExpiresShape ==
    ASSUME ShapeInv, NEW w \in Workers, RegistryExpires(w)
    PROVE  ShapeInv'
<1>1. Ledger'
  BY Shapes DEF RegistryExpires, store, history, Ledger
<1>2. UNCHANGED <<run, queue, api, worker>>
  BY DEF RegistryExpires, store
<1>3. RunsTypeOK'
  BY <1>1, <1>2, TypeParts
     DEF ShapeInv, RunsTypeOK, Rows, Handlers, ApiPcs, Loads, Loaded, WorkerStates, WorkerPcs,
         Ledger
<1> QED BY <1>2, <1>3 DEF ShapeInv, KnownRuns

LEMMA ShapeNext == ShapeInv /\ [RunsNext]_runsVars => ShapeInv'
<1> SUFFICES ASSUME ShapeInv, [RunsNext]_runsVars PROVE ShapeInv'
  OBVIOUS
<1>1. CASE UNCHANGED runsVars
  BY <1>1 DEF runsVars, store, history, ShapeInv, RunsTypeOK, KnownRuns
<1>2. ASSUME NEW q \in ApiThreads,
             \/ \E r \in Runs : CreateRun(q, r) \/ RerunRead(q, r)
             \/ RunHandlerStep(q)
             \/ KillHandler(q)
      PROVE  ShapeInv'
  BY <1>2, CreateRunShape, RerunReadShape, RerunArmShape, RerunRejectedShape, RerunAbortsShape,
     CheckWorkerShape, EnqueueShape, EnqueueRaisesShape, InlineStartShape, InlineComputeShape,
     InlineFinishShape, KillHandlerShape
     DEF RunHandlerStep
<1>3. ASSUME NEW w \in Workers,
             WorkerStep(w) \/ KillWorker(w) \/ RegistryExpires(w) \/ StartWorker(w)
      PROVE  ShapeInv'
  BY <1>3, WorkerStartShape, WorkerComputeShape, WorkerFinishShape, KillWorkerShape,
     RegistryExpiresShape, StartWorkerShape
     DEF WorkerStep
<1> QED BY <1>1, <1>2, <1>3, CreateBareRunShape DEF RunsNext

LEMMA ShapeHolds == RunsSpec => []ShapeInv
BY InitShape, ShapeNext, PTL DEF RunsSpec

\* Rows, directories and processes keep the shapes the two services give them.
THEOREM RunsTypeCorrect == RunsSpec => []RunsTypeOK
<1>1. ShapeInv => RunsTypeOK
  BY DEF ShapeInv
<1> QED BY <1>1, ShapeHolds, PTL

--------------------------------------------------------------------------------
(* The account of executions: every request is waiting in one handler, in one  *)
(* slot of the queue, or has begun                                             *)

IsWaiting(h, r) == h.r = r /\ h.pc \in {"check", "push", "start"}

WaitingOf(handlers, r) == {q \in ApiThreads : IsWaiting(handlers[q], r)}

SlotsOf(jobs, r) == {k \in 1..Len(jobs) : jobs[k] = r}

AccountOf(r) ==
    started[r] + Cardinality(WaitingOf(api, r)) + Cardinality(SlotsOf(queue, r))
        <= asked[r] + doubled[r]

Account == \A r \in Runs : AccountOf(r)

LEMMA WaitingIsFinite ==
    \A handlers, r : /\ IsFiniteSet(WaitingOf(handlers, r))
                     /\ Cardinality(WaitingOf(handlers, r)) \in Nat
<1> TAKE handlers, r
<1>1. IsFiniteSet(ApiThreads)
  BY RunsAssumption
<1>2. WaitingOf(handlers, r) \subseteq ApiThreads
  BY DEF WaitingOf
<1> QED BY <1>1, <1>2, FS_Subset, FS_CardinalityType

\* One handler changes.
LEMMA WaitingMoves ==
    ASSUME NEW handlers \in [ApiThreads -> Handlers], NEW q \in ApiThreads, NEW h \in Handlers,
           NEW r
    PROVE  LET after == [handlers EXCEPT ![q] = h]
               before == Cardinality(WaitingOf(handlers, r))
           IN  /\ (IsWaiting(h, r) <=> IsWaiting(handlers[q], r)) =>
                      Cardinality(WaitingOf(after, r)) = before
               /\ IsWaiting(h, r) /\ ~ IsWaiting(handlers[q], r) =>
                      Cardinality(WaitingOf(after, r)) = before + 1
               /\ ~ IsWaiting(h, r) /\ IsWaiting(handlers[q], r) =>
                      Cardinality(WaitingOf(after, r)) = before - 1
<1> DEFINE after == [handlers EXCEPT ![q] = h]
           W == WaitingOf(handlers, r)
           V == WaitingOf(after, r)
<1>1. after[q] = h /\ \A p \in ApiThreads : p # q => after[p] = handlers[p]
  OBVIOUS
<1> HIDE DEF after
<1>2. IsFiniteSet(W)
  BY WaitingIsFinite
<1>3. CASE IsWaiting(h, r) <=> IsWaiting(handlers[q], r)
  <2>1. V = W
    BY <1>1, <1>3 DEF WaitingOf
  <2> QED BY <1>3, <2>1 DEF after
<1>4. CASE IsWaiting(h, r) /\ ~ IsWaiting(handlers[q], r)
  <2>1. V = W \cup {q} /\ q \notin W
    BY <1>1, <1>4 DEF WaitingOf
  <2> HIDE DEF W, V
  <2>2. Cardinality(V) = Cardinality(W) + 1
    BY <1>2, <2>1, FS_AddElement
  <2> QED BY <1>4, <2>2 DEF after, W, V
<1>5. CASE ~ IsWaiting(h, r) /\ IsWaiting(handlers[q], r)
  <2>1. V = W \ {q} /\ q \in W
    BY <1>1, <1>5 DEF WaitingOf
  <2> HIDE DEF W, V
  <2>2. Cardinality(V) = Cardinality(W) - 1
    BY <1>2, <2>1, FS_RemoveElement
  <2> QED BY <1>5, <2>2 DEF after, W, V
<1> QED BY <1>3, <1>4, <1>5

LEMMA SlotsAreFinite ==
    ASSUME NEW jobs \in Seq(Runs), NEW r
    PROVE  IsFiniteSet(SlotsOf(jobs, r)) /\ Cardinality(SlotsOf(jobs, r)) \in Nat
<1>1. IsFiniteSet(1..Len(jobs))
  BY LenProperties, FS_Interval
<1>2. SlotsOf(jobs, r) \subseteq 1..Len(jobs)
  BY DEF SlotsOf
<1> QED BY <1>1, <1>2, FS_Subset, FS_CardinalityType

\* A push takes one slot.
LEMMA SlotsPush ==
    ASSUME NEW jobs \in Seq(Runs), NEW j \in Runs, NEW r
    PROVE  Cardinality(SlotsOf(Append(jobs, j), r)) =
              Cardinality(SlotsOf(jobs, r)) + IF j = r THEN 1 ELSE 0
<1> DEFINE S == SlotsOf(jobs, r)
           n == Len(jobs)
           T == SlotsOf(Append(jobs, j), r)
<1>1. /\ Len(Append(jobs, j)) = n + 1 /\ Append(jobs, j)[n + 1] = j
      /\ \A k \in 1..n : Append(jobs, j)[k] = jobs[k]
  BY AppendProperties
<1>2. n \in Nat
  BY LenProperties
<1>3. IsFiniteSet(S)
  BY SlotsAreFinite
<1>7. n + 1 \notin S
  BY <1>2 DEF SlotsOf
<1>4. T = IF j = r THEN S \cup {n + 1} ELSE S
  <2>1. \A k : k \in 1..(n + 1) <=> k \in 1..n \/ k = n + 1
    BY <1>2
  <2> QED BY <1>1, <1>2, <2>1 DEF SlotsOf
<1>5. Cardinality(S) \in Nat
  BY SlotsAreFinite
<1> HIDE DEF S, T, n
<1>6. Cardinality(T) = Cardinality(S) + IF j = r THEN 1 ELSE 0
  <2>1. CASE j = r
    <3>1. T = S \cup {n + 1}
      BY <1>4, <2>1
    <3> QED BY <1>3, <1>5, <1>7, <2>1, <3>1, FS_AddElement
  <2>2. CASE j # r
    BY <1>4, <1>5, <2>2
  <2> QED BY <2>1, <2>2
<1> QED BY <1>6 DEF S, T

\* A pop frees the slot of the job it takes; the others move up.
LEMMA SlotsPop ==
    ASSUME NEW jobs \in Seq(Runs), jobs # <<>>, NEW r
    PROVE  Cardinality(SlotsOf(Tail(jobs), r)) =
              Cardinality(SlotsOf(jobs, r)) - IF Head(jobs) = r THEN 1 ELSE 0
<1> DEFINE S == SlotsOf(jobs, r)
           T == SlotsOf(Tail(jobs), r)
           f == [k \in T |-> k + 1]
<1>1. /\ Tail(jobs) \in Seq(Runs) /\ Len(Tail(jobs)) = Len(jobs) - 1 /\ Head(jobs) = jobs[1]
      /\ \A k \in 1..Len(Tail(jobs)) : Tail(jobs)[k] = jobs[k + 1]
  BY HeadTailProperties
<1>2. Len(jobs) \in Nat /\ Len(jobs) >= 1
  BY LenProperties, EmptySeq
<1>3. IsFiniteSet(S) /\ IsFiniteSet(T) /\ Cardinality(S) \in Nat
  BY <1>1, SlotsAreFinite
<1>4. f \in Bijection(T, S \ {1})
  <2>1. \A k \in T : k \in Nat /\ k + 1 \in S \ {1}
    BY <1>1, <1>2 DEF SlotsOf
  <2>2. \A k \in S \ {1} : k - 1 \in T /\ f[k - 1] = k
    BY <1>1, <1>2 DEF SlotsOf
  <2>3. \A k, m \in T : k + 1 = m + 1 => k = m
    BY <2>1
  <2> HIDE DEF S, T
  <2> QED BY <2>1, <2>2, <2>3 DEF Bijection, Injection, Surjection, IsInjective
<1>5. Cardinality(T) = Cardinality(S \ {1})
  BY <1>3, <1>4, FS_Bijection DEF ExistsBijection
<1>6. 1 \in S <=> Head(jobs) = r
  BY <1>1, <1>2 DEF SlotsOf
<1> HIDE DEF S, T
<1>8. Cardinality(S \ {1}) = IF 1 \in S THEN Cardinality(S) - 1 ELSE Cardinality(S)
  BY <1>3, FS_RemoveElement
<1>7. Cardinality(T) = Cardinality(S) - IF Head(jobs) = r THEN 1 ELSE 0
  BY <1>3, <1>5, <1>6, <1>8
<1> QED BY <1>7 DEF S, T

LEMMA InitAccount == RunsInit => Account
<1> SUFFICES ASSUME RunsInit, NEW r \in Runs PROVE AccountOf(r)
  BY DEF Account
<1>1. WaitingOf(api, r) = {} /\ SlotsOf(queue, r) = {}
  BY DEF RunsInit, WaitingOf, IsWaiting, SlotsOf, IdleHandler
<1>2. started[r] = 0 /\ asked[r] = 0 /\ doubled[r] = 0
  BY DEF RunsInit
<1> QED BY <1>1, <1>2, FS_EmptySet DEF AccountOf

\* A step of one handler that leaves the queue alone.
LEMMA HandlerAccount ==
    ASSUME ShapeInv, Account, ShapeInv', NEW q \in ApiThreads, NEW h \in Handlers,
           api' = [api EXCEPT ![q] = h], queue' = queue, doubled' = doubled,
           \A r \in Runs :
               \/ /\ started'[r] = started[r] /\ asked'[r] = asked[r]
                  /\ IsWaiting(h, r) => IsWaiting(api[q], r)
               \/ /\ started'[r] = started[r] /\ asked'[r] = asked[r] + 1
                  /\ IsWaiting(h, r) /\ ~ IsWaiting(api[q], r)
               \/ /\ started'[r] = started[r] + 1 /\ asked'[r] = asked[r]
                  /\ IsWaiting(api[q], r) /\ ~ IsWaiting(h, r)
    PROVE  Account'
<1>1. api \in [ApiThreads -> Handlers]
  BY TypeParts DEF ShapeInv
<1>2. /\ started' \in [Runs -> Nat] /\ asked' \in [Runs -> Nat] /\ doubled' \in [Runs -> Nat]
      /\ queue' \in Seq(Runs)
  BY DEF ShapeInv, RunsTypeOK
<1> SUFFICES ASSUME NEW r \in Runs PROVE AccountOf(r)'
  BY DEF Account
<1> DEFINE before == Cardinality(WaitingOf(api, r))
           after == Cardinality(WaitingOf(api', r))
           slots == Cardinality(SlotsOf(queue, r))
           taken == Cardinality(SlotsOf(queue', r))
<1>3. /\ (IsWaiting(h, r) <=> IsWaiting(api[q], r)) => after = before
      /\ IsWaiting(h, r) /\ ~ IsWaiting(api[q], r) => after = before + 1
      /\ ~ IsWaiting(h, r) /\ IsWaiting(api[q], r) => after = before - 1
  BY <1>1, WaitingMoves
<1>4. before \in Nat /\ after \in Nat /\ slots \in Nat
  BY Shapes, WaitingIsFinite, SlotsAreFinite
<1>5. started[r] \in Nat /\ asked[r] \in Nat /\ doubled[r] \in Nat
  BY Shapes DEF Ledger
<1>6. started[r] + before + slots <= asked[r] + doubled[r]
  BY DEF Account, AccountOf
<1>7. taken = slots
  OBVIOUS
<1> HIDE DEF before, after, slots, taken
<1>8. (started'[r] - started[r]) + (after - before) <= asked'[r] - asked[r]
  BY <1>3, <1>4, <1>5
<1>9. started'[r] \in Nat /\ asked'[r] \in Nat /\ doubled'[r] = doubled[r]
  BY <1>2
<1>10. started'[r] + after + taken <= asked'[r] + doubled'[r]
  BY <1>4, <1>5, <1>6, <1>7, <1>8, <1>9
<1> QED BY <1>10 DEF AccountOf, after, taken

LEMMA EndAccount ==
    ASSUME ShapeInv, Account, ShapeInv', NEW q \in ApiThreads,
           \/ InlineFinish(q) \/ RerunRejected(q) \/ RerunAborts(q) \/ KillHandler(q)
    PROVE  Account'
<1>1. /\ api' = [api EXCEPT ![q] = IdleHandler] /\ queue' = queue /\ doubled' = doubled
      /\ started' = started /\ asked' = asked
  BY DEF InlineFinish, RerunRejected, RerunAborts, KillHandler, history, store
<1>2. \A r : ~ IsWaiting(IdleHandler, r)
  BY IdleFit DEF IsWaiting
<1> QED BY <1>1, <1>2, IdleFit, HandlerAccount

LEMMA CreateRunAccount ==
    ASSUME ShapeInv, Account, ShapeInv', NEW q \in ApiThreads, NEW r0 \in Runs, CreateRun(q, r0)
    PROVE  Account'
<1> DEFINE h == [IdleHandler EXCEPT !.pc = "check", !.r = r0]
<1>1. api' = [api EXCEPT ![q] = h]
  BY DEF CreateRun
<1>2. h \in Handlers /\ h.pc = "check" /\ h.r = r0
  BY IdleFit DEF Handlers, ApiPcs
<1> HIDE DEF h
<1>3. /\ queue' = queue /\ doubled' = doubled /\ started' = started
      /\ asked' = [asked EXCEPT ![r0] = @ + 1] /\ asked \in [Runs -> Nat] /\ api[q].pc = "idle"
  BY Shapes DEF CreateRun, Ledger
<1>4. \A r : IsWaiting(h, r) <=> r = r0
  BY <1>2 DEF IsWaiting
<1>5. \A r : ~ IsWaiting(api[q], r)
  BY <1>3 DEF IsWaiting
<1>6. \A r \in Runs :
         \/ /\ started'[r] = started[r] /\ asked'[r] = asked[r]
            /\ IsWaiting(h, r) => IsWaiting(api[q], r)
         \/ /\ started'[r] = started[r] /\ asked'[r] = asked[r] + 1
            /\ IsWaiting(h, r) /\ ~ IsWaiting(api[q], r)
  <2> TAKE r \in Runs
  <2>1. CASE r = r0
    BY <1>3, <1>4, <1>5, <2>1
  <2>2. CASE r # r0
    BY <1>3, <1>4, <2>2
  <2> QED BY <2>1, <2>2
<1> QED BY <1>1, <1>2, <1>3, <1>6, HandlerAccount

LEMMA RerunArmAccount ==
    ASSUME ShapeInv, Account, ShapeInv', NEW q \in ApiThreads, RerunArm(q)
    PROVE  Account'
<1> DEFINE r0 == api[q].r
           h == [IdleHandler EXCEPT !.pc = "check", !.r = r0]
<1>1. api' = [api EXCEPT ![q] = h]
  BY DEF RerunArm
<1>2. r0 \in Runs
  BY Shapes DEF HandlerKnown, RerunArm
<1>3. h \in Handlers /\ h.pc = "check" /\ h.r = r0
  BY <1>2, IdleFit DEF Handlers, ApiPcs
<1> HIDE DEF h
<1>4. /\ queue' = queue /\ doubled' = doubled /\ started' = started
      /\ asked' = [asked EXCEPT ![r0] = @ + 1] /\ asked \in [Runs -> Nat]
      /\ api[q].pc = "preflight"
  BY Shapes DEF RerunArm, Ledger
<1>5. \A r : IsWaiting(h, r) <=> r = r0
  BY <1>3 DEF IsWaiting
<1>6. \A r : ~ IsWaiting(api[q], r)
  BY <1>4 DEF IsWaiting
<1>7. \A r \in Runs : asked'[r] = IF r = r0 THEN asked[r] + 1 ELSE asked[r]
  BY <1>4
<1> HIDE DEF r0
<1>8. \A r \in Runs :
         \/ /\ started'[r] = started[r] /\ asked'[r] = asked[r]
            /\ IsWaiting(h, r) => IsWaiting(api[q], r)
         \/ /\ started'[r] = started[r] /\ asked'[r] = asked[r] + 1
            /\ IsWaiting(h, r) /\ ~ IsWaiting(api[q], r)
  <2> TAKE r \in Runs
  <2>1. CASE r = r0
    BY <1>4, <1>5, <1>6, <1>7, <2>1
  <2>2. CASE r # r0
    BY <1>4, <1>5, <1>7, <2>2
  <2> QED BY <2>1, <2>2
<1> QED BY <1>1, <1>3, <1>4, <1>8, HandlerAccount

LEMMA RerunReadAccount ==
    ASSUME ShapeInv, Account, ShapeInv', NEW q \in ApiThreads, NEW r0 \in Runs, RerunRead(q, r0)
    PROVE  Account'
<1> DEFINE l == [status |-> run[r0].status, error |-> run[r0].error]
           h == [IdleHandler EXCEPT !.pc = "preflight", !.r = r0, !.loaded = l]
<1>1. api' = [api EXCEPT ![q] = h]
  BY DEF RerunRead
<1>2. l \in Loads
  BY Shapes DEF Loads, Loaded, Rows
<1> HIDE DEF l
<1>3. h \in Handlers /\ h.pc = "preflight"
  BY <1>2, IdleFit DEF Handlers, ApiPcs
<1> HIDE DEF h
<1>4. queue' = queue /\ doubled' = doubled /\ started' = started /\ asked' = asked
  BY DEF RerunRead
<1>5. \A r : ~ IsWaiting(h, r)
  BY <1>3 DEF IsWaiting
<1> QED BY <1>1, <1>3, <1>4, <1>5, HandlerAccount

LEMMA CheckWorkerAccount ==
    ASSUME ShapeInv, Account, ShapeInv', NEW q \in ApiThreads, CheckWorker(q)
    PROVE  Account'
<1>1. PICK pc \in {"start", "push"} : api' = [api EXCEPT ![q] = [@ EXCEPT !.pc = pc]]
  BY DEF CheckWorker
<1> DEFINE h == [api[q] EXCEPT !.pc = pc]
<1>2. api' = [api EXCEPT ![q] = h]
  BY <1>1
<1>3. api[q] \in Handlers
  BY Shapes
<1>4. h \in Handlers /\ h.r = api[q].r
  BY <1>3 DEF Handlers, ApiPcs
<1> HIDE DEF h
<1>5. /\ queue' = queue /\ doubled' = doubled /\ started' = started /\ asked' = asked
      /\ api[q].pc = "check"
  BY DEF CheckWorker, history
<1>6. \A r : IsWaiting(h, r) => IsWaiting(api[q], r)
  BY <1>4, <1>5 DEF IsWaiting
<1> QED BY <1>2, <1>4, <1>5, <1>6, HandlerAccount

LEMMA InlineStartAccount ==
    ASSUME ShapeInv, Account, ShapeInv', NEW q \in ApiThreads, InlineStart(q)
    PROVE  Account'
<1> DEFINE h == [api[q] EXCEPT !.pc = "running"]
           r0 == api[q].r
<1>1. api' = [api EXCEPT ![q] = h]
  BY DEF InlineStart
<1>2. api[q] \in Handlers /\ r0 \in Runs
  BY Shapes DEF HandlerKnown, InlineStart
<1>3. h \in Handlers /\ h.pc = "running"
  BY <1>2 DEF Handlers, ApiPcs
<1> HIDE DEF h
<1>4. /\ queue' = queue /\ doubled' = doubled /\ asked' = asked
      /\ started' = [started EXCEPT ![r0] = @ + 1] /\ started \in [Runs -> Nat]
      /\ api[q].pc = "start"
  BY Shapes DEF InlineStart, Begin, Ledger
<1>5. \A r : ~ IsWaiting(h, r)
  BY <1>3 DEF IsWaiting
<1>6. \A r : IsWaiting(api[q], r) <=> r = r0
  BY <1>4 DEF IsWaiting
<1> HIDE DEF r0
<1>7. \A r \in Runs :
         \/ /\ started'[r] = started[r] /\ asked'[r] = asked[r]
            /\ IsWaiting(h, r) => IsWaiting(api[q], r)
         \/ /\ started'[r] = started[r] + 1 /\ asked'[r] = asked[r]
            /\ IsWaiting(api[q], r) /\ ~ IsWaiting(h, r)
  <2> TAKE r \in Runs
  <2>1. CASE r = r0
    BY <1>4, <1>5, <1>6, <2>1
  <2>2. CASE r # r0
    BY <1>4, <1>5, <2>2
  <2> QED BY <2>1, <2>2
<1> QED BY <1>1, <1>3, <1>4, <1>7, HandlerAccount

LEMMA InlineComputeAccount ==
    ASSUME ShapeInv, Account, ShapeInv', NEW q \in ApiThreads, InlineCompute(q)
    PROVE  Account'
<1>1. PICK result \in Results :
         api' = [api EXCEPT ![q] = [@ EXCEPT !.pc = "computed", !.result = result]]
  BY DEF InlineCompute
<1> DEFINE h == [api[q] EXCEPT !.pc = "computed", !.result = result]
<1>2. api' = [api EXCEPT ![q] = h]
  BY <1>1
<1>3. api[q] \in Handlers
  BY Shapes
<1>4. h \in Handlers /\ h.pc = "computed"
  BY <1>3 DEF Handlers, ApiPcs
<1> HIDE DEF h
<1>5. queue' = queue /\ doubled' = doubled /\ started' = started /\ asked' = asked
  BY DEF InlineCompute, history
<1>6. \A r : ~ IsWaiting(h, r)
  BY <1>4 DEF IsWaiting
<1> QED BY <1>2, <1>4, <1>5, <1>6, HandlerAccount

\* The numbers of a run before and after a step.
LEMMA Numbers ==
    ASSUME ShapeInv, Account, ShapeInv', NEW r \in Runs
    PROVE  /\ started[r] \in Nat /\ asked[r] \in Nat /\ doubled[r] \in Nat
           /\ Cardinality(WaitingOf(api, r)) \in Nat /\ Cardinality(WaitingOf(api', r)) \in Nat
           /\ Cardinality(SlotsOf(queue, r)) \in Nat
           /\ started[r] + Cardinality(WaitingOf(api, r)) + Cardinality(SlotsOf(queue, r))
                  <= asked[r] + doubled[r]
<1>1. started[r] \in Nat /\ asked[r] \in Nat /\ doubled[r] \in Nat
  BY Shapes DEF Ledger
<1>2. Cardinality(SlotsOf(queue, r)) \in Nat
  BY Shapes, SlotsAreFinite
<1>3. Cardinality(WaitingOf(api, r)) \in Nat /\ Cardinality(WaitingOf(api', r)) \in Nat
  BY WaitingIsFinite
<1>4. AccountOf(r)
  BY DEF Account
<1> QED BY <1>1, <1>2, <1>3, <1>4 DEF AccountOf

LEMMA EnqueueAccount ==
    ASSUME ShapeInv, Account, ShapeInv', NEW q \in ApiThreads, Enqueue(q)
    PROVE  Account'
<1> SUFFICES ASSUME NEW r \in Runs PROVE AccountOf(r)'
  BY DEF Account
<1> DEFINE before == Cardinality(WaitingOf(api, r))
           after == Cardinality(WaitingOf(api', r))
           slots == Cardinality(SlotsOf(queue, r))
           taken == Cardinality(SlotsOf(queue', r))
<1>1. /\ api' = [api EXCEPT ![q] = IdleHandler] /\ queue' = Append(queue, api[q].r)
      /\ api[q].pc = "push" /\ started' = started /\ asked' = asked /\ doubled' = doubled
  BY DEF Enqueue, history
<1>2. /\ api \in [ApiThreads -> Handlers] /\ api[q].r \in Runs /\ queue \in Seq(Runs)
  BY <1>1, Shapes, TypeParts DEF ShapeInv, HandlerKnown
<1>3. ~ IsWaiting(IdleHandler, r) /\ (IsWaiting(api[q], r) <=> api[q].r = r)
  BY <1>1, IdleFit DEF IsWaiting
<1>4. after = before - IF api[q].r = r THEN 1 ELSE 0
  <2>1. CASE api[q].r = r
    BY <1>1, <1>2, <1>3, <2>1, IdleFit, WaitingMoves
  <2>2. CASE api[q].r # r
    <3>1. after = before
      BY <1>1, <1>2, <1>3, <2>2, IdleFit, WaitingMoves
    <3> QED BY <2>2, <3>1, Numbers
  <2> QED BY <2>1, <2>2
<1>5. taken = slots + IF api[q].r = r THEN 1 ELSE 0
  BY <1>1, <1>2, SlotsPush
<1>6. /\ before \in Nat /\ slots \in Nat /\ started[r] \in Nat
      /\ asked[r] \in Nat /\ doubled[r] \in Nat
      /\ started[r] + before + slots <= asked[r] + doubled[r]
  BY Numbers
<1> HIDE DEF before, after, slots, taken
<1>7. after + taken = before + slots
  BY <1>4, <1>5, <1>6
<1>8. after \in Int /\ taken \in Int
  BY <1>4, <1>5, <1>6
<1>9. started'[r] + after + taken <= asked'[r] + doubled'[r]
  BY <1>1, <1>6, <1>7, <1>8
<1> QED BY <1>9 DEF AccountOf, after, taken

LEMMA EnqueueRaisesAccount ==
    ASSUME ShapeInv, Account, ShapeInv', NEW q \in ApiThreads, EnqueueRaises(q)
    PROVE  Account'
<1> SUFFICES ASSUME NEW r \in Runs PROVE AccountOf(r)'
  BY DEF Account
<1> DEFINE h == [api[q] EXCEPT !.pc = "start"]
           before == Cardinality(WaitingOf(api, r))
           after == Cardinality(WaitingOf(api', r))
           slots == Cardinality(SlotsOf(queue, r))
           taken == Cardinality(SlotsOf(queue', r))
<1>1. /\ api' = [api EXCEPT ![q] = h] /\ api[q].pc = "push" /\ started' = started
      /\ asked' = asked
  BY DEF EnqueueRaises
<1>2. /\ api \in [ApiThreads -> Handlers] /\ api[q].r \in Runs /\ queue \in Seq(Runs)
      /\ doubled \in [Runs -> Nat]
  BY <1>1, Shapes, TypeParts DEF ShapeInv, HandlerKnown, Ledger
<1>3. h \in Handlers /\ h.r = api[q].r /\ h.pc = "start"
  BY <1>2 DEF Handlers, ApiPcs
<1> HIDE DEF h
<1>4. IsWaiting(h, r) <=> IsWaiting(api[q], r)
  BY <1>1, <1>3 DEF IsWaiting
<1>5. after = before
  BY <1>1, <1>2, <1>3, <1>4, WaitingMoves
<1>6. /\ before \in Nat /\ slots \in Nat /\ started[r] \in Nat /\ asked[r] \in Nat
      /\ doubled[r] \in Nat
      /\ started[r] + before + slots <= asked[r] + doubled[r]
  BY Numbers
<1>7. \/ taken = slots /\ doubled'[r] = doubled[r]
      \/ /\ taken = slots + IF api[q].r = r THEN 1 ELSE 0
         /\ doubled'[r] = doubled[r] + IF api[q].r = r THEN 1 ELSE 0
  <2>1. CASE UNCHANGED <<queue, doubled>>
    BY <2>1
  <2>2. CASE /\ queue' = Append(queue, api[q].r)
             /\ doubled' = [doubled EXCEPT ![api[q].r] = @ + 1]
    <3>1. taken = slots + IF api[q].r = r THEN 1 ELSE 0
      BY <1>2, <2>2, SlotsPush
    <3>2. doubled'[r] = doubled[r] + IF api[q].r = r THEN 1 ELSE 0
      BY <1>2, <2>2
    <3> QED BY <3>1, <3>2
  <2> QED BY <2>1, <2>2 DEF EnqueueRaises
<1> HIDE DEF before, after, slots, taken
<1>8. started'[r] + after + taken <= asked'[r] + doubled'[r]
  BY <1>1, <1>5, <1>6, <1>7
<1> QED BY <1>8 DEF AccountOf, after, taken

LEMMA WorkerStartAccount ==
    ASSUME ShapeInv, Account, ShapeInv', NEW w \in Workers, WorkerStart(w)
    PROVE  Account'
<1> SUFFICES ASSUME NEW r \in Runs PROVE AccountOf(r)'
  BY DEF Account
<1> DEFINE before == Cardinality(WaitingOf(api, r))
           after == Cardinality(WaitingOf(api', r))
           slots == Cardinality(SlotsOf(queue, r))
           taken == Cardinality(SlotsOf(queue', r))
           r0 == Head(queue)
<1>1. /\ queue # <<>> /\ queue' = Tail(queue) /\ api' = api /\ asked' = asked
      /\ doubled' = doubled /\ started' = [started EXCEPT ![r0] = @ + 1]
  BY DEF WorkerStart, Begin
<1>2. queue \in Seq(Runs) /\ started \in [Runs -> Nat]
  BY Shapes DEF Ledger
<1>3. taken = slots - IF r0 = r THEN 1 ELSE 0
  BY <1>1, <1>2, SlotsPop
<1>4. after = before
  BY <1>1
<1>5. /\ before \in Nat /\ slots \in Nat /\ started[r] \in Nat
      /\ started[r] + before + slots <= asked[r] + doubled[r]
  BY Numbers
<1>6. started'[r] = started[r] + IF r0 = r THEN 1 ELSE 0
  BY <1>1, <1>2
<1> HIDE DEF before, after, slots, taken, r0
<1>7. started'[r] + after + taken <= asked'[r] + doubled'[r]
  BY <1>1, <1>3, <1>4, <1>5, <1>6
<1> QED BY <1>7 DEF AccountOf, after, taken

\* The steps that concern neither requests nor executions.
LEMMA OtherAccount ==
    ASSUME Account, UNCHANGED <<api, queue, started, asked, doubled>>
    PROVE  Account'
BY DEF Account, AccountOf

LEMMA AccountNext == ShapeInv /\ ShapeInv' /\ Account /\ [RunsNext]_runsVars => Account'
<1> SUFFICES ASSUME ShapeInv, ShapeInv', Account, [RunsNext]_runsVars PROVE Account'
  OBVIOUS
<1>1. CASE UNCHANGED runsVars
  BY <1>1, OtherAccount DEF runsVars, history
<1>2. ASSUME NEW r \in Runs, CreateBareRun(r) PROVE Account'
  BY <1>2, OtherAccount DEF CreateBareRun, history
<1>3. ASSUME NEW q \in ApiThreads,
             \/ \E r \in Runs : CreateRun(q, r) \/ RerunRead(q, r)
             \/ RunHandlerStep(q)
             \/ KillHandler(q)
      PROVE  Account'
  BY <1>3, CreateRunAccount, RerunReadAccount, RerunArmAccount, EndAccount, CheckWorkerAccount,
     EnqueueAccount, EnqueueRaisesAccount, InlineStartAccount, InlineComputeAccount
     DEF RunHandlerStep
<1>4. ASSUME NEW w \in Workers,
             WorkerStep(w) \/ KillWorker(w) \/ RegistryExpires(w) \/ StartWorker(w)
      PROVE  Account'
  <2>1. CASE WorkerStart(w)
    BY <2>1, WorkerStartAccount
  <2>2. CASE \/ WorkerCompute(w) \/ WorkerFinish(w) \/ KillWorker(w) \/ RegistryExpires(w)
             \/ StartWorker(w)
    BY <2>2, OtherAccount
       DEF WorkerCompute, WorkerFinish, KillWorker, RegistryExpires, StartWorker, history
  <2> QED BY <1>4, <2>1, <2>2 DEF WorkerStep
<1> QED BY <1>1, <1>2, <1>3, <1>4 DEF RunsNext

\* Nobody executes a request twice, except after an enqueue that raised when the
\* job was already in the queue, whatever dies or falls back.
THEOREM ExecutionsAreAccounted == RunsSpec => []ExecutionsAccounted
<1>1. ShapeInv /\ Account => ExecutionsAccounted
  <2> SUFFICES ASSUME ShapeInv, Account, NEW r \in Runs
               PROVE  started[r] <= asked[r] + doubled[r]
    BY DEF ExecutionsAccounted
  <2>1. Cardinality(WaitingOf(api, r)) \in Nat /\ Cardinality(SlotsOf(queue, r)) \in Nat
    BY Shapes, WaitingIsFinite, SlotsAreFinite
  <2>2. started[r] \in Nat /\ asked[r] \in Nat /\ doubled[r] \in Nat
    BY Shapes DEF Ledger
  <2> QED BY <2>1, <2>2 DEF Account, AccountOf
<1>2. RunsSpec => []Account
  BY ShapeHolds, InitAccount, AccountNext, PTL DEF RunsSpec
<1> QED BY <1>1, <1>2, ShapeHolds, PTL

--------------------------------------------------------------------------------
(* The truth of the rows.  A run is in "met" from the moment two processes     *)
(* work on it; until then the only one knows its row, and every write of it is *)
(* the truth                                                                   *)

HandlerOn(h, r) == h.r = r /\ h.pc \in {"preflight", "running", "computed"}

WorkerOn(w, r) == w.r = r /\ w.pc \in {"running", "computed"}

\* A directory holds what a result says of it.
Fits(result, dir) == result \in {"ok", "rejected"} => dir = result

\* What a process remembers is so.
HandlerTrue(h, row, dir) ==
    /\ h.pc = "preflight" => h.loaded.status = row.status /\ h.loaded.error = row.error
    /\ h.pc \in {"running", "computed"} => row.error = Null
    /\ h.pc = "computed" => Fits(h.result, dir)

WorkerTrue(w, row, dir) ==
    /\ w.loaded = row.error
    /\ w.pc = "computed" => Fits(w.result, dir)

\* At most one process is on the run, and knows it.
Solo(r) ==
    /\ \A p, q \in ApiThreads : HandlerOn(api[p], r) /\ HandlerOn(api[q], r) => p = q
    /\ \A v, w \in Workers : WorkerOn(worker[v], r) /\ WorkerOn(worker[w], r) => v = w
    /\ \A q \in ApiThreads, w \in Workers : ~ (HandlerOn(api[q], r) /\ WorkerOn(worker[w], r))
    /\ \A q \in ApiThreads : HandlerOn(api[q], r) => HandlerTrue(api[q], run[r], artifact[r])
    /\ \A w \in Workers : WorkerOn(worker[w], r) => WorkerTrue(worker[w], run[r], artifact[r])

HandlerRuns(h, r) == h.r = r /\ h.pc \in {"running", "computed"}

Executed(r) ==
    \/ \E q \in ApiThreads : HandlerRuns(api[q], r)
    \/ \E w \in Workers : WorkerOn(worker[w], r)

RowTells(row, dir) ==
    /\ row.status = "completed" => row.error = Null /\ dir = "ok"
    /\ row.status = "failed" => /\ row.error # Null
                                /\ row.error = "rejected" => dir = "rejected"

TruthOf(r) ==
    /\ r \notin met => Solo(r)
    /\ r \notin mixed => /\ RowTells(run[r], artifact[r])
                         /\ Executed(r) => run[r].status = "running"

Truth == \A r \in Runs : TruthOf(r)

Nobody(r) ==
    /\ \A q \in ApiThreads : ~ HandlerOn(api[q], r)
    /\ \A w \in Workers : ~ WorkerOn(worker[w], r)

LEMMA BusyIsSomebody == \A r : ~ Busy(r) <=> Nobody(r)
BY DEF Busy, Nobody, HandlerOn, WorkerOn

LEMMA NobodyIsSolo == \A r : Nobody(r) => Solo(r) /\ ~ Executed(r)
BY DEF Nobody, Solo, Executed, HandlerOn, HandlerRuns

LEMMA InitTruth == RunsInit => Truth
<1> SUFFICES ASSUME RunsInit, NEW r \in Runs PROVE TruthOf(r)
  BY DEF Truth
<1>1. Nobody(r)
  BY NullIsNothing DEF RunsInit, Nobody, HandlerOn, WorkerOn, IdleHandler, IdleWorker
<1>2. RowTells(run[r], artifact[r])
  BY DEF RunsInit, RowTells
<1> QED BY <1>1, <1>2, NobodyIsSolo DEF TruthOf

\* Processes that move are not on the run afterwards, and nothing is written.
LEMMA Leaves ==
    ASSUME NEW r \in Runs, TruthOf(r), run'[r] = run[r], artifact'[r] = artifact[r],
           r \in met' <=> r \in met, r \in mixed' <=> r \in mixed,
           \A q \in ApiThreads : api'[q] = api[q] \/ ~ HandlerOn(api'[q], r),
           \A w \in Workers : worker'[w] = worker[w] \/ ~ WorkerOn(worker'[w], r)
    PROVE  TruthOf(r)'
<1>1. \A q \in ApiThreads : HandlerOn(api'[q], r) => HandlerOn(api[q], r) /\ api'[q] = api[q]
  OBVIOUS
<1>2. \A w \in Workers : WorkerOn(worker'[w], r) => WorkerOn(worker[w], r) /\ worker'[w] = worker[w]
  OBVIOUS
<1>3. Solo(r) => Solo(r)'
  BY <1>1, <1>2 DEF Solo
<1>4. Executed(r)' => Executed(r)
  BY <1>1, <1>2 DEF Executed, HandlerRuns, HandlerOn
<1> QED BY <1>3, <1>4 DEF TruthOf

\* The last process on the run writes its row.
LEMMA Settles ==
    ASSUME NEW r \in Runs, TruthOf(r), r \in met' <=> r \in met, r \in mixed' <=> r \in met,
           r \notin met => Nobody(r)' /\ RowTells(run'[r], artifact'[r])
    PROVE  TruthOf(r)'
<1>1. r \notin met => Solo(r)' /\ ~ Executed(r)'
  BY NobodyIsSolo DEF Nobody, Solo, Executed, HandlerOn, HandlerRuns
<1> QED BY <1>1 DEF TruthOf

\* A process that was alone on the run is no longer on it.
LEMMA HandlerWasAlone ==
    ASSUME NEW r \in Runs, NEW q \in ApiThreads, Solo(r), HandlerOn(api[q], r),
           ~ HandlerOn(api'[q], r), \A p \in ApiThreads : p # q => api'[p] = api[p],
           worker' = worker
    PROVE  Nobody(r)'
BY DEF Solo, Nobody

LEMMA WorkerWasAlone ==
    ASSUME NEW r \in Runs, NEW w \in Workers, Solo(r), WorkerOn(worker[w], r),
           ~ WorkerOn(worker'[w], r), \A v \in Workers : v # w => worker'[v] = worker[v],
           api' = api
    PROVE  Nobody(r)'
BY DEF Solo, Nobody

\* A process is the only one on the run after the step.
LEMMA HandlerIsSolo ==
    ASSUME NEW r \in Runs, NEW q \in ApiThreads,
           \A p \in ApiThreads : p # q => api'[p] = api[p] /\ ~ HandlerOn(api[p], r),
           worker' = worker, \A w \in Workers : ~ WorkerOn(worker[w], r),
           HandlerTrue(api'[q], run'[r], artifact'[r])
    PROVE  Solo(r)'
BY DEF Solo

LEMMA WorkerIsSolo ==
    ASSUME NEW r \in Runs, NEW w \in Workers,
           \A v \in Workers : v # w => worker'[v] = worker[v] /\ ~ WorkerOn(worker[v], r),
           api' = api, \A q \in ApiThreads : ~ HandlerOn(api[q], r),
           WorkerTrue(worker'[w], run'[r], artifact'[r])
    PROVE  Solo(r)'
BY DEF Solo

\* A step of a handler that is about another run.
LEMMA HandlerElsewhere ==
    ASSUME ShapeInv, NEW r \in Runs, TruthOf(r), NEW q \in ApiThreads, NEW h,
           api' = [api EXCEPT ![q] = h], worker' = worker, ~ HandlerOn(h, r),
           run'[r] = run[r], artifact'[r] = artifact[r],
           r \in met' <=> r \in met, r \in mixed' <=> r \in mixed
    PROVE  TruthOf(r)'
<1>1. api \in [ApiThreads -> Handlers]
  BY TypeParts DEF ShapeInv
<1>2. \A p \in ApiThreads : api'[p] = api[p] \/ ~ HandlerOn(api'[p], r)
  BY <1>1
<1> QED BY <1>2, Leaves

LEMMA WorkerElsewhere ==
    ASSUME ShapeInv, NEW r \in Runs, TruthOf(r), NEW w \in Workers, NEW h,
           worker' = [worker EXCEPT ![w] = h], api' = api, ~ WorkerOn(h, r),
           run'[r] = run[r], artifact'[r] = artifact[r],
           r \in met' <=> r \in met, r \in mixed' <=> r \in mixed
    PROVE  TruthOf(r)'
<1>1. worker \in [Workers -> WorkerStates]
  BY TypeParts DEF ShapeInv
<1>2. \A v \in Workers : worker'[v] = worker[v] \/ ~ WorkerOn(worker'[v], r)
  BY <1>1
<1> QED BY <1>2, Leaves

\* The row of a run that nobody is on is armed.
LEMMA Arms ==
    ASSUME NEW r \in Runs, Nobody(r)', run'[r].status = "pending"
    PROVE  TruthOf(r)'
BY DEF Nobody, TruthOf, Solo, Executed, RowTells, HandlerOn, HandlerRuns, WorkerOn

LEMMA AbsentIsNobodys ==
    ASSUME ShapeInv, NEW r \in Runs, run[r].status = "absent"
    PROVE  Nobody(r)
BY Shapes DEF HandlerKnown, WorkerKnown, Nobody, HandlerOn, WorkerOn

LEMMA CreateRunTruth ==
    ASSUME ShapeInv, Truth, NEW q \in ApiThreads, NEW r0 \in Runs, CreateRun(q, r0)
    PROVE  Truth'
<1> SUFFICES ASSUME NEW r \in Runs PROVE TruthOf(r)'
  BY DEF Truth
<1> DEFINE h == [IdleHandler EXCEPT !.pc = "check", !.r = r0]
           row == [status |-> "pending", error |-> Null, code |-> TRUE]
<1>1. /\ api' = [api EXCEPT ![q] = h] /\ worker' = worker /\ artifact' = artifact
      /\ run' = [run EXCEPT ![r0] = row] /\ met' = met /\ mixed' = mixed
      /\ run[r0].status = "absent"
  BY DEF CreateRun
<1>2. h.pc = "check"
  BY IdleFit DEF Handlers
<1>3. row.status = "pending"
  OBVIOUS
<1> HIDE DEF h, row
<1>4. run \in [Runs -> Rows] /\ api \in [ApiThreads -> Handlers] /\ TruthOf(r)
  BY Shapes, TypeParts DEF ShapeInv, Truth
<1>5. ~ HandlerOn(h, r)
  BY <1>2 DEF HandlerOn
<1>6. CASE r # r0
  <2>1. run'[r] = run[r]
    BY <1>1, <1>4, <1>6
  <2> QED BY <1>1, <1>4, <1>5, <2>1, HandlerElsewhere
<1>7. CASE r = r0
  <2>1. Nobody(r)
    BY <1>1, <1>7, AbsentIsNobodys
  <2>2. Nobody(r)'
    BY <1>1, <1>4, <1>5, <2>1 DEF Nobody
  <2>3. run'[r].status = "pending"
    BY <1>1, <1>3, <1>4, <1>7
  <2> QED BY <2>2, <2>3, Arms
<1> QED BY <1>6, <1>7

LEMMA CreateBareRunTruth ==
    ASSUME ShapeInv, Truth, NEW r0 \in Runs, CreateBareRun(r0)
    PROVE  Truth'
<1> SUFFICES ASSUME NEW r \in Runs PROVE TruthOf(r)'
  BY DEF Truth
<1>1. /\ api' = api /\ worker' = worker /\ artifact' = artifact /\ met' = met /\ mixed' = mixed
      /\ run' = [run EXCEPT ![r0] = [@ EXCEPT !.status = "pending"]]
      /\ run[r0].status = "absent"
  BY DEF CreateBareRun, history
<1>2. run \in [Runs -> Rows] /\ TruthOf(r) /\ run[r0] \in Rows
  BY Shapes DEF Truth
<1>3. CASE r # r0
  <2>1. run'[r] = run[r]
    BY <1>1, <1>2, <1>3
  <2> QED BY <1>1, <1>2, <2>1, Leaves
<1>4. CASE r = r0
  <2>1. Nobody(r)
    BY <1>1, <1>4, AbsentIsNobodys
  <2>2. Nobody(r)'
    BY <1>1, <2>1 DEF Nobody
  <2>3. run'[r].status = "pending"
    BY <1>1, <1>2, <1>4 DEF Rows
  <2> QED BY <2>2, <2>3, Arms
<1> QED BY <1>3, <1>4

LEMMA RerunReadTruth ==
    ASSUME ShapeInv, Truth, NEW q \in ApiThreads, NEW r0 \in Runs, RerunRead(q, r0)
    PROVE  Truth'
<1> SUFFICES ASSUME NEW r \in Runs PROVE TruthOf(r)'
  BY DEF Truth
<1> DEFINE l == [status |-> run[r0].status, error |-> run[r0].error]
           h == [IdleHandler EXCEPT !.pc = "preflight", !.r = r0, !.loaded = l]
<1>1. /\ api' = [api EXCEPT ![q] = h] /\ worker' = worker /\ artifact' = artifact /\ run' = run
      /\ met' = (IF Busy(r0) THEN met \cup {r0} ELSE met \ {r0}) /\ mixed' = mixed
      /\ api[q].pc = "idle"
  BY DEF RerunRead, store
<1>2. l.status = run[r0].status /\ l.error = run[r0].error
  OBVIOUS
<1> HIDE DEF l
<1>3. h.pc = "preflight" /\ h.r = r0 /\ h.loaded = l
  BY IdleFit DEF Handlers
<1> HIDE DEF h
<1>4. api \in [ApiThreads -> Handlers] /\ TruthOf(r)
  BY TypeParts DEF ShapeInv, Truth
<1>5. CASE r # r0
  <2>1. ~ HandlerOn(h, r)
    BY <1>3, <1>5 DEF HandlerOn
  <2>2. r \in met' <=> r \in met
    BY <1>1, <1>5
  <2> QED BY <1>1, <1>4, <2>1, <2>2, HandlerElsewhere
<1>6. CASE r = r0
  <2>1. api'[q] = h /\ \A p \in ApiThreads : p # q => api'[p] = api[p]
    BY <1>1, <1>4
  <2>2. ASSUME r \notin met' PROVE Solo(r)'
    <3>1. Nobody(r)
      BY <1>1, <1>6, <2>2, BusyIsSomebody
    <3>2. HandlerTrue(api'[q], run'[r], artifact'[r])
      BY <1>1, <1>2, <1>3, <1>6, <2>1 DEF HandlerTrue
    <3> QED BY <1>1, <2>1, <3>1, <3>2, HandlerIsSolo DEF Nobody
  <2>3. Executed(r)' => Executed(r)
    BY <1>1, <1>3, <2>1 DEF Executed, HandlerRuns
  <2> QED BY <1>1, <1>4, <2>2, <2>3 DEF TruthOf
<1> QED BY <1>5, <1>6

\* The last write of a handler: what it leaves in the row and in the directory
\* is the truth if nobody else was on the run.
LEMMA HandlerSettles ==
    ASSUME ShapeInv, Truth, NEW q \in ApiThreads, NEW h, api' = [api EXCEPT ![q] = h],
           NEW r0 \in Runs, HandlerOn(api[q], r0), \A r : ~ HandlerOn(h, r), worker' = worker,
           \A r \in Runs : r # r0 => run'[r] = run[r] /\ artifact'[r] = artifact[r],
           met' = met, mixed' = IF r0 \in met THEN mixed \cup {r0} ELSE mixed \ {r0},
           Solo(r0) => RowTells(run'[r0], artifact'[r0])
    PROVE  Truth'
<1> SUFFICES ASSUME NEW r \in Runs PROVE TruthOf(r)'
  BY DEF Truth
<1>1. api \in [ApiThreads -> Handlers] /\ TruthOf(r)
  BY TypeParts DEF ShapeInv, Truth
<1>2. CASE r # r0
  BY <1>1, <1>2, HandlerElsewhere
<1>3. CASE r = r0
  <2>1. api'[q] = h /\ \A p \in ApiThreads : p # q => api'[p] = api[p]
    BY <1>1
  <2>2. r \notin met => Nobody(r)' /\ RowTells(run'[r], artifact'[r])
    BY <1>1, <1>3, <2>1, HandlerWasAlone DEF TruthOf
  <2> QED BY <1>1, <1>3, <2>2, Settles
<1> QED BY <1>2, <1>3

LEMMA WorkerSettles ==
    ASSUME ShapeInv, Truth, NEW w \in Workers, NEW h, worker' = [worker EXCEPT ![w] = h],
           NEW r0 \in Runs, WorkerOn(worker[w], r0), \A r : ~ WorkerOn(h, r), api' = api,
           \A r \in Runs : r # r0 => run'[r] = run[r] /\ artifact'[r] = artifact[r],
           met' = met, mixed' = IF r0 \in met THEN mixed \cup {r0} ELSE mixed \ {r0},
           Solo(r0) => RowTells(run'[r0], artifact'[r0])
    PROVE  Truth'
<1> SUFFICES ASSUME NEW r \in Runs PROVE TruthOf(r)'
  BY DEF Truth
<1>1. worker \in [Workers -> WorkerStates] /\ TruthOf(r)
  BY TypeParts DEF ShapeInv, Truth
<1>2. CASE r # r0
  BY <1>1, <1>2, WorkerElsewhere
<1>3. CASE r = r0
  <2>1. worker'[w] = h /\ \A v \in Workers : v # w => worker'[v] = worker[v]
    BY <1>1
  <2>2. r \notin met => Nobody(r)' /\ RowTells(run'[r], artifact'[r])
    BY <1>1, <1>3, <2>1, WorkerWasAlone DEF TruthOf
  <2> QED BY <1>1, <1>3, <2>2, Settles
<1> QED BY <1>2, <1>3

\* A session whose copy is fresh writes what it means to.
LEMMA FlushedExactly == \A new, current : Flushed(new, current, current) = {new}
BY DEF Flushed

\* A handler that is on the run alone writes what it means to, however long its
\* preflight took.
LEMMA RerunWritesTruth ==
    ASSUME ShapeInv, NEW q \in ApiThreads, api[q].pc = "preflight",
           NEW status \in Statuses, NEW error \in Errors \cup {Null},
           RerunWrite(q, status, error)
    PROVE  /\ api[q].r \in Runs /\ HandlerOn(api[q], api[q].r)
           /\ \A r \in Runs : r # api[q].r => run'[r] = run[r]
           /\ Solo(api[q].r) => /\ run'[api[q].r].status = status
                                /\ run'[api[q].r].error = error
<1> DEFINE r == api[q].r
           l == api[q].loaded
<1>1. r \in Runs /\ HandlerOn(api[q], r)
  BY Shapes DEF HandlerKnown, HandlerOn
<1>2. PICK s \in Flushed(status, l.status, run[r].status),
           e \in Flushed(error, l.error, run[r].error) :
              run' = [run EXCEPT ![r] = [@ EXCEPT !.status = s, !.error = e]]
  BY DEF RerunWrite
<1> DEFINE row == [run[r] EXCEPT !.status = s, !.error = e]
<1>3. run' = [run EXCEPT ![r] = row]
  BY <1>2
<1>4. run \in [Runs -> Rows] /\ run[r] \in Rows
  BY <1>1, Shapes
<1>5. row.status = s /\ row.error = e
  BY <1>4 DEF Rows
<1> HIDE DEF row
<1>6. run'[r].status = s /\ run'[r].error = e
  BY <1>1, <1>3, <1>4, <1>5
<1>7. ASSUME Solo(r) PROVE s = status /\ e = error
  <2>1. HandlerTrue(api[q], run[r], artifact[r])
    BY <1>1, <1>7 DEF Solo
  <2>2. l.status = run[r].status /\ l.error = run[r].error
    BY <2>1 DEF HandlerTrue
  <2>3. s \in {status} /\ e \in {error}
    BY <1>2, <2>2, FlushedExactly
  <2> QED BY <2>3
<1>8. \A p \in Runs : p # r => run'[p] = run[p]
  BY <1>3, <1>4
<1> QED BY <1>1, <1>6, <1>7, <1>8

LEMMA RerunArmTruth ==
    ASSUME ShapeInv, Truth, NEW q \in ApiThreads, RerunArm(q)
    PROVE  Truth'
<1> DEFINE r0 == api[q].r
           h == [IdleHandler EXCEPT !.pc = "check", !.r = r0]
<1>1. /\ api' = [api EXCEPT ![q] = h] /\ worker' = worker /\ artifact' = artifact /\ met' = met
      /\ mixed' = IF r0 \in met THEN mixed \cup {r0} ELSE mixed \ {r0}
  BY DEF RerunArm, Wrote
<1>2. h.pc = "check"
  BY IdleFit DEF Handlers
<1>3. \A r : ~ HandlerOn(h, r)
  BY <1>2 DEF HandlerOn
<1>4. /\ r0 \in Runs /\ HandlerOn(api[q], r0) /\ \A r \in Runs : r # r0 => run'[r] = run[r]
      /\ Solo(r0) => run'[r0].status = "pending"
  BY RerunWritesTruth DEF RerunArm, Statuses
<1>5. Solo(r0) => RowTells(run'[r0], artifact'[r0])
  BY <1>4 DEF RowTells
<1> HIDE DEF h, r0
<1>6. \A r \in Runs : r # r0 => run'[r] = run[r] /\ artifact'[r] = artifact[r]
  BY <1>1, <1>4
<1> QED BY <1>1, <1>3, <1>4, <1>5, <1>6, HandlerSettles

\* What a program leaves in its directory fits its result.
LEMMA ArtifactsFitResult ==
    ASSUME artifact \in [Runs -> {"none", "ok", "rejected"}], NEW r0 \in Runs,
           NEW result \in Results, artifact' = Artifacts(r0, result)
    PROVE  /\ Fits(result, artifact'[r0])
           /\ \A r \in Runs : r # r0 => artifact'[r] = artifact[r]
BY DEF Artifacts, Fits, Results, Errors

LEMMA RerunRejectedTruth ==
    ASSUME ShapeInv, Truth, NEW q \in ApiThreads, RerunRejected(q)
    PROVE  Truth'
<1> DEFINE r0 == api[q].r
           h == IdleHandler
<1>1. /\ api' = [api EXCEPT ![q] = h] /\ worker' = worker /\ met' = met
      /\ mixed' = IF r0 \in met THEN mixed \cup {r0} ELSE mixed \ {r0}
      /\ artifact' = Artifacts(r0, "rejected")
  BY DEF RerunRejected, Wrote
<1>2. \A r : ~ HandlerOn(h, r)
  BY IdleFit DEF HandlerOn
<1>3. /\ r0 \in Runs /\ HandlerOn(api[q], r0) /\ \A r \in Runs : r # r0 => run'[r] = run[r]
      /\ Solo(r0) => run'[r0].status = "failed" /\ run'[r0].error = "rejected"
  BY RerunWritesTruth DEF RerunRejected, Statuses, Errors
<1>4. artifact \in [Runs -> {"none", "ok", "rejected"}]
  BY Shapes DEF Ledger
<1>5. Fits("rejected", artifact'[r0]) /\ \A r \in Runs : r # r0 => artifact'[r] = artifact[r]
  BY <1>1, <1>3, <1>4, ArtifactsFitResult DEF Results, Errors
<1>6. Solo(r0) => RowTells(run'[r0], artifact'[r0])
  BY <1>3, <1>5, NullIsNothing DEF RowTells, Fits, Errors
<1> HIDE DEF h, r0
<1> QED BY <1>1, <1>2, <1>3, <1>5, <1>6, HandlerSettles

\* A handler that neither executes nor remembers a row goes on.
LEMMA HandlerTurnsTruth ==
    ASSUME ShapeInv, Truth, NEW q \in ApiThreads, NEW h, api' = [api EXCEPT ![q] = h],
           h.pc \notin {"preflight", "running", "computed"},
           UNCHANGED <<run, artifact, worker, met, mixed>>
    PROVE  Truth'
<1> SUFFICES ASSUME NEW r \in Runs PROVE TruthOf(r)'
  BY DEF Truth
<1>1. ~ HandlerOn(h, r)
  BY DEF HandlerOn
<1> QED BY <1>1, HandlerElsewhere DEF Truth

LEMMA HandlerRestTruth ==
    ASSUME ShapeInv, Truth, NEW q \in ApiThreads,
           RerunAborts(q) \/ CheckWorker(q) \/ Enqueue(q) \/ EnqueueRaises(q) \/ KillHandler(q)
    PROVE  Truth'
<1>1. UNCHANGED <<run, artifact, worker, met, mixed>>
  BY DEF RerunAborts, CheckWorker, Enqueue, EnqueueRaises, KillHandler, store, history
<1>2. CASE RerunAborts(q) \/ Enqueue(q) \/ KillHandler(q)
  <2>1. api' = [api EXCEPT ![q] = IdleHandler]
    BY <1>2 DEF RerunAborts, Enqueue, KillHandler
  <2> QED BY <1>1, <2>1, IdleFit, HandlerTurnsTruth
<1>3. CASE CheckWorker(q) \/ EnqueueRaises(q)
  <2>1. PICK pc \in {"start", "push"} : api' = [api EXCEPT ![q] = [@ EXCEPT !.pc = pc]]
    BY <1>3 DEF CheckWorker, EnqueueRaises
  <2> DEFINE h == [api[q] EXCEPT !.pc = pc]
  <2>2. api' = [api EXCEPT ![q] = h]
    BY <2>1
  <2>3. api[q] \in Handlers
    BY Shapes
  <2>4. h.pc = pc
    BY <2>3 DEF Handlers
  <2> HIDE DEF h
  <2> QED BY <1>1, <2>2, <2>4, HandlerTurnsTruth
<1> QED BY <1>2, <1>3

LEMMA WorkerTurnsTruth ==
    ASSUME ShapeInv, Truth, NEW w \in Workers, KillWorker(w) \/ StartWorker(w)
    PROVE  Truth'
<1>1. PICK pc \in {"idle", "down"} : worker' = [worker EXCEPT ![w] = [IdleWorker EXCEPT !.pc = pc]]
  <2>1. [IdleWorker EXCEPT !.pc = "idle"] = IdleWorker
    BY DEF IdleWorker
  <2> QED BY <2>1 DEF KillWorker, StartWorker
<1> DEFINE h == [IdleWorker EXCEPT !.pc = pc]
<1>2. h.pc = pc
  BY DEF IdleWorker
<1>3. worker' = [worker EXCEPT ![w] = h] /\ UNCHANGED <<run, artifact, api, met, mixed>>
  BY <1>1 DEF KillWorker, StartWorker, store, history
<1> HIDE DEF h
<1> SUFFICES ASSUME NEW r \in Runs PROVE TruthOf(r)'
  BY DEF Truth
<1>4. ~ WorkerOn(h, r)
  BY <1>2 DEF WorkerOn
<1> QED BY <1>3, <1>4, WorkerElsewhere DEF Truth

LEMMA InlineStartTruth ==
    ASSUME ShapeInv, Truth, NEW q \in ApiThreads, InlineStart(q)
    PROVE  Truth'
<1> DEFINE r0 == api[q].r
           h == [api[q] EXCEPT !.pc = "running"]
           row == [run[r0] EXCEPT !.status = "running", !.error = Null]
<1>1. /\ api' = [api EXCEPT ![q] = h] /\ worker' = worker /\ artifact' = artifact
      /\ run' = [run EXCEPT ![r0] = row] /\ mixed' = mixed
      /\ met' = (IF Busy(r0) THEN met \cup {r0} ELSE met) /\ api[q].pc = "start"
  BY DEF InlineStart, Begin
<1>2. r0 \in Runs /\ api[q] \in Handlers
  BY <1>1, Shapes DEF HandlerKnown
<1>3. run \in [Runs -> Rows] /\ run[r0] \in Rows /\ api \in [ApiThreads -> Handlers]
  BY <1>2, Shapes, TypeParts DEF ShapeInv
<1>4. h.pc = "running" /\ h.r = r0
  BY <1>2 DEF Handlers
<1>5. row.status = "running" /\ row.error = Null
  BY <1>3 DEF Rows
<1> HIDE DEF h, row, r0
<1> SUFFICES ASSUME NEW r \in Runs PROVE TruthOf(r)'
  BY DEF Truth
<1>6. CASE r # r0
  <2>1. ~ HandlerOn(h, r)
    BY <1>4, <1>6 DEF HandlerOn
  <2>2. run'[r] = run[r] /\ (r \in met' <=> r \in met)
    BY <1>1, <1>3, <1>6
  <2> QED BY <1>1, <2>1, <2>2, HandlerElsewhere DEF Truth
<1>7. CASE r = r0
  <2>1. api'[q] = h /\ \A p \in ApiThreads : p # q => api'[p] = api[p]
    BY <1>1, <1>3
  <2>2. run'[r].status = "running" /\ run'[r].error = Null
    BY <1>1, <1>3, <1>5, <1>7
  <2>3. ASSUME r \notin met' PROVE Solo(r)'
    <3>1. Nobody(r)
      BY <1>1, <1>7, <2>3, BusyIsSomebody
    <3>2. HandlerTrue(api'[q], run'[r], artifact'[r])
      BY <1>4, <2>1, <2>2 DEF HandlerTrue
    <3> QED BY <1>1, <2>1, <3>1, <3>2, HandlerIsSolo DEF Nobody
  <2> QED BY <2>2, <2>3 DEF TruthOf, RowTells
<1> QED BY <1>6, <1>7

LEMMA WorkerStartTruth ==
    ASSUME ShapeInv, Truth, NEW w \in Workers, WorkerStart(w)
    PROVE  Truth'
<1> DEFINE r0 == Head(queue)
           h == [pc |-> "running", r |-> r0, loaded |-> run[r0].error, result |-> Null]
           row == [run[r0] EXCEPT !.status = "running"]
<1>1. /\ worker' = [worker EXCEPT ![w] = h] /\ api' = api /\ artifact' = artifact
      /\ run' = [run EXCEPT ![r0] = row] /\ mixed' = mixed /\ queue # <<>>
      /\ met' = (IF Busy(r0) THEN met \cup {r0} ELSE met)
  BY DEF WorkerStart, Begin
<1>2. r0 \in Runs
  BY <1>1, Shapes, HeadTailProperties
<1>3. run \in [Runs -> Rows] /\ run[r0] \in Rows /\ worker \in [Workers -> WorkerStates]
  BY <1>2, Shapes, TypeParts DEF ShapeInv
<1>4. h.pc = "running" /\ h.r = r0 /\ h.loaded = run[r0].error
  OBVIOUS
<1>5. row.status = "running" /\ row.error = run[r0].error
  BY <1>3 DEF Rows
<1> HIDE DEF h, row, r0
<1> SUFFICES ASSUME NEW r \in Runs PROVE TruthOf(r)'
  BY DEF Truth
<1>6. CASE r # r0
  <2>1. ~ WorkerOn(h, r)
    BY <1>4, <1>6 DEF WorkerOn
  <2>2. run'[r] = run[r] /\ (r \in met' <=> r \in met)
    BY <1>1, <1>3, <1>6
  <2> QED BY <1>1, <2>1, <2>2, WorkerElsewhere DEF Truth
<1>7. CASE r = r0
  <2>1. worker'[w] = h /\ \A v \in Workers : v # w => worker'[v] = worker[v]
    BY <1>1, <1>3
  <2>2. run'[r].status = "running" /\ run'[r].error = run[r].error
    BY <1>1, <1>3, <1>5, <1>7
  <2>3. ASSUME r \notin met' PROVE Solo(r)'
    <3>1. Nobody(r)
      BY <1>1, <1>7, <2>3, BusyIsSomebody
    <3>2. WorkerTrue(worker'[w], run'[r], artifact'[r])
      BY <1>4, <1>7, <2>1, <2>2 DEF WorkerTrue
    <3> QED BY <1>1, <2>1, <3>1, <3>2, WorkerIsSolo DEF Nobody
  <2> QED BY <2>2, <2>3 DEF TruthOf, RowTells
<1> QED BY <1>6, <1>7

LEMMA InlineComputeTruth ==
    ASSUME ShapeInv, Truth, NEW q \in ApiThreads, InlineCompute(q)
    PROVE  Truth'
<1>1. PICK result \in Results :
         /\ artifact' = Artifacts(api[q].r, result)
         /\ api' = [api EXCEPT ![q] = [@ EXCEPT !.pc = "computed", !.result = result]]
  BY DEF InlineCompute
<1> DEFINE r0 == api[q].r
           h == [api[q] EXCEPT !.pc = "computed", !.result = result]
<1>2. /\ api' = [api EXCEPT ![q] = h] /\ worker' = worker /\ run' = run /\ met' = met
      /\ mixed' = mixed /\ api[q].pc = "running"
  BY <1>1 DEF InlineCompute, history
<1>3. r0 \in Runs /\ api[q] \in Handlers /\ api \in [ApiThreads -> Handlers]
  BY <1>2, Shapes, TypeParts DEF HandlerKnown, ShapeInv
<1>4. h.pc = "computed" /\ h.r = r0 /\ h.result = result
  BY <1>3 DEF Handlers
<1>5. Fits(result, artifact'[r0]) /\ \A r \in Runs : r # r0 => artifact'[r] = artifact[r]
  BY <1>1, <1>3, Shapes, ArtifactsFitResult DEF Ledger
<1>6. HandlerOn(api[q], r0) /\ HandlerRuns(api[q], r0)
  BY <1>2 DEF HandlerOn, HandlerRuns
<1> HIDE DEF h, r0
<1> SUFFICES ASSUME NEW r \in Runs PROVE TruthOf(r)'
  BY DEF Truth
<1>7. TruthOf(r)
  BY DEF Truth
<1>8. CASE r # r0
  <2>1. ~ HandlerOn(h, r)
    BY <1>4, <1>8 DEF HandlerOn
  <2>2. artifact'[r] = artifact[r] /\ run'[r] = run[r]
    BY <1>2, <1>5, <1>8
  <2> QED BY <1>2, <1>7, <2>1, <2>2, HandlerElsewhere
<1>9. CASE r = r0
  <2>1. api'[q] = h /\ \A p \in ApiThreads : p # q => api'[p] = api[p]
    BY <1>2, <1>3
  <2>2. ASSUME r \notin met' PROVE Solo(r)'
    <3>1. Solo(r)
      BY <1>2, <1>7, <2>2 DEF TruthOf
    <3>2. HandlerTrue(api[q], run[r], artifact[r])
      BY <1>6, <1>9, <3>1 DEF Solo
    <3>3. HandlerTrue(api'[q], run'[r], artifact'[r])
      BY <1>2, <1>4, <1>5, <1>9, <2>1, <3>2 DEF HandlerTrue
    <3>4. /\ \A p \in ApiThreads : p # q => ~ HandlerOn(api[p], r)
          /\ \A w \in Workers : ~ WorkerOn(worker[w], r)
      BY <1>6, <1>9, <3>1 DEF Solo
    <3> QED BY <1>2, <2>1, <3>3, <3>4, HandlerIsSolo
  <2>3. ASSUME r \notin mixed' PROVE run'[r].status = "running"
    BY <1>2, <1>6, <1>7, <1>9, <2>3 DEF TruthOf, Executed
  <2> QED BY <2>2, <2>3 DEF TruthOf, RowTells
<1> QED BY <1>8, <1>9

LEMMA WorkerComputeTruth ==
    ASSUME ShapeInv, Truth, NEW w \in Workers, WorkerCompute(w)
    PROVE  Truth'
<1>1. PICK result \in Results :
         /\ artifact' = Artifacts(worker[w].r, result)
         /\ worker' = [worker EXCEPT ![w] = [@ EXCEPT !.pc = "computed", !.result = result]]
  BY DEF WorkerCompute
<1> DEFINE r0 == worker[w].r
           h == [worker[w] EXCEPT !.pc = "computed", !.result = result]
<1>2. /\ worker' = [worker EXCEPT ![w] = h] /\ api' = api /\ run' = run /\ met' = met
      /\ mixed' = mixed /\ worker[w].pc = "running"
  BY <1>1 DEF WorkerCompute, history
<1>3. r0 \in Runs /\ worker[w] \in WorkerStates /\ worker \in [Workers -> WorkerStates]
  BY <1>2, Shapes, TypeParts DEF WorkerKnown, ShapeInv
<1>4. h.pc = "computed" /\ h.r = r0 /\ h.result = result /\ h.loaded = worker[w].loaded
  BY <1>3 DEF WorkerStates
<1>5. Fits(result, artifact'[r0]) /\ \A r \in Runs : r # r0 => artifact'[r] = artifact[r]
  BY <1>1, <1>3, Shapes, ArtifactsFitResult DEF Ledger
<1>6. WorkerOn(worker[w], r0)
  BY <1>2 DEF WorkerOn
<1> HIDE DEF h, r0
<1> SUFFICES ASSUME NEW r \in Runs PROVE TruthOf(r)'
  BY DEF Truth
<1>7. TruthOf(r)
  BY DEF Truth
<1>8. CASE r # r0
  <2>1. ~ WorkerOn(h, r)
    BY <1>4, <1>8 DEF WorkerOn
  <2>2. artifact'[r] = artifact[r] /\ run'[r] = run[r]
    BY <1>2, <1>5, <1>8
  <2> QED BY <1>2, <1>7, <2>1, <2>2, WorkerElsewhere
<1>9. CASE r = r0
  <2>1. worker'[w] = h /\ \A v \in Workers : v # w => worker'[v] = worker[v]
    BY <1>2, <1>3
  <2>2. ASSUME r \notin met' PROVE Solo(r)'
    <3>1. Solo(r)
      BY <1>2, <1>7, <2>2 DEF TruthOf
    <3>2. WorkerTrue(worker[w], run[r], artifact[r])
      BY <1>6, <1>9, <3>1 DEF Solo
    <3>3. WorkerTrue(worker'[w], run'[r], artifact'[r])
      BY <1>2, <1>4, <1>5, <1>9, <2>1, <3>2 DEF WorkerTrue
    <3>4. /\ \A v \in Workers : v # w => ~ WorkerOn(worker[v], r)
          /\ \A q \in ApiThreads : ~ HandlerOn(api[q], r)
      BY <1>6, <1>9, <3>1 DEF Solo
    <3> QED BY <1>2, <2>1, <3>3, <3>4, WorkerIsSolo
  <2>3. ASSUME r \notin mixed' PROVE run'[r].status = "running"
    BY <1>2, <1>6, <1>7, <1>9, <2>3 DEF TruthOf, Executed
  <2> QED BY <2>2, <2>3 DEF TruthOf, RowTells
<1> QED BY <1>8, <1>9

\* The row an execution writes tells the truth about its result.
LEMMA ResultTells ==
    ASSUME NEW result \in Results, NEW row, NEW dir, Fits(result, dir),
           row.status = RunStatus(result), row.error = RunError(result)
    PROVE  RowTells(row, dir)
BY NullIsNothing DEF RowTells, Fits, RunStatus, RunError, Results, Errors

LEMMA InlineFinishTruth ==
    ASSUME ShapeInv, Truth, NEW q \in ApiThreads, InlineFinish(q)
    PROVE  Truth'
<1> DEFINE r0 == api[q].r
           result == api[q].result
           row == [run[r0] EXCEPT !.status = RunStatus(result), !.error = RunError(result)]
<1>1. /\ api' = [api EXCEPT ![q] = IdleHandler] /\ worker' = worker /\ artifact' = artifact
      /\ run' = [run EXCEPT ![r0] = row] /\ met' = met /\ api[q].pc = "computed"
      /\ mixed' = IF r0 \in met THEN mixed \cup {r0} ELSE mixed \ {r0}
  BY DEF InlineFinish, Wrote
<1>2. r0 \in Runs /\ result \in Results
  BY <1>1, Shapes DEF HandlerKnown
<1>3. run \in [Runs -> Rows] /\ run[r0] \in Rows
  BY <1>2, Shapes
<1>4. row.status = RunStatus(result) /\ row.error = RunError(result)
  BY <1>3 DEF Rows
<1> HIDE DEF row
<1>5. run'[r0] = row /\ \A r \in Runs : r # r0 => run'[r] = run[r] /\ artifact'[r] = artifact[r]
  BY <1>1, <1>2, <1>3
<1>6. HandlerOn(api[q], r0) /\ \A r : ~ HandlerOn(IdleHandler, r)
  BY <1>1, IdleFit DEF HandlerOn
<1>7. ASSUME Solo(r0) PROVE RowTells(run'[r0], artifact'[r0])
  <2>1. HandlerTrue(api[q], run[r0], artifact[r0])
    BY <1>2, <1>6, <1>7 DEF Solo
  <2>2. Fits(result, artifact'[r0])
    BY <1>1, <2>1 DEF HandlerTrue
  <2> QED BY <1>2, <1>4, <1>5, <2>2, ResultTells
<1> HIDE DEF r0, result
<1> QED BY <1>1, <1>2, <1>5, <1>6, <1>7, HandlerSettles

LEMMA WorkerFinishTruth ==
    ASSUME ShapeInv, Truth, NEW w \in Workers, WorkerFinish(w)
    PROVE  Truth'
<1> DEFINE r0 == worker[w].r
           result == worker[w].result
<1>1. PICK e \in Flushed(RunError(result), worker[w].loaded, run[r0].error) :
         run' = [run EXCEPT ![r0] = [@ EXCEPT !.status = RunStatus(result), !.error = e]]
  BY DEF WorkerFinish
<1> DEFINE row == [run[r0] EXCEPT !.status = RunStatus(result), !.error = e]
<1>2. /\ worker' = [worker EXCEPT ![w] = IdleWorker] /\ api' = api /\ artifact' = artifact
      /\ run' = [run EXCEPT ![r0] = row] /\ met' = met /\ worker[w].pc = "computed"
      /\ mixed' = IF r0 \in met THEN mixed \cup {r0} ELSE mixed \ {r0}
  BY <1>1 DEF WorkerFinish, Wrote
<1>3. r0 \in Runs /\ result \in Results
  BY <1>2, Shapes DEF WorkerKnown
<1>4. run \in [Runs -> Rows] /\ run[r0] \in Rows
  BY <1>3, Shapes
<1>5. row.status = RunStatus(result) /\ row.error = e
  BY <1>4 DEF Rows
<1> HIDE DEF row
<1>6. run'[r0] = row /\ \A r \in Runs : r # r0 => run'[r] = run[r] /\ artifact'[r] = artifact[r]
  BY <1>2, <1>3, <1>4
<1>7. WorkerOn(worker[w], r0) /\ \A r : ~ WorkerOn(IdleWorker, r)
  BY <1>2, IdleFit DEF WorkerOn
<1>8. ASSUME Solo(r0) PROVE RowTells(run'[r0], artifact'[r0])
  <2>1. WorkerTrue(worker[w], run[r0], artifact[r0])
    BY <1>3, <1>7, <1>8 DEF Solo
  <2>2. Fits(result, artifact'[r0]) /\ worker[w].loaded = run[r0].error
    BY <1>2, <2>1 DEF WorkerTrue
  <2>3. e = RunError(result)
    BY <1>1, <2>2, FlushedExactly
  <2> QED BY <1>3, <1>5, <1>6, <2>2, <2>3, ResultTells
<1> HIDE DEF r0, result
<1> QED BY <1>2, <1>3, <1>6, <1>7, <1>8, WorkerSettles

LEMMA TruthNext == ShapeInv /\ Truth /\ [RunsNext]_runsVars => Truth'
<1> SUFFICES ASSUME ShapeInv, Truth, [RunsNext]_runsVars PROVE Truth'
  OBVIOUS
<1>1. CASE UNCHANGED <<run, artifact, api, worker, met, mixed>>
  BY <1>1, Leaves DEF Truth
<1>2. CASE UNCHANGED runsVars
  BY <1>1, <1>2 DEF runsVars, store, history
<1>3. ASSUME NEW q \in ApiThreads,
             \/ \E r \in Runs : CreateRun(q, r) \/ RerunRead(q, r)
             \/ RunHandlerStep(q)
             \/ KillHandler(q)
      PROVE  Truth'
  BY <1>3, CreateRunTruth, RerunReadTruth, RerunArmTruth, RerunRejectedTruth, HandlerRestTruth,
     InlineStartTruth, InlineComputeTruth, InlineFinishTruth
     DEF RunHandlerStep
<1>4. ASSUME NEW w \in Workers,
             WorkerStep(w) \/ KillWorker(w) \/ RegistryExpires(w) \/ StartWorker(w)
      PROVE  Truth'
  <2>1. CASE RegistryExpires(w)
    BY <1>1, <2>1 DEF RegistryExpires, store, history
  <2>2. CASE WorkerStep(w) \/ KillWorker(w) \/ StartWorker(w)
    BY <2>2, WorkerStartTruth, WorkerComputeTruth, WorkerFinishTruth, WorkerTurnsTruth
       DEF WorkerStep
  <2> QED BY <1>4, <2>1, <2>2
<1> QED BY <1>2, <1>3, <1>4, CreateBareRunTruth DEF RunsNext

\* A row whose last writer nobody overlapped with tells the truth about the
\* artifacts, although the sessions write only what differs from what they
\* loaded, however long ago that was.
THEOREM RowsTellTheTruth == RunsSpec => []RowMatchesArtifacts
<1>1. Truth => RowMatchesArtifacts
  BY DEF Truth, TruthOf, RowTells, RowMatchesArtifacts
<1>2. RunsSpec => []Truth
  BY ShapeHolds, InitTruth, TruthNext, PTL DEF RunsSpec
<1> QED BY <1>1, <1>2, PTL
================================================================================
