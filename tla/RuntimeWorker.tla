--------------------------- MODULE RuntimeWorker ---------------------------
(***************************************************************************)
(* The SPI thread of the runtime worker: the loop of allgres_runtime_main  *)
(* with its HTTP pool, and the local executions it runs itself (sandboxed  *)
(* SQL, builds and calls of Functions and Procedures), together with the   *)
(* operators' sessions, crashes and restarts.                              *)
(*                                                                         *)
(* One transaction is one action, but for a build and a local execution,   *)
(* which take a step for each statement.  `view` is what the worker's      *)
(* session finds when it begins a transaction, `db` what is committed;     *)
(* they differ only while a transaction the worker could not end is open.  *)
(* Tasks, approvals and the contents of calls are the subject of           *)
(* TaskLifecycle; here a row is its status.                                *)
(***************************************************************************)
EXTENDS HttpPool

CONSTANTS
  Rows,      \* the rows of the call queues and the routines to build
  Queue,     \* the queue of each row
  Callee,    \* the routine a function or procedure call calls
  Stages,    \* the queues in the order the loop serves them
  Mixes,     \* bounds: the rows that may exist together,
  MaxBody,   \* how often a routine is edited
  Faults,    \* what may go wrong
  MaxFaults  \* and how often

HttpQueues == {"outbound", "oauth", "embedding", "probe"}
BuildQueues == {"function_build", "procedure_build"}
RoutineQueues == {"function_call", "procedure_call"}

Of(Q) == {r \in Rows : Queue[r] \in Q}
Builds == Of(BuildQueues)
CallRows == Rows \ Builds

\* The worker dies; drop_privileges fails in a transaction of its own, or
\* within a local execution; threads of the pool cannot be spawned.
AllFaults == {"crash", "role", "role_in_run", "spawn"}

ASSUME WorkerAssumption ==
  /\ Queue \in [Rows -> HttpQueues \cup {"sql"} \cup BuildQueues \cup RoutineQueues]
  /\ Calls = Of(HttpQueues)
  /\ Callee \in [Of(RoutineQueues) -> Builds]
  /\ IsFiniteSet(DOMAIN Stages) /\ 1 \in DOMAIN Stages
  /\ DOMAIN Stages = 1..Cardinality(DOMAIN Stages)
  /\ \A i \in DOMAIN Stages : (Stages[i] = "outbound") = (i = 1)
  /\ Faults \subseteq AllFaults
  /\ Mixes \subseteq SUBSET Rows
  /\ {MaxBody, MaxFaults} \subseteq Nat

VARIABLES
  db,         \* the committed rows
  view,       \* the rows as the worker's session sees them
  open,       \* has a local execution left its transaction open?
  ended,      \* the function and procedure calls whose task was cancelled
  installed,  \* is the extension installed?
  pc,         \* where the loop is
  stage,      \* the queue it serves, an index of Stages
  job,        \* the local execution under way
  in_flight,  \* the loop's count of the calls it gave to the pool
  timer,      \* is STATEMENT_TIMEOUT armed?
  interrupt,  \* has a cancel or a timeout arrived that no statement has seen?
  faults      \* the faults so far

spi == <<pc, stage, job, in_flight>>
signals == <<timer, interrupt>>
tables == <<db, view, open>>
env == <<ended, installed>>
vars == <<poolVars, effects, spi, signals, tables, env, faults>>

capacity == HTTP_THREADS * 2

\* A routine as the author wrote it (body), and the Postgres object built for
\* it: the body it was made from, and is the guard wrapped around it?
NoObject == [of |-> 0, guarded |-> FALSE]

\* The row that is executed; of a build also the body that was claimed and the
\* object as it stands in its open transaction; did it succeed?
NoJob == [row |-> "none", body |-> 0, made |-> NoObject, ok |-> FALSE]

\* Where an ERROR meets run_in_subtransaction.
Executing == {"run", "wrap", "rewrap", "body"}

----------------------------------------------------------------------------
(* Transactions of the worker *)

\* A transaction of the worker leaves v, committed unless one is still open.
Commit(v) ==
  /\ view' = v
  /\ db' = IF open THEN db ELSE v
  /\ UNCHANGED open

Set(v, S, s) == [v EXCEPT !.status = [r \in Rows |-> IF r \in S THEN s ELSE @[r]]]

\* drop_privileges fails: the transaction does nothing.
DropFails(f) == f \in Faults /\ faults < MaxFaults /\ faults' = faults + 1
DropHolds == UNCHANGED faults

\* The worker acts only when no interrupt is pending: the first check for
\* interrupts turns that into an ERROR.
Ready(p) == pc = p /\ ~interrupt

NextStage ==
  IF stage = Cardinality(DOMAIN Stages) THEN pc' = "harvest" /\ stage' = 1
  ELSE pc' = "pump" /\ stage' = stage + 1

\* Mutant: no fence.
SettledUnfenced(v, r, s) == Set(v, {r}, s)

\* fn_complete_*: a row takes a result only while it is still in flight (building).
Settled(v, r, s) == IF v.status[r] = "in_flight" THEN Set(v, {r}, s) ELSE v

----------------------------------------------------------------------------
(* The loop: harvest, cancellations, pump *)

\* A result leaves the channel and is submitted.
SubmitResult(c) ==
  /\ Ready("harvest")
  /\ place[c] \in Results
  /\ place' = [place EXCEPT ![c] = "none"]
  /\ in_flight' = IF in_flight = 0 THEN 0 ELSE in_flight - 1
  /\ \/ DropHolds /\ Commit(Settled(view, c, "done"))
     \/ DropFails("role") /\ UNCHANGED tables
  /\ UNCHANGED <<flags, threads, effects, pc, stage, job, signals, env>>

\* Mutants: every call that runs is flagged; no call is.
propagate_to_all == flags' = flags \cup Running /\ DropHolds
propagate_to_none == UNCHANGED <<flags, faults>>

\* Flag the outbound calls that were given up while a thread runs them.  A
\* call that ends between the query and the store only removes its own entry,
\* so the two are one step.
propagate_outbound_cancellations ==
  \/ /\ DropHolds
     /\ flags' = flags \cup {c \in Running : Queue[c] = "outbound" /\ view.status[c] = "lost"}
  \/ DropFails("role") /\ Running # {} /\ UNCHANGED flags

\* The channel of results is empty.  The pump runs when it is due (next_pump),
\* and serves the queues only once the extension is installed.
Tick(due) ==
  /\ Ready("harvest")
  /\ \A c \in Calls : place[c] \notin Results
  /\ propagate_outbound_cancellations
  /\ pc' = IF due /\ installed THEN "pump" ELSE "harvest"
  /\ UNCHANGED <<place, threads, effects, stage, job, in_flight, signals, tables, env>>

\* fn_watchdog gives up calls that are too long in flight and puts builds
\* back; which ones are is left to chance.
fn_watchdog(v) ==
  {Set(Set(v, L \ Builds, "lost"), L \cap Builds, "queued") :
     L \in SUBSET {r \in Rows : v.status[r] = "in_flight"}}

\* Mutant: a call counts before it is sent.
SendCountsFirst(C) ==
  /\ place' = [c \in Calls |-> IF c \in C /\ threads > 0 THEN "job" ELSE place[c]]
  /\ in_flight' = in_flight + Cardinality(C)

\* Hand the claimed calls to the pool.  With no thread the send fails, and the
\* rows stay claimed.
Send(C) ==
  /\ place' = [c \in Calls |-> IF c \in C /\ threads > 0 THEN "job" ELSE place[c]]
  /\ in_flight' = IF threads > 0 THEN in_flight + Cardinality(C) ELSE in_flight

\* Claim as many rows of the queue as there is room for, and send them.
ClaimHttp ==
  /\ Ready("pump")
  /\ Stages[stage] \in HttpQueues
  /\ IF in_flight >= capacity THEN UNCHANGED <<tables, place, in_flight, faults>>
     ELSE \/ /\ DropHolds
             /\ \E v \in IF stage = 1 THEN fn_watchdog(view) ELSE {view} :
                LET Q == {c \in Calls : Queue[c] = Stages[stage] /\ v.status[c] = "queued"}
                IN \E C \in SUBSET Q :
                     /\ Cardinality(C) <= capacity - in_flight
                     /\ C # Q => Cardinality(C) = capacity - in_flight
                     /\ Commit(Set(v, C, "in_flight"))
                     /\ Send(C)
          \/ DropFails("role") /\ UNCHANGED <<tables, place, in_flight>>
  /\ NextStage
  /\ UNCHANGED <<flags, threads, effects, job, signals, env>>

----------------------------------------------------------------------------
(* Local executions: pump_sql, pump_function_builds, pump_function_calls and  *)
(* their procedure twins claim one row, run it and submit its result.         *)

IsRoutineCall(r) == Queue[r] \in RoutineQueues
Built(v, r) == v.status[Callee[r]] = "done"

Claimable == {r \in Rows : Queue[r] = Stages[stage] /\ view.status[r] = "queued" /\ r \notin ended}

\* A call of a routine that is not built is given up by guard_queued_call.
ClaimLocal ==
  /\ Ready("pump")
  /\ Stages[stage] \notin HttpQueues
  /\ \/ DropFails("role") /\ UNCHANGED <<tables, job>> /\ NextStage
     \/ DropHolds /\ Claimable = {} /\ UNCHANGED <<tables, job>> /\ NextStage
     \/ /\ DropHolds
        /\ \E r \in Claimable :
             IF IsRoutineCall(r) /\ ~Built(view, r)
             THEN Commit(Set(view, {r}, "lost")) /\ UNCHANGED job /\ NextStage
             ELSE /\ Commit(Set(view, {r}, "in_flight"))
                  /\ job' = [row |-> r, body |-> IF r \in Builds THEN view.body[r] ELSE 0,
                             made |-> NoObject, ok |-> FALSE]
                  /\ pc' = "run"
                  /\ UNCHANGED stage
  /\ UNCHANGED <<poolVars, effects, in_flight, signals, env>>

Returns(ok) ==
  /\ pc' = "submit"
  /\ job' = [job EXCEPT !.ok = ok]
  /\ UNCHANGED stage

\* drop_privileges fails within the execution.  run_in_subtransaction rolls
\* back only what was raised and releases only what succeeded: an Err that is
\* returned leaves the subtransaction open.
RoleUnavailable == DropFails("role_in_run") /\ open' = TRUE /\ Returns(FALSE) /\ UNCHANGED <<db, view>>

\* run_guarded_build: one transaction, a subtransaction in it, and the first attempt
\* to wrap in one of its own.  Nobody else sees what it makes before it commits.
Creates(b) ==
  /\ Ready("run")
  /\ job.row = b
  /\ \/ RoleUnavailable
     \/ DropHolds /\ Returns(FALSE) /\ UNCHANGED tables
     \/ /\ DropHolds
        /\ job' = [job EXCEPT !.made = [of |-> job.body, guarded |-> FALSE]]
        /\ pc' = "wrap"
        /\ UNCHANGED <<stage, tables>>
  /\ UNCHANGED <<poolVars, effects, in_flight, signals, env>>

\* The transaction ends with object o in place.
EndBuild(b, o, ok) == Commit([view EXCEPT !.object[b] = o]) /\ Returns(ok)

\* The guard is wrapped around the body, as it is or with a semicolon.
Wraps(b) ==
  /\ Ready("wrap") \/ Ready("rewrap")
  /\ job.row = b
  /\ EndBuild(b, [of |-> job.made.of, guarded |-> TRUE], TRUE)
  /\ UNCHANGED <<poolVars, effects, in_flight, signals, env, faults>>

\* Mutant: the outer subtransaction is released whatever the result.
RolledBackInner(b) == job.made

\* What the outer subtransaction leaves when it is rolled back.
RolledBack(b) == view.object[b]

\* A CREATE raises, or is interrupted: the first time only its own subtransaction
\* is rolled back, and the semicolon tried; the second time the outer one is.
WrapFails(b) ==
  /\ job.row = b
  /\ \/ pc = "wrap" /\ pc' = "rewrap" /\ UNCHANGED <<stage, job, tables>>
     \/ pc = "rewrap" /\ EndBuild(b, RolledBack(b), FALSE)
  /\ interrupt' = FALSE
  /\ UNCHANGED <<poolVars, effects, in_flight, timer, env, faults>>

\* begin_local_execution refuses a call that is no longer wanted.  The timer
\* is armed by hand: nothing else does it outside a client's backend.
BeginCall ==
  /\ Ready("run")
  /\ job.row \notin Builds
  /\ \/ RoleUnavailable /\ UNCHANGED timer
     \/ /\ DropHolds
        /\ IF IsRoutineCall(job.row) /\ (view.status[job.row] # "in_flight" \/ job.row \in ended)
           THEN Returns(FALSE) /\ UNCHANGED timer
           ELSE pc' = "body" /\ timer' = TRUE /\ UNCHANGED <<stage, job>>
        /\ UNCHANGED tables
  /\ UNCHANGED <<poolVars, effects, in_flight, interrupt, env>>

\* Mutant: the guard does not ask.
AssertsNothing(r) == view.object[Callee[r]] # NoObject

\* assert_local_execution, in the guard: is the routine built, even now?
Asserts(r) ==
  /\ view.object[Callee[r]] # NoObject
  /\ view.object[Callee[r]].guarded => Built(view, r)

\* The statement ends by itself: fn_run_sandboxed_sql catches the errors of the
\* statement it runs, and a routine runs unless its guard raises.
Finish ==
  /\ Ready("body")
  /\ IsRoutineCall(job.row) => Asserts(job.row)
  /\ \E ok \in BOOLEAN : (IsRoutineCall(job.row) => ok) /\ Returns(ok)
  /\ timer' = FALSE
  /\ effects' = [effects EXCEPT ![job.row] = @ + 1]
  /\ UNCHANGED <<poolVars, in_flight, interrupt, tables, env, faults>>

\* An ERROR unwinds past disable_timeout to run_in_subtransaction.
Raise ==
  /\ \/ interrupt /\ pc \in {"run", "body"}
     \/ ~interrupt /\ pc = "body" /\ IsRoutineCall(job.row)
  /\ interrupt' = FALSE
  /\ Returns(FALSE)
  /\ UNCHANGED <<poolVars, effects, in_flight, timer, tables, env, faults>>

\* The result of the local execution is submitted.
Submit ==
  /\ Ready("submit")
  /\ \/ /\ DropHolds
        /\ Commit(Settled(view, job.row,
                          IF job.row \in Builds /\ ~job.ok THEN "failed" ELSE "done"))
     \/ DropFails("role") /\ UNCHANGED tables
  /\ job' = NoJob
  /\ NextStage
  /\ UNCHANGED <<poolVars, effects, in_flight, signals, env>>

----------------------------------------------------------------------------
(* Interrupts, crashes and restarts *)

\* The statement timer fires, whatever the worker does by then.
TimerFires ==
  /\ timer
  /\ timer' = FALSE
  /\ interrupt' = TRUE
  /\ UNCHANGED <<poolVars, effects, spi, tables, env, faults>>

\* The postmaster starts the worker again (set_restart_time).
Restart ==
  /\ place' = [c \in Calls |-> "none"]
  /\ flags' = {}
  /\ threads' \in IF "spawn" \in Faults THEN 0..HTTP_THREADS ELSE {HTTP_THREADS}
  /\ pc' = "harvest" /\ stage' = 1 /\ job' = NoJob /\ in_flight' = 0
  /\ timer' = FALSE /\ interrupt' = FALSE
  /\ view' = db /\ open' = FALSE
  /\ UNCHANGED <<effects, db, env>>

\* An interrupt outside a local execution is an ERROR nothing catches.
Die == interrupt /\ pc \notin Executing /\ Restart /\ UNCHANGED faults

Crash == "crash" \in Faults /\ faults < MaxFaults /\ faults' = faults + 1 /\ Restart

----------------------------------------------------------------------------
(* Operators, and the dispatcher that queues calls *)

Room(r) == \E mix \in Mixes : {x \in Rows : db.status[x] # "absent"} \cup {r} \subseteq mix

\* A row the worker holds uncommitted changes to is locked.
Unlocked(r) == db.status[r] = view.status[r]

Write(r, s) ==
  /\ Unlocked(r)
  /\ db' = [db EXCEPT !.status[r] = s]
  /\ view' = [view EXCEPT !.status[r] = s]
  /\ UNCHANGED open

Install ==
  /\ ~installed
  /\ installed' = TRUE
  /\ UNCHANGED <<poolVars, effects, spi, signals, tables, ended, faults>>

\* A call is queued; one of a routine only while that is built.
Enqueue(r) ==
  /\ installed
  /\ db.status[r] = "absent"
  /\ Room(r)
  /\ IsRoutineCall(r) => Built(db, r)
  /\ Write(r, "queued")
  /\ UNCHANGED <<poolVars, effects, spi, signals, env, faults>>

\* fn_create_function, fn_update_function, fn_set_procedure: a new body, to build.
Edit(b) ==
  /\ installed
  /\ Room(b)
  /\ db.body[b] < MaxBody
  /\ Unlocked(b)
  /\ db' = [db EXCEPT !.body[b] = @ + 1, !.status[b] = "queued"]
  /\ view' = [view EXCEPT !.body[b] = @ + 1, !.status[b] = "queued"]
  /\ UNCHANGED <<poolVars, effects, spi, signals, open, env, faults>>

\* fn_cancel_session: outbound and SQL calls are given up, a SQL call in flight
\* is cancelled with pg_cancel_backend; of other calls only the task ends.  And
\* fn_oauth_device_start gives up the exchange that another one supersedes.
Cancel(r) ==
  /\ db.status[r] \in {"queued", "in_flight"}
  /\ \/ /\ Queue[r] \in {"outbound", "oauth", "sql"}
        /\ Write(r, "lost")
        /\ interrupt' = (interrupt \/ (Queue[r] = "sql" /\ db.status[r] = "in_flight"))
        /\ UNCHANGED ended
     \/ /\ IsRoutineCall(r)
        /\ r \notin ended
        /\ ended' = ended \cup {r}
        /\ UNCHANGED <<tables, interrupt>>
  /\ UNCHANGED <<poolVars, effects, spi, timer, installed, faults>>

----------------------------------------------------------------------------
Init ==
  /\ PoolInit
  /\ effects = [r \in CallRows |-> 0]
  /\ db = [status |-> [r \in Rows |-> "absent"],
           body |-> [b \in Builds |-> 0],
           object |-> [b \in Builds |-> NoObject]]
  /\ view = db
  /\ open = FALSE
  /\ ended = {}
  /\ installed = FALSE
  /\ pc = "harvest" /\ stage = 1 /\ job = NoJob /\ in_flight = 0
  /\ timer = FALSE /\ interrupt = FALSE
  /\ faults = 0

Pool(c) == PoolStep(c) /\ UNCHANGED <<spi, signals, tables, env, faults>>

Spi ==
  \/ \E c \in Calls : SubmitResult(c)
  \/ Tick(FALSE) \/ Tick(TRUE)
  \/ ClaimHttp \/ ClaimLocal
  \/ \E b \in Builds : Creates(b) \/ Wraps(b) \/ WrapFails(b)
  \/ BeginCall \/ Finish \/ Raise \/ Submit
  \/ Die

Operators ==
  \/ Install
  \/ \E r \in CallRows : Enqueue(r) \/ Cancel(r)
  \/ \E b \in Builds : Edit(b)

Next == Spi \/ (\E c \in Calls : Pool(c)) \/ TimerFires \/ Crash \/ Operators

Spec == Init /\ [][Next]_vars

\* A thread that polls sees its flag.
Stop(c) == c \in flags /\ Fail(c) /\ UNCHANGED <<spi, signals, tables, env, faults>>

\* The loop runs on (some step of it is always possible), and a thread polls
\* its flag.  Nothing is assumed of the peers.
Fairness == []<><<Spi>>_vars /\ \A c \in Of({"outbound"}) : WF_vars(Stop(c))

FairSpec == Spec /\ Fairness

----------------------------------------------------------------------------
TypeOK ==
  /\ place \in [Calls -> Places]
  /\ flags \subseteq Running
  /\ threads \in 0..HTTP_THREADS
  /\ effects \in [CallRows -> Nat]
  /\ \A t \in {db, view} :
       /\ t.status \in [Rows -> {"absent", "queued", "in_flight", "done", "lost", "failed"}]
       /\ t.body \in [Builds -> 0..MaxBody]
       /\ t.object \in [Builds -> [of : 0..MaxBody, guarded : BOOLEAN]]
  /\ {open, installed, timer, interrupt} \subseteq BOOLEAN
  /\ ended \subseteq CallRows
  /\ pc \in Executing \cup {"harvest", "pump", "submit"}
  /\ stage \in DOMAIN Stages
  /\ in_flight \in 0..capacity
  /\ faults \in 0..MaxFaults

\* The loop's count of calls is exact: it is what the pool holds, so the room
\* it claims for (capacity) is never overrun and never shrinks.
InFlightExact == in_flight = Cardinality(InPool) /\ in_flight <= capacity

\* A cancellation flag is set only for a call that was given up: no thread is
\* stopped on behalf of another call.
FlaggedIsLost == \A c \in flags : view.status[c] = "lost"

\* Status -1 means the call's request was not sent: whatever reports "unsent"
\* may be tried again without doing anything twice.
UnsentIsUnsent == \A c \in Calls : place[c] = "unsent" => effects[c] = 0

\* A routine counts as built only when its object is the guarded build of the
\* body that stands in its row, however edits, builds, crashes and the
\* watchdog interleave.
BuiltIsCurrent ==
  \A b \in Builds : db.status[b] = "done" =>
                      db.object[b] = [of |-> db.body[b], guarded |-> TRUE]

\* An object without the guard is never committed, whichever CREATE of a build
\* fails or is interrupted, and wherever the worker ends.
AlwaysGuarded == \A b \in Builds : db.object[b] # NoObject => db.object[b].guarded

\* A call of a routine acts only as the guarded build of the body that stands in
\* its row, though the row may have been edited since the call was claimed.
RunsAsBuilt ==
  [][\A r \in Of(RoutineQueues) : effects'[r] # effects[r] =>
       view.object[Callee[r]] = [of |-> view.body[Callee[r]], guarded |-> TRUE]]_vars

\* The worker implements a queue of calls that are claimed once and act at
\* most once.
Promise == INSTANCE CallQueue WITH
  Rows <- CallRows, status <- [r \in CallRows |-> db.status[r]], effects <- effects

ImplementsCallQueue == Promise!Spec

\* A request that is given up while a thread runs it is stopped, even if the
\* peer never answers.
CancelStops ==
  \A c \in Of({"outbound"}) :
    c \in Running /\ view.status[c] = "lost" ~> c \notin Running

\* A cancel or a timeout meant for a local execution reaches that execution
\* and nothing else: outside one it would end the worker.
NoStrayInterrupt == interrupt => pc \in Executing

=============================================================================
