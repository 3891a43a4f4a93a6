----------------------------- MODULE Schedules -----------------------------
(***************************************************************************)
(* Schedules: rows that start a session every interval_seconds until one   *)
(* of three stop conditions holds (max_runs, ends_at, max_cost_usd).       *)
(* fn_run_schedules fires what is due; only fn_pump calls it.  The runtime *)
(* worker's own tick (dispatch_and_claim) calls fn_watchdog and            *)
(* fn_dispatch_tasks itself, not fn_pump, and reports the model calls of   *)
(* the sessions, whose cost fn_complete_outbound books on the schedule.    *)
(***************************************************************************)
EXTENDS Naturals

CONSTANTS
  Ids,         \* the schedules
  NULL,        \* SQL's NULL
  Intervals,   \* values of interval_seconds
  RunLimits,   \* values of max_runs, NULL may be among them
  Ends,        \* values of ends_at
  Budgets,     \* values of max_cost_usd
  Costs,       \* cost_usd of one model call
  MaxTime,     \* bounds: the clock,
  MaxRuns,     \* the runs of a schedule
  MaxSpent     \* and what it spends

ASSUME SchedulesAssumption ==
  /\ NULL \notin Nat
  /\ Intervals \subseteq Nat \ {0}
  /\ RunLimits \subseteq (Nat \ {0}) \cup {NULL}
  /\ Ends \subseteq Nat \cup {NULL}
  /\ Budgets \subseteq (Nat \ {0}) \cup {NULL}
  /\ Costs \subseteq Nat
  /\ {MaxTime, MaxRuns, MaxSpent} \subseteq Nat

VARIABLES
  now,          \* the clock
  schedules,    \* allgres_private.schedules
  agentActive,  \* is the agent of the schedules active?
  swept         \* history: how often fn_run_schedules fired the schedule, when it did
                \* last, and the interval it then had

vars == <<now, schedules, agentActive, swept>>

Row == [exists: BOOLEAN, is_active: BOOLEAN, interval_seconds: Intervals, next_run_at: Nat,
        run_count: Nat, spent_cost_usd: Nat, max_runs: RunLimits, ends_at: Ends, max_cost_usd: Budgets]

\* Mutant: a schedule without a start has no next run.
NewRowUnset(start, every, runs, ends, budget) ==
  [exists |-> TRUE, is_active |-> TRUE, interval_seconds |-> every, next_run_at |-> NULL,
   run_count |-> 0, spent_cost_usd |-> 0, max_runs |-> runs, ends_at |-> ends, max_cost_usd |-> budget]

NewRow(start, every, runs, ends, budget) ==
  [exists |-> TRUE, is_active |-> TRUE, interval_seconds |-> every, next_run_at |-> start,
   run_count |-> 0, spent_cost_usd |-> 0, max_runs |-> runs, ends_at |-> ends, max_cost_usd |-> budget]

\* An id without a row, whatever its columns will be.
NoRow(every, runs, ends, budget) ==
  [NewRow(0, every, runs, ends, budget) EXCEPT !.exists = FALSE, !.is_active = FALSE]

NoRows == {NoRow(n, r, e, b) : n \in Intervals, r \in RunLimits, e \in Ends, b \in Budgets}

NeverSwept == [times |-> 0, at |-> 0, every |-> 0]

Init ==
  /\ now = 0
  /\ schedules \in [Ids -> NoRows]
  /\ agentActive = TRUE
  /\ swept = [i \in Ids |-> NeverSwept]

----------------------------------------------------------------------------
Reached(limit, value) == limit # NULL /\ value >= limit

\* Mutant: the deadline is forgotten.
StopsOnBudget(row, runs) ==
  Reached(row.max_runs, runs) \/ Reached(row.max_cost_usd, row.spent_cost_usd)

\* One of the three stop conditions holds after runs runs.
Stops(row, runs) ==
  \/ Reached(row.max_runs, runs)
  \/ Reached(row.ends_at, now)
  \/ Reached(row.max_cost_usd, row.spent_cost_usd)

Create(i, start, every, runs, ends, budget) ==
  /\ ~schedules[i].exists
  /\ agentActive
  /\ schedules' = [schedules EXCEPT ![i] = NewRow(start, every, runs, ends, budget)]
  /\ swept' = [swept EXCEPT ![i] = NeverSwept]
  /\ UNCHANGED <<now, agentActive>>

\* fn_set_schedule: switched on or off, a new interval and new limits; next_run_at stays.
Set(i, on, every, runs, ends, budget) ==
  /\ schedules[i].exists
  /\ schedules' = [schedules EXCEPT ![i].is_active = on, ![i].interval_seconds = every,
                                    ![i].max_runs = runs, ![i].ends_at = ends,
                                    ![i].max_cost_usd = budget]
  /\ UNCHANGED <<now, agentActive, swept>>

Delete(i) ==
  /\ schedules[i].exists
  /\ schedules' = [schedules EXCEPT ![i].exists = FALSE, ![i].is_active = FALSE]
  /\ UNCHANGED <<now, agentActive, swept>>

\* fn_create_session succeeds, and the row counts the run.
Fired(row) ==
  [row EXCEPT !.run_count = @ + 1, !.is_active = ~Stops(row, row.run_count + 1)]

Due(i) == schedules[i].is_active /\ schedules[i].next_run_at <= now

\* Mutant: the next run is one interval after the one that was due.
NextRunWalks(row) == row.next_run_at + row.interval_seconds

\* Always from now on, however late the run is.
NextRun(row) == now + row.interval_seconds

\* fn_run_schedules, one iteration: stop, push a failed run forward, or fire.
Sweep(i) ==
  LET row == schedules[i]
      stops == Stops(row, row.run_count)
      fires == ~stops /\ agentActive
  IN  /\ Due(i)
      /\ fires => row.run_count < MaxRuns
      /\ schedules' = [schedules EXCEPT ![i] =
           IF stops THEN [row EXCEPT !.is_active = FALSE]
           ELSE [(IF fires THEN Fired(row) ELSE row) EXCEPT !.next_run_at = NextRun(row)]]
      /\ swept' = [swept EXCEPT ![i] =
           IF fires THEN [times |-> @.times + 1, at |-> now, every |-> row.interval_seconds] ELSE @]
      /\ UNCHANGED <<now, agentActive>>

\* fn_pump, called by a session that holds the grant.
Pump == \E i \in Ids : Sweep(i)

\* fn_run_schedule_now leaves next_run_at alone.
RunNow(i) ==
  /\ schedules[i].is_active
  /\ ~Stops(schedules[i], schedules[i].run_count)
  /\ agentActive
  /\ schedules[i].run_count < MaxRuns
  /\ schedules' = [schedules EXCEPT ![i] = Fired(@)]
  /\ UNCHANGED <<now, agentActive, swept>>

\* The worker reports a priced model call of a session this schedule started
\* (fn_complete_outbound): a budget that is used up stops the schedule at once.
WorkerReports(i, cost) ==
  LET spent == schedules[i].spent_cost_usd + cost
  IN  /\ schedules[i].exists
      /\ schedules[i].run_count > 0
      /\ spent <= MaxSpent
      /\ schedules' = [schedules EXCEPT ![i].spent_cost_usd = spent,
           ![i].is_active = @ /\ ~Reached(schedules[i].max_cost_usd, spent)]
      /\ UNCHANGED <<now, agentActive, swept>>

SetAgentActive ==
  /\ agentActive' = ~agentActive
  /\ UNCHANGED <<now, schedules, swept>>

Tick ==
  /\ now < MaxTime
  /\ now' = now + 1
  /\ UNCHANGED <<schedules, agentActive, swept>>

Operator ==
  \E i \in Ids :
    \/ \E n \in Intervals, r \in RunLimits, e \in Ends, b \in Budgets :
         \/ \E start \in {now, now + 1} : Create(i, start, n, r, e, b)
         \/ \E on \in BOOLEAN : Set(i, on, n, r, e, b)
    \/ Delete(i)
    \/ RunNow(i)

Worker == \E i \in Ids, c \in Costs : WorkerReports(i, c)

Next == Operator \/ Worker \/ Pump \/ SetAgentActive \/ Tick

Spec == Init /\ [][Next]_vars

\* Time passes and the runtime worker ticks; no part of the program calls fn_pump.
FairSpec == Spec /\ WF_vars(Tick) /\ WF_vars(Worker)

----------------------------------------------------------------------------
\* Every row of schedules has the type its columns declare.
TypeOK ==
  /\ now \in Nat
  /\ schedules \in [Ids -> Row]
  /\ agentActive \in BOOLEAN
  /\ swept \in [Ids -> [times: Nat, at: Nat, every: Nat]]

\* No run past a limit, from the sweep or from run_now, whatever the operator changes in
\* between: a run starts only while the run budget, the deadline and the cost budget
\* still allow it, and the schedule stays on only if they allow one more
\* (docs/task-orchestration.md: "rather than fired one run past the limit").
NoRunPastLimit ==
  [][\A i \in Ids :
       schedules'[i].run_count > schedules[i].run_count =>
         /\ schedules[i].is_active
         /\ ~Reached(schedules[i].max_runs, schedules[i].run_count)
         /\ ~Reached(schedules[i].ends_at, now)
         /\ ~Reached(schedules[i].max_cost_usd, schedules[i].spent_cost_usd)
         /\ schedules'[i].is_active => ~Reached(schedules[i].max_runs, schedules'[i].run_count)]_vars

\* A schedule that missed several intervals fires once to catch up, not in a burst: after
\* a run the sweep started, the next one it starts comes no earlier than the
\* interval_seconds of that time allow, whatever is edited, paused or run by hand
\* meanwhile (fn_run_schedules: "Always reschedules from *now*").
NoBurst ==
  [][\A i \in Ids :
       swept[i].times > 0 /\ swept'[i].times > swept[i].times =>
         swept'[i].at >= swept[i].at + swept[i].every]_vars

\* A due schedule is fired, pushed forward or stopped (docs/task-orchestration.md: "the
\* next tick just finds the same due row").  The runtime worker's tick never looks for
\* due rows, so it stays due: see DueSchedule.cfg.
DueIsServed ==
  \A i \in Ids : Due(i) ~> ~Due(i)
============================================================================
