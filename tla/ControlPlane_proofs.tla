------------------------ MODULE ControlPlane_proofs -------------------------
(***************************************************************************)
(* Proofs about two smaller parts of the control plane: the properties of  *)
(* Schedules for every set of schedules, every interval and all limits,    *)
(* and that the two blocklists of Blocklist agree on every address.        *)
(***************************************************************************)
EXTENDS Schedules, Blocklist, TLAPS

----------------------------------------------------------------------------
(* Schedules *)

Sweeps == [times : Nat, at : Nat, every : Nat]

\* The sweep that fired a schedule pushed its next run one interval past that time, and no
\* other operation moves it back.
Spaced ==
  \A i \in Ids : swept[i].times > 0 => schedules[i].next_run_at >= swept[i].at + swept[i].every

IInv == TypeOK /\ Spaced

\* A step changes at most one schedule i, whose row becomes row and whose sweeps at.
Changes(i, row, at) ==
  /\ schedules' = [schedules EXCEPT ![i] = row]
  /\ swept' = [swept EXCEPT ![i] = at]
  /\ UNCHANGED <<now, agentActive>>

\* Columns fn_set_schedule, fn_delete_schedule and the booking of a cost leave alone.
SameRun(row, old) ==
  row.run_count = old.run_count /\ row.next_run_at = old.next_run_at

\* A run of the schedule starts now.
Starts(i, row) ==
  /\ agentActive
  /\ schedules[i].is_active
  /\ ~Stops(schedules[i], schedules[i].run_count)
  /\ row.run_count = schedules[i].run_count + 1
  /\ row.is_active = ~Stops(schedules[i], schedules[i].run_count + 1)

SweptNow(i) == [times |-> swept[i].times + 1, at |-> now, every |-> schedules[i].interval_seconds]

\* What may happen to one schedule.
RowStep(i, row, at) ==
  \/ row.run_count = 0 /\ at = NeverSwept
  \/ SameRun(row, schedules[i]) /\ at = swept[i]
  \/ Due(i) /\ row.run_count = schedules[i].run_count /\ row.next_run_at = NextRun(schedules[i])
       /\ at = swept[i]
  \/ Due(i) /\ Starts(i, row) /\ row.next_run_at = NextRun(schedules[i])
       /\ at = SweptNow(i)
  \/ Starts(i, row) /\ row.next_run_at = schedules[i].next_run_at /\ at = swept[i]

----------------------------------------------------------------------------
\* The edits of a row that the operations make keep its type and say what they leave alone:
\* fn_set_schedule,
LEMMA SetRow ==
  ASSUME NEW row \in Row, NEW on \in BOOLEAN, NEW n \in Intervals, NEW r \in RunLimits, NEW e \in Ends,
         NEW b \in Budgets
  PROVE  LET q == [row EXCEPT !.is_active = on, !.interval_seconds = n, !.max_runs = r, !.ends_at = e,
                             !.max_cost_usd = b]
         IN  q \in Row /\ SameRun(q, row)
  BY ZenonT(30) DEF Row, SameRun

\* fn_delete_schedule and a sweep that stops the schedule,
LEMMA OffRow ==
  ASSUME NEW row \in Row
  PROVE  /\ LET q == [row EXCEPT !.exists = FALSE, !.is_active = FALSE]
            IN  q \in Row /\ SameRun(q, row)
         /\ LET q == [row EXCEPT !.is_active = FALSE]
            IN  q \in Row /\ SameRun(q, row)
  BY ZenonT(30) DEF Row, SameRun

\* the booking of a cost,
LEMMA SpentRow ==
  ASSUME NEW row \in Row, NEW on \in BOOLEAN, NEW n \in Nat
  PROVE  LET q == [row EXCEPT !.spent_cost_usd = n, !.is_active = on]
         IN  q \in Row /\ SameRun(q, row)
  BY ZenonT(30) DEF Row, SameRun

\* and the next run.
LEMMA MovedRow ==
  ASSUME NEW row \in Row, NEW n \in Nat
  PROVE  LET q == [row EXCEPT !.next_run_at = n]
         IN  /\ q \in Row /\ q.next_run_at = n
             /\ q.run_count = row.run_count /\ q.is_active = row.is_active
  BY ZenonT(30) DEF Row

\* The columns that are numbers.
LEMMA Columns ==
  ASSUME NEW row \in Row
  PROVE  /\ row.interval_seconds \in Intervals /\ row.next_run_at \in Nat /\ row.run_count \in Nat /\ row.spent_cost_usd \in Nat
         /\ row.exists \in BOOLEAN /\ row.is_active \in BOOLEAN
         /\ row.max_runs \in RunLimits /\ row.ends_at \in Ends /\ row.max_cost_usd \in Budgets
  BY ZenonT(30) DEF Row

\* Every step changes one row, in one of these ways, or the clock, or the agent.
LEMMA Steps ==
  ASSUME TypeOK, [Next]_vars
  PROVE  \/ \E i \in Ids, row \in Row, at \in Sweeps :
              Changes(i, row, at) /\ RowStep(i, row, at)
         \/ now' \in Nat /\ agentActive' \in BOOLEAN /\ UNCHANGED <<schedules, swept>>
<1>0. \A i \in Ids : schedules[i] \in Row /\ swept[i] \in Sweeps
  BY ZenonT(30) DEF TypeOK, Sweeps
<1>n. now \in Nat /\ now + 1 \in Nat
  BY SMTT(30), Z3T(30) DEF TypeOK
<1>i. ASSUME NEW i \in Ids PROVE NextRun(schedules[i]) \in Nat /\ SweptNow(i) \in Sweeps
  <2>1. schedules[i].interval_seconds \in Nat
    BY <1>0, Columns, SchedulesAssumption, ZenonT(30)
  <2>2. swept[i].times + 1 \in Nat
    BY <1>0, SMTT(30), Z3T(30) DEF Sweeps
  <2> QED
    BY <1>n, <2>1, <2>2, SMTT(30), Z3T(30) DEF NextRun, SweptNow, Sweeps
<1>0n. NeverSwept \in Sweeps
  BY SMTT(30), Z3T(30) DEF NeverSwept, Sweeps
<1>s. \A i \in Ids : swept = [swept EXCEPT ![i] = swept[i]]
  BY SMTT(30), Z3T(30) DEF TypeOK
<1>1. ASSUME NEW i \in Ids, NEW start \in {now, now + 1}, NEW n \in Intervals, NEW r \in RunLimits,
             NEW e \in Ends, NEW b \in Budgets, Create(i, start, n, r, e, b)
      PROVE  \E row \in Row, at \in Sweeps : Changes(i, row, at) /\ RowStep(i, row, at)
  <2>1. start \in Nat
    BY <1>n
  <2>2. NewRow(start, n, r, e, b) \in Row /\ NewRow(start, n, r, e, b).run_count = 0
    BY <2>1, SMTT(30), Z3T(30) DEF NewRow, Row
  <2>3. Changes(i, NewRow(start, n, r, e, b), NeverSwept)
    BY <1>1, ZenonT(30) DEF Create, Changes
  <2> QED
    BY <1>0n, <2>2, <2>3, ZenonT(30) DEF RowStep
<1>2. ASSUME NEW i \in Ids, NEW row \in Row, SameRun(row, schedules[i]),
             schedules' = [schedules EXCEPT ![i] = row], UNCHANGED <<now, agentActive, swept>>
      PROVE  \E q \in Row, at \in Sweeps : Changes(i, q, at) /\ RowStep(i, q, at)
  <2>1. Changes(i, row, swept[i])
    BY <1>2, <1>s, ZenonT(30) DEF Changes
  <2> QED
    BY <1>0, <1>2, <2>1, ZenonT(30) DEF RowStep
<1>3. ASSUME NEW i \in Ids, NEW on \in BOOLEAN, NEW n \in Intervals, NEW r \in RunLimits,
             NEW e \in Ends, NEW b \in Budgets, Set(i, on, n, r, e, b)
      PROVE  \E row \in Row, at \in Sweeps : Changes(i, row, at) /\ RowStep(i, row, at)
  <2> DEFINE row == [schedules[i] EXCEPT !.is_active = on, !.interval_seconds = n, !.max_runs = r,
                                         !.ends_at = e, !.max_cost_usd = b]
  <2>1. row \in Row /\ SameRun(row, schedules[i])
    BY <1>0, SetRow, ZenonT(30)
  <2>2. schedules' = [schedules EXCEPT ![i] = row] /\ UNCHANGED <<now, agentActive, swept>>
    BY <1>3, ZenonT(30) DEF Set, TypeOK
  <2> QED
    BY <1>2, <2>1, <2>2, ZenonT(30)
<1>4. ASSUME NEW i \in Ids, Delete(i)
      PROVE  \E row \in Row, at \in Sweeps : Changes(i, row, at) /\ RowStep(i, row, at)
  <2> DEFINE row == [schedules[i] EXCEPT !.exists = FALSE, !.is_active = FALSE]
  <2>1. row \in Row /\ SameRun(row, schedules[i])
    BY <1>0, OffRow, ZenonT(30)
  <2>2. schedules' = [schedules EXCEPT ![i] = row] /\ UNCHANGED <<now, agentActive, swept>>
    BY <1>4, ZenonT(30) DEF Delete, TypeOK
  <2> QED
    BY <1>2, <2>1, <2>2, ZenonT(30)
<1>f. ASSUME NEW i \in Ids
      PROVE  LET row == Fired(schedules[i])
             IN  /\ row \in Row /\ row.next_run_at = schedules[i].next_run_at
                 /\ row.run_count = schedules[i].run_count + 1
                 /\ row.is_active = ~Stops(schedules[i], schedules[i].run_count + 1)
  <2> DEFINE old == schedules[i]
             n == old.run_count + 1
             on == ~Stops(old, n)
  <2>0. old \in Row
    BY <1>0
  <2>1. n \in Nat /\ on \in BOOLEAN
    BY <1>0, Columns, SMTT(30), Z3T(30)
  <2>2. Fired(old) = [old EXCEPT !.run_count = n, !.is_active = on]
    BY ZenonT(30) DEF Fired
  <2> HIDE DEF old, n, on
  <2>3. LET q == [old EXCEPT !.run_count = n, !.is_active = on]
        IN  /\ q \in Row /\ q.next_run_at = old.next_run_at
            /\ q.run_count = n /\ q.is_active = on
    BY <2>0, <2>1, ZenonT(30) DEF Row
  <2> QED
    BY <2>2, <2>3 DEF old, n, on
<1>5. ASSUME NEW i \in Ids, RunNow(i)
      PROVE  \E row \in Row, at \in Sweeps : Changes(i, row, at) /\ RowStep(i, row, at)
  <2>1. Changes(i, Fired(schedules[i]), swept[i]) /\ Starts(i, Fired(schedules[i]))
    BY <1>5, <1>s, <1>f, ZenonT(30) DEF RunNow, Changes, Starts
  <2> QED
    BY <1>0, <1>f, <2>1, ZenonT(30) DEF RowStep
<1>6. ASSUME NEW i \in Ids, NEW c \in Costs, WorkerReports(i, c)
      PROVE  \E row \in Row, at \in Sweeps : Changes(i, row, at) /\ RowStep(i, row, at)
  <2> DEFINE spent == schedules[i].spent_cost_usd + c
             on == schedules[i].is_active /\ ~Reached(schedules[i].max_cost_usd, spent)
             row == [schedules[i] EXCEPT !.spent_cost_usd = spent, !.is_active = on]
  <2>1. spent \in Nat /\ on \in BOOLEAN
    BY <1>0, Columns, SchedulesAssumption, SMTT(30), Z3T(30)
  <2>2. UNCHANGED <<now, agentActive, swept>>
    BY <1>6, ZenonT(30) DEF WorkerReports
  <2>3. schedules' = [schedules EXCEPT ![i] = row]
    BY <1>6, ZenonT(30) DEF WorkerReports, TypeOK
  <2> HIDE DEF spent, on
  <2>4. row \in Row /\ SameRun(row, schedules[i])
    BY <1>0, <2>1, SpentRow, ZenonT(30)
  <2> QED
    BY <1>2, <2>2, <2>3, <2>4, ZenonT(30)
<1>w. ASSUME NEW i \in Ids, Sweep(i)
      PROVE  \E row \in Row, at \in Sweeps : Changes(i, row, at) /\ RowStep(i, row, at)
  <2> DEFINE old == schedules[i]
             stops == Stops(old, old.run_count)
  <2>1. Due(i) /\ old \in Row /\ UNCHANGED <<now, agentActive>>
    BY <1>w, <1>0, ZenonT(30) DEF Sweep
  <2>2. CASE stops
    <3> DEFINE row == [old EXCEPT !.is_active = FALSE]
    <3>1. row \in Row /\ SameRun(row, old)
      BY <2>1, OffRow, ZenonT(30)
    <3>2. schedules' = [schedules EXCEPT ![i] = row] /\ swept' = [swept EXCEPT ![i] = swept[i]]
      BY <1>w, <2>2, ZenonT(30) DEF Sweep
    <3> QED
      BY <1>0, <2>1, <3>1, <3>2, ZenonT(30) DEF Changes, RowStep
  <2>3. CASE ~stops /\ ~agentActive
    <3> DEFINE row == [old EXCEPT !.next_run_at = NextRun(old)]
    <3>1. row \in Row /\ row.run_count = old.run_count /\ row.next_run_at = NextRun(old)
      BY <1>i, <2>1, MovedRow, ZenonT(30)
    <3>2. Changes(i, row, swept[i])
      BY <1>w, <2>1, <2>3, ZenonT(30) DEF Sweep, Changes
    <3> QED
      BY <1>0, <2>1, <3>1, <3>2, ZenonT(30) DEF RowStep
  <2>4. CASE ~stops /\ agentActive
    <3> DEFINE row == [Fired(old) EXCEPT !.next_run_at = NextRun(old)]
    <3>1. /\ row \in Row /\ row.run_count = old.run_count + 1 /\ row.next_run_at = NextRun(old)
          /\ row.is_active = ~Stops(old, old.run_count + 1)
      BY <1>i, <1>f, <2>1, MovedRow, ZenonT(30)
    <3>2. Changes(i, row, SweptNow(i))
      BY <1>w, <2>1, <2>4, ZenonT(30) DEF Sweep, Changes, SweptNow
    <3>3. Starts(i, row)
      BY <2>1, <2>4, <3>1, ZenonT(30) DEF Starts, Due
    <3> QED
      BY <1>i, <2>1, <3>1, <3>2, <3>3, ZenonT(30) DEF RowStep
  <2> QED
    BY <2>2, <2>3, <2>4, ZenonT(30)
<1>7. ASSUME SetAgentActive \/ Tick \/ UNCHANGED vars
      PROVE  now' \in Nat /\ agentActive' \in BOOLEAN /\ UNCHANGED <<schedules, swept>>
  BY <1>7, <1>n, ZenonT(30) DEF SetAgentActive, Tick, vars, TypeOK
<1>8. CASE Operator
  <2>1. PICK i \in Ids :
          \/ \E n \in Intervals, r \in RunLimits, e \in Ends, b \in Budgets :
               \/ \E start \in {now, now + 1} : Create(i, start, n, r, e, b)
               \/ \E on \in BOOLEAN : Set(i, on, n, r, e, b)
          \/ Delete(i)
          \/ RunNow(i)
    BY <1>8, ZenonT(30) DEF Operator
  <2> QED
    BY <1>1, <1>3, <1>4, <1>5, <2>1, ZenonT(30)
<1>9. CASE Worker
  BY <1>6, <1>9, ZenonT(30) DEF Worker
<1>10. CASE Pump
  BY <1>w, <1>10, ZenonT(30) DEF Pump
<1> QED
  BY <1>7, <1>8, <1>9, <1>10, ZenonT(30) DEF Next

\* A sweep that fires comes no earlier than the one before allows, and pushes the next run
\* forward by the interval; every other step leaves the next run where it is or later.
LEMMA Pushed ==
  ASSUME TypeOK, Spaced, NEW i \in Ids, NEW row \in Row, NEW at \in Sweeps, RowStep(i, row, at)
  PROVE  /\ at.times > 0 => row.next_run_at >= at.at + at.every
         /\ swept[i].times > 0 /\ at.times > swept[i].times => at.at >= swept[i].at + swept[i].every
<1> DEFINE s == swept[i]
           next == schedules[i].next_run_at
           every == schedules[i].interval_seconds
<1>1. /\ now \in Nat /\ next \in Nat /\ every \in Nat
      /\ s \in Sweeps /\ s.times \in Nat /\ s.at \in Nat /\ s.every \in Nat
      /\ s.times > 0 => next >= s.at + s.every
  <2>1. now \in Nat /\ schedules[i] \in Row /\ s \in Sweeps
    BY ZenonT(30) DEF TypeOK, Sweeps
  <2>2. next \in Nat /\ every \in Nat
    BY <2>1, Columns, SchedulesAssumption, ZenonT(30)
  <2>3. s.times \in Nat /\ s.at \in Nat /\ s.every \in Nat
    BY <2>1, SMTT(30), Z3T(30) DEF Sweeps
  <2>4. s.times > 0 => next >= s.at + s.every
    BY DEF Spaced
  <2> QED
    BY <2>1, <2>2, <2>3, <2>4
<1>2. CASE at = NeverSwept
  BY <1>1, <1>2, SMTT(30), Z3T(30) DEF NeverSwept
<1>3. CASE at = s /\ row.next_run_at = next
  BY <1>1, <1>3, SMTT(30), Z3T(30)
<1>4. CASE Due(i) /\ row.next_run_at = now + every /\ at = s
  BY <1>1, <1>4, SMTT(30), Z3T(30) DEF Due
<1>5. CASE Due(i) /\ row.next_run_at = now + every /\ at = SweptNow(i)
  <2>1. at.times = s.times + 1 /\ at.at = now /\ at.every = every
    BY <1>5 DEF SweptNow
  <2> QED
    BY <1>1, <1>5, <2>1, SMTT(30), Z3T(30) DEF Due
<1>6. NextRun(schedules[i]) = now + every
  BY DEF NextRun
<1>7. \/ at = NeverSwept
      \/ at = s /\ row.next_run_at = next
      \/ Due(i) /\ row.next_run_at = now + every /\ at = s
      \/ Due(i) /\ row.next_run_at = now + every /\ at = SweptNow(i)
  BY <1>6, ZenonT(30) DEF RowStep, SameRun
<1> QED
  BY <1>2, <1>3, <1>4, <1>5, <1>7

\* IInv holds initially and every step keeps it.
LEMMA Invariance == Spec => []IInv
<1> USE SchedulesAssumption
<1>1. Init => IInv
  <2> SUFFICES ASSUME Init PROVE IInv
    OBVIOUS
  <2>1. schedules \in [Ids -> NoRows]
    BY ZenonT(30) DEF Init
  <2>2. \A n \in Intervals, r \in RunLimits, e \in Ends, b \in Budgets : NoRow(n, r, e, b) \in Row
    <3> SUFFICES ASSUME NEW n \in Intervals, NEW r \in RunLimits, NEW e \in Ends, NEW b \in Budgets
                 PROVE  NoRow(n, r, e, b) \in Row
      OBVIOUS
    <3>1. NewRow(0, n, r, e, b) \in Row
      BY SMTT(30), Z3T(30) DEF NewRow, Row
    <3> QED
      BY <3>1, OffRow, ZenonT(30) DEF NoRow
  <2>3. NoRows \subseteq Row
    BY <2>2, SMTT(30), Z3T(30) DEF NoRows
  <2>6. schedules \in [Ids -> Row]
    BY <2>1, <2>3, ZenonT(30)
  <2>4. now = 0 /\ agentActive = TRUE /\ swept = [i \in Ids |-> NeverSwept]
    BY ZenonT(30) DEF Init
  <2>5. swept \in [Ids -> [times : Nat, at : Nat, every : Nat]] /\ \A i \in Ids : swept[i].times = 0
    BY <2>4, SMTT(30), Z3T(30) DEF NeverSwept
  <2> QED
    BY <2>4, <2>5, <2>6, SMTT(30), Z3T(30) DEF IInv, TypeOK, Spaced
<1>2. IInv /\ [Next]_vars => IInv'
  <2> SUFFICES ASSUME IInv, [Next]_vars PROVE IInv'
    OBVIOUS
  <2>1. TypeOK /\ Spaced
    BY DEF IInv
  <2>2. ASSUME NEW i \in Ids, NEW row \in Row, NEW at \in Sweeps,
               Changes(i, row, at), RowStep(i, row, at)
        PROVE  IInv'
    <3>1. TypeOK'
      BY <2>1, <2>2, SMTT(30), Z3T(30) DEF TypeOK, Changes, Sweeps
    <3>2. \A j \in Ids : j # i => schedules'[j] = schedules[j] /\ swept'[j] = swept[j]
      BY <2>1, <2>2, SMTT(30), Z3T(30) DEF TypeOK, Changes
    <3>3. schedules'[i] = row /\ swept'[i] = at
      BY <2>1, <2>2, SMTT(30), Z3T(30) DEF TypeOK, Changes
    <3>4. at.times > 0 => row.next_run_at >= at.at + at.every
      BY <2>1, <2>2, Pushed
    <3>6. Spaced'
      BY <2>1, <3>2, <3>3, <3>4, ZenonT(30) DEF Spaced
    <3> QED
      BY <3>1, <3>6 DEF IInv
  <2>3. CASE now' \in Nat /\ agentActive' \in BOOLEAN /\ UNCHANGED <<schedules, swept>>
    BY <2>1, <2>3, ZenonT(30) DEF IInv, TypeOK, Spaced
  <2> QED
    BY <2>1, <2>2, <2>3, Steps, ZenonT(30)
<1> QED
  BY <1>1, <1>2, PTL DEF Spec

\* The rows keep the types of their columns, whatever the limits are.
THEOREM ScheduleTypes == Spec => []TypeOK
<1>1. IInv => TypeOK
  BY DEF IInv
<1> QED
  BY <1>1, Invariance, PTL

\* For all intervals, however they are edited, and however late, lost or repeated the calls
\* of fn_pump are: after a run that the sweep started, it starts the next no earlier than
\* the interval_seconds of that time allow.
THEOREM SweepsAreSpaced == Spec => NoBurst
<1> USE SchedulesAssumption
<1> DEFINE A == \A i \in Ids :
                  swept[i].times > 0 /\ swept'[i].times > swept[i].times =>
                    swept'[i].at >= swept[i].at + swept[i].every
<1>1. IInv /\ [Next]_vars => A
  <2> SUFFICES ASSUME IInv, [Next]_vars PROVE A
    OBVIOUS
  <2>1. TypeOK /\ Spaced
    BY DEF IInv
  <2>0. \A j \in Ids : ~(swept[j].times > swept[j].times)
    BY <2>1, SMTT(30), Z3T(30) DEF TypeOK
  <2>2. ASSUME NEW i \in Ids, NEW row \in Row, NEW at \in Sweeps,
               Changes(i, row, at), RowStep(i, row, at)
        PROVE  A
    <3>1. \A j \in Ids : swept'[j] = IF j = i THEN at ELSE swept[j]
      BY <2>1, <2>2, SMTT(30), Z3T(30) DEF TypeOK, Changes
    <3>2. swept[i].times > 0 /\ at.times > swept[i].times => at.at >= swept[i].at + swept[i].every
      BY <2>1, <2>2, Pushed
    <3> QED
      BY <2>0, <3>1, <3>2, ZenonT(30)
  <2>3. CASE UNCHANGED <<schedules, swept>>
    BY <2>0, <2>3, ZenonT(30)
  <2> QED
    BY <2>1, <2>2, <2>3, Steps, ZenonT(30)
<1>2. IInv /\ [Next]_vars => [A]_vars
  BY <1>1
<1>3. Spec => [][A]_vars
  BY <1>2, Invariance, PTL DEF Spec
<1> QED
  BY <1>3 DEF NoBurst

\* For all limits, and whatever an operator changes between two runs: neither the sweep nor
\* fn_run_schedule_now starts a run past max_runs, ends_at or max_cost_usd, and the schedule
\* stays on after a run only if max_runs allows another.
THEOREM RunsStayWithinLimits == Spec => NoRunPastLimit
<1> USE SchedulesAssumption
<1> DEFINE A == \A i \in Ids :
       schedules'[i].run_count > schedules[i].run_count =>
         /\ schedules[i].is_active
         /\ ~Reached(schedules[i].max_runs, schedules[i].run_count)
         /\ ~Reached(schedules[i].ends_at, now)
         /\ ~Reached(schedules[i].max_cost_usd, schedules[i].spent_cost_usd)
         /\ schedules'[i].is_active => ~Reached(schedules[i].max_runs, schedules'[i].run_count)
<1>1. IInv /\ [Next]_vars => A
  <2> SUFFICES ASSUME IInv, [Next]_vars PROVE A
    OBVIOUS
  <2>1. TypeOK
    BY DEF IInv
  <2>0. \A j \in Ids : schedules[j].run_count \in Nat
    BY <2>1, SMTT(30), Z3T(30) DEF TypeOK, Row
  <2>2. ASSUME NEW i \in Ids, NEW row \in Row, NEW at \in Sweeps,
               Changes(i, row, at), RowStep(i, row, at)
        PROVE  A
    <3>1. \A j \in Ids : schedules'[j] = IF j = i THEN row ELSE schedules[j]
      BY <2>1, <2>2, SMTT(30), Z3T(30) DEF TypeOK, Changes
    <3>2. row.run_count > schedules[i].run_count => Starts(i, row)
      BY <2>0, <2>2, SMTT(30), Z3T(30) DEF RowStep, SameRun
    <3>3. \A j \in Ids : ~(schedules[j].run_count > schedules[j].run_count)
      BY <2>0, SMTT(30), Z3T(30)
    <3> QED
      BY <3>1, <3>2, <3>3, ZenonT(30) DEF Starts, Stops
  <2>3. CASE UNCHANGED <<schedules, swept>>
    BY <2>0, <2>3, SMTT(30), Z3T(30)
  <2> QED
    BY <2>1, <2>2, <2>3, Steps, ZenonT(30)
<1>2. IInv /\ [Next]_vars => [A]_vars
  BY <1>1
<1>3. Spec => [][A]_vars
  BY <1>2, Invariance, PTL DEF Spec
<1> QED
  BY <1>3 DEF NoRunPastLimit

----------------------------------------------------------------------------
(* Blocklists *)

\* The patterns of the first octet, and of the second and third, as numbers.
LEMMA OctetPatterns ==
  ASSUME NEW n \in Octet
  PROVE  LET d == Decimal(n)
         IN /\ Matches1(d, {0}) <=> n = 0
            /\ Matches1(d, {0, 2}) <=> n \in {0, 2}
            /\ Matches2(d, {1}, {0}) <=> n = 10
            /\ Matches3(d, {1}, {2}, {7}) <=> n = 127
            /\ Matches3(d, {1}, {6}, {9}) <=> n = 169
            /\ Matches3(d, {2}, {5}, {4}) <=> n = 254
            /\ Matches3(d, {1}, {7}, {2}) <=> n = 172
            /\ Matches2(d, {1}, 6..9) \/ Matches2(d, {2}, 0..9) \/ Matches2(d, {3}, 0..1) <=> n \in 16..31
            /\ Matches3(d, {1}, {9}, {2}) <=> n = 192
            /\ Matches3(d, {1}, {6}, {8}) <=> n = 168
            /\ Matches3(d, {1}, {9}, {8}) <=> n = 198
            /\ Matches2(d, {1}, {8, 9}) <=> n \in {18, 19}
            /\ Matches3(d, {1}, {0}, {0}) <=> n = 100
            /\ \/ Matches2(d, {6}, 4..9) \/ Matches2(d, 7..9, 0..9)
               \/ Matches3(d, {1}, 0..1, 0..9) \/ Matches3(d, {1}, {2}, 0..7)
               <=> n \in 64..127
            /\ Matches3(d, {2}, {2}, 4..9) \/ Matches3(d, {2}, 3..5, 0..9) <=> n >= 224
<1>1. CASE n < 10
  BY <1>1, SMTT(30), Z3T(30) DEF Decimal, Matches1, Matches2, Matches3, Octet
<1>2. CASE n >= 10 /\ n < 100
  BY <1>2, SMTT(30), Z3T(30) DEF Decimal, Matches1, Matches2, Matches3, Octet
<1>3. CASE n >= 100
  BY <1>3, SMTT(30), Z3T(30) DEF Decimal, Matches1, Matches2, Matches3, Octet
<1> QED BY <1>1, <1>2, <1>3, SMTT(30), Z3T(30) DEF Octet

\* is_blocked_ipv4 blocks the addresses whose notation is_blocked_host blocks, and
\* no others: the ranges in src/outbound.rs and the expressions in the SQL agree.
THEOREM BlocklistsAgree ==
  ASSUME NEW o \in Ipv4
  PROVE  is_blocked_ipv4(o) <=> is_blocked_host(o)
<1>1. o[1] \in Octet /\ o[2] \in Octet /\ o[3] \in Octet
  BY SMTT(30), Z3T(30) DEF Ipv4
<1>2. o = [i \in 1..4 |-> 255] => o[1] >= 224
  BY SMTT(30), Z3T(30)
<1> QED BY <1>1, <1>2, OctetPatterns, SMTT(30), Z3T(30) DEF is_blocked_ipv4, is_blocked_host

\* The masks of is_blocked_ip and the expressions of is_blocked_host block the same
\* first groups of an IPv6 address (fc00::/7 and fe80::/10).
THEOREM GroupsAgree ==
  ASSUME NEW first \in Segment
  PROVE  is_blocked_segment(first) <=> blocks_group(first)
<1>1. first \in Int /\ first >= 0 /\ first < 65536
  BY SMTT(30), Z3T(30) DEF Segment
<1> DEFINE a == first \div 512
           b == first \div 64
           p == first \div 4096
           e == first \div 256
           q == e % 16
           g == first \div 16
           r == g % 16
<1>2. /\ a \in Int /\ 512 * a <= first /\ first < 512 * a + 512
      /\ b \in Int /\ 64 * b <= first /\ first < 64 * b + 64
  BY <1>1, SMTT(30), Z3T(30)
<1>3. /\ p \in Int /\ 4096 * p <= first /\ first < 4096 * p + 4096
      /\ e \in Int /\ 256 * e <= first /\ first < 256 * e + 256
      /\ g \in Int /\ 16 * g <= first /\ first < 16 * g + 16
  BY <1>1, SMTT(30), Z3T(30)
<1>4. q \in 0..15 /\ \E k \in Int : e = 16 * k + q
  BY <1>3, SMTT(30), Z3T(30)
<1>5. r \in 0..15 /\ \E k \in Int : g = 16 * k + r
  BY <1>3, SMTT(30), Z3T(30)
<1>6. Hex4(first)[1] = p /\ Hex4(first)[2] = q /\ Hex4(first)[3] = r
  BY SMTT(30), Z3T(30) DEF Hex4
<1>7. is_blocked_segment(first) <=> a = 126 \/ b = 1018
  BY SMTT(30), Z3T(30) DEF is_blocked_segment
<1>8. blocks_group(first) <=> p = 15 /\ (q \in {12, 13} \/ (q = 14 /\ r \in 8..11))
  BY <1>6, SMTT(30), Z3T(30) DEF blocks_group
<1> HIDE DEF a, b, p, e, q, g, r
<1>9. PICK k \in Int : e = 16 * k + q
  BY <1>4, SMTT(30), Z3T(30)
<1>10. PICK l \in Int : g = 16 * l + r
  BY <1>5, SMTT(30), Z3T(30)
<1>11. k = p /\ l = e
  BY <1>1, <1>3, <1>4, <1>5, <1>9, <1>10, SMTT(30), Z3T(30)
<1>12. a = 126 <=> p = 15 /\ q \in {12, 13}
  BY <1>1, <1>2, <1>3, <1>4, <1>9, <1>11, SMTT(30), Z3T(30)
<1>13. b = 1018 <=> p = 15 /\ q = 14 /\ r \in 8..11
  BY <1>1, <1>2, <1>3, <1>4, <1>5, <1>9, <1>10, <1>11, SMTT(30), Z3T(30)
<1> QED BY <1>7, <1>8, <1>12, <1>13, SMTT(30), Z3T(30)

=============================================================================
