----------------------- MODULE TaskLifecycle_proofs ------------------------
(* Proofs about TaskLifecycle, for every value of its constants. *)
EXTENDS TaskLifecycle, TLAPS

\* The tables tasks and sessions have their types, and a row in use refers to rows in use.
TasksTyped(ts, ss) ==
  /\ ts \in [TaskIds -> TaskRow]
  /\ ss \in [SessionIds -> SessionRow]
  /\ \A t \in TaskIds : ts[t].status # "none" =>
       /\ ts[t].agent \in Agents
       /\ ts[t].session \in SessionIds
       /\ ss[ts[t].session].status # "none"
  /\ \A s \in SessionIds : ss[s].status # "none" => ss[s].agent \in Agents

CallsTyped(ts, cs) ==
  /\ cs \in [CallIds -> CallRow]
  /\ \A c \in CallIds : cs[c].status # "none" =>
       cs[c].task \in TaskIds /\ ts[cs[c].task].status # "none"

ApprovalsTyped(ts, ps) ==
  /\ ps \in [ApprovalIds -> ApprovalRow]
  /\ \A p \in ApprovalIds : ps[p].status # "none" =>
       ps[p].task \in TaskIds /\ ts[ps[p].task].status # "none"

ConfigTyped ==
  /\ active \in [Agents -> BOOLEAN]
  /\ provider \in BOOLEAN
  /\ permitted \in [Agents -> BOOLEAN]
  /\ rule \in [Agents -> {"allow", "approve", "deny"}]
  /\ cap \in [Agents -> Caps]
  /\ gen \in [Agents -> Nat]

\* The inductive form of TypeOK: a claim reads the generation of its agent's rules, so a
\* call in use must have a task in use, and that task an agent.
TypeInv ==
  /\ TasksTyped(tasks, sessions)
  /\ CallsTyped(tasks, calls)
  /\ ApprovalsTyped(tasks, approvals)
  /\ jobs \subseteq {c \in CallIds : calls[c].status # "none"}
  /\ ConfigTyped

----------------------------------------------------------------------------
(* Rows *)

Statuses == {"none"} \cup Open \cup Terminal

\* A row that differs from row in at most status, step, errs, started and answer.
SameOwner(r, row) ==
  /\ r \in TaskRow /\ r.agent = row.agent /\ r.session = row.session
  /\ r.parent = row.parent /\ r.depth = row.depth

\* What the operators on rows make of a row: the owner is kept, and the status is known.
LEMMA RowMoves ==
  ASSUME NEW row \in TaskRow
  PROVE  /\ SameOwner(Step(row), row) /\ Step(row).status = row.status
         /\ SameOwner(Reject(row), row) /\ Reject(row).status = row.status
         /\ SameOwner(Fail(row), row) /\ Fail(row).status = "failed"
         /\ SameOwner(Discard(row), row) /\ Discard(row).status = "failed"
  <1> DEFINE n == row.step + 1
             m == row.errs + 1
  <1>1. n \in Nat /\ m \in Nat
    BY DEF TaskRow
  <1>2. "failed" \in Statuses
    BY DEF Statuses, Terminal
  <1>3. /\ Step(row) = [row EXCEPT !.step = n]
        /\ Reject(row) = [row EXCEPT !.step = n, !.errs = m]
        /\ Fail(row) = [row EXCEPT !.status = "failed"]
        /\ Discard(row) = [row EXCEPT !.status = "failed", !.errs = m]
    BY DEF Step, Reject, Fail, Discard
  <1> HIDE DEF n, m
  <1>4. SameOwner(Step(row), row) /\ Step(row).status = row.status
    BY <1>1, <1>3 DEF SameOwner, TaskRow, Statuses
  <1>5. SameOwner(Reject(row), row) /\ Reject(row).status = row.status
    <2>1. Reject(row) \in TaskRow
      BY <1>1, <1>3, ZenonT(30) DEF TaskRow
    <2>2. /\ Reject(row).agent = row.agent /\ Reject(row).session = row.session
          /\ Reject(row).parent = row.parent /\ Reject(row).depth = row.depth
          /\ Reject(row).status = row.status
      BY <1>3 DEF TaskRow
    <2> QED
      BY <2>1, <2>2, ZenonT(30) DEF SameOwner
  <1>6. SameOwner(Fail(row), row) /\ Fail(row).status = "failed"
    BY <1>2, <1>3 DEF SameOwner, TaskRow, Statuses
  <1>7. SameOwner(Discard(row), row) /\ Discard(row).status = "failed"
    BY <1>1, <1>2, <1>3, ZenonT(30) DEF SameOwner, TaskRow, Statuses
  <1> QED
    BY <1>4, <1>5, <1>6, <1>7, ZenonT(30)

\* fn_submit_result keeps the owner of a task, and its status unless it fails it.
LEMMA SubmitMoves ==
  ASSUME NEW row \in TaskRow
  PROVE  /\ SameOwner(SubmitError(row), row)
         /\ SubmitError(row).status \in {row.status, "failed"}
         /\ SameOwner(SubmitResult(row), row)
         /\ SubmitResult(row).status \in {row.status, "failed"}
  <1>1. Reject(row) \in TaskRow
    BY RowMoves DEF SameOwner
  <1>2. SameOwner(Fail(Reject(row)), row) /\ Fail(Reject(row)).status = "failed"
    BY <1>1, RowMoves DEF SameOwner
  <1> QED
    BY <1>2, RowMoves DEF SubmitError, SubmitResult

\* The other changes of a row that the actions write out.
To(row, st) == [row EXCEPT !.status = st]
StepTo(row, st) == [Step(row) EXCEPT !.status = st]
Answered(row) == [Step(row) EXCEPT !.status = "completed", !.answer = TRUE]
StartedRow(row) == [row EXCEPT !.status = "running", !.started = TRUE]
Paused(row) == [row EXCEPT !.status = "waiting_human", !.errs = @ + 1]

\* A row that only changes its status, step, errors and flags keeps its owner.
LEMMA StatusMoves ==
  ASSUME NEW row \in TaskRow
  PROVE  /\ \A st \in Statuses : SameOwner(To(row, st), row) /\ To(row, st).status = st
         /\ \A st \in Statuses : SameOwner(StepTo(row, st), row) /\ StepTo(row, st).status = st
         /\ SameOwner(Answered(row), row) /\ Answered(row).status = "completed"
         /\ SameOwner(StartedRow(row), row) /\ StartedRow(row).status = "running"
         /\ SameOwner(Paused(row), row) /\ Paused(row).status = "waiting_human"
  <1> DEFINE r == Step(row)
             n == row.errs + 1
  <1>1. SameOwner(r, row)
    BY RowMoves
  <1>2. n \in Nat
    BY DEF TaskRow
  <1> HIDE DEF r
  <1>3. /\ \A st \in Statuses : SameOwner(To(row, st), row) /\ To(row, st).status = st
        /\ SameOwner(StartedRow(row), row) /\ StartedRow(row).status = "running"
    BY ZenonT(30) DEF To, StartedRow, SameOwner, TaskRow, Statuses, Open, Holding
  <1>4. ASSUME NEW st \in Statuses
        PROVE  /\ SameOwner([r EXCEPT !.status = st], row)
               /\ [r EXCEPT !.status = st].status = st
    BY <1>1 DEF SameOwner, TaskRow, Statuses
  <1>5. /\ SameOwner([r EXCEPT !.status = "completed", !.answer = TRUE], row)
        /\ [r EXCEPT !.status = "completed", !.answer = TRUE].status = "completed"
    BY <1>1, ZenonT(30) DEF SameOwner, TaskRow, Terminal
  <1>6. /\ SameOwner([row EXCEPT !.status = "waiting_human", !.errs = n], row)
        /\ [row EXCEPT !.status = "waiting_human", !.errs = n].status = "waiting_human"
    <2> HIDE DEF n
    <2> QED
      BY <1>2, ZenonT(30) DEF SameOwner, TaskRow, Open, Holding
  <1> QED
    BY <1>3, <1>4, <1>5, <1>6 DEF r, StepTo, Answered, Paused

----------------------------------------------------------------------------
(* maybe_complete_session *)

\* Sessions stay in use and keep their agent.
SessionsStay(ss, tt) ==
  \A s \in SessionIds :
    tt[s].agent = ss[s].agent /\ (tt[s].status = "none" <=> ss[s].status = "none")

\* A session rewritten for the same agent stays typed and in use.
LEMMA SessionUpdate ==
  ASSUME NEW ss \in [SessionIds -> SessionRow], NEW s \in SessionIds, ss[s].status # "none",
         NEW q \in SessionRow, q.agent = ss[s].agent, q.status # "none"
  PROVE  /\ [ss EXCEPT ![s] = q] \in [SessionIds -> SessionRow]
         /\ SessionsStay(ss, [ss EXCEPT ![s] = q])
  BY DEF SessionsStay

\* maybe_complete_session keeps sessions typed and none disappears.
LEMMA MaybeCompleteStays ==
  ASSUME NEW ts, NEW ss \in [SessionIds -> SessionRow], NEW s \in SessionIds
  PROVE  /\ MaybeComplete(ts, ss, s) \in [SessionIds -> SessionRow]
         /\ SessionsStay(ss, MaybeComplete(ts, ss, s))
  <1>1. RootAnswer(ts, s) # {} => (CHOOSE t \in RootAnswer(ts, s) : TRUE) \in Nat
    <2>1. RootAnswer(ts, s) \subseteq Nat
      BY ConstantsAssumption DEF RootAnswer, CompletedRoots, TaskIds
    <2> QED
      BY <2>1
  <1> DEFINE a == IF RootAnswer(ts, s) = {} THEN ss[s].answer
                  ELSE CHOOSE t \in RootAnswer(ts, s) : TRUE
             q == [ss[s] EXCEPT !.status = "failed"]
             r == [ss[s] EXCEPT !.status = "completed", !.answer = a]
  <1>2. a \in Nat
    BY <1>1 DEF SessionRow
  <1>3. \/ MaybeComplete(ts, ss, s) = ss
        \/ /\ ss[s].status = "open"
           /\ MaybeComplete(ts, ss, s) \in {[ss EXCEPT ![s] = q], [ss EXCEPT ![s] = r]}
    BY ZenonT(30) DEF MaybeComplete
  <1> HIDE DEF a
  <1>4. /\ q \in SessionRow /\ q.agent = ss[s].agent /\ q.status # "none"
        /\ r \in SessionRow /\ r.agent = ss[s].agent /\ r.status # "none"
    BY <1>2, ZenonT(30) DEF SessionRow
  <1> HIDE DEF q, r
  <1>5. CASE MaybeComplete(ts, ss, s) = ss
    BY <1>5 DEF SessionsStay
  <1>6. CASE /\ ss[s].status = "open"
             /\ MaybeComplete(ts, ss, s) \in {[ss EXCEPT ![s] = q], [ss EXCEPT ![s] = r]}
    BY <1>4, <1>6, SessionUpdate
  <1> QED
    BY <1>3, <1>5, <1>6

----------------------------------------------------------------------------
(* Tasks and sessions: what a step may write *)

\* No task row goes out of use.
TasksStay(ts, us) == \A t \in TaskIds : ts[t].status # "none" => us[t].status # "none"

\* One task is rewritten.
LEMMA TaskChanges ==
  ASSUME NEW ts, NEW ss, NEW zz, TasksTyped(ts, ss),
         NEW t \in TaskIds, ts[t].status # "none",
         NEW r, SameOwner(r, ts[t]), r.status # "none",
         zz \in [SessionIds -> SessionRow], SessionsStay(ss, zz)
  PROVE  /\ TasksTyped([ts EXCEPT ![t] = r], zz)
         /\ TasksStay(ts, [ts EXCEPT ![t] = r])
  BY DEF TasksTyped, TasksStay, SessionsStay, SameOwner

\* A task is added to a session in use.
LEMMA TaskAdded ==
  ASSUME NEW ts, NEW ss, TasksTyped(ts, ss),
         NEW n \in TaskIds, ts[n].status = "none",
         NEW a \in Agents, NEW s \in SessionIds, NEW p \in Nat, NEW d \in Nat,
         ss[s].status # "none"
  PROVE  /\ TasksTyped([ts EXCEPT ![n] = NewTask(a, s, p, d)], ss)
         /\ TasksStay(ts, [ts EXCEPT ![n] = NewTask(a, s, p, d)])
  <1> DEFINE r == NewTask(a, s, p, d)
  <1>1. r \in TaskRow /\ r.agent = a /\ r.session = s /\ r.status = "queued"
    BY ConstantsAssumption DEF NewTask, TaskRow, SessionIds, Open
  <1> HIDE DEF r
  <1>2. TasksTyped([ts EXCEPT ![n] = r], ss) /\ TasksStay(ts, [ts EXCEPT ![n] = r])
    BY <1>1 DEF TasksTyped, TasksStay
  <1> QED
    BY <1>2, ZenonT(30) DEF r

\* Settling a task keeps tasks and sessions typed.
LEMMA SettleChanges ==
  ASSUME TasksTyped(tasks, sessions),
         NEW t \in TaskIds, tasks[t].status # "none",
         NEW r, SameOwner(r, tasks[t]), r.status # "none",
         Settle(t, r)
  PROVE  TasksTyped(tasks', sessions') /\ TasksStay(tasks, tasks')
  <1>1. r.session \in SessionIds
    BY DEF TasksTyped, SameOwner
  <1>2. /\ sessions' \in [SessionIds -> SessionRow]
        /\ SessionsStay(sessions, sessions')
    BY <1>1, MaybeCompleteStays, ZenonT(30) DEF Settle, TasksTyped
  <1> QED
    BY <1>2, TaskChanges, ZenonT(30) DEF Settle

\* One task is rewritten and the sessions are left alone.
LEMMA TaskMoves ==
  ASSUME TasksTyped(tasks, sessions),
         NEW t \in TaskIds, tasks[t].status # "none",
         NEW r, SameOwner(r, tasks[t]), r.status # "none",
         tasks' = [tasks EXCEPT ![t] = r],
         sessions' = sessions
  PROVE  TasksTyped(tasks', sessions') /\ TasksStay(tasks, tasks')
  <1>1. sessions' \in [SessionIds -> SessionRow] /\ SessionsStay(sessions, sessions')
    BY DEF TasksTyped, SessionsStay
  <1> QED
    BY <1>1, TaskChanges, ZenonT(30)

----------------------------------------------------------------------------
(* Calls and approvals *)

\* A call that is settled stays typed.
LEMMA CallChanges ==
  ASSUME NEW ts, NEW us, TasksStay(ts, us), NEW cs, CallsTyped(ts, cs),
         NEW c \in CallIds, NEW st \in {"harvested", "lost"}, cs[c].status # "none"
  PROVE  CallsTyped(us, [cs EXCEPT ![c].status = st])
  BY DEF CallsTyped, CallRow, TasksStay

\* A queued call of a task in use is typed.
LEMMA CallAdded ==
  ASSUME NEW ts, NEW cs, CallsTyped(ts, cs),
         NEW n \in CallIds, NEW t \in TaskIds, ts[t].status # "none", NEW k \in Kinds
  PROVE  CallsTyped(ts, [cs EXCEPT ![n] = NewCall(t, k)])
  BY ConstantsAssumption DEF CallsTyped, CallRow, NewCall, Live, TaskIds

\* Calls stay typed when tasks are only added or rewritten.
LEMMA CallsStay ==
  ASSUME NEW ts, NEW us, TasksStay(ts, us), NEW cs, CallsTyped(ts, cs)
  PROVE  CallsTyped(us, cs)
  BY DEF CallsTyped, TasksStay

\* A pending approval of a task in use is typed.
LEMMA ApprovalAdded ==
  ASSUME NEW ts, NEW ps, ApprovalsTyped(ts, ps),
         NEW n \in ApprovalIds, NEW t \in TaskIds, ts[t].status # "none",
         NEW c \in Nat, NEW why \in {"human", "ambiguous", "guard"}, NEW g \in Nat
  PROVE  ApprovalsTyped(ts, [ps EXCEPT ![n] = NewApproval(t, c, why, g)])
  BY ConstantsAssumption DEF ApprovalsTyped, ApprovalRow, NewApproval, TaskIds

\* Approvals stay typed when tasks are only added or rewritten.
LEMMA ApprovalsStay ==
  ASSUME NEW ts, NEW us, TasksStay(ts, us), NEW ps, ApprovalsTyped(ts, ps)
  PROVE  ApprovalsTyped(us, ps)
  BY DEF ApprovalsTyped, TasksStay

----------------------------------------------------------------------------
(* The type invariant *)

\* A call that is claimable, held or in flight belongs to a task in use.
LEMMA CallOfTask ==
  ASSUME TypeInv, NEW c \in CallIds, calls[c].status # "none"
  PROVE  /\ calls[c].task \in TaskIds
         /\ tasks[calls[c].task].status # "none"
         /\ tasks[calls[c].task] \in TaskRow
         /\ AgentOf(c) \in Agents
  BY ZenonT(30) DEF TypeInv, TasksTyped, CallsTyped, AgentOf

\* A result that is delivered reaches a task in use.
LEMMA DeliveredTask ==
  ASSUME TypeInv, NEW c \in CallIds, Delivers(c)
  PROVE  /\ calls[c].task \in TaskIds
         /\ tasks[calls[c].task].status = "running"
         /\ tasks[calls[c].task] \in TaskRow
         /\ AgentOf(c) \in Agents
  BY CallOfTask, ZenonT(30) DEF Delivers, Holds

\* Completing a call writes tasks that are typed.
LEMMA CompleteTasks ==
  ASSUME TypeInv, NEW c \in CallIds, Complete(c)
  PROVE  TasksTyped(tasks', sessions') /\ TasksStay(tasks, tasks')
  <1> DEFINE t == calls[c].task
             row == tasks[t]
  <1>0. TasksTyped(tasks, sessions)
    BY ZenonT(30) DEF TypeInv
  <1>a. Delivers(c) => t \in TaskIds /\ row.status = "running" /\ row \in TaskRow
    BY DeliveredTask, ZenonT(30)
  <1> HIDE DEF t, row
  <1>1. CASE CompleteStale(c) \/ CompleteSkipped(c)
    BY <1>0, <1>1, ZenonT(30) DEF CompleteStale, CompleteSkipped, TasksStay
  <1>2. CASE ToolResult(c)
    <2>1. SameOwner(SubmitResult(row), row) /\ SubmitResult(row).status # "none"
      BY <1>2, <1>a, SubmitMoves, ZenonT(30) DEF ToolResult
    <2> QED
      BY <1>0, <1>2, <1>a, <2>1, SettleChanges, ZenonT(30) DEF ToolResult, t, row
  <1>3. CASE CallError(c)
    <2>1. SameOwner(SubmitError(row), row) /\ SubmitError(row).status # "none"
      BY <1>3, <1>a, SubmitMoves, ZenonT(30) DEF CallError
    <2> QED
      BY <1>0, <1>3, <1>a, <2>1, SettleChanges, ZenonT(30) DEF CallError, t, row
  <1>4. CASE AmbiguousResult(c)
    <2> DEFINE r == Paused(row)
    <2>1. SameOwner(r, row) /\ r.status # "none"
      BY <1>4, <1>a, StatusMoves DEF AmbiguousResult
    <2>2. tasks' = [tasks EXCEPT ![t] = r]
      BY <1>4, ZenonT(30) DEF AmbiguousResult, Pause, Paused, t, row
    <2> HIDE DEF r
    <2> QED
      BY <1>0, <1>4, <1>a, <2>1, <2>2, TaskMoves, ZenonT(30) DEF AmbiguousResult, Pause, row
  <1>5. CASE FinalAnswer(c)
    <2> DEFINE s == row.session
               q == [sessions[s] EXCEPT !.answer = t]
               r == Answered(row)
               ss == [sessions EXCEPT ![s] = q]
    <2>0. Delivers(c)
      BY <1>5 DEF FinalAnswer, Says, Answers
    <2>1. SameOwner(r, row) /\ r.status # "none"
      BY <2>0, <1>a, StatusMoves, ZenonT(30)
    <2>2. s \in SessionIds /\ sessions[s] \in SessionRow /\ sessions[s].status # "none"
      BY <2>0, <1>0, <1>a, ZenonT(30) DEF TasksTyped, row
    <2>3. q \in SessionRow /\ q.agent = sessions[s].agent /\ q.status # "none"
      BY <2>0, <1>a, <2>2, ConstantsAssumption DEF SessionRow, TaskIds
    <2>4. /\ tasks' = [tasks EXCEPT ![t] = r]
          /\ sessions' = MaybeComplete(tasks', ss, s)
      BY <1>5, ZenonT(30) DEF FinalAnswer, Answered, t, row
    <2> HIDE DEF q, r, s
    <2>5. ss \in [SessionIds -> SessionRow] /\ SessionsStay(sessions, ss)
      BY <1>0, <2>2, <2>3, SessionUpdate, ZenonT(30) DEF TasksTyped
    <2> HIDE DEF ss
    <2>6. sessions' \in [SessionIds -> SessionRow] /\ SessionsStay(ss, sessions')
      BY <2>2, <2>4, <2>5, MaybeCompleteStays, ZenonT(30)
    <2>7. SessionsStay(sessions, sessions')
      BY <2>5, <2>6 DEF SessionsStay
    <2> QED
      BY <1>0, <2>0, <1>a, <2>1, <2>4, <2>6, <2>7, TaskChanges, ZenonT(30) DEF row
  <1>6. CASE Note(c)
    <2>1. SameOwner(Step(row), row) /\ Step(row).status # "none"
      BY <1>6, <1>a, RowMoves DEF Note, Says, Answers
    <2> QED
      BY <1>0, <1>6, <1>a, <2>1, TaskMoves, ZenonT(30) DEF Note, Says, Answers, t, row
  <1>7. CASE ReplyRejected(c) \/ \E b \in Agents : DelegateRefused(c, b)
    <2>1. SameOwner(Reject(row), row) /\ Reject(row).status # "none"
      BY <1>7, <1>a, RowMoves, ZenonT(30) DEF ReplyRejected, DelegateRefused, Says, Answers
    <2> QED
      BY <1>0, <1>7, <1>a, <2>1, TaskMoves
         DEF ReplyRejected, DelegateRefused, Says, Answers, t, row
  <1>8. CASE ReplyRaises(c)
    BY <1>0, <1>8, ZenonT(30) DEF ReplyRaises, TasksStay
  <1>9. CASE ReplyDiscarded(c)
    <2>1. SameOwner(Discard(row), row) /\ Discard(row).status # "none"
      BY <1>9, <1>a, RowMoves, ZenonT(30) DEF ReplyDiscarded, Answers
    <2> QED
      BY <1>0, <1>9, <1>a, <2>1, SettleChanges, ZenonT(30) DEF ReplyDiscarded, Answers, t, row
  <1>10. CASE AwaitHuman(c)
    <2> DEFINE r == StepTo(row, "waiting_human")
    <2>1. SameOwner(r, row) /\ r.status # "none"
      BY <1>10, <1>a, StatusMoves DEF AwaitHuman, Says, Answers, Statuses, Open, Holding
    <2>2. tasks' = [tasks EXCEPT ![t] = r]
      BY <1>10 DEF AwaitHuman, StepTo, t, row
    <2> HIDE DEF r
    <2> QED
      BY <1>0, <1>10, <1>a, <2>1, <2>2, TaskMoves, ZenonT(30) DEF AwaitHuman, Says, Answers, row
  <1>11. CASE AwaitChildren(c)
    <2> DEFINE q == StepTo(row, "waiting_children")
               r == IF Unfinished(t) = {} THEN Reject(row) ELSE q
    <2>1. /\ SameOwner(q, row) /\ q.status # "none"
          /\ SameOwner(Reject(row), row) /\ Reject(row).status # "none"
      BY <1>11, <1>a, StatusMoves, RowMoves
         DEF AwaitChildren, Says, Answers, Statuses, Open, Holding
    <2>2. tasks' = [tasks EXCEPT ![t] = r]
      BY <1>11 DEF AwaitChildren, StepTo, t, row
    <2> HIDE DEF q
    <2>3. SameOwner(r, row) /\ r.status # "none"
      BY <2>1
    <2> HIDE DEF r
    <2> QED
      BY <1>0, <1>11, <1>a, <2>2, <2>3, TaskMoves, ZenonT(30) DEF AwaitChildren, Says, Answers, row
  <1>12. CASE \E k \in ToolKinds : ToolCall(c, k)
    <2>1. SameOwner(Step(row), row) /\ Step(row).status # "none"
      BY <1>12, <1>a, RowMoves DEF ToolCall, Says, Answers
    <2> QED
      BY <1>0, <1>12, <1>a, <2>1, TaskMoves, ZenonT(30) DEF ToolCall, Says, Answers, t, row
  <1>13. CASE \E b \in Agents : \E w \in BOOLEAN : Delegate(c, b, w)
    <2>1. PICK b \in Agents, w \in BOOLEAN : Delegate(c, b, w)
      BY <1>13
    <2>2. PICK n \in NextId(tasks, MaxTasks) :
            tasks' = [tasks EXCEPT
              ![t] = [Step(row) EXCEPT !.status = IF w THEN "running" ELSE "completed"],
              ![n] = NewTask(b, row.session, t, row.depth + 1)]
      BY <2>1, ZenonT(30) DEF Delegate, t, row
    <2> DEFINE st == IF w THEN "running" ELSE "completed"
               r == StepTo(row, st)
               us == [tasks EXCEPT ![t] = r]
               d == row.depth + 1
    <2>3. Delivers(c) /\ sessions' = sessions
      BY <2>1 DEF Delegate, Says, Answers
    <2>4. st \in Statuses \ {"none"}
      BY DEF Statuses, Open, Holding, Terminal
    <2>5. d \in Nat /\ t \in Nat
      BY <1>a, <2>3, ConstantsAssumption DEF TaskRow, TaskIds
    <2>6. n \in TaskIds /\ tasks[n].status = "none" /\ n # t
      BY <1>a, <2>3 DEF NextId, TaskIds, row
    <2>7. row.session \in SessionIds /\ sessions[row.session].status # "none"
      BY <1>0, <1>a, <2>3, ZenonT(30) DEF TasksTyped, row
    <2> HIDE DEF st, d
    <2>8. SameOwner(r, row) /\ r.status # "none"
      BY <1>a, <2>3, <2>4, StatusMoves, ZenonT(30)
    <2>9. tasks' = [us EXCEPT ![n] = NewTask(b, row.session, t, d)]
      BY <2>2, ZenonT(30) DEF st, d, StepTo
    <2> HIDE DEF r
    <2>10. sessions \in [SessionIds -> SessionRow] /\ SessionsStay(sessions, sessions)
      BY <1>0, ZenonT(30) DEF TasksTyped, SessionsStay
    <2>11. TasksTyped(us, sessions) /\ TasksStay(tasks, us)
      BY <1>0, <1>a, <2>3, <2>8, <2>10, TaskChanges, ZenonT(30) DEF row
    <2>12. us[n].status = "none"
      BY <2>6, <1>0, ZenonT(30) DEF TasksTyped
    <2> HIDE DEF us
    <2>13. TasksTyped(tasks', sessions) /\ TasksStay(us, tasks')
      BY <2>5, <2>6, <2>7, <2>9, <2>11, <2>12, TaskAdded, ZenonT(30)
    <2> QED
      BY <2>3, <2>11, <2>13 DEF TasksStay
  <1>14. CASE \E a \in Agents : ApplyChange(c, a)
    <2>1. SameOwner(Step(row), row) /\ Step(row).status # "none"
      BY <1>14, <1>a, RowMoves DEF ApplyChange, Answers
    <2> QED
      BY <1>0, <1>14, <1>a, <2>1, TaskMoves, ZenonT(30) DEF ApplyChange, Answers, t, row
  <1> QED
    BY <1>1, <1>2, <1>3, <1>4, <1>5, <1>6, <1>7, <1>8, <1>9, <1>10, <1>11, <1>12, <1>13, <1>14, ZenonT(30)
       DEF Complete, Submit

\* Dispatching a task writes tasks that are typed.
LEMMA CompactTasks ==
  ASSUME TypeInv, NEW root, NEW s \in Nat, NEW ts, NEW ss,
         TasksTyped(ts, ss), TasksStay(tasks, ts), SessionsStay(sessions, ss),
         \A t \in TaskIds : tasks[t].status = "none" => ts[t].status = "none",
         MaybeCompact(root, s, ts, ss)
  PROVE  TasksTyped(tasks', sessions') /\ TasksStay(tasks, tasks')
  <1>1. CASE tasks' = ts /\ sessions' = ss
    BY <1>1, ZenonT(30)
  <1>2. CASE ~(tasks' = ts /\ sessions' = ss)
    <2>1. PICK x \in NextId(sessions, MaxSessions), t \in NextId(tasks, MaxTasks) :
            /\ sessions' = [ss EXCEPT ![x] = NewSession(Compactor, s)]
            /\ tasks' = [ts EXCEPT ![t] = NewTask(Compactor, x, 0, 0)]
      BY <1>2, ZenonT(30) DEF MaybeCompact
    <2>2. Compactor \in Agents
      BY <1>2, ZenonT(30) DEF MaybeCompact
    <2> DEFINE q == NewSession(Compactor, s)
    <2>3. q \in SessionRow /\ q.status # "none" /\ q.agent \in Agents
      BY <2>2, ZenonT(30) DEF NewSession, SessionRow
    <2>4. x \in SessionIds /\ t \in TaskIds /\ ts[t].status = "none"
      BY ZenonT(30) DEF NextId, SessionIds, TaskIds
    <2>5. sessions' = [ss EXCEPT ![x] = q]
      BY <2>1, ZenonT(30)
    <2> HIDE DEF q
    <2>6. TasksTyped(ts, sessions') /\ sessions'[x] = q
      BY <2>3, <2>4, <2>5, ZenonT(30) DEF TasksTyped
    <2>7. TasksTyped(tasks', sessions') /\ TasksStay(ts, tasks')
      BY <2>1, <2>2, <2>3, <2>4, <2>6, TaskAdded, ZenonT(30)
    <2> QED
      BY <2>7, ZenonT(30) DEF TasksStay
  <1> QED
    BY <1>1, <1>2

\* Dispatching a task, with the compaction it may start, writes typed tasks.
LEMMA DispatchTasks ==
  ASSUME TypeInv, NEW t \in TaskIds, Dispatch(t)
  PROVE  TasksTyped(tasks', sessions') /\ TasksStay(tasks, tasks')
  <1> DEFINE row == tasks[t]
  <1>0. /\ TasksTyped(tasks, sessions)
        /\ row \in TaskRow /\ row.status # "none"
        /\ row.session \in SessionIds /\ row.session \in Nat
    BY DEF TypeInv, TasksTyped, TaskRow, Dispatch, DispatchDone, DispatchLlm, DispatchNoProvider,
           GoesOn, Eligible
  <1>1. Started(t) = StartedRow(row)
    BY DEF Started, StartedRow
  <1>2. StartedRow(row) \in TaskRow /\ SameOwner(StartedRow(row), row)
        /\ StartedRow(row).status = "running"
    BY <1>0, StatusMoves DEF SameOwner
  <1>3. sessions \in [SessionIds -> SessionRow] /\ SessionsStay(sessions, sessions)
    BY <1>0, ZenonT(30) DEF TasksTyped, SessionsStay
  <1> HIDE DEF row
  <1>4. CASE DispatchDone(t)
    <2> DEFINE r == Fail(StartedRow(row))
               n == r.errs + 1
               q == [r EXCEPT !.errs = n]
    <2>1. SameOwner(r, row) /\ r.status = "failed"
      BY <1>2, RowMoves, ZenonT(30) DEF SameOwner
    <2>2. n \in Nat
      BY <2>1 DEF SameOwner, TaskRow
    <2>3. Settle(t, q)
      BY <1>1, <1>4, ZenonT(30) DEF DispatchDone
    <2> HIDE DEF r, n
    <2>4. SameOwner(q, row) /\ q.status # "none"
      BY <2>1, <2>2, ZenonT(30) DEF SameOwner, TaskRow
    <2> HIDE DEF q
    <2> QED
      BY <1>0, <2>3, <2>4, SettleChanges, ZenonT(30) DEF row
  <1>5. CASE DispatchLlm(t)
    <2> DEFINE ts == [tasks EXCEPT ![t] = StartedRow(row)]
    <2>1. MaybeCompact(row.parent = 0, row.session, ts, sessions)
      BY <1>1, <1>5, ZenonT(30) DEF DispatchLlm, row
    <2>2. TasksTyped(ts, sessions) /\ TasksStay(tasks, ts)
      BY <1>0, <1>2, <1>3, TaskChanges, ZenonT(30) DEF row
    <2>3. \A u \in TaskIds : tasks[u].status = "none" => ts[u].status = "none"
      BY <1>0, ZenonT(30) DEF TasksTyped, row
    <2> HIDE DEF ts
    <2> QED
      BY <1>0, <1>3, <2>1, <2>2, <2>3, CompactTasks
  <1>6. CASE DispatchNoProvider(t)
    <2> DEFINE r == SubmitError(StartedRow(row))
               ts == [tasks EXCEPT ![t] = r]
               ss == MaybeComplete(ts, sessions, row.session)
    <2>1. SameOwner(r, row) /\ r.status # "none"
      BY <1>2, SubmitMoves, ZenonT(30) DEF SameOwner
    <2>2. MaybeCompact(row.parent = 0, row.session, ts, ss)
      BY <1>1, <1>6, ZenonT(30) DEF DispatchNoProvider, row
    <2> HIDE DEF r
    <2>3. ss \in [SessionIds -> SessionRow] /\ SessionsStay(sessions, ss)
      BY <1>0, <1>3, MaybeCompleteStays, ZenonT(30)
    <2> HIDE DEF ss
    <2>4. TasksTyped(ts, ss) /\ TasksStay(tasks, ts)
      BY <1>0, <2>1, <2>3, TaskChanges DEF row
    <2>5. \A u \in TaskIds : tasks[u].status = "none" => ts[u].status = "none"
      BY <1>0, ZenonT(30) DEF TasksTyped, row
    <2> HIDE DEF ts
    <2> QED
      BY <1>0, <2>2, <2>3, <2>4, <2>5, CompactTasks
  <1> QED
    BY <1>4, <1>5, <1>6 DEF Dispatch

\* Claiming a call writes tasks that are typed.
LEMMA ClaimTasks ==
  ASSUME TypeInv, NEW c \in CallIds, Claim(c)
  PROVE  TasksTyped(tasks', sessions') /\ TasksStay(tasks, tasks')
  <1> DEFINE t == calls[c].task
             row == tasks[t]
  <1>0. TasksTyped(tasks, sessions)
    BY DEF TypeInv
  <1>1. t \in TaskIds /\ row \in TaskRow /\ row.status # "none"
    BY CallOfTask, ZenonT(30) DEF Claim, ClaimSend, ClaimPark, ClaimRefuse, Claimable
  <1> HIDE DEF t, row
  <1>2. CASE ClaimSend(c)
    BY <1>0, <1>2, ZenonT(30) DEF ClaimSend, TasksStay
  <1>3. CASE ClaimPark(c)
    <2> DEFINE r == To(row, "waiting_human")
    <2>1. SameOwner(r, row) /\ r.status # "none"
      BY <1>1, StatusMoves DEF Statuses, Open, Holding
    <2>2. tasks' = [tasks EXCEPT ![t] = r]
      BY <1>3 DEF ClaimPark, To, t, row
    <2> HIDE DEF r
    <2> QED
      BY <1>0, <1>1, <1>3, <2>1, <2>2, TaskMoves, ZenonT(30) DEF ClaimPark, row
  <1>4. CASE ClaimRefuse(c)
    <2>1. SameOwner(Discard(row), row) /\ Discard(row).status # "none"
      BY <1>1, RowMoves
    <2> QED
      BY <1>0, <1>1, <1>4, <2>1, SettleChanges DEF ClaimRefuse, t, row
  <1> QED
    BY <1>2, <1>3, <1>4 DEF Claim

\* The watchdog writes tasks that are typed.
LEMMA ReclaimTasks ==
  ASSUME TypeInv, NEW c \in CallIds, Reclaim(c)
  PROVE  TasksTyped(tasks', sessions') /\ TasksStay(tasks, tasks')
  <1> DEFINE t == calls[c].task
             row == tasks[t]
  <1>0. TasksTyped(tasks, sessions)
    BY DEF TypeInv
  <1>1. t \in TaskIds /\ row \in TaskRow /\ row.status # "none"
    BY CallOfTask, ZenonT(30) DEF Reclaim
  <1> HIDE DEF t, row
  <1>2. /\ SameOwner(Paused(row), row) /\ Paused(row).status # "none"
        /\ SameOwner(SubmitError(row), row) /\ SubmitError(row).status # "none"
    BY <1>1, StatusMoves, SubmitMoves, ZenonT(30)
  <1>3. CASE Pause(c)
    <2>1. tasks' = [tasks EXCEPT ![t] = Paused(row)] /\ sessions' = sessions
      BY <1>3, ZenonT(30) DEF Pause, Paused, t, row
    <2> QED
      BY <1>0, <1>1, <1>2, <2>1, TaskMoves, ZenonT(30) DEF row
  <1>4. CASE Settle(t, SubmitError(row))
    BY <1>0, <1>1, <1>2, <1>4, SettleChanges DEF row
  <1>5. CASE UNCHANGED <<tasks, sessions>>
    BY <1>0, <1>5, ZenonT(30) DEF TasksStay
  <1> QED
    BY <1>3, <1>4, <1>5, ZenonT(30) DEF Reclaim, t, row

\* A loop of fn_watchdog writes typed tasks.
LEMMA WatchdogTasks ==
  ASSUME TypeInv, Watchdog
  PROVE  TasksTyped(tasks', sessions') /\ TasksStay(tasks, tasks')
  <1>0. TasksTyped(tasks, sessions)
    BY ZenonT(30) DEF TypeInv
  <1>1. CASE \E c \in CallIds : Reclaim(c)
    BY <1>1, ReclaimTasks, ZenonT(30)
  <1>2. ASSUME NEW p \in ApprovalIds, ExpireApproval(p)
        PROVE  TasksTyped(tasks', sessions') /\ TasksStay(tasks, tasks')
    <2> DEFINE t == approvals[p].task
               row == tasks[t]
               r == Fail(Step(row))
    <2>1. t \in TaskIds /\ row \in TaskRow /\ row.status # "none"
      BY <1>2, ZenonT(30) DEF TypeInv, TasksTyped, ApprovalsTyped, ExpireApproval
    <2>2. CASE Settle(t, r)
      <3>1. SameOwner(r, row) /\ r.status # "none"
        <4>1. Step(row) \in TaskRow /\ SameOwner(Step(row), row)
          BY <2>1, RowMoves, ZenonT(30) DEF SameOwner
        <4>2. SameOwner(r, Step(row)) /\ r.status = "failed"
          BY <4>1, RowMoves, ZenonT(30)
        <4> QED
          BY <4>1, <4>2, ZenonT(30) DEF SameOwner
      <3> HIDE DEF r
      <3> QED
        BY <1>0, <2>1, <2>2, <3>1, SettleChanges, ZenonT(30)
    <2>3. CASE UNCHANGED <<tasks, sessions>>
      BY <1>0, <2>3 DEF TasksStay
    <2> QED
      BY <1>2, <2>2, <2>3, ZenonT(30) DEF ExpireApproval
  <1>3. ASSUME NEW t \in TaskIds, TurnTimeout(t)
        PROVE  TasksTyped(tasks', sessions') /\ TasksStay(tasks, tasks')
    <2> DEFINE row == tasks[t]
               r == Fail(Reject(row))
    <2>1. row \in TaskRow /\ row.status # "none"
      BY <1>0, <1>3, ZenonT(30) DEF TasksTyped, TurnTimeout, Holding
    <2>2. SameOwner(r, row) /\ r.status # "none"
      BY <2>1, RowMoves DEF SameOwner
    <2>3. Settle(t, r)
      BY <1>3, ZenonT(30) DEF TurnTimeout
    <2> HIDE DEF r
    <2> QED
      BY <1>0, <2>1, <2>2, <2>3, SettleChanges, ZenonT(30)
  <1>4. ASSUME NEW t \in TaskIds, WakeParent(t)
        PROVE  TasksTyped(tasks', sessions') /\ TasksStay(tasks, tasks')
    <2> DEFINE row == tasks[t]
               r == StepTo(row, "queued")
    <2>1. row \in TaskRow /\ row.status # "none"
      BY <1>0, <1>4 DEF TasksTyped, WakeParent
    <2>2. SameOwner(r, row) /\ r.status # "none"
      BY <2>1, StatusMoves DEF Statuses, Open
    <2>3. tasks' = [tasks EXCEPT ![t] = r] /\ sessions' = sessions
      BY <1>4 DEF WakeParent, StepTo
    <2> HIDE DEF r
    <2> QED
      BY <1>0, <2>1, <2>2, <2>3, TaskMoves, ZenonT(30)
  <1> QED
    BY <1>1, <1>2, <1>3, <1>4, ZenonT(30) DEF Watchdog

\* An operator function writes tasks that are typed.
LEMMA OperatorTasks ==
  ASSUME TypeInv, Operator
  PROVE  TasksTyped(tasks', sessions') /\ TasksStay(tasks, tasks')
  <1>0. TasksTyped(tasks, sessions)
    BY DEF TypeInv
  <1>1. ASSUME NEW a \in Agents, CreateSession(a)
        PROVE  TasksTyped(tasks', sessions') /\ TasksStay(tasks, tasks')
    <2> DEFINE q == NewSession(a, 0)
    <2>1. PICK s \in NextId(sessions, MaxSessions), t \in NextId(tasks, MaxTasks) :
            /\ sessions' = [sessions EXCEPT ![s] = q]
            /\ tasks' = [tasks EXCEPT ![t] = NewTask(a, s, 0, 0)]
      BY <1>1, ZenonT(30) DEF CreateSession
    <2>2. q \in SessionRow /\ q.status # "none" /\ q.agent \in Agents
      BY DEF NewSession, SessionRow
    <2>3. s \in SessionIds /\ t \in TaskIds /\ tasks[t].status = "none"
      BY ZenonT(30) DEF NextId, SessionIds, TaskIds
    <2> HIDE DEF q
    <2>4. TasksTyped(tasks, sessions') /\ sessions'[s] = q
      BY <1>0, <2>1, <2>2, <2>3, ZenonT(30) DEF TasksTyped
    <2> QED
      BY <2>1, <2>2, <2>3, <2>4, TaskAdded, ZenonT(30)
  <1>2. ASSUME NEW s \in SessionIds, ContinueSession(s)
        PROVE  TasksTyped(tasks', sessions') /\ TasksStay(tasks, tasks')
    <2> DEFINE q == [sessions[s] EXCEPT !.status = "open"]
               a == sessions[s].agent
    <2>1. PICK t \in NextId(tasks, MaxTasks) : tasks' = [tasks EXCEPT ![t] = NewTask(a, s, 0, 0)]
      BY <1>2, ZenonT(30) DEF ContinueSession
    <2>2. sessions' = [sessions EXCEPT ![s] = q]
      BY <1>2 DEF ContinueSession
    <2>3. a \in Agents /\ sessions[s] \in SessionRow
      BY <1>0, <1>2 DEF ContinueSession, TasksTyped
    <2>4. q \in SessionRow /\ q.status # "none" /\ q.agent = a
      BY <2>3 DEF SessionRow
    <2>5. t \in TaskIds /\ tasks[t].status = "none"
      BY ZenonT(30) DEF NextId, TaskIds
    <2> HIDE DEF q, a
    <2>6. TasksTyped(tasks, sessions') /\ sessions'[s] = q
      BY <1>0, <2>2, <2>3, <2>4, ZenonT(30) DEF TasksTyped
    <2> QED
      BY <2>1, <2>3, <2>4, <2>5, <2>6, TaskAdded, ZenonT(30)
  <1>3. ASSUME NEW s \in SessionIds, CancelSession(s)
        PROVE  TasksTyped(tasks', sessions') /\ TasksStay(tasks, tasks')
    <2> DEFINE q == [sessions[s] EXCEPT !.status = IF @ = "open" THEN "cancelled" ELSE @]
    <2>1. sessions' = [sessions EXCEPT ![s] = q] /\ sessions[s].status # "none"
      BY <1>3 DEF CancelSession
    <2>2. q \in SessionRow /\ q.status # "none" /\ q.agent = sessions[s].agent
      BY <1>0, <2>1, ZenonT(30) DEF TasksTyped, SessionRow
    <2> HIDE DEF q
    <2>3. sessions' \in [SessionIds -> SessionRow] /\ SessionsStay(sessions, sessions')
      BY <1>0, <2>1, <2>2, SessionUpdate, ZenonT(30) DEF TasksTyped
    <2>4. /\ tasks' = [t \in TaskIds |-> tasks'[t]]
          /\ \A t \in TaskIds : tasks'[t] \in {tasks[t], StepTo(tasks[t], "cancelled")}
      BY <1>3 DEF CancelSession, StepTo
    <2>5. \A t \in TaskIds : /\ SameOwner(StepTo(tasks[t], "cancelled"), tasks[t])
                             /\ StepTo(tasks[t], "cancelled").status # "none"
      BY <1>0, StatusMoves DEF TasksTyped, Statuses, Terminal
    <2>6. \A t \in TaskIds : SameOwner(tasks'[t], tasks[t])
                             /\ (tasks[t].status # "none" => tasks'[t].status # "none")
      BY <1>0, <2>4, <2>5 DEF SameOwner, TasksTyped
    <2>7. \A t \in TaskIds : tasks[t].status = "none" => tasks'[t] = tasks[t]
      BY <1>3, ZenonT(30) DEF CancelSession, Open, Holding
    <2> QED
      BY <1>0, <2>3, <2>4, <2>6, <2>7 DEF TasksTyped, TasksStay, SessionsStay, SameOwner
  <1>4. ASSUME NEW p \in ApprovalIds, NEW accept \in BOOLEAN, DecideApproval(p, accept)
        PROVE  TasksTyped(tasks', sessions') /\ TasksStay(tasks, tasks')
    <2> DEFINE t == approvals[p].task
               row == tasks[t]
               st == IF ~accept THEN "failed"
                     ELSE IF approvals[p].why = "guard" THEN "running" ELSE "queued"
               r == StepTo(row, st)
    <2>1. t \in TaskIds /\ row \in TaskRow /\ row.status # "none"
      BY <1>4, ZenonT(30) DEF TypeInv, TasksTyped, ApprovalsTyped, DecideApproval
    <2>2. st \in Statuses \ {"none"}
      BY ZenonT(30) DEF Statuses, Open, Holding, Terminal
    <2>3. Settle(t, r) \/ UNCHANGED <<tasks, sessions>>
      BY <1>4, ZenonT(30) DEF DecideApproval, StepTo
    <2> HIDE DEF st
    <2>4. SameOwner(r, row) /\ r.status # "none"
      BY <2>1, <2>2, StatusMoves, ZenonT(30)
    <2> HIDE DEF r
    <2>5. CASE Settle(t, r)
      BY <1>0, <2>1, <2>4, <2>5, SettleChanges, ZenonT(30)
    <2>6. CASE UNCHANGED <<tasks, sessions>>
      BY <1>0, <2>6, ZenonT(30) DEF TasksStay
    <2> QED
      BY <2>3, <2>5, <2>6, ZenonT(30)
  <1>5. CASE UNCHANGED <<tasks, sessions>>
    BY <1>0, <1>5, ZenonT(30) DEF TasksStay
  <1> QED
    BY <1>1, <1>2, <1>3, <1>4, <1>5
       DEF Operator, SetAgentActive, SetPermission, SetRule, SetCap, SetProvider

\* A step keeps tasks and sessions typed.
LEMMA TasksStep ==
  ASSUME TypeInv, [Next]_vars
  PROVE  TasksTyped(tasks', sessions') /\ TasksStay(tasks, tasks')
  <1>0. TasksTyped(tasks, sessions)
    BY DEF TypeInv
  <1>1. CASE Operator
    BY <1>1, OperatorTasks, ZenonT(30)
  <1>2. CASE Watchdog
    BY <1>2, WatchdogTasks, ZenonT(30)
  <1>3. CASE \E t \in TaskIds : Dispatch(t)
    BY <1>3, DispatchTasks, ZenonT(30)
  <1>4. CASE \E c \in CallIds : Claim(c) \/ Complete(c)
    BY <1>4, ClaimTasks, CompleteTasks, ZenonT(30)
  <1>5. CASE UNCHANGED <<tasks, sessions>>
    BY <1>0, <1>5, ZenonT(30) DEF TasksStay
  <1> QED
    BY <1>1, <1>2, <1>3, <1>4, <1>5, ZenonT(30) DEF Next, DropResult, WorkerCrash, ApprovalClock, vars

\* A step keeps the calls typed.
LEMMA CallsStep ==
  ASSUME TypeInv, [Next]_vars, TasksStay(tasks, tasks')
  PROVE  /\ CallsTyped(tasks', calls')
         /\ \A c \in CallIds : calls[c].status # "none" => calls'[c].status # "none"
  <1> DEFINE Goal == /\ CallsTyped(tasks', calls')
                     /\ \A c \in CallIds : calls[c].status # "none" => calls'[c].status # "none"
  <1>0. CallsTyped(tasks, calls) /\ calls \in [CallIds -> CallRow]
    BY ZenonT(30) DEF TypeInv, CallsTyped
  <1>1. CASE calls' = calls
    BY <1>0, <1>1, CallsStay, ZenonT(30)
  <1>2. ASSUME NEW c \in CallIds, calls[c].status # "none", NEW st \in {"harvested", "lost"},
               calls' = [calls EXCEPT ![c].status = st]
        PROVE  Goal
    <2>1. CallsTyped(tasks', [calls EXCEPT ![c].status = st])
      BY <1>0, <1>2, CallChanges, ZenonT(30)
    <2>2. \A d \in CallIds : calls[d].status # "none" => calls'[d].status # "none"
      BY <1>0, <1>2 DEF CallRow
    <2> QED
      BY <1>2, <2>1, <2>2, ZenonT(30)
  <1>3. ASSUME NEW owners, calls' = Withdrawn(owners)
        PROVE  Goal
    <2>1. calls' \in [CallIds -> CallRow]
      BY <1>0, <1>3 DEF Withdrawn, CallRow
    <2>2. \A c \in CallIds : /\ calls'[c].task = calls[c].task
                             /\ calls'[c].status = "none" <=> calls[c].status = "none"
      BY <1>0, <1>3, ZenonT(30) DEF Withdrawn, CallRow, Live
    <2> QED
      BY <1>0, <2>1, <2>2 DEF CallsTyped, TasksStay
  <1>4. ASSUME NEW t \in TaskIds, DispatchLlm(t)
        PROVE  Goal
    <2>1. PICK c \in NextId(calls, MaxCalls) : calls' = [calls EXCEPT ![c] = NewCall(t, "llm")]
      BY <1>4, ZenonT(30) DEF DispatchLlm
    <2>2. c \in CallIds /\ calls[c].status = "none"
      BY DEF NextId, CallIds
    <2>3. tasks[t].status # "none"
      BY <1>4 DEF DispatchLlm, GoesOn, Eligible
    <2>4. CallsTyped(tasks, calls')
      BY <1>0, <2>1, <2>2, <2>3, CallAdded, ZenonT(30) DEF Kinds
    <2> QED
      BY <1>0, <2>1, <2>2, <2>4, CallsStay
  <1>5. ASSUME NEW c \in CallIds, NEW k \in ToolKinds, ToolCall(c, k)
        PROVE  Goal
    <2> DEFINE cs == [calls EXCEPT ![c].status = "harvested"]
    <2>1. PICK n \in NextId(calls, MaxCalls) :
            calls' = [calls EXCEPT ![c].status = "harvested", ![n] = NewCall(calls[c].task, k)]
      BY <1>5, ZenonT(30) DEF ToolCall
    <2>2. n \in CallIds /\ calls[n].status = "none" /\ k \in Kinds
      BY ConstantsAssumption DEF NextId, CallIds
    <2>3. Delivers(c)
      BY <1>5 DEF ToolCall, Says, Answers
    <2>4. calls[c].status # "none" /\ calls[c].task \in TaskIds
          /\ tasks'[calls[c].task].status # "none"
      BY <2>3, DeliveredTask DEF Delivers, Holds, TasksStay
    <2>5. CallsTyped(tasks', cs)
      BY <1>0, <2>4, CallChanges, ZenonT(30)
    <2>6. calls' = [cs EXCEPT ![n] = NewCall(calls[c].task, k)]
      BY <2>1
    <2>7. \A d \in CallIds : calls[d].status # "none" => calls'[d].status # "none"
      BY <1>0, <2>1, <2>2, <2>4 DEF NewCall, CallRow
    <2> HIDE DEF cs
    <2>8. CallsTyped(tasks', [cs EXCEPT ![n] = NewCall(calls[c].task, k)])
      BY <2>2, <2>4, <2>5, CallAdded, ZenonT(30)
    <2> QED
      BY <2>6, <2>7, <2>8
  <1>6. ASSUME NEW c \in CallIds, ClaimSend(c)
        PROVE  Goal
    <2> DEFINE g == gen[AgentOf(c)]
               b == Strict(c)
    <2>1. calls[c].status # "none"
      BY <1>6, ZenonT(30) DEF ClaimSend, Claimable
    <2>2. g \in Nat /\ b \in BOOLEAN
      BY <2>1, CallOfTask, ZenonT(30) DEF TypeInv, ConfigTyped, Strict
    <2> DEFINE q == [calls[c] EXCEPT !.status = "in_flight", !.sent = TRUE, !.strict = b, !.gen = g]
    <2>3. calls' = [calls EXCEPT ![c] = q]
      BY <1>6, ZenonT(30) DEF ClaimSend
    <2> HIDE DEF g, b
    <2>a. q \in CallRow /\ q.task = calls[c].task /\ q.status # "none"
      BY <1>0, <2>2, ZenonT(30) DEF CallRow, Live
    <2> HIDE DEF q
    <2>4. calls' \in [CallIds -> CallRow]
      BY <1>0, <2>3, <2>a
    <2>5. \A d \in CallIds : /\ calls'[d].task = calls[d].task
                             /\ calls'[d].status = "none" <=> calls[d].status = "none"
      BY <1>0, <2>1, <2>3, <2>a, ZenonT(30)
    <2> QED
      BY <1>0, <2>4, <2>5, ZenonT(30) DEF CallsTyped, TasksStay
  <1>7. CASE \E c \in CallIds : Complete(c)
    <2>1. PICK c \in CallIds : Complete(c)
      BY <1>7, ZenonT(30)
    <2>2. \/ calls' = calls
          \/ /\ calls[c].status # "none"
             /\ \E st \in {"harvested", "lost"} : calls' = [calls EXCEPT ![c].status = st]
          \/ \E k \in ToolKinds : ToolCall(c, k)
      BY <2>1, ZenonT(30) DEF Complete, CompleteStale, CompleteSkipped, Holds, Delivers, ToolResult, CallError,
           AmbiguousResult, Pause, Submit, FinalAnswer, Note, ApplyChange, ReplyRejected,
           ReplyRaises, ReplyDiscarded, AwaitHuman, AwaitChildren, DelegateRefused, Delegate, Says, Answers,
           Harvested
    <2> QED
      BY <2>2, <1>1, <1>2, <1>5, ZenonT(30)
  <1>8. CASE \E c \in CallIds : Reclaim(c)
    <2>1. PICK c \in CallIds : Reclaim(c)
      BY <1>8
    <2>2. calls[c].status # "none" /\ calls' = [calls EXCEPT ![c].status = "lost"]
      BY <2>1 DEF Reclaim, Pause
    <2> QED
      BY <2>2, <1>2, ZenonT(30)
  <1>9. CASE \E c \in CallIds : Claim(c)
    <2>1. PICK c \in CallIds : Claim(c)
      BY <1>9
    <2>2. \/ calls' = calls
          \/ calls[c].status # "none" /\ calls' = [calls EXCEPT ![c].status = "lost"]
          \/ ClaimSend(c)
      BY <2>1 DEF Claim, ClaimPark, ClaimRefuse, Claimable
    <2> QED
      BY <2>2, <1>1, <1>2, <1>6
  <1>10. CASE Operator
    <2>1. calls' = calls \/ \E owners : calls' = Withdrawn(owners)
      BY <1>10, ZenonT(30) DEF Operator, CreateSession, SetAgentActive, SetPermission, ContinueSession,
           CancelSession, DecideApproval, SetRule, SetCap, SetProvider
    <2> QED
      BY <2>1, <1>1, <1>3, ZenonT(30)
  <1>11. CASE Watchdog
    <2>1. calls' = calls \/ (\E c \in CallIds : Reclaim(c)) \/ \E owners : calls' = Withdrawn(owners)
      BY <1>11, ZenonT(30) DEF Watchdog, ExpireApproval, TurnTimeout, WakeParent
    <2> QED
      BY <2>1, <1>1, <1>3, <1>8
  <1>12. CASE \E t \in TaskIds : Dispatch(t)
    <2>1. calls' = calls \/ \E t \in TaskIds : DispatchLlm(t)
      BY <1>12 DEF Dispatch, DispatchDone, DispatchNoProvider
    <2> QED
      BY <2>1, <1>1, <1>4
  <1> QED
    BY <1>1, <1>7, <1>9, <1>10, <1>11, <1>12, ZenonT(30)
       DEF Next, DropResult, WorkerCrash, ApprovalClock, vars

\* A step keeps the approvals typed.
LEMMA ApprovalsStep ==
  ASSUME TypeInv, [Next]_vars, TasksStay(tasks, tasks')
  PROVE  ApprovalsTyped(tasks', approvals')
  <1>0. /\ ApprovalsTyped(tasks, approvals)
        /\ ApprovalsTyped(tasks', approvals)
        /\ approvals \in [ApprovalIds -> ApprovalRow]
    BY ApprovalsStay, ZenonT(30) DEF TypeInv, ApprovalsTyped
  <1>1. CASE approvals' = approvals
    BY <1>0, <1>1, ZenonT(30)
  <1>2. ASSUME NEW p \in ApprovalIds, approvals[p].status # "none", NEW st \in {"approved", "rejected"},
               approvals' = [approvals EXCEPT ![p].status = st]
        PROVE  ApprovalsTyped(tasks', approvals')
    BY <1>0, <1>2 DEF ApprovalsTyped, ApprovalRow
  <1>3. ASSUME NEW p \in ApprovalIds, ApprovalClock(p)
        PROVE  ApprovalsTyped(tasks', approvals')
    BY <1>0, <1>3, ZenonT(30) DEF ApprovalClock, ApprovalsTyped, ApprovalRow
  <1>4. ASSUME NEW c \in CallIds, AwaitHuman(c) \/ Pause(c), calls[c].status # "none"
        PROVE  ApprovalsTyped(tasks', approvals')
    <2>1. calls[c].task \in TaskIds /\ tasks[calls[c].task].status # "none" /\ c \in Nat
      BY <1>4, CallOfTask, ConstantsAssumption DEF CallIds
    <2>2. PICK n \in NextId(approvals, MaxApprovals), d \in {0, c}, why \in {"human", "ambiguous"} :
            approvals' = [approvals EXCEPT ![n] = NewApproval(calls[c].task, d, why, 0)]
      BY <1>4, ZenonT(30) DEF AwaitHuman, Pause
    <2>3. n \in ApprovalIds /\ tasks'[calls[c].task].status # "none" /\ d \in Nat
      BY <2>1 DEF NextId, ApprovalIds, TasksStay
    <2> QED
      BY <1>0, <2>1, <2>2, <2>3, ApprovalAdded, ZenonT(30)
  <1>5. ASSUME NEW c \in CallIds, ClaimPark(c)
        PROVE  ApprovalsTyped(tasks', approvals')
    <2> DEFINE t == calls[c].task
               g == gen[AgentOf(c)]
               q == NewApproval(t, c, "guard", g)
    <2>1. calls[c].status # "none"
      BY <1>5, ZenonT(30) DEF ClaimPark, Claimable
    <2>2. t \in TaskIds /\ tasks'[t].status # "none" /\ g \in Nat /\ c \in Nat
      <3>1. t \in TaskIds /\ tasks[t].status # "none" /\ AgentOf(c) \in Agents
        BY <2>1, CallOfTask, ZenonT(30)
      <3>2. g \in Nat
        BY <3>1, ZenonT(30) DEF TypeInv, ConfigTyped
      <3>3. c \in Nat
        BY ConstantsAssumption DEF CallIds
      <3> QED
        BY <3>1, <3>2, <3>3, ZenonT(30) DEF TasksStay
    <2>3. PICK n \in NextId(approvals, MaxApprovals) :
            approvals' = [p \in ApprovalIds |->
              IF p = n THEN q
              ELSE IF p \in Latest(c) THEN [approvals[p] EXCEPT !.status = "rejected"]
              ELSE approvals[p]]
      BY <1>5, ZenonT(30) DEF ClaimPark
    <2> HIDE DEF g
    <2>4. q \in ApprovalRow /\ q.task = t
      BY <2>2, ConstantsAssumption DEF NewApproval, ApprovalRow, TaskIds
    <2> HIDE DEF q, t
    <2>5. \A p \in Latest(c) : approvals[p].status # "none"
      BY ZenonT(30) DEF Latest, GuardApprovals
    <2> HIDE DEF Latest
    <2> QED
      BY <1>0, <2>2, <2>3, <2>4, <2>5, ZenonT(30) DEF ApprovalsTyped, ApprovalRow
  <1>6. ASSUME NEW s \in SessionIds, CancelSession(s)
        PROVE  ApprovalsTyped(tasks', approvals')
    BY <1>0, <1>6 DEF CancelSession, ApprovalsTyped, ApprovalRow
  <1>7. CASE Operator
    <2>1. \/ approvals' = approvals
          \/ \E s \in SessionIds : CancelSession(s)
          \/ \E p \in ApprovalIds, st \in {"approved", "rejected"} :
               approvals[p].status # "none" /\ approvals' = [approvals EXCEPT ![p].status = st]
      BY <1>7, ZenonT(30) DEF Operator, CreateSession, SetAgentActive, SetPermission, ContinueSession,
           DecideApproval, SetRule, SetCap, SetProvider
    <2> QED
      BY <2>1, <1>1, <1>2, <1>6
  <1>8. CASE Watchdog
    <2>1. \/ approvals' = approvals
          \/ \E c \in CallIds : Pause(c) /\ calls[c].status # "none"
          \/ \E p \in ApprovalIds, st \in {"approved", "rejected"} :
               approvals[p].status # "none" /\ approvals' = [approvals EXCEPT ![p].status = st]
      BY <1>8, ZenonT(30) DEF Watchdog, Reclaim, ExpireApproval, TurnTimeout, WakeParent
    <2> QED
      BY <2>1, <1>1, <1>2, <1>4
  <1>9. CASE \E c \in CallIds : Complete(c)
    <2>1. PICK c \in CallIds : Complete(c)
      BY <1>9
    <2>2. approvals' = approvals \/ AwaitHuman(c) \/ AmbiguousResult(c)
      BY <2>1, ZenonT(30) DEF Complete, CompleteStale, CompleteSkipped, ToolResult, CallError, Submit,
           FinalAnswer, Note, ApplyChange, ReplyRejected, ReplyRaises, ReplyDiscarded, AwaitChildren,
           DelegateRefused, Delegate, ToolCall
    <2>3. AwaitHuman(c) \/ AmbiguousResult(c) => calls[c].status # "none"
      BY ZenonT(30) DEF AwaitHuman, AmbiguousResult, Says, Answers, Delivers, Holds
    <2>4. AmbiguousResult(c) => Pause(c)
      BY ZenonT(30) DEF AmbiguousResult
    <2> QED
      BY <2>2, <2>3, <2>4, <1>1, <1>4
  <1>10. CASE \E c \in CallIds : Claim(c)
    BY <1>10, <1>1, <1>5, ZenonT(30) DEF Claim, ClaimSend, ClaimRefuse
  <1>11. CASE \E t \in TaskIds : Dispatch(t)
    BY <1>11, <1>1, ZenonT(30) DEF Dispatch, DispatchDone, DispatchLlm, DispatchNoProvider
  <1> QED
    BY <1>1, <1>3, <1>7, <1>8, <1>9, <1>10, <1>11 DEF Next, DropResult, WorkerCrash, vars

\* A step only adds claimed calls to what the worker holds.
LEMMA JobsStep ==
  ASSUME TypeInv, [Next]_vars
  PROVE  \A c \in jobs' : c \in CallIds /\ calls[c].status # "none"
  <1>1. CASE jobs' \subseteq jobs
    BY <1>1, ZenonT(30) DEF TypeInv
  <1>2. CASE \E c \in CallIds : ClaimSend(c)
    BY <1>2, ZenonT(30) DEF TypeInv, ClaimSend, Claimable
  <1>3. CASE Operator
    BY <1>1, <1>3, ZenonT(30)
       DEF Operator, CreateSession, SetAgentActive, SetPermission, ContinueSession,
           CancelSession, DecideApproval, SetRule, SetCap, SetProvider
  <1>4. CASE Watchdog
    BY <1>1, <1>4, ZenonT(30) DEF Watchdog, Reclaim, ExpireApproval, TurnTimeout, WakeParent
  <1>5. CASE \E t \in TaskIds : Dispatch(t)
    BY <1>1, <1>5 DEF Dispatch, DispatchDone, DispatchLlm, DispatchNoProvider
  <1>6. CASE \E c \in CallIds : Claim(c)
    BY <1>1, <1>2, <1>6 DEF Claim, ClaimPark, ClaimRefuse
  <1>7. CASE \E c \in CallIds : Complete(c)
    <2>1. PICK c \in CallIds : Complete(c)
      BY <1>7, ZenonT(30)
    <2>2. jobs' = jobs \ {c}
      BY <2>1, ZenonT(30) DEF Complete, CompleteStale, CompleteSkipped, Delivers, ToolResult, CallError,
           AmbiguousResult, Submit, FinalAnswer, Note, ApplyChange, ReplyRejected,
           ReplyRaises, ReplyDiscarded, AwaitHuman, AwaitChildren, ToolCall, DelegateRefused, Delegate,
           Says, Answers
    <2> QED
      BY <1>1, <2>2, ZenonT(30)
  <1> QED
    BY <1>1, <1>3, <1>4, <1>5, <1>6, <1>7, ZenonT(30)
       DEF Next, DropResult, WorkerCrash, ApprovalClock, vars

\* A step keeps agents, rules and policies typed.
LEMMA ConfigStep ==
  ASSUME TypeInv, [Next]_vars
  PROVE  ConfigTyped'
  <1>0. ConfigTyped
    BY ZenonT(30) DEF TypeInv
  <1>1. CASE UNCHANGED config
    BY <1>0, <1>1, ZenonT(30) DEF config, ConfigTyped
  <1>2. CASE \E a \in Agents : SetAgentActive(a)
    BY <1>0, <1>2, ZenonT(30) DEF SetAgentActive, ConfigTyped
  <1>3. CASE \E a \in Agents : SetPermission(a)
    BY <1>0, <1>3, ZenonT(30) DEF SetPermission, ConfigTyped
  <1>4. CASE \E a \in Agents, r \in {"allow", "approve", "deny"} : SetRule(a, r)
    BY <1>0, <1>4 DEF SetRule, ConfigTyped
  <1>5. CASE \E a \in Agents, n \in Caps : SetCap(a, n)
    BY <1>0, <1>5 DEF SetCap, ConfigTyped
  <1>6. CASE SetProvider
    BY <1>0, <1>6, ZenonT(30) DEF SetProvider, ConfigTyped
  <1>7. CASE Operator
    BY <1>7, <1>1, <1>2, <1>3, <1>4, <1>5, <1>6, ZenonT(30)
       DEF Operator, CreateSession, ContinueSession, CancelSession, DecideApproval
  <1>8. CASE Watchdog
    BY <1>8, <1>1, ZenonT(30) DEF Watchdog, Reclaim, ExpireApproval, TurnTimeout, WakeParent
  <1>9. CASE \E c \in CallIds : Claim(c) \/ Complete(c)
    <2>1. PICK c \in CallIds : Claim(c) \/ Complete(c)
      BY <1>9
    <2>2. CASE Claim(c)
      BY <2>2, <1>1 DEF Claim, ClaimSend, ClaimPark, ClaimRefuse
    <2>3. CASE \E a \in Agents : ApplyChange(c, a)
      <3>1. PICK a \in Agents : ApplyChange(c, a)
        BY <2>3, ZenonT(30)
      <3>2. /\ UNCHANGED <<provider, rule, cap>>
            /\ \/ gen' = [gen EXCEPT ![a] = @ + 1] /\ UNCHANGED <<permitted, active>>
               \/ permitted' = [permitted EXCEPT ![a] = FALSE] /\ UNCHANGED <<gen, active>>
               \/ active' = [active EXCEPT ![a] = FALSE] /\ UNCHANGED <<gen, permitted>>
        BY <3>1, ZenonT(30) DEF ApplyChange
      <3>3. gen' \in [Agents -> Nat]
        BY <1>0, <3>2 DEF ConfigTyped
      <3>4. permitted' \in [Agents -> BOOLEAN] /\ active' \in [Agents -> BOOLEAN]
        BY <1>0, <3>2, Zenon DEF ConfigTyped
      <3> QED
        BY <1>0, <3>2, <3>3, <3>4, ZenonT(30) DEF ConfigTyped
    <2>5. CASE Submit(c) /\ ~\E a \in Agents : ApplyChange(c, a)
      <3>1. (\E reply : Says(c, reply)) \/ ReplyDiscarded(c)
        BY <2>5, ZenonT(30)
           DEF Submit, FinalAnswer, Note, ReplyRejected, ReplyRaises, AwaitHuman,
               AwaitChildren, ToolCall, DelegateRefused, Delegate
      <3> QED
        BY <3>1, <1>1, ZenonT(30) DEF Says, ReplyDiscarded
    <2>4. CASE Complete(c) /\ ~Submit(c)
      BY <2>4, <1>1, ZenonT(30)
         DEF Complete, CompleteStale, CompleteSkipped, Delivers, ToolResult, CallError,
             AmbiguousResult
    <2> QED
      BY <2>1, <2>2, <2>3, <2>4, <2>5
  <1>10. CASE \E t \in TaskIds : Dispatch(t)
    BY <1>10, <1>1, ZenonT(30) DEF Dispatch, DispatchDone, DispatchLlm, DispatchNoProvider
  <1> QED
    BY <1>1, <1>7, <1>8, <1>9, <1>10, ZenonT(30) DEF Next, DropResult, WorkerCrash, ApprovalClock, vars, config

\* The empty database is typed.
LEMMA TypeInit ==
  ASSUME Init
  PROVE  TypeInv
  <1>1. TasksTyped(tasks, sessions)
    BY ConstantsAssumption, ZenonT(30)
       DEF Init, TasksTyped, Unused, NewTask, NewSession, TaskRow, SessionRow
  <1>2. CallsTyped(tasks, calls) /\ ApprovalsTyped(tasks, approvals)
    BY ZenonT(30) DEF Init, CallsTyped, ApprovalsTyped, Unused, NewCall, NewApproval, CallRow, ApprovalRow,
           Kinds
  <1>3. ConfigTyped
    BY ConstantsAssumption DEF Init, ConfigTyped
  <1> QED
    BY <1>1, <1>2, <1>3, ZenonT(30) DEF Init, TypeInv

\* Every step keeps the whole state typed.
LEMMA TypeStep ==
  ASSUME TypeInv, [Next]_vars
  PROVE  TypeInv'
  <1>1. TasksTyped(tasks', sessions') /\ TasksStay(tasks, tasks')
    BY TasksStep, ZenonT(30)
  <1>2. /\ CallsTyped(tasks', calls')
        /\ \A c \in CallIds : calls[c].status # "none" => calls'[c].status # "none"
    BY <1>1, CallsStep, ZenonT(30)
  <1>3. ApprovalsTyped(tasks', approvals')
    BY <1>1, ApprovalsStep, ZenonT(30)
  <1>4. jobs' \subseteq {c \in CallIds : calls'[c].status # "none"}
    BY <1>2, JobsStep
  <1> QED
    BY <1>1, <1>2, <1>3, <1>4, ConfigStep, ZenonT(30)
       DEF TypeInv, TasksTyped, CallsTyped, ApprovalsTyped

\* TypeOK holds in every reachable state: no function of the engine writes a row that
\* its table's columns and CHECK constraints do not allow.
THEOREM TypeCorrect == Spec => []TypeOK
  <1>1. Init => TypeInv
    BY TypeInit
  <1>2. TypeInv /\ [Next]_vars => TypeInv'
    BY TypeStep, ZenonT(30)
  <1>3. TypeInv => TypeOK
    BY DEF TypeInv, TypeOK, TasksTyped, CallsTyped, ApprovalsTyped, ConfigTyped
  <1> QED
    BY <1>1, <1>2, <1>3, PTL DEF Spec

----------------------------------------------------------------------------
(* The steps a task has taken *)

\* Row r has paid a step more than row, or needs no more.
Paid(r, row) == r.status \in Terminal \/ r.step = row.step + 1

\* Row r has paid at most one step more than row.
Grown(r, row) == r.step \in {row.step, row.step + 1}

\* The steps the operators on rows cost.
LEMMA RowCosts ==
  ASSUME NEW row \in TaskRow
  PROVE  /\ Paid(Step(row), row) /\ Grown(Step(row), row)
         /\ Paid(Reject(row), row) /\ Grown(Reject(row), row)
         /\ Paid(Discard(row), row) /\ Grown(Discard(row), row)
         /\ Paid(Answered(row), row) /\ Grown(Answered(row), row)
         /\ \A st : Paid(StepTo(row, st), row) /\ Grown(StepTo(row, st), row)
         /\ Grown(Fail(row), row) /\ Grown(StartedRow(row), row) /\ Grown(Paused(row), row)
         /\ \A st : Grown(To(row, st), row)
         /\ Paid(SubmitError(row), row) /\ Grown(SubmitError(row), row)
         /\ Grown(SubmitResult(row), row)
<1> DEFINE n == row.step + 1
<1>1. Step(row).step = n
  BY DEF Step, TaskRow
<1>2. Reject(row).step = n
  BY DEF Reject, TaskRow
<1>3. Discard(row).step = row.step /\ Discard(row).status = "failed"
  BY DEF Discard, TaskRow
<1>4. Answered(row).step = n
  BY DEF Answered, Step, TaskRow
<1>5. \A st : StepTo(row, st).step = n
  BY DEF StepTo, Step, TaskRow
<1>6. Fail(row).step = row.step
  BY DEF Fail, TaskRow
<1>7. StartedRow(row).step = row.step /\ Paused(row).step = row.step
  BY DEF StartedRow, Paused, TaskRow
<1>8. \A st : To(row, st).step = row.step
  BY DEF To, TaskRow
<1>9. Fail(Reject(row)).step = n /\ Fail(Reject(row)).status = "failed"
  BY DEF Fail, Reject, TaskRow
<1>10. "failed" \in Terminal
  BY DEF Terminal
<1>11. SubmitError(row) \in {Discard(row), Fail(Reject(row)), Reject(row)}
  BY ZenonT(30) DEF SubmitError
<1>12. SubmitResult(row) \in {Discard(row), Step(row)}
  BY ZenonT(30) DEF SubmitResult
<1>13. Paid(SubmitError(row), row) /\ Grown(SubmitError(row), row)
  BY <1>2, <1>3, <1>9, <1>10, <1>11, ZenonT(30) DEF Paid, Grown
<1>14. Grown(SubmitResult(row), row)
  BY <1>1, <1>3, <1>12, ZenonT(30) DEF Grown
<1> QED
  BY <1>1, <1>2, <1>3, <1>4, <1>5, <1>6, <1>7, <1>8, <1>10, <1>13, <1>14, ZenonT(30) DEF Paid, Grown

\* No step takes back a step.
LEMMA StepsGrow ==
  ASSUME TypeInv, [Next]_vars, NEW t \in TaskIds, tasks[t].status # "none"
  PROVE  Grown(tasks'[t], tasks[t])
<1>0. tasks \in [TaskIds -> TaskRow]
  BY ZenonT(30) DEF TypeInv, TasksTyped
<1>1. CASE tasks' = tasks
  BY <1>1, ZenonT(30) DEF Grown
<1>2. ASSUME NEW u \in TaskIds, NEW r, Grown(r, tasks[u]), tasks' = [tasks EXCEPT ![u] = r]
      PROVE  Grown(tasks'[t], tasks[t])
  <2>1. CASE t = u
    BY <1>0, <1>2, <2>1, ZenonT(30)
  <2>2. CASE t # u
    <3>1. tasks'[t] = tasks[t]
      BY <1>0, <1>2, <2>2, ZenonT(30)
    <3> QED
      BY <3>1, ZenonT(30) DEF Grown
  <2> QED
    BY <2>1, <2>2, ZenonT(30)
<1>3. ASSUME NEW u \in TaskIds, NEW r, Grown(r, tasks[u]), NEW n \in NextId(tasks, MaxTasks), NEW q,
             tasks' = [tasks EXCEPT ![u] = r, ![n] = q]
      PROVE  Grown(tasks'[t], tasks[t])
  <2>0. t # n
    BY ZenonT(30) DEF NextId
  <2>1. CASE t = u
    BY <1>0, <1>3, <2>0, <2>1, ZenonT(30)
  <2>2. CASE t # u
    <3>1. tasks'[t] = tasks[t]
      BY <1>0, <1>3, <2>0, <2>2, ZenonT(30)
    <3> QED
      BY <3>1, ZenonT(30) DEF Grown
  <2> QED
    BY <2>1, <2>2
<1>4. ASSUME NEW n \in NextId(tasks, MaxTasks), NEW q, tasks' = [tasks EXCEPT ![n] = q]
      PROVE  Grown(tasks'[t], tasks[t])
  <2>1. t # n
    BY ZenonT(30) DEF NextId
  <2>2. tasks'[t] = tasks[t]
    BY <1>0, <1>4, <2>1, ZenonT(30)
  <2> QED
    BY <2>2 DEF Grown
<1>5. ASSUME NEW u \in TaskIds
      PROVE  LET row == tasks[u]
             IN  /\ Grown(Step(row), row) /\ Grown(Reject(row), row) /\ Grown(Discard(row), row)
                 /\ Grown(Answered(row), row) /\ Grown(StartedRow(row), row) /\ Grown(Paused(row), row)
                 /\ \A st : Grown(StepTo(row, st), row) /\ Grown(To(row, st), row)
                 /\ Grown(SubmitError(row), row) /\ Grown(SubmitResult(row), row)
  <2>1. tasks[u] \in TaskRow
    BY <1>0, ZenonT(30)
  <2> QED
    BY <2>1, RowCosts, ZenonT(30)
<1>6. ASSUME NEW c \in CallIds, Complete(c)
      PROVE  Grown(tasks'[t], tasks[t])
  <2> DEFINE u == calls[c].task
             row == tasks[u]
  <2>1. CASE tasks' = tasks
    BY <1>1, <2>1, ZenonT(30)
  <2>2. CASE Delivers(c)
    <3>1. u \in TaskIds
      BY <2>2, DeliveredTask
    <3>2. ASSUME NEW b \in Agents, NEW w \in BOOLEAN, Delegate(c, b, w)
          PROVE  \E n \in NextId(tasks, MaxTasks) : \E st, q :
                   tasks' = [tasks EXCEPT ![u] = StepTo(row, st), ![n] = q]
      BY <3>2, ZenonT(30) DEF Delegate, StepTo
    <3>3. \/ tasks' = tasks
          \/ tasks' = [tasks EXCEPT ![u] = Step(row)]
          \/ tasks' = [tasks EXCEPT ![u] = Reject(row)]
          \/ tasks' = [tasks EXCEPT ![u] = Discard(row)]
          \/ tasks' = [tasks EXCEPT ![u] = Answered(row)]
          \/ tasks' = [tasks EXCEPT ![u] = Paused(row)]
          \/ tasks' = [tasks EXCEPT ![u] = SubmitError(row)]
          \/ tasks' = [tasks EXCEPT ![u] = SubmitResult(row)]
          \/ \E st : tasks' = [tasks EXCEPT ![u] = StepTo(row, st)]
          \/ \E b \in Agents, w \in BOOLEAN : Delegate(c, b, w)
      <4>1. AmbiguousResult(c) => tasks' = [tasks EXCEPT ![u] = Paused(row)]
        BY ZenonT(30) DEF AmbiguousResult, Pause, Paused
      <4>2. FinalAnswer(c) => tasks' = [tasks EXCEPT ![u] = Answered(row)]
        BY DEF FinalAnswer, Answered
      <4>3. AwaitHuman(c) => tasks' = [tasks EXCEPT ![u] = StepTo(row, "waiting_human")]
        BY DEF AwaitHuman, StepTo
      <4>4. AwaitChildren(c) => \/ tasks' = [tasks EXCEPT ![u] = Reject(row)]
                                \/ tasks' = [tasks EXCEPT ![u] = StepTo(row, "waiting_children")]
        BY ZenonT(30) DEF AwaitChildren, StepTo
      <4>5. Note(c) \/ (\E a \in Agents : ApplyChange(c, a)) \/ (\E k \in ToolKinds : ToolCall(c, k)) =>
              tasks' = [tasks EXCEPT ![u] = Step(row)]
        BY DEF Note, ApplyChange, ToolCall
      <4>6. ReplyRejected(c) \/ (\E b \in Agents : DelegateRefused(c, b)) =>
              tasks' = [tasks EXCEPT ![u] = Reject(row)]
        BY DEF ReplyRejected, DelegateRefused
      <4>7. /\ ReplyDiscarded(c) => tasks' = [tasks EXCEPT ![u] = Discard(row)]
            /\ CallError(c) => tasks' = [tasks EXCEPT ![u] = SubmitError(row)]
            /\ ToolResult(c) => tasks' = [tasks EXCEPT ![u] = SubmitResult(row)]
            /\ CompleteStale(c) \/ CompleteSkipped(c) \/ ReplyRaises(c) => tasks' = tasks
        BY DEF ReplyDiscarded, CallError, ToolResult, CompleteStale, CompleteSkipped, ReplyRaises, Settle
      <4> QED
        BY <1>6, <4>1, <4>2, <4>3, <4>4, <4>5, <4>6, <4>7, ZenonT(30) DEF Complete, Submit
    <3> HIDE DEF u
    <3> QED
      BY <1>1, <1>2, <1>3, <1>5, <3>1, <3>2, <3>3, ZenonT(60)
  <2> QED
    BY <1>6, <2>1, <2>2, ZenonT(30)
       DEF Complete, CompleteStale, CompleteSkipped, ToolResult, CallError, AmbiguousResult, Submit,
           FinalAnswer, Note, ApplyChange, ReplyRejected, ReplyRaises, ReplyDiscarded, AwaitHuman,
           AwaitChildren, ToolCall, DelegateRefused, Delegate, Says, Answers
<1>7. ASSUME NEW c \in CallIds, Claim(c)
      PROVE  Grown(tasks'[t], tasks[t])
  <2>1. calls[c].task \in TaskIds
    BY <1>7, CallOfTask, ZenonT(30) DEF Claim, ClaimSend, ClaimPark, ClaimRefuse, Claimable
  <2>2. ClaimPark(c) =>
          tasks' = [tasks EXCEPT ![calls[c].task] = To(tasks[calls[c].task], "waiting_human")]
    BY ZenonT(30) DEF ClaimPark, To
  <2>3. ClaimRefuse(c) => tasks' = [tasks EXCEPT ![calls[c].task] = Discard(tasks[calls[c].task])]
    BY ZenonT(30) DEF ClaimRefuse, Settle
  <2> QED
    BY <1>1, <1>2, <1>5, <1>7, <2>1, <2>2, <2>3, ZenonT(30) DEF Claim, ClaimSend
<1>8. ASSUME NEW u \in TaskIds, Dispatch(u)
      PROVE  Grown(tasks'[t], tasks[t])
  <2> DEFINE row == tasks[u]
  <2>0. row \in TaskRow /\ StartedRow(row) \in TaskRow /\ StartedRow(row).step = row.step
        /\ Started(u) = StartedRow(row)
    <3>1. row \in TaskRow
      BY <1>0, ZenonT(30)
    <3>2. StartedRow(row) \in TaskRow
      BY <3>1, StatusMoves, ZenonT(30) DEF SameOwner
    <3>3. StartedRow(row).step = row.step
      BY <3>1 DEF StartedRow, TaskRow
    <3> QED
      BY <3>1, <3>2, <3>3, ZenonT(30) DEF Started, StartedRow
  <2>1. Grown(SubmitError(StartedRow(row)), row) /\ Grown(StartedRow(row), row)
    <3>1. Grown(SubmitError(StartedRow(row)), StartedRow(row))
      BY <2>0, RowCosts, ZenonT(30)
    <3> QED
      BY <1>5, <2>0, <3>1, ZenonT(30) DEF Grown
  <2>2. ASSUME NEW r, Grown(r, row), NEW root, NEW s, NEW ss,
               MaybeCompact(root, s, [tasks EXCEPT ![u] = r], ss)
        PROVE  Grown(tasks'[t], tasks[t])
    <3>1. \/ tasks' = [tasks EXCEPT ![u] = r]
          \/ \E n \in NextId(tasks, MaxTasks) : \E q : tasks' = [tasks EXCEPT ![u] = r, ![n] = q]
      BY <2>2, ZenonT(30) DEF MaybeCompact
    <3> QED
      BY <1>2, <1>3, <2>2, <3>1, ZenonT(30)
  <2>3. CASE DispatchDone(u)
    <3> DEFINE r == Fail(StartedRow(row))
               e == r.errs + 1
               q == [r EXCEPT !.errs = e]
    <3>1. r \in TaskRow /\ r.step = row.step
      BY <2>0, RowMoves DEF Fail, SameOwner, TaskRow
    <3>2. tasks' = [tasks EXCEPT ![u] = q]
      BY <2>0, <2>3 DEF DispatchDone, Settle
    <3> HIDE DEF r, e
    <3>3. q.step = row.step
      BY <3>1 DEF TaskRow
    <3>4. Grown(q, row)
      BY <3>3 DEF Grown
    <3> QED
      BY <1>2, <3>2, <3>4, ZenonT(30)
  <2>4. CASE DispatchLlm(u)
    <3>1. MaybeCompact(tasks[u].parent = 0, tasks[u].session, [tasks EXCEPT ![u] = StartedRow(row)], sessions)
      BY <2>0, <2>4, ZenonT(30) DEF DispatchLlm
    <3> QED
      BY <2>1, <2>2, <3>1
  <2>5. CASE DispatchNoProvider(u)
    <3>1. \E ss : MaybeCompact(tasks[u].parent = 0, tasks[u].session,
                               [tasks EXCEPT ![u] = SubmitError(StartedRow(row))], ss)
      BY <2>0, <2>5, ZenonT(30) DEF DispatchNoProvider
    <3> QED
      BY <2>1, <2>2, <3>1, ZenonT(30)
  <2> QED
    BY <1>8, <2>3, <2>4, <2>5, ZenonT(30) DEF Dispatch
<1>9. CASE Watchdog
  <2>1. ASSUME NEW c \in CallIds, Reclaim(c)
        PROVE  Grown(tasks'[t], tasks[t])
    <3>1. calls[c].task \in TaskIds
      BY <2>1, CallOfTask, ZenonT(30) DEF Reclaim
    <3>2. Pause(c) => tasks' = [tasks EXCEPT ![calls[c].task] = Paused(tasks[calls[c].task])]
      BY ZenonT(30) DEF Pause, Paused
    <3> QED
      BY <1>1, <1>2, <1>5, <2>1, <3>1, <3>2, ZenonT(30) DEF Reclaim, Settle
  <2>2. ASSUME NEW u \in TaskIds, NEW r \in {Step(tasks[u]), Reject(tasks[u])}
        PROVE  Grown(Fail(r), tasks[u])
    <3>1. tasks[u] \in TaskRow
      BY <1>0
    <3>2. r \in TaskRow
      BY <2>2, <3>1, RowMoves DEF SameOwner
    <3>3. Fail(r).step = r.step
      BY <3>2 DEF Fail, TaskRow
    <3> QED
      BY <1>5, <2>2, <3>3, ZenonT(30) DEF Grown
  <2>3. ASSUME NEW p \in ApprovalIds, ExpireApproval(p)
        PROVE  Grown(tasks'[t], tasks[t])
    <3>1. approvals[p].task \in TaskIds
      BY <2>3 DEF ExpireApproval, TypeInv, ApprovalsTyped
    <3> QED
      BY <1>1, <1>2, <2>2, <2>3, <3>1, ZenonT(30) DEF ExpireApproval, Settle
  <2>4. ASSUME NEW u \in TaskIds, TurnTimeout(u) \/ WakeParent(u)
        PROVE  Grown(tasks'[t], tasks[t])
    <3>1. WakeParent(u) => tasks' = [tasks EXCEPT ![u] = StepTo(tasks[u], "queued")]
      BY ZenonT(30) DEF WakeParent, StepTo
    <3>2. TurnTimeout(u) => tasks' = [tasks EXCEPT ![u] = Fail(Reject(tasks[u]))]
      BY DEF TurnTimeout, Settle
    <3> QED
      BY <1>2, <1>5, <2>2, <2>4, <3>1, <3>2, ZenonT(30)
  <2> QED
    BY <1>9, <2>1, <2>3, <2>4, ZenonT(30) DEF Watchdog
<1>10. CASE Operator
  <2>1. ASSUME NEW s \in SessionIds, CancelSession(s)
        PROVE  Grown(tasks'[t], tasks[t])
    <3>1. tasks'[t] = tasks[t] \/ tasks'[t] = StepTo(tasks[t], "cancelled")
      BY <2>1, ZenonT(30) DEF CancelSession, StepTo
    <3> QED
      BY <1>5, <3>1, ZenonT(30) DEF Grown
  <2>2. ASSUME NEW p \in ApprovalIds, NEW accept \in BOOLEAN, DecideApproval(p, accept)
        PROVE  Grown(tasks'[t], tasks[t])
    <3>1. approvals[p].task \in TaskIds
      BY <2>2 DEF DecideApproval, TypeInv, ApprovalsTyped
    <3>2. \/ tasks' = tasks
          \/ \E st : tasks' = [tasks EXCEPT ![approvals[p].task] = StepTo(tasks[approvals[p].task], st)]
      BY <2>2, ZenonT(30) DEF DecideApproval, Settle, StepTo
    <3> QED
      BY <1>1, <1>2, <1>5, <3>1, <3>2, ZenonT(30)
  <2> QED
    BY <1>1, <1>4, <1>10, <2>1, <2>2, ZenonT(30)
       DEF Operator, CreateSession, SetAgentActive, SetPermission, ContinueSession, SetRule, SetCap,
           SetProvider
<1> QED
  BY <1>1, <1>6, <1>7, <1>8, <1>9, <1>10, ZenonT(30) DEF Next, DropResult, WorkerCrash, ApprovalClock, vars
============================================================================
