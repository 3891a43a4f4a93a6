---------------------- MODULE TaskLifecycle_sessions ------------------------
(***************************************************************************)
(* Sessions end with their tasks and report their answer, agents stay      *)
(* within their slots, and delegation chains never come back to an agent,  *)
(* for every value of the constants.                                       *)
(***************************************************************************)
EXTENDS TaskLifecycle_proofs, FiniteSetTheorems

----------------------------------------------------------------------------
(* What a step does to tasks and sessions *)

\* An open task becomes row r.  It takes a slot only if it had one or fn_dispatch_tasks
\* found one free, and only its last step brings an answer.
RowStep(t, r) ==
  /\ tasks[t].status \in Open
  /\ SameOwner(r, tasks[t])
  /\ r.answer = tasks[t].answer \/ r.status = "completed"
  /\ r.status \in Open \cup Terminal
  /\ r.status \in Holding => tasks[t].status \in Holding \/ Eligible(t)

\* What becomes of a task that does not answer.
Unanswered == Open \cup {"failed"}

\* ts and ss are the tables after such a change and, when it ends the task,
\* maybe_complete_session; a task that is completed has given its answer.
MovesTo(t, r, ts, ss) ==
  /\ RowStep(t, r)
  /\ ts = [tasks EXCEPT ![t] = r]
  /\ \/ r.status \in Open /\ ss = sessions
     \/ r.status = "failed" /\ ss = MaybeComplete(ts, sessions, r.session)
     \/ /\ r.status = "completed" /\ r.answer
        /\ ss = MaybeComplete(ts, [sessions EXCEPT ![r.session].answer = t], r.session)

\* A session of agent a with its first task is added to ts and ss.
Begins(a, ts, ss) ==
  \E x \in NextId(sessions, MaxSessions), n \in NextId(tasks, MaxTasks), target \in Nat :
    /\ sessions' = [ss EXCEPT ![x] = NewSession(a, target)]
    /\ tasks' = [ts EXCEPT ![n] = NewTask(a, x, 0, 0)]

TablesStep ==
  \/ UNCHANGED <<tasks, sessions>>
  \/ \E t \in TaskIds : \E r :
       \/ MovesTo(t, r, tasks', sessions')
       \/ \E ts, ss : MovesTo(t, r, ts, ss) /\ Begins(Compactor, ts, ss)
  \/ \E a \in Agents : Begins(a, tasks, sessions)
  \/ \E c \in CallIds, b \in Agents, w \in BOOLEAN : Delegate(c, b, w)
  \/ \E s \in SessionIds : ContinueSession(s) \/ CancelSession(s)

\* The operators on rows that bring no answer.
LEMMA AnswerKept ==
  ASSUME NEW row \in TaskRow
  PROVE  /\ Step(row).answer = row.answer /\ Reject(row).answer = row.answer
         /\ Fail(row).answer = row.answer /\ Discard(row).answer = row.answer
         /\ Fail(Step(row)).answer = row.answer /\ Fail(Reject(row)).answer = row.answer
         /\ SubmitError(row).answer = row.answer /\ SubmitResult(row).answer = row.answer
         /\ \A st : To(row, st).answer = row.answer /\ StepTo(row, st).answer = row.answer
         /\ StartedRow(row).answer = row.answer /\ Paused(row).answer = row.answer
<1>1. /\ Step(row).answer = row.answer /\ Reject(row).answer = row.answer
      /\ Fail(row).answer = row.answer /\ Discard(row).answer = row.answer
  BY DEF TaskRow, Step, Reject, Fail, Discard
<1>2. Fail(Step(row)).answer = row.answer /\ Fail(Reject(row)).answer = row.answer
  BY DEF TaskRow, Step, Reject, Fail
<1>3. /\ \A st : To(row, st).answer = row.answer /\ StepTo(row, st).answer = row.answer
      /\ StartedRow(row).answer = row.answer /\ Paused(row).answer = row.answer
  BY DEF TaskRow, Step, To, StepTo, StartedRow, Paused
<1> QED
  BY <1>1, <1>2, <1>3, ZenonT(30) DEF SubmitError, SubmitResult

\* A task is failed after a last step, or is given its answer.
LEMMA LastMoves ==
  ASSUME NEW row \in TaskRow
  PROVE  /\ SameOwner(Fail(Step(row)), row) /\ Fail(Step(row)).status = "failed"
         /\ SameOwner(Fail(Reject(row)), row) /\ Fail(Reject(row)).status = "failed"
         /\ Answered(row).answer
<1>1. Step(row) \in TaskRow /\ Reject(row) \in TaskRow
  BY RowMoves, ZenonT(30) DEF SameOwner
<1>2. /\ SameOwner(Step(row), row) /\ SameOwner(Reject(row), row)
      /\ SameOwner(Fail(Step(row)), Step(row)) /\ Fail(Step(row)).status = "failed"
      /\ SameOwner(Fail(Reject(row)), Reject(row)) /\ Fail(Reject(row)).status = "failed"
  BY <1>1, RowMoves, ZenonT(30)
<1>3. Answered(row).answer
  BY <1>1, SMTT(30), Z3T(30) DEF Answered, TaskRow
<1> QED
  BY <1>2, <1>3, ZenonT(30) DEF SameOwner

\* A change followed by maybe_complete_session, which leaves the session of an open task alone.
LEMMA SettleMoves ==
  ASSUME TypeInv, NEW t \in TaskIds, NEW r, RowStep(t, r), r.status \in Unanswered, NEW ts, NEW ss,
         ts = [tasks EXCEPT ![t] = r], ss = MaybeComplete(ts, sessions, r.session)
  PROVE  MovesTo(t, r, ts, ss)
<1>1. CASE r.status \in Open
  <2>1. ts[t] = r
    BY DEF TypeInv, TasksTyped
  <2>2. OpenIn(ts, r.session)
    BY <1>1, <2>1, ZenonT(30) DEF OpenIn
  <2>3. ss = sessions
    BY <2>2, ZenonT(30) DEF MaybeComplete
  <2> QED
    BY <1>1, <2>3, ZenonT(30) DEF MovesTo
<1>2. CASE r.status = "failed"
  BY <1>2, ZenonT(30) DEF MovesTo
<1> QED
  BY <1>1, <1>2, ZenonT(30) DEF Unanswered

\* A task that holds a slot may become any row of the same owner.
LEMMA HolderMoves ==
  ASSUME TypeInv, NEW t \in TaskIds, tasks[t].status \in Holding,
         NEW r, SameOwner(r, tasks[t]), r.status # "none",
         r.answer = tasks[t].answer \/ r.status = "completed"
  PROVE  RowStep(t, r)
<1>1. r.status \in Open \cup Terminal
  BY DEF SameOwner, TaskRow
<1> QED
  BY <1>1, ZenonT(30) DEF RowStep, Open

\* Every way a result is reported.
LEMMA CompleteMoves ==
  ASSUME TypeInv, NEW c \in CallIds, Complete(c)
  PROVE  TablesStep
<1> DEFINE t == calls[c].task
           row == tasks[t]
<1>0. Delivers(c) => t \in TaskIds /\ row.status = "running" /\ row \in TaskRow
  BY DeliveredTask
<1>h. row.status = "running" => tasks[t].status \in Holding
  BY DEF Holding
<1>o. /\ "running" \in Open /\ "waiting_human" \in Open /\ "waiting_children" \in Open
      /\ "completed" \in Terminal /\ "none" \notin Unanswered /\ {"running", "failed"} \subseteq Unanswered
  BY DEF Open, Holding, Terminal, Unanswered
<1> HIDE DEF t, row
<1>1. ASSUME Delivers(c), NEW r, SameOwner(r, row), r.answer = row.answer,
             r.status \in Unanswered, Settle(t, r)
      PROVE  TablesStep
  <2>1. RowStep(t, r)
    BY <1>0, <1>h, <1>1, <1>o, HolderMoves, ZenonT(30) DEF row
  <2>2. MovesTo(t, r, tasks', sessions')
    BY <1>0, <1>1, <2>1, SettleMoves, ZenonT(30) DEF Settle
  <2> QED
    BY <1>0, <1>1, <2>2, ZenonT(30) DEF TablesStep
<1>2. ASSUME Delivers(c), NEW r, SameOwner(r, row), r.answer = row.answer, r.status \in Open,
             tasks' = [tasks EXCEPT ![t] = r], sessions' = sessions
      PROVE  TablesStep
  <2>0. r.status # "none"
    BY <1>2 DEF Open, Holding
  <2>1. RowStep(t, r)
    BY <1>0, <1>h, <1>2, <2>0, HolderMoves, ZenonT(30) DEF row
  <2>2. MovesTo(t, r, tasks', sessions')
    BY <1>2, <2>1, ZenonT(30) DEF MovesTo
  <2> QED
    BY <1>0, <1>2, <2>2, ZenonT(30) DEF TablesStep
<1>3. CASE CompleteStale(c) \/ CompleteSkipped(c) \/ ReplyRaises(c)
  BY <1>3, ZenonT(30) DEF CompleteStale, CompleteSkipped, ReplyRaises, TablesStep
<1>4. CASE ToolResult(c)
  <2>1. Delivers(c) /\ Settle(t, SubmitResult(row))
    BY <1>4 DEF ToolResult, t, row
  <2>2. SameOwner(SubmitResult(row), row) /\ SubmitResult(row).status \in Unanswered
    BY <2>1, <1>0, <1>o, SubmitMoves, ZenonT(30)
  <2> QED
    BY <1>0, <1>1, <2>1, <2>2, AnswerKept, ZenonT(30)
<1>5. CASE CallError(c)
  <2>1. Delivers(c) /\ Settle(t, SubmitError(row))
    BY <1>5 DEF CallError, t, row
  <2>2. SameOwner(SubmitError(row), row) /\ SubmitError(row).status \in Unanswered
    BY <2>1, <1>0, <1>o, SubmitMoves, ZenonT(30)
  <2> QED
    BY <1>0, <1>1, <2>1, <2>2, AnswerKept, ZenonT(30)
<1>6. CASE ReplyDiscarded(c)
  <2>1. Delivers(c) /\ Settle(t, Discard(row))
    BY <1>6 DEF ReplyDiscarded, Answers, t, row
  <2>2. SameOwner(Discard(row), row) /\ Discard(row).status \in Unanswered
    BY <2>1, <1>0, <1>o, RowMoves, ZenonT(30)
  <2> QED
    BY <1>0, <1>1, <2>1, <2>2, AnswerKept, ZenonT(30)
<1>7. CASE AmbiguousResult(c)
  <2>1. Delivers(c) /\ tasks' = [tasks EXCEPT ![t] = Paused(row)] /\ sessions' = sessions
    BY <1>7, ZenonT(30) DEF AmbiguousResult, Pause, Paused, t, row
  <2>2. SameOwner(Paused(row), row) /\ Paused(row).status \in Open
    BY <2>1, <1>0, <1>o, StatusMoves, ZenonT(30)
  <2> QED
    BY <1>0, <1>2, <2>1, <2>2, AnswerKept, ZenonT(30)
<1>8. CASE FinalAnswer(c)
  <2> DEFINE r == Answered(row)
  <2>1. Delivers(c)
    BY <1>8, ZenonT(30) DEF FinalAnswer, Says, Answers
  <2>2. SameOwner(r, row) /\ r.status = "completed" /\ r.answer
    <3>1. r.answer
      BY <2>1, <1>0, LastMoves, ZenonT(30)
    <3> QED
      BY <2>1, <1>0, <3>1, StatusMoves, ZenonT(30)
  <2>3. /\ tasks' = [tasks EXCEPT ![t] = r]
        /\ sessions' = MaybeComplete(tasks', [sessions EXCEPT ![row.session].answer = t], row.session)
    BY <1>8, ZenonT(30) DEF FinalAnswer, Answered, t, row
  <2> HIDE DEF r
  <2>4. r.session = row.session /\ r.status # "none" /\ r.status \in Terminal
    BY <2>2, <1>o, ZenonT(30) DEF SameOwner
  <2>5. RowStep(t, r)
    BY <1>0, <1>h, <2>1, <2>2, <2>4, HolderMoves, ZenonT(30) DEF row
  <2>6. MovesTo(t, r, tasks', sessions')
    BY <2>2, <2>3, <2>4, <2>5, ZenonT(30) DEF MovesTo
  <2> QED
    BY <1>0, <2>1, <2>6, ZenonT(30) DEF TablesStep
<1>9. CASE Note(c) \/ (\E k \in ToolKinds : ToolCall(c, k)) \/ (\E a \in Agents : ApplyChange(c, a))
  <2>1. Delivers(c) /\ tasks' = [tasks EXCEPT ![t] = Step(row)] /\ sessions' = sessions
    BY <1>9, ZenonT(30) DEF Note, ToolCall, ApplyChange, Says, Answers, t, row
  <2>2. SameOwner(Step(row), row) /\ Step(row).status \in Open
    BY <2>1, <1>0, <1>o, RowMoves, ZenonT(30)
  <2> QED
    BY <1>0, <1>2, <2>1, <2>2, AnswerKept, ZenonT(30)
<1>10. CASE ReplyRejected(c) \/ \E b \in Agents : DelegateRefused(c, b)
  <2>1. Delivers(c) /\ tasks' = [tasks EXCEPT ![t] = Reject(row)] /\ sessions' = sessions
    BY <1>10, ZenonT(30) DEF ReplyRejected, DelegateRefused, Says, Answers, t, row
  <2>2. SameOwner(Reject(row), row) /\ Reject(row).status \in Open
    BY <2>1, <1>0, <1>o, RowMoves, ZenonT(30)
  <2> QED
    BY <1>0, <1>2, <2>1, <2>2, AnswerKept, ZenonT(30)
<1>11. CASE AwaitHuman(c)
  <2>1. Delivers(c) /\ tasks' = [tasks EXCEPT ![t] = StepTo(row, "waiting_human")] /\ sessions' = sessions
    BY <1>11, ZenonT(30) DEF AwaitHuman, StepTo, Says, Answers, t, row
  <2>2. /\ SameOwner(StepTo(row, "waiting_human"), row)
        /\ StepTo(row, "waiting_human").status \in Open
    BY <2>1, <1>0, <1>o, StatusMoves, ZenonT(30) DEF Statuses
  <2> QED
    BY <1>0, <1>2, <2>1, <2>2, AnswerKept, ZenonT(30)
<1>12. CASE AwaitChildren(c)
  <2> DEFINE r == IF Unfinished(t) = {} THEN Reject(row) ELSE StepTo(row, "waiting_children")
  <2>1. Delivers(c) /\ tasks' = [tasks EXCEPT ![t] = r] /\ sessions' = sessions
    BY <1>12, ZenonT(30) DEF AwaitChildren, StepTo, Says, Answers, t, row
  <2>2. SameOwner(r, row) /\ r.status \in Open
    BY <2>1, <1>0, <1>o, StatusMoves, RowMoves, SMTT(30), Z3T(30) DEF Statuses
  <2>3. r.answer = row.answer
    BY <2>1, <1>0, AnswerKept, ZenonT(30)
  <2> QED
    BY <1>2, <2>1, <2>2, <2>3, ZenonT(30)
<1>13. CASE \E b \in Agents : \E w \in BOOLEAN : Delegate(c, b, w)
  BY <1>13, ZenonT(30) DEF TablesStep
<1> QED
  BY <1>3, <1>4, <1>5, <1>6, <1>7, <1>8, <1>9, <1>10, <1>11, <1>12, <1>13, ZenonT(30)
     DEF Complete, Submit

\* One iteration of fn_dispatch_tasks, with the compaction it may start.
LEMMA DispatchMoves ==
  ASSUME TypeInv, NEW t \in TaskIds, Dispatch(t)
  PROVE  TablesStep
<1> DEFINE row == tasks[t]
<1>0. /\ Eligible(t) /\ row.status \in Open /\ row.status # "none" /\ row \in TaskRow
      /\ row.session \in Nat
  BY ZenonT(30), ZenonT(30)
     DEF TypeInv, TasksTyped, TaskRow, Dispatch, DispatchDone, DispatchLlm, DispatchNoProvider,
         GoesOn, Eligible, Open, Holding
<1>1. Started(t) = StartedRow(row)
  BY ZenonT(30) DEF Started, StartedRow
<1>2. StartedRow(row) \in TaskRow /\ SameOwner(StartedRow(row), row)
      /\ StartedRow(row).status = "running"
  BY <1>0, StatusMoves, ZenonT(30) DEF SameOwner
<1> HIDE DEF row
<1>a. StartedRow(row).answer = row.answer
  BY <1>0, AnswerKept
<1>3. ASSUME NEW r, SameOwner(r, row), r.status # "none", r.answer = row.answer
      PROVE  RowStep(t, r)
  <2>1. r.status \in Open \cup Terminal
    BY <1>3 DEF SameOwner, TaskRow
  <2> QED
    BY <1>0, <1>3, <2>1, ZenonT(30) DEF RowStep, row
<1>4. ASSUME NEW r, NEW ts, NEW ss, MovesTo(t, r, ts, ss),
             MaybeCompact(row.parent = 0, row.session, ts, ss)
      PROVE  TablesStep
  <2>1. CASE tasks' = ts /\ sessions' = ss
    BY <1>4, <2>1, ZenonT(30) DEF TablesStep
  <2>2. CASE ~(tasks' = ts /\ sessions' = ss)
    <3>1. Begins(Compactor, ts, ss)
      BY <1>0, <1>4, <2>2, ZenonT(30) DEF MaybeCompact, Begins
    <3> QED
      BY <1>4, <3>1, ZenonT(30) DEF TablesStep
  <2> QED
    BY <2>1, <2>2, ZenonT(30)
<1>5. CASE DispatchDone(t)
  <2> DEFINE r == Fail(StartedRow(row))
             n == r.errs + 1
             q == [r EXCEPT !.errs = n]
  <2>1. SameOwner(r, row) /\ r.status = "failed" /\ r.answer = row.answer
    BY <1>2, <1>a, RowMoves, AnswerKept, ZenonT(30) DEF SameOwner
  <2>2. n \in Nat
    BY <2>1 DEF SameOwner, TaskRow
  <2>3. Settle(t, q)
    BY <1>1, <1>5, ZenonT(30) DEF DispatchDone
  <2> HIDE DEF r, n
  <2>4. SameOwner(q, row) /\ q.status = "failed" /\ q.answer = row.answer
    BY <2>1, <2>2, ZenonT(30) DEF SameOwner, TaskRow
  <2> HIDE DEF q
  <2>5. MovesTo(t, q, tasks', sessions')
    BY <1>3, <2>3, <2>4, SettleMoves, ZenonT(30) DEF Settle, Unanswered
  <2> QED
    BY <2>5, ZenonT(30) DEF TablesStep
<1>6. CASE DispatchLlm(t)
  <2> DEFINE ts == [tasks EXCEPT ![t] = StartedRow(row)]
  <2>1. MaybeCompact(row.parent = 0, row.session, ts, sessions)
    BY <1>1, <1>6, ZenonT(30) DEF DispatchLlm, row
  <2>2. RowStep(t, StartedRow(row))
    BY <1>2, <1>3, <1>a, ZenonT(30)
  <2>3. MovesTo(t, StartedRow(row), ts, sessions)
    BY <1>2, <2>2, ZenonT(30) DEF MovesTo, Open, Holding
  <2> QED
    BY <1>4, <2>1, <2>3, ZenonT(30)
<1>7. CASE DispatchNoProvider(t)
  <2> DEFINE r == SubmitError(StartedRow(row))
             ts == [tasks EXCEPT ![t] = r]
             ss == MaybeComplete(ts, sessions, row.session)
  <2>1. SameOwner(r, row) /\ r.status \in {"running", "failed"} /\ r.answer = row.answer
    BY <1>2, <1>a, SubmitMoves, AnswerKept, ZenonT(30) DEF SameOwner
  <2>2. MaybeCompact(row.parent = 0, row.session, ts, ss)
    BY <1>1, <1>7 DEF DispatchNoProvider, row
  <2> HIDE DEF r
  <2>3. r.session = row.session /\ RowStep(t, r)
    BY <1>3, <2>1 DEF SameOwner
  <2>4. MovesTo(t, r, ts, ss)
    BY <2>1, <2>3, SettleMoves DEF Unanswered, Open, Holding
  <2> HIDE DEF ts, ss
  <2> QED
    BY <1>4, <2>2, <2>4, ZenonT(30)
<1> QED
  BY <1>5, <1>6, <1>7, ZenonT(30) DEF Dispatch

\* One iteration of a claim.
LEMMA ClaimMoves ==
  ASSUME TypeInv, NEW c \in CallIds, Claim(c)
  PROVE  TablesStep
<1> DEFINE t == calls[c].task
           row == tasks[t]
<1>0. t \in TaskIds /\ row \in TaskRow /\ row.status = "running"
  BY CallOfTask, ZenonT(30) DEF Claim, ClaimSend, ClaimPark, ClaimRefuse, Claimable
<1>h. tasks[t].status \in Holding
  BY <1>0 DEF Holding
<1> HIDE DEF t, row
<1>1. CASE ClaimSend(c)
  BY <1>1, ZenonT(30) DEF ClaimSend, TablesStep
<1>2. CASE ClaimPark(c)
  <2> DEFINE r == To(row, "waiting_human")
  <2>1. SameOwner(r, row) /\ r.status = "waiting_human" /\ r.answer = row.answer
    BY <1>0, StatusMoves, AnswerKept, ZenonT(30) DEF Statuses, Open, Holding
  <2>2. tasks' = [tasks EXCEPT ![t] = r] /\ sessions' = sessions
    BY <1>2, ZenonT(30) DEF ClaimPark, To, t, row
  <2> HIDE DEF r
  <2>3. RowStep(t, r)
    BY <1>0, <1>h, <2>1, HolderMoves, ZenonT(30) DEF row
  <2>4. MovesTo(t, r, tasks', sessions')
    BY <2>1, <2>2, <2>3, ZenonT(30) DEF MovesTo, Open, Holding
  <2> QED
    BY <1>0, <2>4, ZenonT(30) DEF TablesStep
<1>3. CASE ClaimRefuse(c)
  <2>1. /\ SameOwner(Discard(row), row) /\ Discard(row).status = "failed"
        /\ Discard(row).answer = row.answer
    BY <1>0, RowMoves, AnswerKept, ZenonT(30)
  <2>2. RowStep(t, Discard(row)) /\ Settle(t, Discard(row))
    BY <1>0, <1>3, <1>h, <2>1, HolderMoves, ZenonT(30) DEF ClaimRefuse, t, row
  <2>3. MovesTo(t, Discard(row), tasks', sessions')
    BY <1>0, <2>1, <2>2, SettleMoves, ZenonT(30) DEF Settle, Unanswered
  <2> QED
    BY <1>0, <2>3, ZenonT(30) DEF TablesStep
<1> QED
  BY <1>1, <1>2, <1>3 DEF Claim

\* The loops of fn_watchdog.
LEMMA WatchdogMoves ==
  ASSUME TypeInv, Watchdog
  PROVE  TablesStep
<1>0. tasks \in [TaskIds -> TaskRow]
  BY DEF TypeInv, TasksTyped
<1>1. ASSUME NEW t \in TaskIds, tasks[t].status \in Holding,
             NEW r, SameOwner(r, tasks[t]), r.answer = tasks[t].answer,
             r.status \in {"running", "failed"}, Settle(t, r)
      PROVE  TablesStep
  <2>1. RowStep(t, r) /\ r.status \in Unanswered
    BY <1>1, HolderMoves, ZenonT(30) DEF Unanswered, Open, Holding
  <2>2. MovesTo(t, r, tasks', sessions')
    BY <1>1, <2>1, SettleMoves, ZenonT(30) DEF Settle
  <2> QED
    BY <2>2, ZenonT(30) DEF TablesStep
<1>2. ASSUME NEW t \in TaskIds, tasks[t].status \in Holding,
             NEW r, SameOwner(r, tasks[t]), r.answer = tasks[t].answer, r.status \in Open,
             tasks' = [tasks EXCEPT ![t] = r], sessions' = sessions
      PROVE  TablesStep
  <2>0. r.status # "none"
    BY <1>2, ZenonT(30) DEF Open, Holding
  <2>1. RowStep(t, r)
    BY <1>2, <2>0, HolderMoves, ZenonT(30)
  <2>2. MovesTo(t, r, tasks', sessions')
    BY <1>2, <2>1, ZenonT(30) DEF MovesTo
  <2> QED
    BY <2>2, ZenonT(30) DEF TablesStep
<1>o. {"running", "waiting_human", "waiting_children"} \subseteq Holding
      /\ {"waiting_human", "queued"} \subseteq Open
  BY DEF Open, Holding
<1>3. ASSUME NEW c \in CallIds, Reclaim(c)
      PROVE  TablesStep
  <2> DEFINE t == calls[c].task
             row == tasks[t]
  <2>1. t \in TaskIds /\ row \in TaskRow
    BY <1>3, CallOfTask, ZenonT(30) DEF Reclaim
  <2>2. /\ SameOwner(Paused(row), row) /\ Paused(row).status = "waiting_human"
        /\ Paused(row).answer = row.answer
    BY <2>1, StatusMoves, AnswerKept, ZenonT(30)
  <2>3. row.status = "running" => /\ SameOwner(SubmitError(row), row)
                                /\ SubmitError(row).status \in {"running", "failed"}
                                /\ SubmitError(row).answer = row.answer
    BY <2>1, SubmitMoves, AnswerKept, ZenonT(30)
  <2>4. \/ /\ row.status = "running"
           /\ tasks' = [tasks EXCEPT ![t] = Paused(row)] /\ sessions' = sessions
        \/ row.status = "running" /\ Settle(t, SubmitError(row))
        \/ UNCHANGED <<tasks, sessions>>
    BY <1>3, ZenonT(30) DEF Reclaim, Pause, Paused
  <2> HIDE DEF t
  <2>5. CASE /\ row.status = "running"
             /\ tasks' = [tasks EXCEPT ![t] = Paused(row)] /\ sessions' = sessions
    BY <1>2, <1>o, <2>1, <2>2, <2>5, ZenonT(30)
  <2>6. CASE row.status = "running" /\ Settle(t, SubmitError(row))
    BY <1>1, <1>o, <2>1, <2>3, <2>6, ZenonT(30)
  <2>7. CASE UNCHANGED <<tasks, sessions>>
    BY <2>7, ZenonT(30) DEF TablesStep
  <2> QED
    BY <2>4, <2>5, <2>6, <2>7, ZenonT(30)
<1>4. ASSUME NEW p \in ApprovalIds, ExpireApproval(p)
      PROVE  TablesStep
  <2> DEFINE t == approvals[p].task
             r == Fail(Step(tasks[t]))
  <2>1. t \in TaskIds /\ tasks[t] \in TaskRow
    BY <1>4, ZenonT(30) DEF TypeInv, TasksTyped, ApprovalsTyped, ExpireApproval
  <2>2. SameOwner(r, tasks[t]) /\ r.status = "failed" /\ r.answer = tasks[t].answer
    <3>1. SameOwner(r, tasks[t]) /\ r.status = "failed"
      BY <2>1, LastMoves, ZenonT(30)
    <3>2. r.answer = tasks[t].answer
      BY <2>1, AnswerKept, ZenonT(30)
    <3> QED
      BY <3>1, <3>2, ZenonT(30)
  <2>3. \/ tasks[t].status = "waiting_human" /\ Settle(t, r)
        \/ UNCHANGED <<tasks, sessions>>
    BY <1>4 DEF ExpireApproval
  <2> HIDE DEF t, r
  <2>4. CASE tasks[t].status = "waiting_human" /\ Settle(t, r)
    BY <1>1, <1>o, <2>1, <2>2, <2>4, ZenonT(30)
  <2>5. CASE UNCHANGED <<tasks, sessions>>
    BY <2>5, ZenonT(30) DEF TablesStep
  <2> QED
    BY <2>3, <2>4, <2>5, ZenonT(30)
<1>5. ASSUME NEW t \in TaskIds, TurnTimeout(t)
      PROVE  TablesStep
  <2> DEFINE r == Fail(Reject(tasks[t]))
  <2>1. SameOwner(r, tasks[t]) /\ r.status = "failed" /\ r.answer = tasks[t].answer
    BY <1>0, LastMoves, AnswerKept, ZenonT(30)
  <2>2. tasks[t].status \in Holding /\ Settle(t, r)
    BY <1>5 DEF TurnTimeout
  <2> HIDE DEF r
  <2> QED
    BY <1>1, <2>1, <2>2, ZenonT(30)
<1>6. ASSUME NEW t \in TaskIds, WakeParent(t)
      PROVE  TablesStep
  <2> DEFINE r == StepTo(tasks[t], "queued")
  <2>1. SameOwner(r, tasks[t]) /\ r.status = "queued" /\ r.answer = tasks[t].answer
    <3>1. "queued" \in Statuses
      BY ZenonT(30) DEF Statuses, Open
    <3> QED
      BY <1>0, <3>1, StatusMoves, AnswerKept, ZenonT(30)
  <2>2. tasks[t].status = "waiting_children" /\ tasks' = [tasks EXCEPT ![t] = r] /\ sessions' = sessions
    BY <1>6, ZenonT(30) DEF WakeParent, StepTo
  <2> HIDE DEF r
  <2> QED
    BY <1>2, <1>o, <2>1, <2>2, ZenonT(30)
<1> QED
  BY <1>3, <1>4, <1>5, <1>6, ZenonT(30) DEF Watchdog

\* The functions an operator calls.
LEMMA OperatorMoves ==
  ASSUME TypeInv, Operator
  PROVE  TablesStep
<1>1. ASSUME NEW a \in Agents, CreateSession(a)
      PROVE  TablesStep
  <2>1. Begins(a, tasks, sessions)
    <3>1. 0 \in Nat
      OBVIOUS
    <3> QED
      BY <1>1, <3>1, ZenonT(30) DEF CreateSession, Begins
  <2> QED
    BY <2>1, ZenonT(30) DEF TablesStep
<1>2. ASSUME NEW p \in ApprovalIds, NEW accept \in BOOLEAN, DecideApproval(p, accept)
      PROVE  TablesStep
  <2> DEFINE t == approvals[p].task
             st == IF ~accept THEN "failed"
                   ELSE IF approvals[p].why = "guard" THEN "running" ELSE "queued"
             r == StepTo(tasks[t], st)
  <2>1. t \in TaskIds /\ tasks[t] \in TaskRow
    BY <1>2, ZenonT(30) DEF TypeInv, TasksTyped, ApprovalsTyped, DecideApproval
  <2>2. st \in Statuses \ {"none"} /\ st \in Unanswered
    BY ZenonT(30) DEF Statuses, Open, Holding, Terminal, Unanswered
  <2>3. \/ tasks[t].status = "waiting_human" /\ Settle(t, r)
        \/ UNCHANGED <<tasks, sessions>>
    BY <1>2, ZenonT(30) DEF DecideApproval, StepTo
  <2> HIDE DEF t, st
  <2>4. /\ SameOwner(r, tasks[t]) /\ r.status # "none" /\ r.status \in Unanswered
        /\ r.answer = tasks[t].answer
    BY <2>1, <2>2, StatusMoves, AnswerKept, ZenonT(30)
  <2> HIDE DEF r
  <2>5. CASE tasks[t].status = "waiting_human" /\ Settle(t, r)
    <3>1. tasks[t].status \in Holding
      BY <2>5, ZenonT(30) DEF Holding
    <3>2. RowStep(t, r)
      BY <2>1, <2>4, <3>1, HolderMoves, ZenonT(30)
    <3>3. MovesTo(t, r, tasks', sessions')
      BY <2>1, <2>4, <2>5, <3>2, SettleMoves, ZenonT(30) DEF Settle
    <3> QED
      BY <2>1, <3>3, ZenonT(30) DEF TablesStep
  <2>6. CASE UNCHANGED <<tasks, sessions>>
    BY <2>6, ZenonT(30) DEF TablesStep
  <2> QED
    BY <2>3, <2>5, <2>6, ZenonT(30)
<1>3. CASE \E s \in SessionIds : ContinueSession(s) \/ CancelSession(s)
  BY <1>3, ZenonT(30) DEF TablesStep
<1>4. CASE UNCHANGED <<tasks, sessions>>
  BY <1>4, ZenonT(30) DEF TablesStep
<1> QED
  BY <1>1, <1>2, <1>3, <1>4, ZenonT(30)
     DEF Operator, SetAgentActive, SetPermission, SetRule, SetCap, SetProvider

\* Every step of the engine changes tasks and sessions in one of these ways.
LEMMA Steps ==
  ASSUME TypeInv, [Next]_vars
  PROVE  TablesStep
<1>1. CASE UNCHANGED <<tasks, sessions>>
  BY <1>1, ZenonT(30) DEF TablesStep
<1> QED
  BY <1>1, OperatorMoves, WatchdogMoves, DispatchMoves, ClaimMoves, CompleteMoves, ZenonT(30)
     DEF Next, DropResult, WorkerCrash, ApprovalClock, vars

----------------------------------------------------------------------------
(* Sessions and their tasks *)

\* SessionOpenIffWork and RootAnswerWins of session s, for tables ts and ss.
SessionFits(ts, ss, s) ==
  /\ ss[s].status = "open" <=> OpenIn(ts, s)
  /\ ss[s].status = "completed" /\ RootAnswer(ts, s) # {} => ss[s].answer \in RootAnswer(ts, s)

Fits(ts, ss) == \A s \in SessionIds : SessionFits(ts, ss, s)

InSession(ts, t, s) == ts[t].session = s /\ ts[t].status # "none"

\* A session fits as before when its row and its tasks are as before.
LEMMA Untouched ==
  ASSUME NEW ts, NEW us, NEW ss, NEW zz, NEW s \in SessionIds,
         \A t \in TaskIds : us[t] = ts[t] \/ ~(InSession(ts, t, s) \/ InSession(us, t, s)),
         zz[s] = ss[s],
         SessionFits(ts, ss, s)
  PROVE  SessionFits(us, zz, s)
<1>1. OpenIn(us, s) <=> OpenIn(ts, s)
  BY ZenonT(30) DEF OpenIn, InSession, Open, Holding
<1>2. CompletedRoots(us, s) = CompletedRoots(ts, s)
  BY ZenonT(30) DEF CompletedRoots, InSession
<1>3. \A t \in CompletedRoots(ts, s) : us[t] = ts[t]
  BY ZenonT(30) DEF CompletedRoots, InSession
<1>4. RootAnswer(us, s) = RootAnswer(ts, s)
  BY <1>2, <1>3, ZenonT(30) DEF RootAnswer
<1> QED
  BY <1>1, <1>4, ZenonT(30) DEF SessionFits

\* maybe_complete_session leaves every other session alone, and makes the session it is
\* called for fit.
LEMMA MaybeCompleteFits ==
  ASSUME NEW ts, NEW ss \in [SessionIds -> SessionRow], NEW s \in SessionIds,
         ss[s].status = "open"
  PROVE  /\ \A x \in SessionIds \ {s} : MaybeComplete(ts, ss, s)[x] = ss[x]
         /\ SessionFits(ts, MaybeComplete(ts, ss, s), s)
<1> DEFINE zz == MaybeComplete(ts, ss, s)
           answered == RootAnswer(ts, s)
           answer == IF answered = {} THEN ss[s].answer ELSE CHOOSE t \in answered : TRUE
<1>1. CASE OpenIn(ts, s)
  <2>1. zz = ss
    BY <1>1, ZenonT(30) DEF MaybeComplete
  <2> QED
    BY <1>1, <2>1, ZenonT(30) DEF SessionFits
<1>2. CASE ~OpenIn(ts, s)
  <2>1. \/ zz = [ss EXCEPT ![s].status = "failed"]
        \/ zz = [ss EXCEPT ![s].status = "completed", ![s].answer = answer]
    BY <1>2, ZenonT(30) DEF MaybeComplete
  <2>2. answered # {} => answer \in answered
    BY ZenonT(30)
  <2> HIDE DEF zz, answer
  <2>3. CASE zz = [ss EXCEPT ![s].status = "failed"]
    <3>1. zz[s].status = "failed" /\ \A x \in SessionIds \ {s} : zz[x] = ss[x]
      BY <2>3 DEF SessionRow
    <3> QED
      BY <1>2, <3>1, ZenonT(30) DEF SessionFits, zz
  <2>4. CASE zz = [ss EXCEPT ![s].status = "completed", ![s].answer = answer]
    <3>1. zz[s].status = "completed" /\ zz[s].answer = answer
          /\ \A x \in SessionIds \ {s} : zz[x] = ss[x]
      BY <2>4 DEF SessionRow
    <3> QED
      BY <1>2, <2>2, <3>1, ZenonT(30) DEF SessionFits, zz
  <2> QED
    BY <2>1, <2>3, <2>4, ZenonT(30)
<1> QED
  BY <1>1, <1>2, ZenonT(30)

\* A task that moves on keeps every session fitting, and touches no row out of use.
LEMMA MovesFit ==
  ASSUME TypeInv, Fits(tasks, sessions), NEW t \in TaskIds, NEW r, NEW ts, NEW ss,
         MovesTo(t, r, ts, ss)
  PROVE  /\ Fits(ts, ss)
         /\ \A u \in TaskIds : tasks[u].status = "none" => ts[u] = tasks[u]
         /\ DOMAIN ts = TaskIds /\ DOMAIN ss = SessionIds
<1> DEFINE s == tasks[t].session
<1>0. /\ tasks \in [TaskIds -> TaskRow] /\ sessions \in [SessionIds -> SessionRow]
      /\ tasks[t].status \in Open /\ s \in SessionIds /\ r.session = s
  BY ZenonT(30) DEF TypeInv, TasksTyped, MovesTo, RowStep, SameOwner, Open, Holding
<1>1. ts[t] = r /\ \A u \in TaskIds \ {t} : ts[u] = tasks[u]
  BY <1>0 DEF MovesTo
<1>2. sessions[s].status = "open"
  BY <1>0, ZenonT(30) DEF Fits, SessionFits, OpenIn
<1>3. /\ \A x \in SessionIds \ {s} : ss[x] = sessions[x]
      /\ SessionFits(ts, ss, s) /\ DOMAIN ss = SessionIds
  <2>1. CASE r.status \in Open /\ ss = sessions
    <3>1. OpenIn(ts, s)
      BY <1>0, <1>1, <2>1, ZenonT(30) DEF OpenIn
    <3>2. SessionFits(ts, ss, s)
      BY <1>2, <2>1, <3>1, ZenonT(30) DEF SessionFits
    <3> QED
      BY <1>0, <2>1, <3>2, ZenonT(30)
  <2>2. ASSUME NEW zz \in {sessions, [sessions EXCEPT ![r.session].answer = t]},
               ss = MaybeComplete(ts, zz, r.session)
        PROVE  /\ \A x \in SessionIds \ {s} : ss[x] = sessions[x]
               /\ SessionFits(ts, ss, s) /\ DOMAIN ss = SessionIds
    <3>1. t \in Nat
      BY DEF TaskIds
    <3>2. zz \in [SessionIds -> SessionRow] /\ zz[s].status = "open"
          /\ \A x \in SessionIds \ {s} : zz[x] = sessions[x]
      BY <1>0, <1>2, <2>2, <3>1, SMTT(30), Z3T(30) DEF SessionRow
    <3>3. ss \in [SessionIds -> SessionRow]
      BY <1>0, <2>2, <3>2, MaybeCompleteStays, ZenonT(30)
    <3>4. /\ \A x \in SessionIds \ {s} : ss[x] = zz[x]
          /\ SessionFits(ts, ss, s)
      BY <1>0, <2>2, <3>2, MaybeCompleteFits
    <3> QED
      BY <3>2, <3>3, <3>4, ZenonT(30)
  <2> QED
    BY <2>1, <2>2, ZenonT(30) DEF MovesTo
<1>4. ASSUME NEW x \in SessionIds, x # s
      PROVE  SessionFits(ts, ss, x)
  <2>1. \A u \in TaskIds : ts[u] = tasks[u] \/ ~(InSession(tasks, u, x) \/ InSession(ts, u, x))
    BY <1>0, <1>1, <1>4, ZenonT(30) DEF InSession
  <2>2. ss[x] = sessions[x] /\ SessionFits(tasks, sessions, x)
    BY <1>3, <1>4, ZenonT(30) DEF Fits
  <2> QED
    BY <2>1, <2>2, Untouched, ZenonT(30)
<1>5. Fits(ts, ss)
  BY <1>3, <1>4, ZenonT(30) DEF Fits
<1>6. DOMAIN ts = TaskIds
  BY <1>0, ZenonT(30) DEF MovesTo
<1> QED
  BY <1>0, <1>1, <1>3, <1>5, <1>6, ZenonT(30) DEF Open, Holding

\* A new session is open with the task it begins with.
LEMMA BeginsFit ==
  ASSUME NEW ts, NEW ss, NEW a, Fits(ts, ss), DOMAIN ts = TaskIds, DOMAIN ss = SessionIds,
         \A u \in TaskIds : tasks[u].status = "none" => ts[u] = tasks[u],
         Begins(a, ts, ss)
  PROVE  Fits(tasks', sessions')
<1>1. PICK x \in NextId(sessions, MaxSessions), n \in NextId(tasks, MaxTasks), target \in Nat :
        /\ sessions' = [ss EXCEPT ![x] = NewSession(a, target)]
        /\ tasks' = [ts EXCEPT ![n] = NewTask(a, x, 0, 0)]
  BY ZenonT(30) DEF Begins
<1>2. x \in SessionIds /\ n \in TaskIds /\ tasks[n].status = "none"
  BY ZenonT(30) DEF NextId, SessionIds, TaskIds
<1>3. /\ tasks'[n].session = x /\ tasks'[n].status = "queued"
      /\ \A u \in TaskIds \ {n} : tasks'[u] = ts[u]
  BY <1>1, <1>2, ZenonT(30) DEF NewTask
<1>4. sessions'[x].status = "open" /\ \A s \in SessionIds \ {x} : sessions'[s] = ss[s]
  BY <1>1, <1>2, ZenonT(30) DEF NewSession
<1>5. SessionFits(tasks', sessions', x)
  <2>1. OpenIn(tasks', x)
    BY <1>2, <1>3, ZenonT(30) DEF OpenIn, Open
  <2> QED
    BY <1>4, <2>1, ZenonT(30) DEF SessionFits
<1>6. ASSUME NEW s \in SessionIds, s # x
      PROVE  SessionFits(tasks', sessions', s)
  <2>1. \A u \in TaskIds : tasks'[u] = ts[u] \/ ~(InSession(ts, u, s) \/ InSession(tasks', u, s))
    BY <1>2, <1>3, <1>6, ZenonT(30) DEF InSession
  <2>2. sessions'[s] = ss[s] /\ SessionFits(ts, ss, s)
    BY <1>4, <1>6, ZenonT(30) DEF Fits
  <2> QED
    BY <2>1, <2>2, Untouched, ZenonT(30)
<1> QED
  BY <1>5, <1>6, ZenonT(30) DEF Fits

\* A delegated task joins the open session of the task that asks for it.
LEMMA DelegateFits ==
  ASSUME TypeInv, Fits(tasks, sessions),
         NEW c \in CallIds, NEW b \in Agents, NEW w \in BOOLEAN, Delegate(c, b, w)
  PROVE  Fits(tasks', sessions')
<1> DEFINE t == calls[c].task
           s == tasks[t].session
           r == StepTo(tasks[t], IF w THEN "running" ELSE "completed")
<1>1. t \in TaskIds /\ tasks[t].status = "running" /\ tasks[t] \in TaskRow
  BY DeliveredTask, ZenonT(30) DEF Delegate, Says, Answers
<1>2. SameOwner(r, tasks[t])
  <2>1. (IF w THEN "running" ELSE "completed") \in Statuses
    BY DEF Statuses, Open, Holding, Terminal
  <2> QED
    BY <1>1, <2>1, StatusMoves, ZenonT(30)
<1>3. PICK n \in NextId(tasks, MaxTasks) :
        /\ tasks' = [tasks EXCEPT ![t] = r, ![n] = NewTask(b, s, t, tasks[t].depth + 1)]
        /\ sessions' = sessions
  BY ZenonT(30) DEF Delegate, StepTo
<1>4. n \in TaskIds /\ tasks[n].status = "none" /\ n # t
  BY <1>1, ZenonT(30) DEF NextId, TaskIds
<1> HIDE DEF r, t
<1>5. /\ tasks'[t].session = s /\ tasks'[n].session = s /\ tasks'[n].status = "queued"
      /\ \A u \in TaskIds \ {t, n} : tasks'[u] = tasks[u]
  BY <1>1, <1>2, <1>3, <1>4, ZenonT(30) DEF NewTask, SameOwner, TypeInv, TasksTyped
<1>6. s \in SessionIds /\ sessions[s].status = "open"
  BY <1>1, ZenonT(30) DEF TypeInv, TasksTyped, Fits, SessionFits, OpenIn, Open, Holding
<1>7. SessionFits(tasks', sessions', s)
  <2>1. OpenIn(tasks', s)
    BY <1>4, <1>5, ZenonT(30) DEF OpenIn, Open
  <2> QED
    BY <1>3, <1>6, <2>1, ZenonT(30) DEF SessionFits
<1>8. ASSUME NEW x \in SessionIds, x # s
      PROVE  SessionFits(tasks', sessions', x)
  <2>1. \A u \in TaskIds :
          tasks'[u] = tasks[u] \/ ~(InSession(tasks, u, x) \/ InSession(tasks', u, x))
    BY <1>4, <1>5, <1>8, ZenonT(30) DEF InSession
  <2>2. SessionFits(tasks, sessions, x)
    BY ZenonT(30) DEF Fits
  <2> QED
    BY <1>3, <2>1, <2>2, Untouched, ZenonT(30)
<1> QED
  BY <1>7, <1>8, ZenonT(30) DEF Fits

\* A session that is continued is open again, with a task.
LEMMA ContinueFits ==
  ASSUME TypeInv, Fits(tasks, sessions), NEW s \in SessionIds, ContinueSession(s)
  PROVE  Fits(tasks', sessions')
<1>1. PICK n \in NextId(tasks, MaxTasks) :
        tasks' = [tasks EXCEPT ![n] = NewTask(sessions[s].agent, s, 0, 0)]
  BY ZenonT(30) DEF ContinueSession
<1>2. n \in TaskIds /\ tasks[n].status = "none"
  BY ZenonT(30) DEF NextId, TaskIds
<1>3. /\ tasks'[n].session = s /\ tasks'[n].status = "queued"
      /\ \A u \in TaskIds \ {n} : tasks'[u] = tasks[u]
  BY <1>1, <1>2, ZenonT(30) DEF NewTask, TypeInv, TasksTyped
<1>4. sessions'[s].status = "open" /\ \A x \in SessionIds \ {s} : sessions'[x] = sessions[x]
  BY DEF ContinueSession, TypeInv, TasksTyped, SessionRow
<1>5. SessionFits(tasks', sessions', s)
  <2>1. OpenIn(tasks', s)
    BY <1>2, <1>3, ZenonT(30) DEF OpenIn, Open
  <2> QED
    BY <1>4, <2>1, ZenonT(30) DEF SessionFits
<1>6. ASSUME NEW x \in SessionIds, x # s
      PROVE  SessionFits(tasks', sessions', x)
  <2>1. \A u \in TaskIds :
          tasks'[u] = tasks[u] \/ ~(InSession(tasks, u, x) \/ InSession(tasks', u, x))
    BY <1>2, <1>3, <1>6, ZenonT(30) DEF InSession
  <2>2. sessions'[x] = sessions[x] /\ SessionFits(tasks, sessions, x)
    BY <1>4, <1>6, ZenonT(30) DEF Fits
  <2> QED
    BY <2>1, <2>2, Untouched, ZenonT(30)
<1> QED
  BY <1>5, <1>6, ZenonT(30) DEF Fits

\* What cancelling makes of a task.
CancelledRow(t) == StepTo(tasks[t], "cancelled")

LEMMA CancelTasks ==
  ASSUME TypeInv, NEW s \in SessionIds, CancelSession(s), NEW t \in TaskIds
  PROVE  /\ tasks[t].session = s /\ tasks[t].status \in Open =>
              tasks'[t].status = "cancelled" /\ SameOwner(tasks'[t], tasks[t])
         /\ ~(tasks[t].session = s /\ tasks[t].status \in Open) => tasks'[t] = tasks[t]
<1>1. tasks' = [u \in TaskIds |->
                  IF u \in {v \in TaskIds : tasks[v].session = s} /\ tasks[u].status \in Open
                  THEN CancelledRow(u) ELSE tasks[u]]
  BY ZenonT(30) DEF CancelSession, CancelledRow, StepTo
<1>2. tasks'[t] = IF tasks[t].session = s /\ tasks[t].status \in Open
                  THEN CancelledRow(t) ELSE tasks[t]
  BY <1>1, ZenonT(30)
<1>3. CancelledRow(t).status = "cancelled" /\ SameOwner(CancelledRow(t), tasks[t])
  <2>1. tasks[t] \in TaskRow /\ "cancelled" \in Statuses
    BY ZenonT(30) DEF TypeInv, TasksTyped, Statuses, Terminal
  <2> QED
    BY <2>1, StatusMoves, ZenonT(30) DEF CancelledRow
<1> QED
  BY <1>2, <1>3, ZenonT(30)

\* Cancelling closes an open session with its tasks; a closed one has none to cancel.
LEMMA CancelFits ==
  ASSUME TypeInv, Fits(tasks, sessions), NEW s \in SessionIds, CancelSession(s)
  PROVE  Fits(tasks', sessions')
<1>0. \A t \in TaskIds :
        /\ tasks[t].session = s /\ tasks[t].status \in Open =>
             tasks'[t].status = "cancelled" /\ tasks'[t].session = s
        /\ ~(tasks[t].session = s /\ tasks[t].status \in Open) => tasks'[t] = tasks[t]
  BY CancelTasks, ZenonT(30) DEF SameOwner
<1>1. /\ sessions'[s].status = IF sessions[s].status = "open" THEN "cancelled" ELSE sessions[s].status
      /\ sessions[s].status # "open" => sessions'[s] = sessions[s]
      /\ \A x \in SessionIds \ {s} : sessions'[x] = sessions[x]
  <2>1. sessions \in [SessionIds -> SessionRow]
    BY DEF TypeInv, TasksTyped
  <2>2. sessions' = [sessions EXCEPT ![s].status =
                       IF sessions[s].status = "open" THEN "cancelled" ELSE sessions[s].status]
    BY DEF CancelSession
  <2>3. sessions[s].status # "open" => [sessions[s] EXCEPT !.status = sessions[s].status] = sessions[s]
    BY <2>1 DEF SessionRow
  <2> QED
    BY <2>1, <2>2, <2>3, ZenonT(30) DEF SessionRow
<1>2. SessionFits(tasks, sessions, s)
  BY ZenonT(30) DEF Fits
<1>3. CASE sessions[s].status = "open"
  <2>1. ~OpenIn(tasks', s)
    BY <1>0, ZenonT(30) DEF OpenIn, Open, Holding
  <2> QED
    <3>1. SessionFits(tasks', sessions', s)
      BY <1>1, <1>3, <2>1, ZenonT(30) DEF SessionFits
    <3>2. ASSUME NEW x \in SessionIds, x # s
          PROVE  SessionFits(tasks', sessions', x)
      <4>1. \A u \in TaskIds :
              tasks'[u] = tasks[u] \/ ~(InSession(tasks, u, x) \/ InSession(tasks', u, x))
        BY <1>0, <3>2, ZenonT(30) DEF InSession
      <4>2. sessions'[x] = sessions[x] /\ SessionFits(tasks, sessions, x)
        BY <1>1, <3>2, ZenonT(30) DEF Fits
      <4> QED
        BY <4>1, <4>2, Untouched, ZenonT(30)
    <3> QED
      BY <3>1, <3>2, ZenonT(30) DEF Fits
<1>4. CASE sessions[s].status # "open"
  <2>1. \A u \in TaskIds : tasks'[u] = tasks[u]
    BY <1>0, <1>2, <1>4, ZenonT(30) DEF SessionFits, OpenIn
  <2>2. ASSUME NEW x \in SessionIds
        PROVE  SessionFits(tasks', sessions', x)
    <3>1. sessions'[x] = sessions[x] /\ SessionFits(tasks, sessions, x)
      BY <1>1, <1>4, ZenonT(30) DEF Fits
    <3> QED
      BY <2>1, <3>1, Untouched, ZenonT(30)
  <2> QED
    BY <2>2, ZenonT(30) DEF Fits
<1> QED
  BY <1>3, <1>4, ZenonT(30)

LEMMA FitsInit == Init => Fits(tasks, sessions)
<1> SUFFICES ASSUME Init, NEW s \in SessionIds
             PROVE  SessionFits(tasks, sessions, s)
  BY ZenonT(30) DEF Fits
<1>1. \A t \in TaskIds : tasks[t].status = "none"
  BY DEF Init, Unused, NewTask
<1>2. sessions[s].status = "none"
  BY DEF Init, Unused, NewSession
<1>3. ~OpenIn(tasks, s)
  BY <1>1, ZenonT(30) DEF OpenIn, Open, Holding
<1> QED
  BY <1>2, <1>3, ZenonT(30) DEF SessionFits

LEMMA FitsStep ==
  ASSUME TypeInv, Fits(tasks, sessions), [Next]_vars
  PROVE  Fits(tasks', sessions')
<1>0. DOMAIN tasks = TaskIds /\ DOMAIN sessions = SessionIds
  BY DEF TypeInv, TasksTyped
<1>1. CASE UNCHANGED <<tasks, sessions>>
  BY <1>1, ZenonT(30) DEF Fits, SessionFits, OpenIn, RootAnswer, CompletedRoots
<1>2. ASSUME NEW t \in TaskIds, NEW r, NEW ts, NEW ss, MovesTo(t, r, ts, ss),
             Begins(Compactor, ts, ss)
      PROVE  Fits(tasks', sessions')
  BY <1>2, MovesFit, BeginsFit
<1>3. ASSUME NEW t \in TaskIds, NEW r, MovesTo(t, r, tasks', sessions')
      PROVE  Fits(tasks', sessions')
  BY <1>3, MovesFit, ZenonT(30)
<1>4. ASSUME NEW a \in Agents, Begins(a, tasks, sessions)
      PROVE  Fits(tasks', sessions')
  BY <1>0, <1>4, BeginsFit, ZenonT(30)
<1> QED
  BY <1>1, <1>2, <1>3, <1>4, Steps, DelegateFits, ContinueFits, CancelFits, ZenonT(30)
     DEF TablesStep

LEMMA Fitting == Spec => [](TypeInv /\ Fits(tasks, sessions))
<1>1. Init => TypeInv /\ Fits(tasks, sessions)
  BY TypeInit, FitsInit, ZenonT(30)
<1>2. TypeInv /\ Fits(tasks, sessions) /\ [Next]_vars => (TypeInv /\ Fits(tasks, sessions))'
  <2> SUFFICES ASSUME TypeInv, Fits(tasks, sessions), [Next]_vars
               PROVE  TypeInv' /\ Fits(tasks', sessions')
    OBVIOUS
  <2>1. TypeInv'
    BY TypeStep, ZenonT(30)
  <2>2. Fits(tasks', sessions')
    BY FitsStep
  <2> QED
    BY <2>1, <2>2, ZenonT(30)
<1> QED
  BY <1>1, <1>2, PTL DEF Spec

\* A session is open exactly as long as one of its tasks is: no step of the engine, the
\* worker or an operator ends the last task and leaves its session open, or closes a
\* session over work that goes on (maybe_complete_session, fn_continue_session).
THEOREM SessionsEndWithTheirTasks == Spec => []SessionOpenIffWork
<1>1. TypeInv /\ Fits(tasks, sessions) => SessionOpenIffWork
  BY ZenonT(30) DEF Fits, SessionFits, SessionOpenIffWork
<1> QED
  BY <1>1, Fitting, PTL

\* A completed session reports the answer of its latest root task, whichever task
\* answered last (final_answer against maybe_complete_session).
THEOREM RootAnswerReported == Spec => []RootAnswerWins
<1>1. TypeInv /\ Fits(tasks, sessions) => RootAnswerWins
  BY ZenonT(30) DEF Fits, SessionFits, RootAnswerWins
<1> QED
  BY <1>1, Fitting, PTL

----------------------------------------------------------------------------
(* Slots *)

\* The tasks that hold a slot of agent a.
Holders(ts, a) == {t \in TaskIds : ts[t].agent = a /\ ts[t].status \in Holding}

\* WithinCap, and what it needs of the generations: an edited policy is never the first.
SlotsInv ==
  /\ \A a \in Agents : gen[a] >= 1
  /\ \A a \in Agents :
       \E n \in Caps : /\ gen[a] = 1 => n = cap[a]
                       /\ Cardinality(Holders(tasks, a)) <= n

\* A task that moves on takes at most the slot fn_dispatch_tasks found free.
LEMMA MovesHold ==
  ASSUME TypeInv, NEW t \in TaskIds, NEW r, NEW ts, NEW ss, MovesTo(t, r, ts, ss), NEW a \in Agents
  PROVE  \/ Holders(ts, a) \subseteq Holders(tasks, a)
         \/ /\ Eligible(t) /\ tasks[t].agent = a
            /\ Holders(ts, a) \subseteq Holders(tasks, a) \cup {t}
<1>1. ts[t] = r /\ \A u \in TaskIds \ {t} : ts[u] = tasks[u]
  BY DEF MovesTo, TypeInv, TasksTyped
<1>2. r.agent = tasks[t].agent /\ (r.status \in Holding => tasks[t].status \in Holding \/ Eligible(t))
  BY ZenonT(30) DEF MovesTo, RowStep, SameOwner
<1>3. Holders(ts, a) \subseteq Holders(tasks, a) \cup {t}
  BY <1>1, ZenonT(30) DEF Holders
<1>4. CASE r.agent = a /\ r.status \in Holding
  BY <1>2, <1>3, <1>4, ZenonT(30) DEF Holders
<1>5. CASE ~(r.agent = a /\ r.status \in Holding)
  BY <1>1, <1>3, <1>5, ZenonT(30) DEF Holders
<1> QED
  BY <1>4, <1>5, ZenonT(30)

\* So does every step: new tasks are queued.
LEMMA HoldersStep ==
  ASSUME TypeInv, [Next]_vars, NEW a \in Agents
  PROVE  \/ Holders(tasks', a) \subseteq Holders(tasks, a)
         \/ \E t \in TaskIds : /\ Eligible(t) /\ tasks[t].agent = a
                               /\ Holders(tasks', a) \subseteq Holders(tasks, a) \cup {t}
<1> DEFINE Goal == \/ Holders(tasks', a) \subseteq Holders(tasks, a)
                   \/ \E t \in TaskIds : /\ Eligible(t) /\ tasks[t].agent = a
                                         /\ Holders(tasks', a) \subseteq Holders(tasks, a) \cup {t}
<1>0. tasks \in [TaskIds -> TaskRow]
  BY DEF TypeInv, TasksTyped
<1>1. CASE UNCHANGED <<tasks, sessions>>
  BY <1>1, ZenonT(30) DEF Holders
<1>2. ASSUME NEW t \in TaskIds, NEW r, MovesTo(t, r, tasks', sessions')
      PROVE  Goal
  BY <1>2, MovesHold, ZenonT(30)
<1>3. ASSUME NEW ts, NEW ss, NEW b, Begins(b, ts, ss), DOMAIN ts = TaskIds
      PROVE  Holders(tasks', a) \subseteq Holders(ts, a)
  <2>1. PICK x \in NextId(sessions, MaxSessions), n \in NextId(tasks, MaxTasks) :
          tasks' = [ts EXCEPT ![n] = NewTask(b, x, 0, 0)]
    BY <1>3, ZenonT(30) DEF Begins
  <2>2. n \in TaskIds
    BY ZenonT(30) DEF NextId, TaskIds
  <2>3. tasks'[n].status = "queued" /\ \A u \in TaskIds \ {n} : tasks'[u] = ts[u]
    BY <1>3, <2>1, <2>2, ZenonT(30) DEF NewTask
  <2> QED
    BY <2>3, ZenonT(30) DEF Holders, Holding
<1>4. ASSUME NEW t \in TaskIds, NEW r, NEW ts, NEW ss, MovesTo(t, r, ts, ss),
             Begins(Compactor, ts, ss)
      PROVE  Goal
  <2>1. DOMAIN ts = TaskIds
    BY <1>0, <1>4, ZenonT(30) DEF MovesTo
  <2>2. Holders(tasks', a) \subseteq Holders(ts, a)
    BY <1>3, <1>4, <2>1, ZenonT(30)
  <2>3. \/ Holders(ts, a) \subseteq Holders(tasks, a)
        \/ /\ Eligible(t) /\ tasks[t].agent = a
           /\ Holders(ts, a) \subseteq Holders(tasks, a) \cup {t}
    BY <1>4, MovesHold, ZenonT(30)
  <2> QED
    BY <2>2, <2>3, ZenonT(30)
<1>5. ASSUME NEW b \in Agents, Begins(b, tasks, sessions)
      PROVE  Goal
  BY <1>0, <1>3, <1>5, ZenonT(30)
<1>6. ASSUME NEW c \in CallIds, NEW b \in Agents, NEW w \in BOOLEAN, Delegate(c, b, w)
      PROVE  Goal
  <2> DEFINE t == calls[c].task
             r == StepTo(tasks[t], IF w THEN "running" ELSE "completed")
  <2>1. t \in TaskIds /\ tasks[t].status = "running" /\ tasks[t] \in TaskRow
    BY <1>6, DeliveredTask, ZenonT(30) DEF Delegate, Says, Answers
  <2>2. SameOwner(r, tasks[t])
    <3>1. (IF w THEN "running" ELSE "completed") \in Statuses
      BY ZenonT(30) DEF Statuses, Open, Holding, Terminal
    <3> QED
      BY <2>1, <3>1, StatusMoves, ZenonT(30)
  <2>3. PICK n \in NextId(tasks, MaxTasks) :
          tasks' = [tasks EXCEPT ![t] = r, ![n] = NewTask(b, tasks[t].session, t, tasks[t].depth + 1)]
    BY <1>6, ZenonT(30) DEF Delegate, StepTo
  <2>4. n \in TaskIds
    BY ZenonT(30) DEF NextId, TaskIds
  <2> HIDE DEF r, t
  <2>5. /\ tasks'[n].status = "queued" /\ \A u \in TaskIds \ {t, n} : tasks'[u] = tasks[u]
        /\ t # n => tasks'[t].agent = tasks[t].agent
    BY <1>0, <2>1, <2>2, <2>3, <2>4, ZenonT(30) DEF NewTask, SameOwner
  <2>6. Holders(tasks', a) \subseteq Holders(tasks, a)
    BY <2>1, <2>5, ZenonT(30) DEF Holders, Holding
  <2> QED
    BY <2>6, ZenonT(30)
<1>7. ASSUME NEW s \in SessionIds, ContinueSession(s)
      PROVE  Goal
  <2>1. PICK n \in NextId(tasks, MaxTasks) :
          tasks' = [tasks EXCEPT ![n] = NewTask(sessions[s].agent, s, 0, 0)]
    BY <1>7, ZenonT(30) DEF ContinueSession
  <2>2. n \in TaskIds
    BY ZenonT(30) DEF NextId, TaskIds
  <2>3. tasks'[n].status = "queued" /\ \A u \in TaskIds \ {n} : tasks'[u] = tasks[u]
    BY <1>0, <2>1, <2>2, ZenonT(30) DEF NewTask
  <2> QED
    BY <2>3, ZenonT(30) DEF Holders, Holding
<1>8. ASSUME NEW s \in SessionIds, CancelSession(s)
      PROVE  Goal
  <2>1. \A t \in TaskIds : tasks'[t].status = "cancelled" \/ tasks'[t] = tasks[t]
    BY <1>8, CancelTasks, ZenonT(30)
  <2> QED
    BY <2>1, ZenonT(30) DEF Holders, Holding
<1> QED
  BY <1>1, <1>2, <1>4, <1>5, <1>6, <1>7, <1>8, Steps, ZenonT(30) DEF TablesStep

\* Policies are edited under a new generation.
LEMMA GenerationsStep ==
  ASSUME TypeInv, [Next]_vars, NEW a \in Agents
  PROVE  gen'[a] >= gen[a] /\ (gen'[a] = gen[a] => cap'[a] = cap[a])
<1> DEFINE Goal == \/ gen' = gen /\ cap' = cap
                   \/ cap' = cap /\ \E b \in Agents : gen' = [gen EXCEPT ![b] = @ + 1]
                   \/ \E b \in Agents, n \in Caps : /\ cap' = [cap EXCEPT ![b] = n]
                                                    /\ gen' = [gen EXCEPT ![b] = @ + 1]
<1>0. gen \in [Agents -> Nat] /\ cap \in [Agents -> Caps]
  BY DEF TypeInv, ConfigTyped
<1>1. CASE gen' = gen /\ cap' = cap
  BY <1>0, <1>1, SMTT(30), Z3T(30)
<1>2. CASE cap' = cap /\ \E b \in Agents : gen' = [gen EXCEPT ![b] = @ + 1]
  BY <1>0, <1>2, SMTT(30), Z3T(30)
<1>3. CASE \E b \in Agents, n \in Caps : /\ cap' = [cap EXCEPT ![b] = n]
                                         /\ gen' = [gen EXCEPT ![b] = @ + 1]
  BY <1>0, <1>3, SMTT(30), Z3T(30)
<1>4. Goal
  <2>1. CASE Operator
    BY <2>1, ZenonT(30)
       DEF Operator, CreateSession, SetAgentActive, SetPermission, ContinueSession, CancelSession,
           DecideApproval, SetRule, SetCap, SetProvider, config
  <2>2. CASE Watchdog
    BY <2>2, ZenonT(30) DEF Watchdog, Reclaim, ExpireApproval, TurnTimeout, WakeParent, config
  <2>3. ASSUME NEW t \in TaskIds, Dispatch(t)
        PROVE  Goal
    BY <2>3, ZenonT(30) DEF Dispatch, DispatchDone, DispatchLlm, DispatchNoProvider, config
  <2>4. ASSUME NEW c \in CallIds, Claim(c) \/ DropResult(c)
        PROVE  Goal
    BY <2>4, ZenonT(30) DEF Claim, ClaimSend, ClaimPark, ClaimRefuse, DropResult, config
  <2>5. ASSUME NEW c \in CallIds, Complete(c)
        PROVE  Goal
    BY <2>5, ZenonT(30)
       DEF Complete, CompleteStale, CompleteSkipped, ToolResult, CallError, AmbiguousResult, Submit,
           FinalAnswer, Note, ReplyRejected, ReplyRaises, ReplyDiscarded, AwaitHuman, AwaitChildren,
           ToolCall, ApplyChange, Delegate, DelegateRefused, Says, config
  <2>6. CASE WorkerCrash \/ (\E p \in ApprovalIds : ApprovalClock(p)) \/ UNCHANGED vars
    BY <2>6, ZenonT(30) DEF WorkerCrash, ApprovalClock, vars, config
  <2> QED
    BY <2>1, <2>2, <2>3, <2>4, <2>5, <2>6, ZenonT(30) DEF Next
<1> QED
  BY <1>1, <1>2, <1>3, <1>4, ZenonT(30)

\* Finding a slot free for t means that its agent's cap is not exceeded with t.
LEMMA OneMoreFits ==
  ASSUME TypeInv, NEW t \in TaskIds, Eligible(t), NEW a \in Agents, tasks[t].agent = a,
         NEW H, H \subseteq Holders(tasks, a) \cup {t}
  PROVE  Cardinality(H) <= cap[a]
<1> DEFINE others == {u \in TaskIds \ {t} : tasks[u].agent = tasks[t].agent /\ tasks[u].status \in Holding}
<1>1. cap[a] \in Nat
  BY ConstantsAssumption, ZenonT(30) DEF TypeInv, ConfigTyped
<1>2. IsFiniteSet(TaskIds)
  BY ConstantsAssumption, FS_Interval DEF TaskIds
<1>3. others \in SUBSET TaskIds
  OBVIOUS
<1>4. IsFiniteSet(others) /\ Cardinality(others) \in Nat
  BY <1>2, <1>3, FS_Subset, FS_CardinalityType
<1>5. Cardinality(others) < cap[a]
  BY DEF Eligible, SlotsTaken
<1>6. H \in SUBSET (others \cup {t}) /\ t \notin others
  BY ZenonT(30) DEF Holders
<1> HIDE DEF others
<1>7. IsFiniteSet(others \cup {t}) /\ Cardinality(others \cup {t}) = Cardinality(others) + 1
  BY <1>4, <1>6, FS_AddElement, ZenonT(30)
<1>8. Cardinality(H) <= Cardinality(others \cup {t}) /\ Cardinality(H) \in Nat
  BY <1>6, <1>7, FS_Subset, FS_CardinalityType, ZenonT(30)
<1>9. \A k, m, n \in Nat : k <= m + 1 /\ m < n => k <= n
  BY SMTT(30), Z3T(30)
<1> QED
  BY <1>1, <1>4, <1>5, <1>7, <1>8, <1>9, ZenonT(30)

LEMMA SlotsStep ==
  ASSUME TypeInv, SlotsInv, [Next]_vars
  PROVE  SlotsInv'
<1>1. ASSUME NEW a \in Agents
      PROVE  /\ gen'[a] >= 1
             /\ \E n \in Caps : /\ gen'[a] = 1 => n = cap'[a]
                                /\ Cardinality(Holders(tasks', a)) <= n
  <2>0. gen[a] \in Nat /\ gen'[a] \in Nat /\ gen[a] >= 1 /\ cap[a] \in Caps
    BY TypeStep, ZenonT(30) DEF TypeInv, ConfigTyped, SlotsInv
  <2>1. gen'[a] >= gen[a] /\ (gen'[a] = gen[a] => cap'[a] = cap[a])
    BY GenerationsStep, ZenonT(30)
  <2>2. gen'[a] >= 1 /\ (gen'[a] = 1 => gen[a] = 1 /\ cap'[a] = cap[a])
    BY <2>0, <2>1, SMTT(30), Z3T(30)
  <2>3. CASE Holders(tasks', a) \subseteq Holders(tasks, a)
    <3>1. PICK n \in Caps : /\ gen[a] = 1 => n = cap[a]
                            /\ Cardinality(Holders(tasks, a)) <= n
      BY ZenonT(30) DEF SlotsInv
    <3>2. IsFiniteSet(TaskIds) /\ Holders(tasks, a) \in SUBSET TaskIds
      BY ConstantsAssumption, FS_Interval, SMTT(30), Z3T(30) DEF TaskIds, Holders
    <3>3. IsFiniteSet(Holders(tasks, a))
      BY <3>2, FS_Subset, ZenonT(30)
    <3>4. /\ Cardinality(Holders(tasks', a)) <= Cardinality(Holders(tasks, a))
          /\ Cardinality(Holders(tasks', a)) \in Nat /\ Cardinality(Holders(tasks, a)) \in Nat
      BY <2>3, <3>3, FS_Subset, FS_CardinalityType, ZenonT(30)
    <3>5. n \in Nat
      BY ConstantsAssumption, ZenonT(30)
    <3>6. Cardinality(Holders(tasks', a)) <= n
      BY <3>1, <3>4, <3>5, SMTT(30), Z3T(30)
    <3> QED
      BY <2>2, <3>1, <3>6, ZenonT(30)
  <2>4. ASSUME NEW t \in TaskIds, Eligible(t), tasks[t].agent = a,
               Holders(tasks', a) \subseteq Holders(tasks, a) \cup {t}
        PROVE  \E n \in Caps : /\ gen'[a] = 1 => n = cap'[a]
                               /\ Cardinality(Holders(tasks', a)) <= n
    <3>1. Cardinality(Holders(tasks', a)) <= cap[a]
      BY <2>4, OneMoreFits, ZenonT(30)
    <3> QED
      BY <2>0, <2>2, <3>1, ZenonT(30)
  <2> QED
    BY <2>2, <2>3, <2>4, HoldersStep, ZenonT(30)
<1> QED
  BY <1>1, ZenonT(30) DEF SlotsInv, Holders

LEMMA SlotsInit == Init => SlotsInv
<1> SUFFICES ASSUME Init, NEW a \in Agents
             PROVE  /\ gen[a] >= 1
                    /\ \E n \in Caps : /\ gen[a] = 1 => n = cap[a]
                                       /\ Cardinality(Holders(tasks, a)) <= n
  BY ZenonT(30) DEF SlotsInv
<1>1. gen[a] = 1 /\ cap[a] = InitCap
  BY DEF Init
<1>2. \A t \in TaskIds : tasks[t].status = "none"
  BY DEF Init, Unused, NewTask
<1>3. Holders(tasks, a) = {}
  BY <1>2, ZenonT(30) DEF Holders, Holding
<1>4. InitCap \in Caps /\ InitCap \in Nat
  BY ConstantsAssumption
<1>5. Cardinality(Holders(tasks, a)) = 0
  BY <1>3, FS_EmptySet, ZenonT(30)
<1> QED
  BY <1>1, <1>4, <1>5, SMTT(30), Z3T(30)

\* No agent holds more turns at once than the largest max_concurrent_tasks it was given:
\* resumed, approved and woken tasks take no slot fn_dispatch_tasks did not count.
THEOREM SlotsKept == Spec => []WithinCap
<1>1. Init => TypeInv /\ SlotsInv
  BY TypeInit, SlotsInit, ZenonT(30)
<1>2. TypeInv /\ SlotsInv /\ [Next]_vars => (TypeInv /\ SlotsInv)'
  BY TypeStep, SlotsStep, ZenonT(30)
<1>3. SlotsInv => WithinCap
  BY ZenonT(30) DEF SlotsInv, WithinCap, Holders
<1> QED
  BY <1>1, <1>2, <1>3, PTL DEF Spec

----------------------------------------------------------------------------
(* Delegation chains *)

Used(ts) == {t \in TaskIds : ts[t].status # "none"}

\* Ancestors and ChainsAcyclic, for table ts.
Line(ts, t) ==
  {u \in TaskIds :
     \A S \in SUBSET TaskIds :
       t \in S /\ (\A v \in S : ts[v].parent \in S \cup {0}) => u \in S}

ChainFits(ts, t) ==
  /\ \A u, v \in Line(ts, t) : ts[u].agent = ts[v].agent => u = v
  /\ ts[t].depth = Cardinality(Line(ts, t)) - 1
  /\ ts[t].depth <= MaxDepth

\* The inductive form of ChainsAcyclic: a parent is a row in use, so a new row cannot
\* turn up in the chain of an old one.
ChainsFit(ts) ==
  /\ \A t \in Used(ts) : ts[t].parent \in Used(ts) \cup {0}
  /\ \A t \in Used(ts) : ChainFits(ts, t)

\* The rows in use keep their place in the tree; a new row n is a root or the child of one
\* of them, for an agent that is not in its chain.
ChildOf(ts, us, n, t) ==
  /\ us[n].parent = t
  /\ us[n].depth = ts[t].depth + 1
  /\ us[n].depth <= MaxDepth
  /\ \A u \in Line(ts, t) : ts[u].agent # us[n].agent

Grows(ts, us) ==
  /\ \A t \in Used(ts) :
       /\ t \in Used(us)
       /\ us[t].agent = ts[t].agent /\ us[t].parent = ts[t].parent /\ us[t].depth = ts[t].depth
  /\ \A n \in Used(us) \ Used(ts) :
       \/ us[n].parent = 0 /\ us[n].depth = 0
       \/ \E t \in Used(ts) : ChildOf(ts, us, n, t)

\* A chain starts at its task, goes on to every parent and is the least set that does.
LEMMA LineIsLeast ==
  ASSUME NEW ts, NEW t \in TaskIds
  PROVE  /\ t \in Line(ts, t)
         /\ Line(ts, t) \subseteq TaskIds
         /\ \A v \in Line(ts, t) : ts[v].parent \in TaskIds => ts[v].parent \in Line(ts, t)
         /\ \A S \in SUBSET TaskIds :
              t \in S /\ (\A v \in S : ts[v].parent \in S \cup {0}) => Line(ts, t) \subseteq S
<1>1. t \in Line(ts, t)
  BY ZenonT(30) DEF Line
<1>2. Line(ts, t) \subseteq TaskIds
  BY ZenonT(30) DEF Line
<1>3. ASSUME NEW v \in Line(ts, t), ts[v].parent \in TaskIds
      PROVE  ts[v].parent \in Line(ts, t)
  <2>0. 0 \notin TaskIds
    BY DEF TaskIds
  <2> SUFFICES ASSUME NEW S \in SUBSET TaskIds, t \in S, \A w \in S : ts[w].parent \in S \cup {0}
               PROVE  ts[v].parent \in S
    BY <1>3, ZenonT(30) DEF Line
  <2>1. v \in S
    BY <1>3, ZenonT(30) DEF Line
  <2> QED
    BY <1>3, <2>0, <2>1, ZenonT(30)
<1>4. ASSUME NEW S \in SUBSET TaskIds, t \in S, \A v \in S : ts[v].parent \in S \cup {0}
      PROVE  Line(ts, t) \subseteq S
  BY <1>4, ZenonT(30) DEF Line
<1> QED
  BY <1>1, <1>2, <1>3, <1>4, ZenonT(30)

\* The chain of a row in use is made of rows in use.
LEMMA LineInUse ==
  ASSUME NEW ts, ChainsFit(ts), NEW t \in Used(ts)
  PROVE  Line(ts, t) \subseteq Used(ts)
<1>1. t \in TaskIds /\ Used(ts) \in SUBSET TaskIds
  BY ZenonT(30) DEF Used
<1>2. \A v \in Used(ts) : ts[v].parent \in Used(ts) \cup {0}
  BY ZenonT(30) DEF ChainsFit
<1> QED
  BY <1>1, <1>2, LineIsLeast, ZenonT(30)

\* A row in use keeps its chain.
LEMMA LineKept ==
  ASSUME NEW ts, NEW us, ChainsFit(ts), Grows(ts, us), NEW t \in Used(ts)
  PROVE  Line(us, t) = Line(ts, t)
<1>0. t \in TaskIds /\ Line(ts, t) \subseteq Used(ts) /\ Line(ts, t) \in SUBSET TaskIds
  BY LineInUse, ZenonT(30) DEF Used
<1>1. \A v \in Used(ts) : us[v].parent = ts[v].parent /\ ts[v].parent \in Used(ts) \cup {0}
  BY ZenonT(30) DEF Grows, ChainsFit
<1>2. Line(us, t) \subseteq Line(ts, t)
  <2>1. \A v \in Line(ts, t) : us[v].parent \in Line(ts, t) \cup {0}
    <3>1. \A v \in Line(ts, t) : ts[v].parent \in TaskIds => ts[v].parent \in Line(ts, t)
      BY <1>0, LineIsLeast, ZenonT(30)
    <3> QED
      BY <1>0, <1>1, <3>1, ZenonT(30) DEF Used
  <2> QED
    BY <1>0, <2>1, LineIsLeast, ZenonT(30)
<1>3. Line(ts, t) \subseteq Line(us, t)
  <2> DEFINE S == Line(us, t) \cap Used(ts)
  <2>1. S \in SUBSET TaskIds /\ t \in S
    BY <1>0, LineIsLeast, ZenonT(30)
  <2>2. \A v \in S : ts[v].parent \in S \cup {0}
    <3>1. \A v \in Line(us, t) : us[v].parent \in TaskIds => us[v].parent \in Line(us, t)
      BY <1>0, LineIsLeast, ZenonT(30)
    <3> QED
      BY <1>1, <3>1, ZenonT(30) DEF Used
  <2>3. Line(ts, t) \subseteq S
    BY <1>0, <2>1, <2>2, LineIsLeast, ZenonT(30)
  <2> QED
    BY <2>3
<1> QED
  BY <1>2, <1>3, ZenonT(30)

\* The chain of a root is the root.
LEMMA RootLine ==
  ASSUME NEW us, NEW n \in TaskIds, us[n].parent = 0
  PROVE  Line(us, n) = {n}
<1>1. {n} \in SUBSET TaskIds /\ n \in {n} /\ \A v \in {n} : us[v].parent \in {n} \cup {0}
  OBVIOUS
<1>2. Line(us, n) \subseteq {n}
  BY <1>1, LineIsLeast, ZenonT(30)
<1> QED
  BY <1>2, LineIsLeast, SMTT(30), Z3T(30)

\* The chain of a new child is its parent's, and the child.
LEMMA ChildLine ==
  ASSUME NEW ts, NEW us, ChainsFit(ts), Grows(ts, us),
         NEW n \in TaskIds, NEW t \in Used(ts), us[n].parent = t
  PROVE  Line(us, n) = Line(ts, t) \cup {n}
<1>0. t \in TaskIds /\ Line(us, t) = Line(ts, t)
  BY LineKept, ZenonT(30) DEF Used
<1>1. Line(us, n) \subseteq Line(us, t) \cup {n}
  <2> DEFINE S == Line(us, t) \cup {n}
  <2>1. S \in SUBSET TaskIds /\ n \in S
    BY <1>0, LineIsLeast, ZenonT(30)
  <2>2. \A v \in S : us[v].parent \in S \cup {0}
    <3>1. \A v \in Line(us, t) : us[v].parent \in TaskIds => us[v].parent \in Line(us, t)
      BY <1>0, LineIsLeast, ZenonT(30)
    <3>2. \A v \in Line(us, t) : us[v].parent \in Used(ts) \cup {0}
      BY <1>0, LineInUse, ZenonT(30) DEF Grows, ChainsFit
    <3>3. us[n].parent \in Line(us, t)
      BY <1>0, LineIsLeast, ZenonT(30)
    <3> QED
      BY <3>1, <3>2, <3>3, ZenonT(30) DEF Used
  <2> HIDE DEF S
  <2>3. Line(us, n) \subseteq S
    BY <2>1, <2>2, LineIsLeast, ZenonT(30)
  <2> QED
    BY <2>3, ZenonT(30) DEF S
<1>2. Line(us, t) \subseteq Line(us, n)
  <2>1. t \in Line(us, n)
    BY <1>0, LineIsLeast, ZenonT(30)
  <2>2. \A v \in Line(us, n) : us[v].parent \in TaskIds => us[v].parent \in Line(us, n)
    BY LineIsLeast, ZenonT(30)
  <2> DEFINE S == Line(us, n) \cap Line(us, t)
  <2>3. S \in SUBSET TaskIds /\ t \in S
    BY <1>0, <2>1, LineIsLeast, ZenonT(30)
  <2>4. \A v \in S : us[v].parent \in S \cup {0}
    <3>1. \A v \in Line(us, t) : us[v].parent \in TaskIds => us[v].parent \in Line(us, t)
      BY <1>0, LineIsLeast
    <3>2. \A v \in Line(us, t) : us[v].parent \in Used(ts) \cup {0}
      BY <1>0, LineInUse, ZenonT(30) DEF Grows, ChainsFit
    <3> QED
      BY <2>2, <3>1, <3>2, ZenonT(30) DEF Used
  <2> HIDE DEF S
  <2>5. Line(us, t) \subseteq S
    BY <1>0, <2>3, <2>4, LineIsLeast, ZenonT(30)
  <2> QED
    BY <2>5, ZenonT(30) DEF S
<1>3. n \in Line(us, n)
  BY LineIsLeast, ZenonT(30)
<1> QED
  BY <1>0, <1>1, <1>2, <1>3, ZenonT(30)

\* So chains stay as they should be when the tree grows.
LEMMA GrowsFit ==
  ASSUME NEW ts, NEW us, ChainsFit(ts), Grows(ts, us), \A t \in TaskIds : ts[t].depth \in Nat
  PROVE  ChainsFit(us)
<1>1. \A t \in Used(ts) :
        /\ t \in Used(us)
        /\ us[t].agent = ts[t].agent /\ us[t].parent = ts[t].parent /\ us[t].depth = ts[t].depth
  BY ZenonT(30) DEF Grows
<1>2. ASSUME NEW t \in Used(us)
      PROVE  us[t].parent \in Used(us) \cup {0}
  <2>1. CASE t \in Used(ts)
    BY <1>1, <2>1, ZenonT(30) DEF ChainsFit
  <2>2. CASE t \notin Used(ts)
    <3>1. us[t].parent = 0 \/ \E u \in Used(ts) : us[t].parent = u
      BY <1>2, <2>2, ZenonT(30) DEF Grows, ChildOf
    <3> QED
      BY <1>1, <3>1, ZenonT(30)
  <2> QED
    BY <2>1, <2>2, ZenonT(30)
<1>3. ASSUME NEW t \in Used(ts)
      PROVE  ChainFits(us, t)
  <2>1. Line(us, t) = Line(ts, t) /\ Line(ts, t) \subseteq Used(ts)
    BY LineKept, LineInUse, ZenonT(30)
  <2>2. ChainFits(ts, t)
    BY ZenonT(30) DEF ChainsFit
  <2>3. \A u \in Line(us, t) : us[u].agent = ts[u].agent
    BY <1>1, <2>1, ZenonT(30)
  <2>4. us[t].depth = ts[t].depth
    BY <1>1, ZenonT(30)
  <2> QED
    BY <2>1, <2>2, <2>3, <2>4, ZenonT(30) DEF ChainFits
<1>4. ASSUME NEW n \in Used(us) \ Used(ts), us[n].parent = 0, us[n].depth = 0
      PROVE  ChainFits(us, n)
  <2>1. Line(us, n) = {n}
    BY <1>4, RootLine, ZenonT(30) DEF Used
  <2>2. Cardinality({n}) = 1
    BY FS_Singleton, ZenonT(30)
  <2> QED
    BY <1>4, <2>1, <2>2, ConstantsAssumption, SMTT(30), Z3T(30) DEF ChainFits
<1>5. ASSUME NEW n \in Used(us) \ Used(ts), NEW t \in Used(ts), ChildOf(ts, us, n, t)
      PROVE  ChainFits(us, n)
  <2>0. n \in TaskIds /\ t \in TaskIds /\ us[n].parent = t
    BY <1>5, ZenonT(30) DEF Used, ChildOf
  <2>1. /\ Line(us, n) = Line(ts, t) \cup {n} /\ Line(ts, t) \subseteq Used(ts)
        /\ n \notin Line(ts, t)
    <3>1. Line(us, n) = Line(ts, t) \cup {n}
      BY <2>0, ChildLine, SMTT(30), Z3T(30)
    <3>2. Line(ts, t) \subseteq Used(ts)
      BY LineInUse
    <3> QED
      BY <3>1, <3>2, ZenonT(30)
  <2>2. ChainFits(ts, t)
    BY ZenonT(30) DEF ChainsFit
  <2>3. \A u \in Line(ts, t) : us[u].agent = ts[u].agent /\ us[u].agent # us[n].agent
    BY <1>1, <1>5, <2>1, ZenonT(30) DEF ChildOf
  <2>4. \A u, v \in Line(us, n) : us[u].agent = us[v].agent => u = v
    BY <2>1, <2>2, <2>3, ZenonT(30) DEF ChainFits
  <2>f. IsFiniteSet(Line(ts, t))
    <3>1. IsFiniteSet(TaskIds)
      BY ConstantsAssumption, FS_Interval, SMTT(30), Z3T(30) DEF TaskIds
    <3>2. Line(ts, t) \subseteq TaskIds
      BY ZenonT(30) DEF Line
    <3> QED
      BY <3>1, <3>2, FS_Subset, ZenonT(30)
  <2>5. Cardinality(Line(us, n)) = Cardinality(Line(ts, t)) + 1
    BY <2>1, <2>f, FS_AddElement, ZenonT(30)
  <2>6. us[n].depth = Cardinality(Line(us, n)) - 1 /\ us[n].depth <= MaxDepth
    <3>1. /\ us[n].depth = ts[t].depth + 1 /\ us[n].depth <= MaxDepth
          /\ ts[t].depth = Cardinality(Line(ts, t)) - 1 /\ ts[t].depth \in Nat
      BY <1>5, <2>0, <2>2, ZenonT(30) DEF ChildOf, ChainFits
    <3>2. Cardinality(Line(ts, t)) \in Nat
      BY <2>f, FS_CardinalityType, ZenonT(30)
    <3> QED
      BY <2>5, <3>1, <3>2, SMTT(30), Z3T(30)
  <2> QED
    BY <2>4, <2>6, ZenonT(30) DEF ChainFits
<1>6. ASSUME NEW t \in Used(us)
      PROVE  ChainFits(us, t)
  BY <1>3, <1>4, <1>5, <1>6, ZenonT(30) DEF Grows
<1> QED
  BY <1>2, <1>6, ZenonT(30) DEF ChainsFit

\* One row is rewritten for the same owner.
LEMMA RewriteGrows ==
  ASSUME NEW ts, NEW us, NEW t \in TaskIds, ts[t].status # "none", us[t].status # "none",
         SameOwner(us[t], ts[t]), \A u \in TaskIds \ {t} : us[u] = ts[u]
  PROVE  Grows(ts, us)
<1>1. \A u \in Used(ts) :
        /\ u \in Used(us)
        /\ us[u].agent = ts[u].agent /\ us[u].parent = ts[u].parent /\ us[u].depth = ts[u].depth
  BY ZenonT(30) DEF Used, SameOwner
<1>2. Used(us) \ Used(ts) = {}
  BY ZenonT(30) DEF Used
<1> QED
  BY <1>1, <1>2, ZenonT(30) DEF Grows

\* A root is added.
LEMMA RootGrows ==
  ASSUME NEW ts, NEW us, NEW n \in TaskIds, ts[n].status = "none",
         us[n].parent = 0, us[n].depth = 0, us[n].status # "none",
         \A u \in TaskIds \ {n} : us[u] = ts[u]
  PROVE  Grows(ts, us)
<1>1. \A u \in Used(ts) : u \in Used(us) /\ us[u] = ts[u]
  BY ZenonT(30) DEF Used
<1>2. \A u \in Used(us) \ Used(ts) : u = n
  BY ZenonT(30) DEF Used
<1> QED
  BY <1>1, <1>2, ZenonT(30) DEF Grows

\* Delegating adds a child, below the depth limit and for an agent that is not in its chain.
LEMMA DelegateGrows ==
  ASSUME TypeInv, NEW c \in CallIds, NEW b \in Agents, NEW w \in BOOLEAN, Delegate(c, b, w)
  PROVE  Grows(tasks, tasks')
<1> DEFINE t == calls[c].task
           r == StepTo(tasks[t], IF w THEN "running" ELSE "completed")
<1>1. t \in TaskIds /\ tasks[t].status = "running" /\ tasks[t] \in TaskRow
  BY DeliveredTask, ZenonT(30) DEF Delegate, Says, Answers
<1>2. SameOwner(r, tasks[t]) /\ r.status # "none"
  <2>1. (IF w THEN "running" ELSE "completed") \in Statuses
    BY DEF Statuses, Open, Holding, Terminal
  <2> QED
    BY <1>1, <2>1, StatusMoves, ZenonT(30)
<1>3. PICK n \in NextId(tasks, MaxTasks) :
        tasks' = [tasks EXCEPT ![t] = r, ![n] = NewTask(b, tasks[t].session, t, tasks[t].depth + 1)]
  BY ZenonT(30) DEF Delegate, StepTo
<1>4. n \in TaskIds /\ tasks[n].status = "none" /\ n # t
  BY <1>1, ZenonT(30) DEF NextId, TaskIds
<1>5. tasks[t].depth + 1 <= MaxDepth /\ \A u \in Line(tasks, t) : tasks[u].agent # b
  BY ZenonT(30) DEF Delegate, MayDelegate, Ancestors, Line
<1> HIDE DEF r, t
<1>6. /\ tasks'[t] = r /\ \A u \in TaskIds \ {t, n} : tasks'[u] = tasks[u]
      /\ tasks'[n] = NewTask(b, tasks[t].session, t, tasks[t].depth + 1)
  <2>1. tasks \in [TaskIds -> TaskRow]
    BY ZenonT(30) DEF TypeInv, TasksTyped
  <2> QED
    BY <1>1, <1>3, <1>4, <2>1, ZenonT(30)
<1>7. /\ tasks'[n].parent = t /\ tasks'[n].depth = tasks[t].depth + 1 /\ tasks'[n].agent = b
      /\ tasks'[n].status = "queued"
  <2>1. \A x, d : /\ NewTask(b, x, t, d).parent = t /\ NewTask(b, x, t, d).depth = d
                  /\ NewTask(b, x, t, d).agent = b /\ NewTask(b, x, t, d).status = "queued"
    BY ZenonT(30) DEF NewTask
  <2> QED
    BY <1>6, <2>1, SMTT(30), Z3T(30)
<1>8. ChildOf(tasks, tasks', n, t) /\ t \in Used(tasks)
  BY <1>1, <1>5, <1>7, ZenonT(30) DEF ChildOf, Used
<1>9. \A u \in Used(tasks) :
        /\ u \in Used(tasks')
        /\ tasks'[u].agent = tasks[u].agent /\ tasks'[u].parent = tasks[u].parent
        /\ tasks'[u].depth = tasks[u].depth
  BY <1>1, <1>2, <1>4, <1>6, ZenonT(30) DEF Used, SameOwner
<1>10. \A u \in Used(tasks') \ Used(tasks) : u = n
  BY <1>1, <1>6, ZenonT(30) DEF Used
<1> QED
  BY <1>8, <1>9, <1>10, ZenonT(30) DEF Grows

\* The tree grows with every step.
LEMMA GrowsStep ==
  ASSUME TypeInv, [Next]_vars
  PROVE  Grows(tasks, tasks')
<1>0. tasks \in [TaskIds -> TaskRow]
  BY ZenonT(30) DEF TypeInv, TasksTyped
<1>1. CASE UNCHANGED <<tasks, sessions>>
  BY <1>1, ZenonT(30) DEF Grows, Used
<1>2. ASSUME NEW t \in TaskIds, NEW r, NEW ts, NEW ss, MovesTo(t, r, ts, ss)
      PROVE  /\ Grows(tasks, ts) /\ DOMAIN ts = TaskIds
             /\ \A u \in TaskIds : tasks[u].status = "none" => ts[u] = tasks[u]
  <2>1. ts[t] = r /\ DOMAIN ts = TaskIds /\ \A u \in TaskIds \ {t} : ts[u] = tasks[u]
    BY <1>0, <1>2, ZenonT(30) DEF MovesTo
  <2>2. tasks[t].status # "none" /\ r.status # "none" /\ SameOwner(r, tasks[t])
    BY <1>2, ZenonT(30) DEF MovesTo, RowStep, Open, Holding, Terminal
  <2>3. Grows(tasks, ts)
    BY <2>1, <2>2, RewriteGrows, ZenonT(30)
  <2> QED
    BY <2>1, <2>2, <2>3, ZenonT(30)
<1>3. ASSUME NEW ts, NEW ss, NEW b, Begins(b, ts, ss), DOMAIN ts = TaskIds, Grows(tasks, ts),
             \A u \in TaskIds : tasks[u].status = "none" => ts[u] = tasks[u]
      PROVE  Grows(tasks, tasks')
  <2>1. PICK x \in NextId(sessions, MaxSessions), n \in NextId(tasks, MaxTasks) :
          tasks' = [ts EXCEPT ![n] = NewTask(b, x, 0, 0)]
    BY <1>3, ZenonT(30) DEF Begins
  <2>2. n \in TaskIds /\ tasks[n].status = "none"
    BY ZenonT(30) DEF NextId, TaskIds
  <2>3. /\ tasks'[n].parent = 0 /\ tasks'[n].depth = 0 /\ tasks'[n].status # "none"
        /\ \A u \in TaskIds \ {n} : tasks'[u] = ts[u]
    BY <1>3, <2>1, <2>2, ZenonT(30) DEF NewTask
  <2>4. \A u \in Used(tasks) :
          /\ u \in Used(tasks')
          /\ tasks'[u].agent = tasks[u].agent /\ tasks'[u].parent = tasks[u].parent
          /\ tasks'[u].depth = tasks[u].depth
    BY <1>3, <2>2, <2>3, ZenonT(30) DEF Grows, Used
  <2>5. ASSUME NEW u \in Used(tasks') \ Used(tasks)
        PROVE  \/ tasks'[u].parent = 0 /\ tasks'[u].depth = 0
               \/ \E t \in Used(tasks) : ChildOf(tasks, tasks', u, t)
    <3>1. u \in TaskIds /\ tasks[u].status = "none" /\ ts[u] = tasks[u]
      BY <1>3, <2>5, ZenonT(30) DEF Used
    <3>2. u = n
      BY <2>3, <2>5, <3>1, ZenonT(30) DEF Used
    <3> QED
      BY <2>3, <3>2, ZenonT(30)
  <2> QED
    BY <2>4, <2>5, ZenonT(30) DEF Grows
<1>4. ASSUME NEW b \in Agents, Begins(b, tasks, sessions)
      PROVE  Grows(tasks, tasks')
  <2>1. Grows(tasks, tasks)
    BY ZenonT(30) DEF Grows
  <2> QED
    BY <1>0, <1>3, <1>4, <2>1, ZenonT(30)
<1>5. ASSUME NEW s \in SessionIds, ContinueSession(s)
      PROVE  Grows(tasks, tasks')
  <2>1. PICK n \in NextId(tasks, MaxTasks) :
          tasks' = [tasks EXCEPT ![n] = NewTask(sessions[s].agent, s, 0, 0)]
    BY <1>5, ZenonT(30) DEF ContinueSession
  <2>2. n \in TaskIds /\ tasks[n].status = "none"
    BY ZenonT(30) DEF NextId, TaskIds
  <2>3. /\ tasks'[n].parent = 0 /\ tasks'[n].depth = 0 /\ tasks'[n].status # "none"
        /\ \A u \in TaskIds \ {n} : tasks'[u] = tasks[u]
    BY <1>0, <2>1, <2>2, ZenonT(30) DEF NewTask
  <2> QED
    BY <2>2, <2>3, RootGrows, ZenonT(30)
<1>6. ASSUME NEW s \in SessionIds, CancelSession(s)
      PROVE  Grows(tasks, tasks')
  <2>1. \A t \in TaskIds : \/ tasks'[t] = tasks[t]
                           \/ /\ tasks[t].status \in Open /\ tasks'[t].status = "cancelled"
                              /\ SameOwner(tasks'[t], tasks[t])
    BY <1>6, CancelTasks, ZenonT(30)
  <2>2. "none" \notin Open
    BY DEF Open, Holding
  <2>3. Used(tasks') = Used(tasks)
    BY <2>1, <2>2, ZenonT(30) DEF Used
  <2> QED
    BY <2>1, <2>3, ZenonT(30) DEF Grows, Used, SameOwner
<1>7. ASSUME NEW t \in TaskIds, NEW r, MovesTo(t, r, tasks', sessions')
      PROVE  Grows(tasks, tasks')
  BY <1>2, <1>7, ZenonT(30)
<1>8. ASSUME NEW t \in TaskIds, NEW r, NEW ts, NEW ss, MovesTo(t, r, ts, ss),
             Begins(Compactor, ts, ss)
      PROVE  Grows(tasks, tasks')
  <2>1. /\ Grows(tasks, ts) /\ DOMAIN ts = TaskIds
        /\ \A u \in TaskIds : tasks[u].status = "none" => ts[u] = tasks[u]
    BY <1>2, <1>8, ZenonT(30)
  <2> QED
    BY <1>3, <1>8, <2>1, ZenonT(30)
<1> QED
  BY <1>1, <1>4, <1>5, <1>6, <1>7, <1>8, DelegateGrows, Steps, ZenonT(30) DEF TablesStep

\* Delegation chains are short and never come back to an agent, whatever the agents may
\* delegate to each other (the delegate branch of fn_submit_result).
THEOREM ChainsStayAcyclic == Spec => []ChainsAcyclic
<1>1. Init => TypeInv /\ ChainsFit(tasks)
  <2> SUFFICES ASSUME Init
               PROVE  ChainsFit(tasks)
    BY TypeInit, ZenonT(30)
  <2>1. Used(tasks) = {}
    BY ZenonT(30) DEF Init, Unused, NewTask, Used
  <2> QED
    BY <2>1, ZenonT(30) DEF ChainsFit
<1>2. TypeInv /\ ChainsFit(tasks) /\ [Next]_vars => (TypeInv /\ ChainsFit(tasks))'
  <2> SUFFICES ASSUME TypeInv, ChainsFit(tasks), [Next]_vars
               PROVE  TypeInv' /\ ChainsFit(tasks')
    OBVIOUS
  <2>1. TypeInv'
    BY TypeStep, ZenonT(30)
  <2>2. \A t \in TaskIds : tasks[t].depth \in Nat
    BY DEF TypeInv, TasksTyped, TaskRow
  <2> QED
    BY <2>1, <2>2, GrowsStep, GrowsFit, ZenonT(30)
<1>3. ChainsFit(tasks) => ChainsAcyclic
  BY ZenonT(30) DEF ChainsFit, ChainFits, ChainsAcyclic, Used, Line, Ancestors
<1> QED
  BY <1>1, <1>2, <1>3, PTL DEF Spec

============================================================================
