----------------------- MODULE TaskLifecycle_safety ------------------------
(* Calls, tasks and approvals stay in step, for every value of the constants. *)
EXTENDS TaskLifecycle_proofs, FiniteSetTheorems

Pending(p) == approvals[p].status = "pending"

\* A pending approval belongs to a task that waits for it, or has ended meanwhile.
AskedTasksWait ==
  \A p \in ApprovalIds : Pending(p) =>
    tasks[approvals[p].task].status \in {"waiting_human"} \cup Terminal

\* A task has one pending approval at most.
AskedOnce ==
  \A p, q \in ApprovalIds :
    Pending(p) /\ Pending(q) /\ approvals[p].task = approvals[q].task => p = q

\* Only an approval of a guarded call leaves a live call behind: whatever else is approved
\* puts the task back in the queue, where it must have none.
AskedIsIdle ==
  \A p \in ApprovalIds :
    /\ Pending(p)
    /\ approvals[p].why # "guard"
    /\ tasks[approvals[p].task].status = "waiting_human"
    => \A c \in CallIds : calls[c].task = approvals[p].task => calls[c].status \notin Live

\* A task that waits for a human has a pending approval.
WaitingIsAsked ==
  \A t \in TaskIds : tasks[t].status = "waiting_human" =>
    \E p \in ApprovalIds : Pending(p) /\ approvals[p].task = t

Safe ==
  /\ OneLiveCall
  /\ InFlightIsRunning
  /\ AskedTasksWait
  /\ AskedOnce
  /\ AskedIsIdle
  /\ WaitingIsAsked

\* An approval that guards a call belongs to the call's task.
GuardOfCall ==
  \A p \in ApprovalIds :
    approvals[p].status # "none" /\ approvals[p].why = "guard" =>
      /\ approvals[p].call \in CallIds
      /\ calls[approvals[p].call].status # "none"
      /\ approvals[p].task = calls[approvals[p].call].task

\* The inductive invariant.
IInv == TypeInv /\ Safe /\ GuardOfCall

----------------------------------------------------------------------------
(* What a step does to the tables, as far as Safe can tell *)

\* A task keeps its status, or its row is taken into use.
Kept(u) ==
  \/ tasks'[u].status = tasks[u].status
  \/ tasks[u].status = "none" /\ tasks'[u].status = "queued"

\* Task t moves to a status of sts; the others are kept.
TaskTo(t, sts) ==
  tasks'[t].status \in sts /\ \A u \in TaskIds \ {t} : Kept(u)

\* Call c is settled; the others are not touched.
CallEnds(c) ==
  /\ calls'[c].status \in {"harvested", "lost"}
  /\ \A d \in CallIds \ {c} : calls'[d] = calls[d]

Settled == {"running", "failed", "completed", "waiting_children"}

\* A live call of a running task is settled, and the task goes on, waits for its children or
\* ends.
LEMMA CallSettled ==
  ASSUME IInv, NEW c \in CallIds, calls[c].status \in Live,
         tasks[calls[c].task].status = "running",
         CallEnds(c), TaskTo(calls[c].task, Settled), approvals' = approvals
  PROVE  Safe'
  <1>1. \A d \in CallIds : calls[d].status # "none" => calls[d].task \in TaskIds
    BY ZenonT(30) DEF IInv, TypeInv, CallsTyped
  <1>2. \A p \in ApprovalIds : Pending(p) => approvals[p].task \in TaskIds
    BY ZenonT(30) DEF IInv, TypeInv, ApprovalsTyped, Pending
  <1>3. OneLiveCall'
    BY <1>1, SMTT(30), Z3T(30) DEF IInv, Safe, OneLiveCall, CallEnds, TaskTo, Kept, Settled, Live
  <1>4. InFlightIsRunning'
    BY <1>1, SMTT(30), Z3T(30) DEF IInv, Safe, OneLiveCall, InFlightIsRunning, CallEnds, TaskTo, Kept, Live
  <1>5. AskedTasksWait'
    BY <1>2, ZenonT(30) DEF IInv, Safe, AskedTasksWait, TaskTo, Kept, Pending, Terminal
  <1>6. AskedOnce'
    BY ZenonT(30) DEF IInv, Safe, AskedOnce, Pending
  <1>7. AskedIsIdle'
    BY <1>2, SMTT(30), Z3T(30) DEF IInv, Safe, AskedIsIdle, AskedTasksWait, TaskTo, Kept, CallEnds, Pending, Settled,
         Live, Terminal
  <1>8. WaitingIsAsked'
    BY DEF IInv, Safe, WaitingIsAsked, TaskTo, Kept, Pending, Settled
  <1> QED
    BY <1>3, <1>4, <1>5, <1>6, <1>7, <1>8, ZenonT(30) DEF Safe

\* A live call of a running task is settled, and the task asks a human.
LEMMA CallPaused ==
  ASSUME IInv, NEW c \in CallIds, calls[c].status \in Live,
         tasks[calls[c].task].status = "running",
         CallEnds(c), TaskTo(calls[c].task, {"waiting_human"}),
         NEW n \in ApprovalIds, approvals[n].status = "none",
         approvals'[n].status = "pending", approvals'[n].task = calls[c].task,
         approvals'[n].why # "guard",
         \A p \in ApprovalIds \ {n} : approvals'[p] = approvals[p]
  PROVE  Safe'
  <1>1. \A d \in CallIds : calls[d].status # "none" => calls[d].task \in TaskIds
    BY ZenonT(30) DEF IInv, TypeInv, CallsTyped
  <1>2. \A p \in ApprovalIds : Pending(p) => approvals[p].task \in TaskIds
    BY ZenonT(30) DEF IInv, TypeInv, ApprovalsTyped, Pending
  <1>3. OneLiveCall'
    BY <1>1, SMTT(30), Z3T(30) DEF IInv, Safe, OneLiveCall, CallEnds, TaskTo, Kept, Live
  <1>4. InFlightIsRunning'
    BY <1>1, SMTT(30), Z3T(30) DEF IInv, Safe, OneLiveCall, InFlightIsRunning, CallEnds, TaskTo, Kept, Live
  <1>5. AskedTasksWait'
    BY <1>2, SMTT(30), Z3T(30) DEF IInv, Safe, AskedTasksWait, TaskTo, Kept, Pending, Terminal
  <1>6. AskedOnce'
    BY SMTT(30), Z3T(30) DEF IInv, Safe, AskedOnce, AskedTasksWait, Pending, Terminal
  <1>7. AskedIsIdle'
    BY <1>1, <1>2, SMTT(30), Z3T(30) DEF IInv, Safe, AskedIsIdle, AskedTasksWait, OneLiveCall, TaskTo, Kept, CallEnds,
         Pending, Live, Terminal
  <1>8. WaitingIsAsked'
    BY DEF IInv, Safe, WaitingIsAsked, TaskTo, Kept, Pending
  <1> QED
    BY <1>3, <1>4, <1>5, <1>6, <1>7, <1>8, ZenonT(30) DEF Safe

\* A call nobody waits for any more is settled.
LEMMA CallSkipped ==
  ASSUME IInv, NEW c \in CallIds, CallEnds(c), tasks' = tasks, approvals' = approvals
  PROVE  Safe'
  <1>1. OneLiveCall' /\ InFlightIsRunning'
    BY ZenonT(30) DEF IInv, Safe, OneLiveCall, InFlightIsRunning, CallEnds, Live
  <1>2. AskedTasksWait' /\ AskedOnce' /\ WaitingIsAsked'
    BY ZenonT(30) DEF IInv, Safe, AskedTasksWait, AskedOnce, WaitingIsAsked, Pending
  <1>3. AskedIsIdle'
    BY ZenonT(30) DEF IInv, Safe, AskedIsIdle, CallEnds, Pending, Live
  <1> QED
    BY <1>1, <1>2, <1>3, ZenonT(30) DEF Safe

\* A runnable task without another live call queues a call.
LEMMA CallQueued ==
  ASSUME IInv, NEW t \in TaskIds, tasks[t].status \in {"queued", "running"},
         NEW n \in CallIds, calls'[n].status = "queued", calls'[n].task = t,
         \A d \in CallIds \ {n} : calls'[d].status \in Live =>
           calls'[d] = calls[d] /\ calls[d].task # t,
         TaskTo(t, {"running"}), approvals' = approvals
  PROVE  Safe'
  <1>1. \A d \in CallIds : calls[d].status # "none" => calls[d].task \in TaskIds
    BY ZenonT(30) DEF IInv, TypeInv, CallsTyped
  <1>2. \A p \in ApprovalIds : Pending(p) => approvals[p].task \in TaskIds
    BY ZenonT(30) DEF IInv, TypeInv, ApprovalsTyped, Pending
  <1>3. OneLiveCall'
    BY <1>1, SMTT(30), Z3T(30) DEF IInv, Safe, OneLiveCall, TaskTo, Kept, Live
  <1>4. InFlightIsRunning'
    BY <1>1, SMTT(30), Z3T(30) DEF IInv, Safe, InFlightIsRunning, TaskTo, Kept, Live
  <1>5. AskedTasksWait'
    BY <1>2, ZenonT(30) DEF IInv, Safe, AskedTasksWait, TaskTo, Kept, Pending, Terminal
  <1>6. AskedOnce'
    BY ZenonT(30) DEF IInv, Safe, AskedOnce, Pending
  <1>7. AskedIsIdle'
    BY <1>2, SMTT(30), Z3T(30) DEF IInv, Safe, AskedIsIdle, AskedTasksWait, TaskTo, Kept, Pending, Live, Terminal
  <1>8. WaitingIsAsked'
    BY SMTT(30), Z3T(30) DEF IInv, Safe, WaitingIsAsked, TaskTo, Kept, Pending
  <1> QED
    BY <1>3, <1>4, <1>5, <1>6, <1>7, <1>8, ZenonT(30) DEF Safe

\* A task without a live call, not waiting for a human, moves on.
LEMMA TaskMovesOn ==
  ASSUME IInv, NEW t \in TaskIds,
         tasks[t].status \in {"none", "queued", "running", "waiting_children"},
         \A c \in CallIds : calls[c].task = t => calls[c].status \notin Live,
         TaskTo(t, {"queued", "running", "failed"}), calls' = calls, approvals' = approvals
  PROVE  Safe'
  <1>1. \A d \in CallIds : calls[d].status # "none" => calls[d].task \in TaskIds
    BY ZenonT(30) DEF IInv, TypeInv, CallsTyped
  <1>2. \A p \in ApprovalIds : Pending(p) => approvals[p].task \in TaskIds
    BY ZenonT(30) DEF IInv, TypeInv, ApprovalsTyped, Pending
  <1>3. OneLiveCall'
    BY <1>1, ZenonT(30) DEF IInv, Safe, OneLiveCall, TaskTo, Kept, Live
  <1>4. InFlightIsRunning'
    BY <1>1, ZenonT(30) DEF IInv, Safe, InFlightIsRunning, TaskTo, Kept, Live
  <1>5. AskedTasksWait'
    BY <1>2, ZenonT(30) DEF IInv, Safe, AskedTasksWait, TaskTo, Kept, Pending, Terminal
  <1>6. AskedOnce'
    BY ZenonT(30) DEF IInv, Safe, AskedOnce, Pending
  <1>7. AskedIsIdle'
    BY <1>2, ZenonT(30) DEF IInv, Safe, AskedIsIdle, AskedTasksWait, TaskTo, Kept, Pending, Live, Terminal
  <1>8. WaitingIsAsked'
    BY ZenonT(30) DEF IInv, Safe, WaitingIsAsked, TaskTo, Kept, Pending
  <1> QED
    BY <1>3, <1>4, <1>5, <1>6, <1>7, <1>8, ZenonT(30) DEF Safe

\* The tasks of owners end and their calls and, some or all, their approvals are withdrawn.
LEMMA TasksWithdrawn ==
  ASSUME IInv, NEW owners \in SUBSET TaskIds,
         \A u \in TaskIds : \/ tasks'[u].status = tasks[u].status
                            \/ tasks'[u].status \in Terminal,
         \A u \in TaskIds \ owners : tasks'[u].status = tasks[u].status,
         \A u \in owners : tasks'[u].status \notin Open,
         calls' = Withdrawn(owners),
         \A p \in ApprovalIds : \/ approvals'[p] = approvals[p]
                                \/ /\ approvals[p].task \in owners
                                   /\ approvals'[p].status = "rejected"
  PROVE  Safe'
  <1>1. \A d \in CallIds : calls[d].status # "none" => calls[d].task \in TaskIds
    BY ZenonT(30) DEF IInv, TypeInv, CallsTyped
  <1>2. \A p \in ApprovalIds : Pending(p) => approvals[p].task \in TaskIds
    BY ZenonT(30) DEF IInv, TypeInv, ApprovalsTyped, Pending
  <1>3. /\ \A c \in CallIds : calls'[c] = calls[c] \/ calls'[c].status = "lost"
        /\ \A c \in CallIds : calls[c].task \in owners /\ calls'[c].status \in Live =>
             calls'[c].kind = "local"
    BY SMTT(30), Z3T(30) DEF IInv, TypeInv, CallsTyped, CallRow, Withdrawn, Live
  <1>4. OneLiveCall'
    BY <1>1, <1>3, SMTT(30), Z3T(30) DEF IInv, Safe, OneLiveCall, Live, Terminal
  <1>5. InFlightIsRunning'
    BY <1>1, <1>3, SMTT(30), Z3T(30) DEF IInv, Safe, InFlightIsRunning, Live
  <1>6. AskedTasksWait'
    BY <1>2, ZenonT(30) DEF IInv, Safe, AskedTasksWait, Pending
  <1>7. AskedOnce'
    BY SMTT(30), Z3T(30) DEF IInv, Safe, AskedOnce, Pending
  <1>8. AskedIsIdle'
    BY <1>2, <1>3, SMTT(30), Z3T(30) DEF IInv, Safe, AskedIsIdle, Pending, Live, Terminal
  <1>9. WaitingIsAsked'
    BY SMTT(30), Z3T(30) DEF IInv, Safe, WaitingIsAsked, Pending, Open, Holding, Terminal
  <1> QED
    BY <1>4, <1>5, <1>6, <1>7, <1>8, <1>9, ZenonT(30) DEF Safe

\* A pending approval is decided or expires, and its task, if it waits, moves on.
LEMMA ApprovalSettled ==
  ASSUME IInv, NEW p \in ApprovalIds, Pending(p), approvals'[p].status # "pending",
         \A q \in ApprovalIds \ {p} : approvals'[q] = approvals[q],
         calls' = calls,
         LET t == approvals[p].task
         IN  IF tasks[t].status = "waiting_human"
             THEN TaskTo(t, IF approvals[p].why = "guard" THEN {"failed", "running"}
                            ELSE {"failed", "queued"})
             ELSE tasks' = tasks
  PROVE  Safe'
  <1> DEFINE t == approvals[p].task
  <1>1. \A d \in CallIds : calls[d].status # "none" => calls[d].task \in TaskIds
    BY ZenonT(30) DEF IInv, TypeInv, CallsTyped
  <1>2. \A q \in ApprovalIds : Pending(q) => approvals[q].task \in TaskIds
    BY ZenonT(30) DEF IInv, TypeInv, ApprovalsTyped, Pending
  <1>3. \A u \in TaskIds \ {t} : Kept(u)
    BY ZenonT(30) DEF TaskTo, Kept
  <1>4. \/ tasks' = tasks /\ tasks[t].status # "waiting_human"
        \/ /\ tasks[t].status = "waiting_human"
           /\ \/ tasks'[t].status = "failed"
              \/ tasks'[t].status = "running" /\ approvals[p].why = "guard"
              \/ tasks'[t].status = "queued" /\ approvals[p].why # "guard"
    BY ZenonT(30) DEF TaskTo
  <1> HIDE DEF t
  <1>5. OneLiveCall'
    BY <1>1, <1>3, <1>4, ZenonT(30) DEF IInv, Safe, OneLiveCall, AskedIsIdle, Kept, Live, t
  <1>6. InFlightIsRunning'
    BY <1>1, <1>3, <1>4, ZenonT(30) DEF IInv, Safe, InFlightIsRunning, Kept, Live
  <1>7. ASSUME NEW q \in ApprovalIds, Pending(q)'
        PROVE  /\ q # p /\ Pending(q) /\ approvals'[q] = approvals[q]
               /\ approvals[q].task \in TaskIds \ {t}
    <2>1. q # p
      BY <1>7, ZenonT(30) DEF Pending
    <2>2. approvals'[q] = approvals[q] /\ Pending(q)
      BY <1>7, <2>1, ZenonT(30) DEF Pending
    <2>3. approvals[q].task # t
      BY <2>1, <2>2, ZenonT(30) DEF IInv, Safe, AskedOnce, t
    <2> QED
      BY <1>2, <2>1, <2>2, <2>3, ZenonT(30)
  <1>8. AskedTasksWait'
    <2> SUFFICES ASSUME NEW q \in ApprovalIds, Pending(q)'
                 PROVE  tasks'[approvals'[q].task].status \in {"waiting_human"} \cup Terminal
      BY ZenonT(30) DEF AskedTasksWait
    <2>1. tasks[approvals[q].task].status \in {"waiting_human"} \cup Terminal
      BY <1>7, ZenonT(30) DEF IInv, Safe, AskedTasksWait
    <2>2. Kept(approvals[q].task)
      BY <1>3, <1>7, ZenonT(30)
    <2> QED
      BY <1>7, <2>1, <2>2, ZenonT(30) DEF Kept, Terminal
  <1>9. AskedOnce'
    BY ZenonT(30) DEF IInv, Safe, AskedOnce, Pending
  <1>10. AskedIsIdle'
    <2> SUFFICES ASSUME NEW q \in ApprovalIds, Pending(q)', approvals'[q].why # "guard",
                        tasks'[approvals'[q].task].status = "waiting_human",
                        NEW d \in CallIds, calls'[d].task = approvals'[q].task
                 PROVE  calls'[d].status \notin Live
      BY ZenonT(30) DEF AskedIsIdle, Live
    <2>1. tasks[approvals[q].task].status = "waiting_human"
      BY <1>3, <1>7, SMTT(30), Z3T(30) DEF Kept
    <2> QED
      BY <1>7, <2>1, ZenonT(30) DEF IInv, Safe, AskedIsIdle
  <1>11. WaitingIsAsked'
    BY <1>3, <1>4, SMTT(30), Z3T(30) DEF IInv, Safe, WaitingIsAsked, Kept, Pending, t
  <1> QED
    BY <1>5, <1>6, <1>8, <1>9, <1>10, <1>11, ZenonT(30) DEF Safe

\* A queued call of a running task is claimed.
LEMMA CallSent ==
  ASSUME IInv, NEW c \in CallIds, calls[c].status = "queued",
         tasks[calls[c].task].status = "running",
         calls'[c].status = "in_flight", calls'[c].task = calls[c].task,
         \A d \in CallIds \ {c} : calls'[d] = calls[d],
         tasks' = tasks, approvals' = approvals
  PROVE  Safe'
  <1>1. OneLiveCall' /\ InFlightIsRunning'
    BY SMTT(30), Z3T(30) DEF IInv, Safe, OneLiveCall, InFlightIsRunning, Live
  <1>2. AskedTasksWait' /\ AskedOnce' /\ WaitingIsAsked'
    BY ZenonT(30) DEF IInv, Safe, AskedTasksWait, AskedOnce, WaitingIsAsked, Pending
  <1>3. AskedIsIdle'
    BY SMTT(30), Z3T(30) DEF IInv, Safe, AskedIsIdle, Pending, Live
  <1> QED
    BY <1>1, <1>2, <1>3, ZenonT(30) DEF Safe

\* A queued call of a running task is parked until a human approves it.
LEMMA CallParked ==
  ASSUME IInv, NEW c \in CallIds, calls[c].status = "queued",
         tasks[calls[c].task].status = "running",
         calls' = calls, TaskTo(calls[c].task, {"waiting_human"}),
         NEW n \in ApprovalIds, approvals[n].status = "none",
         approvals'[n].status = "pending", approvals'[n].task = calls[c].task,
         approvals'[n].why = "guard",
         \A p \in ApprovalIds \ {n} :
           \/ approvals'[p] = approvals[p]
           \/ approvals'[p].status = "rejected" /\ approvals[p].task = calls[c].task
  PROVE  Safe'
  <1>1. \A d \in CallIds : calls[d].status # "none" => calls[d].task \in TaskIds
    BY ZenonT(30) DEF IInv, TypeInv, CallsTyped
  <1>2. \A p \in ApprovalIds : Pending(p) => approvals[p].task \in TaskIds
    BY ZenonT(30) DEF IInv, TypeInv, ApprovalsTyped, Pending
  <1>3. OneLiveCall'
    BY <1>1, SMTT(30), Z3T(30) DEF IInv, Safe, OneLiveCall, TaskTo, Kept, Live
  <1>4. InFlightIsRunning'
    BY <1>1, SMTT(30), Z3T(30) DEF IInv, Safe, OneLiveCall, InFlightIsRunning, TaskTo, Kept, Live
  <1>5. AskedTasksWait'
    BY <1>2, SMTT(30), Z3T(30) DEF IInv, Safe, AskedTasksWait, TaskTo, Kept, Pending, Terminal
  <1>6. AskedOnce'
    BY SMTT(30), Z3T(30) DEF IInv, Safe, AskedOnce, AskedTasksWait, Pending, Terminal
  <1>7. AskedIsIdle'
    BY <1>1, <1>2, SMTT(30), Z3T(30) DEF IInv, Safe, AskedIsIdle, AskedTasksWait, TaskTo, Kept, Pending, Live, Terminal
  <1>8. WaitingIsAsked'
    BY SMTT(30), Z3T(30) DEF IInv, Safe, WaitingIsAsked, TaskTo, Kept, Pending
  <1> QED
    BY <1>3, <1>4, <1>5, <1>6, <1>7, <1>8, ZenonT(30) DEF Safe

----------------------------------------------------------------------------
(* Every step is one of these *)

\* Rewriting one task to a status is what TaskTo says.
LEMMA RowTo ==
  ASSUME TypeInv, NEW t \in TaskIds, NEW r, NEW sts, r.status \in sts,
         tasks' = [tasks EXCEPT ![t] = r]
  PROVE  TaskTo(t, sts)
  BY ZenonT(30) DEF TypeInv, TasksTyped, TaskTo, Kept

\* Rewriting one call to a settled status is what CallEnds says.
LEMMA CallTo ==
  ASSUME TypeInv, NEW c \in CallIds, NEW st \in {"harvested", "lost"},
         calls' = [calls EXCEPT ![c].status = st]
  PROVE  CallEnds(c)
  BY ZenonT(30) DEF TypeInv, CallsTyped, CallRow, CallEnds

\* pause_ambiguous_outbound keeps Safe.
LEMMA PauseSafe ==
  ASSUME IInv, NEW c \in CallIds, calls[c].status \in Live,
         tasks[calls[c].task].status = "running", Pause(c)
  PROVE  Safe'
  <1> DEFINE t == calls[c].task
             row == tasks[t]
  <1>0. TypeInv /\ approvals \in [ApprovalIds -> ApprovalRow]
    BY ZenonT(30) DEF IInv, TypeInv, ApprovalsTyped
  <1>1. t \in TaskIds /\ row \in TaskRow
    BY <1>0, CallOfTask, ZenonT(30) DEF Live
  <1>2. CallEnds(c)
    BY <1>0, CallTo, ZenonT(30) DEF Pause
  <1>3. tasks' = [tasks EXCEPT ![t] = Paused(row)]
    BY ZenonT(30) DEF Pause, Paused
  <1>4. TaskTo(t, {"waiting_human"})
    BY <1>0, <1>1, <1>3, StatusMoves, RowTo, ZenonT(30)
  <1>5. PICK n \in NextId(approvals, MaxApprovals) :
          approvals' = [approvals EXCEPT ![n] = NewApproval(t, c, "ambiguous", 0)]
    BY ZenonT(30) DEF Pause
  <1>6. n \in ApprovalIds /\ approvals[n].status = "none"
    BY DEF NextId, ApprovalIds
  <1>7. /\ approvals'[n].status = "pending" /\ approvals'[n].task = t /\ approvals'[n].why # "guard"
        /\ \A p \in ApprovalIds \ {n} : approvals'[p] = approvals[p]
    BY <1>0, <1>5, <1>6 DEF NewApproval
  <1> QED
    BY <1>2, <1>4, <1>6, <1>7, CallPaused, ZenonT(30)

\* Every way a result is reported keeps Safe.
LEMMA CompleteSafe ==
  ASSUME IInv, NEW c \in CallIds, Complete(c)
  PROVE  Safe'
  <1> DEFINE t == calls[c].task
             row == tasks[t]
  <1>0. TypeInv
    BY ZenonT(30) DEF IInv
  <1>1. Delivers(c) => /\ t \in TaskIds /\ row \in TaskRow /\ row.status = "running"
                       /\ calls[c].status \in Live
    BY <1>0, DeliveredTask, ZenonT(30) DEF Delivers, Holds, Live
  <1> HIDE DEF t, row
  \* The call is harvested and the task goes on, waits for its children or ends.
  <1>2. ASSUME Delivers(c), calls' = Harvested(c), approvals' = approvals,
               NEW r, tasks' = [tasks EXCEPT ![t] = r], r.status \in Settled
        PROVE  Safe'
    <2>1. CallEnds(c)
      BY <1>0, <1>2, CallTo, ZenonT(30) DEF Harvested
    <2>2. TaskTo(t, Settled)
      BY <1>0, <1>1, <1>2, RowTo, ZenonT(30)
    <2> QED
      BY <1>1, <1>2, <2>1, <2>2, CallSettled, ZenonT(30) DEF t, row
  <1>3. CASE CompleteStale(c)
    BY <1>3 DEF CompleteStale, IInv, Safe, OneLiveCall, InFlightIsRunning, AskedTasksWait, AskedOnce,
         AskedIsIdle, WaitingIsAsked, Pending
  <1>4. CASE CompleteSkipped(c)
    <2>1. CallEnds(c)
      BY <1>0, <1>4, CallTo, ZenonT(30) DEF CompleteSkipped
    <2> QED
      BY <1>4, <2>1, CallSkipped, ZenonT(30) DEF CompleteSkipped
  <1>5. CASE ToolResult(c)
    <2>1. Delivers(c)
      BY <1>5 DEF ToolResult
    <2>2. SubmitResult(row).status \in Settled
      BY <1>1, <2>1, SubmitMoves, ZenonT(30) DEF Settled
    <2> QED
      BY <1>2, <1>5, <2>1, <2>2, ZenonT(30) DEF ToolResult, Settle, t, row
  <1>6. CASE CallError(c)
    <2>1. Delivers(c)
      BY <1>6 DEF CallError
    <2>2. SubmitError(row).status \in Settled
      BY <1>1, <2>1, SubmitMoves DEF Settled
    <2> QED
      BY <1>2, <1>6, <2>1, <2>2, ZenonT(30) DEF CallError, Settle, t, row
  <1>7. CASE AmbiguousResult(c)
    BY <1>1, <1>7, PauseSafe, ZenonT(30) DEF AmbiguousResult, t, row
  <1>8. CASE FinalAnswer(c)
    <2>1. Delivers(c)
      BY <1>8, ZenonT(30) DEF FinalAnswer, Says, Answers
    <2>2. Answered(row).status \in Settled
      BY <1>1, <2>1, StatusMoves, ZenonT(30) DEF Settled
    <2>3. tasks' = [tasks EXCEPT ![t] = Answered(row)]
      BY <1>8, ZenonT(30) DEF FinalAnswer, Answered, t, row
    <2> QED
      BY <1>2, <1>8, <2>1, <2>2, <2>3, ZenonT(30) DEF FinalAnswer
  <1>9. CASE Note(c)
    <2>1. Delivers(c)
      BY <1>9 DEF Note, Says, Answers
    <2>2. Step(row).status \in Settled
      BY <1>1, <2>1, RowMoves, ZenonT(30) DEF Settled
    <2> QED
      BY <1>2, <1>9, <2>1, <2>2, ZenonT(30) DEF Note, t, row
  <1>17. CASE \E a \in Agents : ApplyChange(c, a)
    <2>1. Delivers(c)
      BY <1>17 DEF ApplyChange, Answers
    <2>2. Step(row).status \in Settled
      BY <1>1, <2>1, RowMoves DEF Settled
    <2> QED
      BY <1>2, <1>17, <2>1, <2>2, ZenonT(30) DEF ApplyChange, t, row
  <1>10. CASE ReplyRejected(c) \/ \E b \in Agents : DelegateRefused(c, b)
    <2>1. Delivers(c)
      BY <1>10, ZenonT(30) DEF ReplyRejected, DelegateRefused, Says, Answers
    <2>2. Reject(row).status \in Settled
      BY <1>1, <2>1, RowMoves, ZenonT(30) DEF Settled
    <2> QED
      BY <1>2, <1>10, <2>1, <2>2, ZenonT(30) DEF ReplyRejected, DelegateRefused, t, row
  <1>11. CASE ReplyRaises(c)
    <2>1. Delivers(c)
      BY <1>11, ZenonT(30) DEF ReplyRaises, Says, Answers
    <2>2. CallEnds(c) /\ tasks' = tasks /\ approvals' = approvals
      BY <1>0, <1>11, CallTo, ZenonT(30) DEF ReplyRaises, Harvested
    <2> QED
      BY <2>2, CallSkipped, ZenonT(30)
  <1>12. CASE ReplyDiscarded(c)
    <2>1. Delivers(c)
      BY <1>12 DEF ReplyDiscarded, Answers
    <2>2. Discard(row).status \in Settled
      BY <1>1, <2>1, RowMoves, ZenonT(30) DEF Settled
    <2> QED
      BY <1>2, <1>12, <2>1, <2>2, ZenonT(30) DEF ReplyDiscarded, Settle, t, row
  <1>13. CASE AwaitHuman(c)
    <2> DEFINE r == StepTo(row, "waiting_human")
    <2>1. Delivers(c)
      BY <1>13, ZenonT(30) DEF AwaitHuman, Says, Answers
    <2>2. r.status = "waiting_human"
      BY <1>1, <2>1, StatusMoves, ZenonT(30) DEF Statuses, Open, Holding
    <2>3. tasks' = [tasks EXCEPT ![t] = r]
      BY <1>13, ZenonT(30) DEF AwaitHuman, StepTo, t, row
    <2> HIDE DEF r
    <2>4. TaskTo(t, {"waiting_human"})
      BY <1>0, <1>1, <2>1, <2>2, <2>3, RowTo, ZenonT(30)
    <2>5. CallEnds(c)
      BY <1>0, <1>13, CallTo, ZenonT(30) DEF AwaitHuman, Harvested
    <2>6. PICK n \in NextId(approvals, MaxApprovals) :
            approvals' = [approvals EXCEPT ![n] = NewApproval(t, 0, "human", 0)]
      BY <1>13, ZenonT(30) DEF AwaitHuman, t
    <2>7. n \in ApprovalIds /\ approvals[n].status = "none"
      BY DEF NextId, ApprovalIds
    <2>8. /\ approvals'[n].status = "pending" /\ approvals'[n].task = t
          /\ approvals'[n].why # "guard"
          /\ \A p \in ApprovalIds \ {n} : approvals'[p] = approvals[p]
      BY <1>0, <2>6, <2>7 DEF NewApproval, TypeInv, ApprovalsTyped
    <2> QED
      BY <1>1, <2>1, <2>4, <2>5, <2>7, <2>8, CallPaused, ZenonT(30) DEF t, row
  <1>14. CASE AwaitChildren(c)
    <2> DEFINE r == IF Unfinished(t) = {} THEN Reject(row) ELSE StepTo(row, "waiting_children")
    <2>1. Delivers(c)
      BY <1>14, ZenonT(30) DEF AwaitChildren, Says, Answers
    <2>2. r.status \in Settled
      BY <1>1, <2>1, RowMoves, StatusMoves, ZenonT(30) DEF Statuses, Open, Holding, Settled
    <2>3. tasks' = [tasks EXCEPT ![t] = r]
      BY <1>14, ZenonT(30) DEF AwaitChildren, StepTo, t, row
    <2> HIDE DEF r
    <2> QED
      BY <1>2, <1>14, <2>1, <2>2, <2>3, ZenonT(30) DEF AwaitChildren
  <1>15. CASE \E k \in ToolKinds : ToolCall(c, k)
    <2>1. PICK k \in ToolKinds : ToolCall(c, k)
      BY <1>15, ZenonT(30)
    <2>2. Delivers(c) /\ approvals' = approvals
      BY <2>1, ZenonT(30) DEF ToolCall, Says, Answers
    <2>3. Step(row).status = "running"
      BY <1>1, <2>2, RowMoves, ZenonT(30)
    <2>4. TaskTo(t, {"running"})
      BY <1>0, <1>1, <2>1, <2>2, <2>3, RowTo, ZenonT(30) DEF ToolCall, t, row
    <2>5. PICK n \in NextId(calls, MaxCalls) :
            calls' = [calls EXCEPT ![c].status = "harvested", ![n] = NewCall(t, k)]
      BY <2>1, ZenonT(30) DEF ToolCall, t
    <2>6. n \in CallIds /\ calls[n].status = "none" /\ n # c
      BY <1>1, <2>2 DEF NextId, CallIds, Live
    <2>7. /\ calls'[n].status = "queued" /\ calls'[n].task = t
          /\ \A d \in CallIds \ {n} : calls'[d].status \in Live => d # c /\ calls'[d] = calls[d]
      BY <1>0, <2>5, <2>6 DEF NewCall, TypeInv, CallsTyped, CallRow, Live
    <2>8. \A d \in CallIds \ {c} : calls[d].status \in Live => calls[d].task # t
      BY <1>1, <2>2, ZenonT(30) DEF IInv, Safe, OneLiveCall, t
    <2>9. \A d \in CallIds \ {n} : calls'[d].status \in Live => calls'[d] = calls[d] /\ calls[d].task # t
      <3> SUFFICES ASSUME NEW d \in CallIds \ {n}, calls'[d].status \in Live
                   PROVE  calls'[d] = calls[d] /\ calls[d].task # t
        OBVIOUS
      <3>1. d # c /\ calls'[d] = calls[d]
        BY <2>7, ZenonT(30)
      <3> QED
        BY <2>8, <3>1, ZenonT(30)
    <2>10. t \in TaskIds /\ tasks[t].status \in {"queued", "running"}
      BY <1>1, <2>2, ZenonT(30) DEF row
    <2> QED
      BY <2>2, <2>4, <2>6, <2>7, <2>9, <2>10, CallQueued, ZenonT(30)
  <1>16. CASE \E b \in Agents : \E w \in BOOLEAN : Delegate(c, b, w)
    <2>1. PICK b \in Agents, w \in BOOLEAN : Delegate(c, b, w)
      BY <1>16, ZenonT(30)
    <2> DEFINE st == IF w THEN "running" ELSE "completed"
               r == StepTo(row, st)
    <2>2. Delivers(c) /\ calls' = Harvested(c) /\ approvals' = approvals
      BY <2>1, ZenonT(30) DEF Delegate, Says, Answers
    <2>3. st \in Statuses /\ st \in Settled
      BY ZenonT(30) DEF Statuses, Open, Holding, Terminal, Settled
    <2>4. PICK n \in NextId(tasks, MaxTasks) :
            tasks' = [tasks EXCEPT ![t] = r,
                                   ![n] = NewTask(b, row.session, t, row.depth + 1)]
      BY <2>1, ZenonT(30) DEF Delegate, StepTo, t, row
    <2> HIDE DEF st
    <2>5. r.status \in Settled
      BY <1>1, <2>2, <2>3, StatusMoves
    <2> HIDE DEF r
    <2>6. n \in TaskIds /\ tasks[n].status = "none" /\ n # t
      BY <1>1, <2>2, ZenonT(30) DEF NextId, TaskIds, row
    <2>7. TaskTo(t, Settled)
      BY <1>0, <1>1, <2>2, <2>4, <2>5, <2>6, ZenonT(30) DEF TaskTo, Kept, NewTask, TypeInv, TasksTyped
    <2>8. CallEnds(c)
      BY <1>0, <2>2, CallTo, ZenonT(30) DEF Harvested
    <2> QED
      BY <1>1, <2>2, <2>7, <2>8, CallSettled, ZenonT(30) DEF t, row
  <1> QED
    BY <1>3, <1>4, <1>5, <1>6, <1>7, <1>8, <1>9, <1>10, <1>11, <1>12, <1>13, <1>14, <1>15, <1>16,
       <1>17, ZenonT(30)
       DEF Complete, Submit

\* Dispatching a task keeps Safe.
LEMMA DispatchSafe ==
  ASSUME IInv, NEW t \in TaskIds, Dispatch(t)
  PROVE  Safe'
  <1> DEFINE row == tasks[t]
  <1>0. TypeInv /\ row \in TaskRow /\ tasks \in [TaskIds -> TaskRow]
    BY DEF IInv, TypeInv, TasksTyped
  <1>1. Eligible(t)
    BY ZenonT(30) DEF Dispatch, DispatchDone, DispatchLlm, DispatchNoProvider, GoesOn
  <1>2. /\ row.status \in {"queued", "running"}
        /\ \A c \in CallIds : calls[c].task = t => calls[c].status \notin Live
    BY <1>1, ZenonT(30) DEF Eligible
  <1>3. Started(t) = StartedRow(row)
    BY ZenonT(30) DEF Started, StartedRow
  <1>4. StartedRow(row) \in TaskRow /\ StartedRow(row).status = "running"
    BY <1>0, StatusMoves, ZenonT(30) DEF SameOwner
  <1> HIDE DEF row
  \* A compaction session adds one more task.
  <1>5. ASSUME NEW root, NEW s, NEW ss, NEW r, NEW sts, r.status \in sts,
               MaybeCompact(root, s, [tasks EXCEPT ![t] = r], ss)
        PROVE  TaskTo(t, sts)
    <2>1. CASE tasks' = [tasks EXCEPT ![t] = r]
      BY <1>0, <1>5, <2>1, RowTo, ZenonT(30)
    <2>2. CASE tasks' # [tasks EXCEPT ![t] = r]
      <3>1. PICK x \in NextId(sessions, MaxSessions), n \in NextId(tasks, MaxTasks) :
              tasks' = [tasks EXCEPT ![t] = r, ![n] = NewTask(Compactor, x, 0, 0)]
        BY <1>5, <2>2, ZenonT(30) DEF MaybeCompact
      <3>2. n \in TaskIds /\ tasks[n].status = "none" /\ n # t
        BY <1>2, ZenonT(30) DEF NextId, TaskIds, row
      <3> QED
        BY <1>0, <1>5, <3>1, <3>2 DEF TaskTo, Kept, NewTask
    <2> QED
      BY <2>1, <2>2, ZenonT(30)
  <1>6. CASE DispatchDone(t)
    <2> DEFINE r == Fail(StartedRow(row))
               n == r.errs + 1
               q == [r EXCEPT !.errs = n]
    <2>1. r \in TaskRow /\ r.status = "failed"
      BY <1>4, RowMoves, ZenonT(30) DEF SameOwner
    <2>2. tasks' = [tasks EXCEPT ![t] = q]
      BY <1>3, <1>6, ZenonT(30) DEF DispatchDone, Settle
    <2> HIDE DEF r, n
    <2>3. q.status = "failed"
      BY <2>1, ZenonT(30) DEF TaskRow
    <2> HIDE DEF q
    <2>4. TaskTo(t, {"queued", "running", "failed"})
      BY <1>0, <2>2, <2>3, RowTo, ZenonT(30)
    <2> QED
      BY <1>2, <1>6, <2>4, TaskMovesOn, ZenonT(30) DEF DispatchDone, row
  <1>7. CASE DispatchLlm(t)
    <2>1. TaskTo(t, {"running"})
      BY <1>3, <1>4, <1>5, <1>7, SMTT(30), Z3T(30) DEF DispatchLlm
    <2>2. PICK n \in NextId(calls, MaxCalls) : calls' = [calls EXCEPT ![n] = NewCall(t, "llm")]
      BY <1>7, ZenonT(30) DEF DispatchLlm
    <2>3. n \in CallIds
      BY DEF NextId, CallIds
    <2>4. /\ calls'[n].status = "queued" /\ calls'[n].task = t
          /\ \A d \in CallIds \ {n} : calls'[d] = calls[d]
      BY <1>0, <2>2, <2>3 DEF NewCall, TypeInv, CallsTyped
    <2> QED
      BY <1>2, <1>7, <2>1, <2>3, <2>4, CallQueued DEF DispatchLlm, row
  <1>8. CASE DispatchNoProvider(t)
    <2> DEFINE r == SubmitError(StartedRow(row))
    <2>1. r.status \in {"queued", "running", "failed"}
      BY <1>4, SubmitMoves, ZenonT(30)
    <2>2. \E root, s, ss : MaybeCompact(root, s, [tasks EXCEPT ![t] = r], ss)
      BY <1>3, <1>8, ZenonT(30) DEF DispatchNoProvider
    <2> HIDE DEF r
    <2>3. TaskTo(t, {"queued", "running", "failed"})
      BY <1>5, <2>1, <2>2, ZenonT(30)
    <2> QED
      BY <1>2, <1>8, <2>3, TaskMovesOn, ZenonT(30) DEF DispatchNoProvider, row
  <1> QED
    BY <1>6, <1>7, <1>8 DEF Dispatch

\* Claiming, parking or refusing a call keeps Safe.
LEMMA ClaimSafe ==
  ASSUME IInv, NEW c \in CallIds, Claim(c)
  PROVE  Safe'
  <1> DEFINE t == calls[c].task
             row == tasks[t]
  <1>0. TypeInv /\ calls \in [CallIds -> CallRow] /\ approvals \in [ApprovalIds -> ApprovalRow]
    BY ZenonT(30) DEF IInv, TypeInv, CallsTyped, ApprovalsTyped
  <1>1. calls[c].status = "queued" /\ row.status = "running"
    BY ZenonT(30) DEF Claim, ClaimSend, ClaimPark, ClaimRefuse, Claimable
  <1>2. t \in TaskIds /\ row \in TaskRow
    BY <1>0, <1>1, CallOfTask, ZenonT(30)
  <1> HIDE DEF t, row
  <1>3. CASE ClaimSend(c)
    <2>1. /\ calls'[c].status = "in_flight" /\ calls'[c].task = t
          /\ \A d \in CallIds \ {c} : calls'[d] = calls[d]
      BY <1>0, <1>3 DEF ClaimSend, CallRow, t
    <2> QED
      BY <1>1, <1>3, <2>1, CallSent, ZenonT(30) DEF ClaimSend, t, row
  <1>4. CASE ClaimPark(c)
    <2> DEFINE r == To(row, "waiting_human")
    <2>1. r.status = "waiting_human"
      BY <1>2, StatusMoves, ZenonT(30) DEF Statuses, Open, Holding
    <2>2. tasks' = [tasks EXCEPT ![t] = r]
      BY <1>4, ZenonT(30) DEF ClaimPark, To, t, row
    <2> HIDE DEF r
    <2>3. TaskTo(t, {"waiting_human"})
      BY <1>0, <1>2, <2>1, <2>2, RowTo, ZenonT(30)
    <2>4. PICK n \in NextId(approvals, MaxApprovals) :
            approvals' = [p \in ApprovalIds |->
              IF p = n THEN NewApproval(t, c, "guard", gen[AgentOf(c)])
              ELSE IF p \in Latest(c) THEN [approvals[p] EXCEPT !.status = "rejected"]
              ELSE approvals[p]]
      BY <1>4 DEF ClaimPark, t
    <2>5. n \in ApprovalIds /\ approvals[n].status = "none"
      BY DEF NextId, ApprovalIds
    <2>6. approvals'[n].status = "pending" /\ approvals'[n].task = t /\ approvals'[n].why = "guard"
      BY <2>4, <2>5, ZenonT(30) DEF NewApproval
    <2>7. \A p \in Latest(c) : approvals[p].task = t
      BY ZenonT(30) DEF IInv, GuardOfCall, Latest, GuardApprovals, t
    <2> HIDE DEF Latest
    <2>8. \A p \in ApprovalIds \ {n} :
            \/ approvals'[p] = approvals[p]
            \/ approvals'[p].status = "rejected" /\ approvals[p].task = t
      BY <1>0, <2>4, <2>7, ZenonT(30) DEF ApprovalRow
    <2> QED
      BY <1>1, <1>4, <2>3, <2>5, <2>6, <2>8, CallParked, ZenonT(30) DEF ClaimPark, t, row
  <1>5. CASE ClaimRefuse(c)
    <2>1. CallEnds(c)
      BY <1>0, <1>5, CallTo, ZenonT(30) DEF ClaimRefuse
    <2>2. Discard(row).status \in Settled
      BY <1>2, RowMoves DEF Settled
    <2>3. TaskTo(t, Settled)
      BY <1>0, <1>2, <1>5, <2>2, RowTo, ZenonT(30) DEF ClaimRefuse, Settle, t, row
    <2> QED
      BY <1>1, <1>5, <2>1, <2>3, CallSettled, ZenonT(30) DEF ClaimRefuse, Live, t, row
  <1> QED
    BY <1>3, <1>4, <1>5 DEF Claim

\* Nothing Safe speaks about is changed.
LEMMA UnchangedSafe ==
  ASSUME IInv, UNCHANGED <<tasks, calls, approvals>>
  PROVE  Safe'
  BY ZenonT(30) DEF IInv, Safe, OneLiveCall, InFlightIsRunning, AskedTasksWait, AskedOnce, AskedIsIdle,
         WaitingIsAsked, Pending

\* Every loop of fn_watchdog keeps Safe.
LEMMA WatchdogSafe ==
  ASSUME IInv, Watchdog
  PROVE  Safe'
  <1>0. TypeInv /\ tasks \in [TaskIds -> TaskRow] /\ approvals \in [ApprovalIds -> ApprovalRow]
    BY ZenonT(30) DEF IInv, TypeInv, TasksTyped, ApprovalsTyped
  <1>1. ASSUME NEW c \in CallIds, Reclaim(c)
        PROVE  Safe'
    <2> DEFINE t == calls[c].task
               row == tasks[t]
    <2>1. calls[c].status \in Live
      BY <1>1, ZenonT(30) DEF Reclaim, Live
    <2>2. t \in TaskIds /\ row \in TaskRow
      BY <1>0, <2>1, CallOfTask, ZenonT(30) DEF Live
    <2>3. CASE row.status = "running" /\ Pause(c)
      BY <2>1, <2>3, PauseSafe, ZenonT(30)
    <2>4. CASE row.status = "running" /\ ~Pause(c)
      <3>1. /\ calls' = [calls EXCEPT ![c].status = "lost"]
            /\ tasks' = [tasks EXCEPT ![t] = SubmitError(row)]
            /\ approvals' = approvals
        BY <1>1, <2>4, ZenonT(30) DEF Reclaim, Settle
      <3>2. SubmitError(row).status \in Settled
        BY <2>2, <2>4, SubmitMoves, ZenonT(30) DEF Settled
      <3>3. TaskTo(t, Settled) /\ CallEnds(c)
        BY <1>0, <2>2, <3>1, <3>2, RowTo, CallTo, ZenonT(30)
      <3> QED
        BY <2>1, <2>4, <3>1, <3>3, CallSettled, ZenonT(30)
    <2>5. CASE row.status # "running"
      <3>1. calls' = [calls EXCEPT ![c].status = "lost"] /\ tasks' = tasks /\ approvals' = approvals
        BY <1>1, <2>5 DEF Reclaim
      <3> QED
        BY <1>0, <3>1, CallTo, CallSkipped, ZenonT(30)
    <2> QED
      BY <2>3, <2>4, <2>5, ZenonT(30)
  <1>2. ASSUME NEW p \in ApprovalIds, ExpireApproval(p)
        PROVE  Safe'
    <2> DEFINE t == approvals[p].task
               row == tasks[t]
               r == Fail(Step(row))
    <2>1. Pending(p) /\ approvals' = [approvals EXCEPT ![p].status = "rejected"] /\ calls' = calls
      BY <1>2, ZenonT(30) DEF ExpireApproval, Pending
    <2>2. t \in TaskIds /\ row \in TaskRow
      BY <1>0, <2>1, ZenonT(30) DEF TypeInv, ApprovalsTyped, Pending
    <2>3. r.status = "failed"
      BY <2>2, RowMoves, ZenonT(30) DEF SameOwner
    <2>4. IF row.status = "waiting_human" THEN tasks' = [tasks EXCEPT ![t] = r] ELSE tasks' = tasks
      BY <1>2, ZenonT(30) DEF ExpireApproval, Settle
    <2> HIDE DEF r
    <2>5. row.status = "waiting_human" =>
            TaskTo(t, IF approvals[p].why = "guard" THEN {"failed", "running"}
                      ELSE {"failed", "queued"})
      BY <1>0, <2>2, <2>3, <2>4, RowTo, SMTT(30), Z3T(30)
    <2>6. approvals'[p].status # "pending" /\ \A q \in ApprovalIds \ {p} : approvals'[q] = approvals[q]
      BY <1>0, <2>1, ZenonT(30) DEF ApprovalRow
    <2> QED
      BY <2>1, <2>4, <2>5, <2>6, ApprovalSettled
  <1>3. ASSUME NEW t \in TaskIds, TurnTimeout(t)
        PROVE  Safe'
    <2> DEFINE r == Fail(Reject(tasks[t]))
    <2>1. r.status = "failed"
      BY <1>0, RowMoves, ZenonT(30) DEF SameOwner
    <2>2. tasks' = [tasks EXCEPT ![t] = r] /\ calls' = Withdrawn({t}) /\ approvals' = approvals
      BY <1>3, ZenonT(30) DEF TurnTimeout, Settle
    <2> HIDE DEF r
    <2>3. /\ tasks'[t].status = "failed"
          /\ \A u \in TaskIds \ {t} : tasks'[u].status = tasks[u].status
      BY <1>0, <2>1, <2>2, ZenonT(30)
    <2>4. "failed" \in Terminal /\ "failed" \notin Open
      BY ZenonT(30) DEF Terminal, Open, Holding
    <2>5. {t} \in SUBSET TaskIds
      OBVIOUS
    <2>6. /\ \A u \in TaskIds : \/ tasks'[u].status = tasks[u].status
                                \/ tasks'[u].status \in Terminal
          /\ \A u \in TaskIds \ {t} : tasks'[u].status = tasks[u].status
          /\ \A u \in {t} : tasks'[u].status \notin Open
      BY <2>3, <2>4, ZenonT(30)
    <2> QED
      BY <2>2, <2>5, <2>6, TasksWithdrawn, ZenonT(30)
  <1>4. ASSUME NEW t \in TaskIds, WakeParent(t)
        PROVE  Safe'
    <2> DEFINE r == StepTo(tasks[t], "queued")
    <2>1. r.status = "queued"
      BY <1>0, StatusMoves, ZenonT(30) DEF Statuses, Open
    <2>2. tasks' = [tasks EXCEPT ![t] = r] /\ calls' = calls /\ approvals' = approvals
      BY <1>4, ZenonT(30) DEF WakeParent, StepTo
    <2> HIDE DEF r
    <2>3. TaskTo(t, {"queued", "running", "failed"})
      BY <1>0, <2>1, <2>2, RowTo, ZenonT(30)
    <2>4. \A c \in CallIds : calls[c].task = t => calls[c].status \notin Live
      BY <1>4 DEF WakeParent, IInv, Safe, OneLiveCall
    <2> QED
      BY <1>4, <2>2, <2>3, <2>4, TaskMovesOn, ZenonT(30) DEF WakeParent
  <1> QED
    BY <1>1, <1>2, <1>3, <1>4, ZenonT(30) DEF Watchdog

\* Every operator function keeps Safe.
LEMMA OperatorSafe ==
  ASSUME IInv, Operator
  PROVE  Safe'
  <1>0. TypeInv /\ tasks \in [TaskIds -> TaskRow] /\ approvals \in [ApprovalIds -> ApprovalRow]
    BY ZenonT(30) DEF IInv, TypeInv, TasksTyped, ApprovalsTyped
  \* A new task.
  <1>1. ASSUME NEW n \in NextId(tasks, MaxTasks), NEW a, NEW s,
               tasks' = [tasks EXCEPT ![n] = NewTask(a, s, 0, 0)],
               calls' = calls, approvals' = approvals
        PROVE  Safe'
    <2>1. n \in TaskIds /\ tasks[n].status = "none"
      BY ZenonT(30) DEF NextId, TaskIds
    <2>2. TaskTo(n, {"queued", "running", "failed"})
      BY <1>0, <1>1, <2>1, ZenonT(30) DEF TaskTo, Kept, NewTask
    <2>3. \A c \in CallIds : calls[c].task = n => calls[c].status \notin Live
      BY <1>0, <2>1, ZenonT(30) DEF TypeInv, CallsTyped, Live
    <2> QED
      BY <1>1, <2>1, <2>2, <2>3, TaskMovesOn, ZenonT(30)
  <1>2. ASSUME NEW a \in Agents, CreateSession(a)
        PROVE  Safe'
    BY <1>1, <1>2, ZenonT(30) DEF CreateSession
  <1>3. ASSUME NEW s \in SessionIds, ContinueSession(s)
        PROVE  Safe'
    BY <1>1, <1>3, ZenonT(30) DEF ContinueSession
  <1>4. ASSUME NEW s \in SessionIds, CancelSession(s)
        PROVE  Safe'
    <2> DEFINE owners == {t \in TaskIds : tasks[t].session = s}
    <2>1. \A t \in TaskIds :
            tasks'[t] = IF t \in owners /\ tasks[t].status \in Open
                        THEN StepTo(tasks[t], "cancelled") ELSE tasks[t]
      BY <1>4, ZenonT(30) DEF CancelSession, StepTo
    <2>2. \A t \in TaskIds : StepTo(tasks[t], "cancelled").status = "cancelled"
      BY <1>0, StatusMoves, ZenonT(30) DEF Statuses, Terminal
    <2>3. "cancelled" \in Terminal /\ "cancelled" \notin Open
      BY ZenonT(30) DEF Terminal, Open, Holding
    <2>4. owners \in SUBSET TaskIds /\ calls' = Withdrawn(owners)
      BY <1>4, ZenonT(30) DEF CancelSession
    <2>5. \A p \in ApprovalIds : \/ approvals'[p] = approvals[p]
                                 \/ /\ approvals[p].task \in owners
                                    /\ approvals'[p].status = "rejected"
      BY <1>0, <1>4, ZenonT(30) DEF CancelSession, ApprovalRow
    <2> HIDE DEF owners
    <2>6. /\ \A u \in TaskIds : \/ tasks'[u].status = tasks[u].status
                                \/ tasks'[u].status \in Terminal
          /\ \A u \in TaskIds \ owners : tasks'[u].status = tasks[u].status
          /\ \A u \in owners : tasks'[u].status \notin Open
      BY <2>1, <2>2, <2>3, <2>4, ZenonT(30)
    <2> QED
      BY <2>4, <2>5, <2>6, TasksWithdrawn, ZenonT(30)
  <1>5. ASSUME NEW p \in ApprovalIds, NEW accept \in BOOLEAN, DecideApproval(p, accept)
        PROVE  Safe'
    <2> DEFINE t == approvals[p].task
               row == tasks[t]
               st == IF ~accept THEN "failed"
                     ELSE IF approvals[p].why = "guard" THEN "running" ELSE "queued"
               r == StepTo(row, st)
               to == IF approvals[p].why = "guard" THEN {"failed", "running"}
                     ELSE {"failed", "queued"}
    <2>1. Pending(p) /\ calls' = calls
      BY <1>5, ZenonT(30) DEF DecideApproval, Pending
    <2>2. t \in TaskIds /\ row \in TaskRow
      BY <1>0, <2>1, ZenonT(30) DEF TypeInv, ApprovalsTyped, Pending
    <2>3. st \in Statuses /\ st \in to
      BY ZenonT(30) DEF Statuses, Open, Holding, Terminal
    <2>4. IF row.status = "waiting_human" THEN tasks' = [tasks EXCEPT ![t] = r] ELSE tasks' = tasks
      BY <1>5, ZenonT(30) DEF DecideApproval, Settle, StepTo
    <2>5. approvals'[p].status # "pending" /\ \A q \in ApprovalIds \ {p} : approvals'[q] = approvals[q]
      BY <1>0, <1>5, ZenonT(30) DEF DecideApproval, ApprovalRow
    <2> HIDE DEF st, to
    <2>6. r.status \in to
      BY <2>2, <2>3, StatusMoves, ZenonT(30)
    <2> HIDE DEF r
    <2>7. row.status = "waiting_human" => TaskTo(t, to)
      BY <1>0, <2>2, <2>4, <2>6, RowTo, ZenonT(30)
    <2> QED
      BY <2>1, <2>4, <2>5, <2>7, ApprovalSettled, ZenonT(30) DEF to
  <1>6. CASE UNCHANGED <<tasks, calls, approvals>>
    BY <1>6, UnchangedSafe, ZenonT(30)
  <1> QED
    BY <1>2, <1>3, <1>4, <1>5, <1>6
       DEF Operator, SetAgentActive, SetPermission, SetRule, SetCap, SetProvider

\* Every step keeps Safe.
LEMMA SafeStep ==
  ASSUME IInv, [Next]_vars
  PROVE  Safe'
  <1>1. ASSUME NEW p \in ApprovalIds, ApprovalClock(p)
        PROVE  Safe'
    <2>1. /\ tasks' = tasks /\ calls' = calls
          /\ \A q \in ApprovalIds : /\ approvals'[q].status = approvals[q].status
                                    /\ approvals'[q].task = approvals[q].task
                                    /\ approvals'[q].why = approvals[q].why
      BY <1>1, ZenonT(30) DEF ApprovalClock, IInv, TypeInv, ApprovalsTyped, ApprovalRow
    <2>2. \A q \in ApprovalIds : Pending(q)' <=> Pending(q)
      BY <2>1, ZenonT(30) DEF Pending
    <2>3. OneLiveCall' /\ InFlightIsRunning'
      BY <2>1, ZenonT(30) DEF IInv, Safe, OneLiveCall, InFlightIsRunning
    <2>4. AskedTasksWait'
      BY <2>1, <2>2, ZenonT(30) DEF IInv, Safe, AskedTasksWait
    <2>5. AskedOnce'
      BY <2>1, <2>2, ZenonT(30) DEF IInv, Safe, AskedOnce
    <2>6. AskedIsIdle'
      BY <2>1, <2>2, SMTT(30), Z3T(30) DEF IInv, Safe, AskedIsIdle
    <2>7. WaitingIsAsked'
      BY <2>1, <2>2, ZenonT(30) DEF IInv, Safe, WaitingIsAsked
    <2> QED
      BY <2>3, <2>4, <2>5, <2>6, <2>7, ZenonT(30) DEF Safe
  <1>2. CASE UNCHANGED <<tasks, calls, approvals>>
    BY <1>2, UnchangedSafe, ZenonT(30)
  <1> QED
    BY <1>1, <1>2, OperatorSafe, WatchdogSafe, DispatchSafe, ClaimSafe, CompleteSafe, ZenonT(30)
       DEF Next, DropResult, WorkerCrash, vars

----------------------------------------------------------------------------
(* Approvals that guard a call *)

\* A call in use keeps its task.
LEMMA CallKeepsTask ==
  ASSUME TypeInv, [Next]_vars, NEW c \in CallIds, calls[c].status # "none"
  PROVE  calls'[c].task = calls[c].task /\ calls'[c].status # "none"
  <1> DEFINE Goal == calls'[c].task = calls[c].task /\ calls'[c].status # "none"
  <1>0. calls \in [CallIds -> CallRow]
    BY ZenonT(30) DEF TypeInv, CallsTyped
  <1>1. CASE calls' = calls
    BY <1>1, ZenonT(30)
  <1>2. ASSUME NEW d \in CallIds, NEW st \in {"harvested", "lost"},
               calls' = [calls EXCEPT ![d].status = st]
        PROVE  Goal
    BY <1>0, <1>2, ZenonT(30) DEF CallRow
  <1>3. ASSUME NEW owners, calls' = Withdrawn(owners)
        PROVE  Goal
    BY <1>0, <1>3, ZenonT(30) DEF Withdrawn, CallRow
  <1>4. ASSUME NEW n \in NextId(calls, MaxCalls), NEW t, NEW k,
               calls' = [calls EXCEPT ![n] = NewCall(t, k)]
        PROVE  Goal
    <2>1. n # c
      BY ZenonT(30) DEF NextId
    <2> QED
      BY <1>0, <1>4, <2>1, ZenonT(30)
  <1>5. ASSUME NEW d \in CallIds, NEW k, ToolCall(d, k)
        PROVE  Goal
    <2>1. PICK n \in NextId(calls, MaxCalls) :
            calls' = [calls EXCEPT ![d].status = "harvested", ![n] = NewCall(calls[d].task, k)]
      BY <1>5, ZenonT(30) DEF ToolCall
    <2>2. n # c
      BY DEF NextId
    <2> QED
      BY <1>0, <2>1, <2>2, ZenonT(30) DEF CallRow
  <1>6. ASSUME NEW d \in CallIds, ClaimSend(d)
        PROVE  Goal
    BY <1>0, <1>6 DEF ClaimSend, CallRow
  <1>7. CASE \E d \in CallIds : Complete(d)
    <2>1. PICK d \in CallIds : Complete(d)
      BY <1>7, ZenonT(30)
    <2>2. \/ calls' = calls
          \/ \E st \in {"harvested", "lost"} : calls' = [calls EXCEPT ![d].status = st]
          \/ \E k \in ToolKinds : ToolCall(d, k)
      BY <2>1, ZenonT(30) DEF Complete, CompleteStale, CompleteSkipped, ToolResult, CallError,
           AmbiguousResult, Pause, Submit, FinalAnswer, Note, ApplyChange, ReplyRejected,
           ReplyRaises, ReplyDiscarded, AwaitHuman, AwaitChildren, DelegateRefused, Delegate, Harvested
    <2> QED
      BY <2>2, <1>1, <1>2, <1>5
  <1>8. CASE Operator
    <2>1. calls' = calls \/ \E owners : calls' = Withdrawn(owners)
      BY <1>8, ZenonT(30) DEF Operator, CreateSession, SetAgentActive, SetPermission, ContinueSession,
           CancelSession, DecideApproval, SetRule, SetCap, SetProvider
    <2> QED
      BY <2>1, <1>1, <1>3, ZenonT(30)
  <1>9. CASE Watchdog
    <2>1. \/ calls' = calls
          \/ \E d \in CallIds : calls' = [calls EXCEPT ![d].status = "lost"]
          \/ \E owners : calls' = Withdrawn(owners)
      BY <1>9, ZenonT(30) DEF Watchdog, Reclaim, Pause, ExpireApproval, TurnTimeout, WakeParent
    <2> QED
      BY <2>1, <1>1, <1>2, <1>3, ZenonT(30)
  <1>10. CASE \E t \in TaskIds : Dispatch(t)
    <2>1. \/ calls' = calls
          \/ \E n \in NextId(calls, MaxCalls), t \in TaskIds :
               calls' = [calls EXCEPT ![n] = NewCall(t, "llm")]
      BY <1>10, ZenonT(30) DEF Dispatch, DispatchDone, DispatchLlm, DispatchNoProvider
    <2> QED
      BY <2>1, <1>1, <1>4, ZenonT(30)
  <1>11. CASE \E d \in CallIds : Claim(d)
    <2>1. PICK d \in CallIds : Claim(d)
      BY <1>11
    <2>2. \/ calls' = calls
          \/ calls' = [calls EXCEPT ![d].status = "lost"]
          \/ ClaimSend(d)
      BY <2>1, ZenonT(30) DEF Claim, ClaimPark, ClaimRefuse
    <2> QED
      BY <2>2, <1>1, <1>2, <1>6, ZenonT(30)
  <1> QED
    BY <1>1, <1>7, <1>8, <1>9, <1>10, <1>11, ZenonT(30)
       DEF Next, DropResult, WorkerCrash, ApprovalClock, vars

\* A claim asks again about the call that p guards.
AskedAgain(p) ==
  \E c \in CallIds : ClaimPark(c) /\ approvals[p].why = "guard" /\ approvals[p].call = c

\* What approval p is about stays; a decision is final unless a claim asks again.
SameApproval(p) ==
  /\ approvals'[p].task = approvals[p].task
  /\ approvals'[p].call = approvals[p].call
  /\ approvals'[p].why = approvals[p].why
  /\ approvals'[p].gen = approvals[p].gen
  /\ approvals'[p].status = "none" <=> approvals[p].status = "none"
  /\ approvals[p].status = "rejected" => approvals'[p].status = "rejected"
  /\ approvals[p].status = "approved" => approvals'[p].status = "approved" \/ AskedAgain(p)

\* What an approval is about is written once; only a claim asks about a guarded call.
LEMMA ApprovalsKeep ==
  ASSUME TypeInv, [Next]_vars, NEW p \in ApprovalIds
  PROVE  \/ SameApproval(p)
         \/ approvals[p].status = "none" /\ approvals'[p].why # "guard"
         \/ /\ approvals[p].status = "none"
            /\ \E c \in CallIds : /\ ClaimPark(c)
                                  /\ approvals'[p].call = c
                                  /\ calls[c].status # "none"
                                  /\ approvals'[p].task = calls[c].task
  <1> DEFINE Other == approvals[p].status = "none" /\ approvals'[p].why # "guard"
  <1>0. approvals \in [ApprovalIds -> ApprovalRow]
    BY ZenonT(30) DEF TypeInv, ApprovalsTyped
  <1>1. CASE approvals' = approvals
    BY <1>1, ZenonT(30) DEF SameApproval
  <1>2. ASSUME NEW q \in ApprovalIds, approvals[q].status = "pending", NEW st \in {"approved", "rejected"},
               approvals' = [approvals EXCEPT ![q].status = st]
        PROVE  SameApproval(p)
    BY <1>0, <1>2, ZenonT(30) DEF ApprovalRow, SameApproval
  <1>3. ASSUME NEW q \in ApprovalIds, ApprovalClock(q)
        PROVE  SameApproval(p)
    BY <1>0, <1>3, ZenonT(30) DEF ApprovalClock, ApprovalRow, SameApproval
  <1>4. ASSUME NEW c \in CallIds, AwaitHuman(c) \/ Pause(c)
        PROVE  SameApproval(p) \/ Other
    <2>1. PICK n \in NextId(approvals, MaxApprovals), d \in {0, c}, why \in {"human", "ambiguous"} :
            approvals' = [approvals EXCEPT ![n] = NewApproval(calls[c].task, d, why, 0)]
      BY <1>4, ZenonT(30) DEF AwaitHuman, Pause
    <2>2. approvals[n].status = "none"
      BY ZenonT(30) DEF NextId
    <2> QED
      BY <1>0, <2>1, <2>2, ZenonT(30) DEF NewApproval, SameApproval
  <1>5. ASSUME NEW c \in CallIds, ClaimPark(c)
        PROVE  \/ SameApproval(p)
               \/ /\ approvals[p].status = "none"
                  /\ approvals'[p].call = c
                  /\ calls[c].status # "none"
                  /\ approvals'[p].task = calls[c].task
    <2>1. PICK n \in NextId(approvals, MaxApprovals) :
            approvals' = [q \in ApprovalIds |->
              IF q = n THEN NewApproval(calls[c].task, c, "guard", gen[AgentOf(c)])
              ELSE IF q \in Latest(c) THEN [approvals[q] EXCEPT !.status = "rejected"]
              ELSE approvals[q]]
      BY <1>5, ZenonT(30) DEF ClaimPark
    <2>2. approvals[n].status = "none" /\ calls[c].status # "none"
      BY <1>5, ZenonT(30) DEF NextId, ClaimPark, Claimable
    <2>3. \A q \in Latest(c) : approvals[q].status # "none"
      BY ZenonT(30) DEF Latest, GuardApprovals
    <2> HIDE DEF Latest
    <2>4. CASE p = n
      BY <2>1, <2>2, <2>4, ZenonT(30) DEF NewApproval
    <2>5. p \in Latest(c) => AskedAgain(p)
      BY <1>5, ZenonT(30) DEF AskedAgain, Latest, GuardApprovals
    <2>6. CASE p # n
      BY <1>0, <2>1, <2>3, <2>5, <2>6, ZenonT(30) DEF ApprovalRow, SameApproval
    <2> QED
      BY <2>4, <2>6, ZenonT(30)
  <1>6. ASSUME NEW s \in SessionIds, CancelSession(s)
        PROVE  SameApproval(p)
    BY <1>0, <1>6, ZenonT(30) DEF CancelSession, ApprovalRow, SameApproval
  <1>7. CASE Operator
    <2>1. \/ approvals' = approvals
          \/ \E s \in SessionIds : CancelSession(s)
          \/ \E q \in ApprovalIds, st \in {"approved", "rejected"} :
               approvals[q].status = "pending" /\ approvals' = [approvals EXCEPT ![q].status = st]
      BY <1>7, ZenonT(30) DEF Operator, CreateSession, SetAgentActive, SetPermission, ContinueSession,
           DecideApproval, SetRule, SetCap, SetProvider
    <2> QED
      BY <2>1, <1>1, <1>2, <1>6, ZenonT(30)
  <1>8. CASE Watchdog
    <2>1. \/ approvals' = approvals
          \/ \E c \in CallIds : Pause(c)
          \/ \E q \in ApprovalIds, st \in {"approved", "rejected"} :
               approvals[q].status = "pending" /\ approvals' = [approvals EXCEPT ![q].status = st]
      BY <1>8, ZenonT(30) DEF Watchdog, Reclaim, ExpireApproval, TurnTimeout, WakeParent
    <2> QED
      BY <2>1, <1>1, <1>2, <1>4
  <1>9. CASE \E c \in CallIds : Complete(c)
    <2>1. PICK c \in CallIds : Complete(c)
      BY <1>9, ZenonT(30)
    <2>2. approvals' = approvals \/ AwaitHuman(c) \/ AmbiguousResult(c)
      BY <2>1, ZenonT(30) DEF Complete, CompleteStale, CompleteSkipped, ToolResult, CallError, Submit,
           FinalAnswer, Note, ApplyChange, ReplyRejected, ReplyRaises, ReplyDiscarded, AwaitChildren,
           DelegateRefused, Delegate, ToolCall
    <2>3. AmbiguousResult(c) => Pause(c)
      BY ZenonT(30) DEF AmbiguousResult
    <2> QED
      BY <2>2, <2>3, <1>1, <1>4, ZenonT(30)
  <1>10. CASE \E c \in CallIds : Claim(c)
    BY <1>10, <1>1, <1>5, ZenonT(30) DEF Claim, ClaimSend, ClaimRefuse
  <1>11. CASE \E t \in TaskIds : Dispatch(t)
    BY <1>11, <1>1, ZenonT(30) DEF Dispatch, DispatchDone, DispatchLlm, DispatchNoProvider
  <1> QED
    BY <1>1, <1>3, <1>7, <1>8, <1>9, <1>10, <1>11, ZenonT(30) DEF Next, DropResult, WorkerCrash, vars

\* The approval of a guarded call stays the approval of its task.
LEMMA GuardStep ==
  ASSUME IInv, [Next]_vars
  PROVE  GuardOfCall'
  <1>1. TypeInv /\ GuardOfCall
    BY ZenonT(30) DEF IInv
  <1>2. \A c \in CallIds : calls[c].status # "none" =>
          calls'[c].task = calls[c].task /\ calls'[c].status # "none"
    BY <1>1, CallKeepsTask, ZenonT(30)
  <1>3. SUFFICES ASSUME NEW p \in ApprovalIds, approvals'[p].status # "none",
                        approvals'[p].why = "guard"
                 PROVE  /\ approvals'[p].call \in CallIds
                        /\ calls'[approvals'[p].call].status # "none"
                        /\ approvals'[p].task = calls'[approvals'[p].call].task
    BY ZenonT(30) DEF GuardOfCall
  <1>4. CASE /\ approvals'[p].task = approvals[p].task
             /\ approvals'[p].call = approvals[p].call
             /\ approvals'[p].why = approvals[p].why
             /\ approvals[p].status # "none"
    <2>1. /\ approvals[p].call \in CallIds
          /\ calls[approvals[p].call].status # "none"
          /\ approvals[p].task = calls[approvals[p].call].task
      BY <1>1, <1>3, <1>4, ZenonT(30) DEF GuardOfCall
    <2>2. QED
      BY <1>2, <1>4, <2>1, ZenonT(30)
  <1>5. CASE /\ approvals'[p].call \in CallIds
             /\ calls[approvals'[p].call].status # "none"
             /\ approvals'[p].task = calls[approvals'[p].call].task
    BY <1>2, <1>5, ZenonT(30)
  <1>6. \/ SameApproval(p)
        \/ approvals[p].status = "none" /\ approvals'[p].why # "guard"
        \/ \E c \in CallIds : /\ approvals'[p].call = c
                              /\ calls[c].status # "none"
                              /\ approvals'[p].task = calls[c].task
    BY <1>1, ApprovalsKeep, ZenonT(30)
  <1>7. SameApproval(p) => /\ approvals'[p].task = approvals[p].task
                           /\ approvals'[p].call = approvals[p].call
                           /\ approvals'[p].why = approvals[p].why
                           /\ approvals[p].status # "none"
    BY <1>3, ZenonT(30) DEF SameApproval
  <1> QED
    BY <1>3, <1>4, <1>5, <1>6, <1>7, ZenonT(30)

----------------------------------------------------------------------------
(* The theorems *)

\* The empty database satisfies the invariant.
LEMMA SafeInit ==
  ASSUME Init
  PROVE  IInv
  <1>1. TypeInv
    BY TypeInit, ZenonT(30)
  <1> QED
    BY <1>1, ZenonT(30)
       DEF Init, IInv, Safe, OneLiveCall, InFlightIsRunning, AskedTasksWait, AskedOnce, AskedIsIdle,
           WaitingIsAsked, GuardOfCall, Pending, Unused, NewTask, NewCall, NewApproval, Live

\* IInv is an invariant of the engine.
LEMMA Invariance == Spec => []IInv
  <1>1. Init => IInv
    BY SafeInit, ZenonT(30)
  <1>2. IInv /\ [Next]_vars => IInv'
    BY TypeStep, SafeStep, GuardStep, ZenonT(30) DEF IInv
  <1> QED
    BY <1>1, <1>2, PTL DEF Spec

\* OneLiveCall holds in every reachable state, for any number of tasks, calls and
\* approvals: fn_dispatch_tasks never starts a model call while a result is pending, and no
\* approval, wake-up or late result lets two calls of one task run at a time.
THEOREM CallsOneAtATime == Spec => []OneLiveCall
  <1>1. IInv => OneLiveCall
    BY ZenonT(30) DEF IInv, Safe
  <1> QED
    BY <1>1, Invariance, PTL

\* InFlightIsRunning holds in every reachable state: whatever ends or parks a task
\* (cancelling, turn_timeout, an approval, a rejected reply) leaves none of its HTTP or SQL
\* calls in flight.
THEOREM CallsBelongToRunningTasks == Spec => []InFlightIsRunning
  <1>1. IInv => InFlightIsRunning
    BY ZenonT(30) DEF IInv, Safe
  <1> QED
    BY <1>1, Invariance, PTL

\* HumanIsAsked holds in every reachable state: exactly one approval is pending for a task
\* that waits for a human, none for any other open task.
THEOREM HumanAskedExactly == Spec => []HumanIsAsked
  <1>1. IInv => HumanIsAsked
    <2> SUFFICES ASSUME IInv, NEW t \in TaskIds, tasks[t].status \in Open
                 PROVE  Cardinality({p \in ApprovalIds : /\ approvals[p].task = t
                                                         /\ approvals[p].status = "pending"})
                          = IF tasks[t].status = "waiting_human" THEN 1 ELSE 0
      BY ZenonT(30) DEF HumanIsAsked
    <2> DEFINE asked == {p \in ApprovalIds : approvals[p].task = t /\ approvals[p].status = "pending"}
    <2>1. CASE tasks[t].status = "waiting_human"
      <3>1. PICK p \in ApprovalIds : Pending(p) /\ approvals[p].task = t
        BY <2>1 DEF IInv, Safe, WaitingIsAsked
      <3>2. asked = {p}
        BY <3>1, ZenonT(30) DEF IInv, Safe, AskedOnce, Pending
      <3> QED
        BY <2>1, <3>2, FS_Singleton, ZenonT(30)
    <2>2. CASE tasks[t].status # "waiting_human"
      <3>1. asked = {}
        BY <2>2 DEF IInv, Safe, AskedTasksWait, Pending, Open, Holding, Terminal
      <3> QED
        BY <2>2, <3>1, FS_EmptySet, ZenonT(30)
    <2> QED
      BY <2>1, <2>2, ZenonT(30)
  <1> QED
    BY <1>1, Invariance, PTL

----------------------------------------------------------------------------
(* What has ended stays ended *)

\* No step touches a row of a task that has ended.
LEMMA EndedTasks ==
  ASSUME TypeInv, [Next]_vars, NEW u \in TaskIds, tasks[u].status \in Terminal
  PROVE  tasks'[u] = tasks[u]
  <1>0. tasks \in [TaskIds -> TaskRow]
    BY ZenonT(30) DEF TypeInv, TasksTyped
  <1>1. ASSUME NEW t, tasks[t].status \notin Terminal, NEW r, tasks' = [tasks EXCEPT ![t] = r]
        PROVE  tasks'[u] = tasks[u]
    BY <1>0, <1>1, ZenonT(30)
  <1>2. ASSUME NEW n \in NextId(tasks, MaxTasks), NEW q, NEW t, tasks[t].status \notin Terminal, NEW r,
               tasks' = [tasks EXCEPT ![t] = r, ![n] = q]
        PROVE  tasks'[u] = tasks[u]
    <2>1. tasks[n].status = "none" /\ "none" \notin Terminal
      BY ZenonT(30) DEF NextId, Terminal
    <2> QED
      BY <1>0, <1>2, <2>1, ZenonT(30)
  <1>3. ASSUME NEW n \in NextId(tasks, MaxTasks), NEW q, tasks' = [tasks EXCEPT ![n] = q]
        PROVE  tasks'[u] = tasks[u]
    <2>1. tasks[n].status = "none" /\ "none" \notin Terminal
      BY DEF NextId, Terminal
    <2> QED
      BY <1>0, <1>3, <2>1, ZenonT(30)
  <1>4. CASE tasks' = tasks
    BY <1>4, ZenonT(30)
  <1>5. {"running", "waiting_human", "waiting_children", "queued"} \cap Terminal = {}
    BY ZenonT(30) DEF Terminal
  <1>6. CASE Operator
    <2>1. ASSUME NEW s \in SessionIds, CancelSession(s)
          PROVE  tasks'[u] = tasks[u]
      <3>1. tasks[u].status \notin Open
        BY ZenonT(30) DEF Terminal, Open, Holding
      <3> QED
        BY <2>1, <3>1, ZenonT(30) DEF CancelSession
    <2>2. ASSUME NEW p \in ApprovalIds, NEW accept \in BOOLEAN, DecideApproval(p, accept)
          PROVE  tasks'[u] = tasks[u]
      <3>1. \/ tasks' = tasks
            \/ /\ tasks[approvals[p].task].status = "waiting_human"
               /\ \E r : tasks' = [tasks EXCEPT ![approvals[p].task] = r]
        BY <2>2, ZenonT(30) DEF DecideApproval, Settle
      <3> QED
        BY <1>1, <1>4, <1>5, <3>1, ZenonT(30)
    <2>3. \/ tasks' = tasks
          \/ \E n \in NextId(tasks, MaxTasks) : \E q : tasks' = [tasks EXCEPT ![n] = q]
          \/ \E s \in SessionIds : CancelSession(s)
          \/ \E p \in ApprovalIds, accept \in BOOLEAN : DecideApproval(p, accept)
      BY <1>6, ZenonT(30) DEF Operator, CreateSession, SetAgentActive, SetPermission, ContinueSession,
           SetRule, SetCap, SetProvider
    <2> QED
      BY <1>3, <1>4, <2>1, <2>2, <2>3, ZenonT(30)
  <1>7. CASE Watchdog
    <2>1. \/ tasks' = tasks
          \/ \E t : /\ tasks[t].status \in Holding
                    /\ \E r : tasks' = [tasks EXCEPT ![t] = r]
      <3>1. ASSUME NEW c \in CallIds, Reclaim(c)
            PROVE  \/ tasks' = tasks
                   \/ /\ tasks[calls[c].task].status = "running"
                      /\ \E r : tasks' = [tasks EXCEPT ![calls[c].task] = r]
        <4>1. Pause(c) => tasks' = [tasks EXCEPT ![calls[c].task] = Paused(tasks[calls[c].task])]
          BY ZenonT(30) DEF Pause, Paused
        <4> QED
          BY <3>1, <4>1 DEF Reclaim, Settle
      <3>2. ASSUME NEW p \in ApprovalIds, ExpireApproval(p)
            PROVE  \/ tasks' = tasks
                   \/ /\ tasks[approvals[p].task].status = "waiting_human"
                      /\ \E r : tasks' = [tasks EXCEPT ![approvals[p].task] = r]
        BY <3>2 DEF ExpireApproval, Settle
      <3>3. ASSUME NEW t \in TaskIds, TurnTimeout(t) \/ WakeParent(t)
            PROVE  /\ tasks[t].status \in Holding
                   /\ \E r : tasks' = [tasks EXCEPT ![t] = r]
        BY <3>3 DEF TurnTimeout, WakeParent, Settle, Holding
      <3>4. {"running", "waiting_human"} \subseteq Holding
        BY DEF Holding
      <3> QED
        BY <1>7, <3>1, <3>2, <3>3, <3>4, ZenonT(30) DEF Watchdog
    <2>2. Holding \cap Terminal = {}
      BY DEF Holding, Terminal
    <2> QED
      BY <1>1, <1>4, <2>1, <2>2
  <1>8. ASSUME NEW t \in TaskIds, Dispatch(t)
        PROVE  tasks'[u] = tasks[u]
    <2>1. tasks[t].status \in {"queued", "running"}
      BY <1>8, ZenonT(30) DEF Dispatch, DispatchDone, DispatchLlm, DispatchNoProvider, GoesOn, Eligible
    <2>2. ASSUME NEW root, NEW s, NEW ss, NEW r, MaybeCompact(root, s, [tasks EXCEPT ![t] = r], ss)
          PROVE  tasks'[u] = tasks[u]
      <3>1. \/ tasks' = [tasks EXCEPT ![t] = r]
            \/ \E n \in NextId(tasks, MaxTasks) : \E q : tasks' = [tasks EXCEPT ![t] = r, ![n] = q]
        BY <2>2 DEF MaybeCompact
      <3> QED
        BY <1>1, <1>2, <1>5, <2>1, <3>1, ZenonT(30)
    <2>3. CASE DispatchDone(t)
      BY <1>1, <1>5, <2>1, <2>3, ZenonT(30) DEF DispatchDone, Settle
    <2>4. CASE DispatchLlm(t)
      BY <2>2, <2>4, ZenonT(30) DEF DispatchLlm
    <2>5. CASE DispatchNoProvider(t)
      BY <2>2, <2>5, ZenonT(30) DEF DispatchNoProvider
    <2> QED
      BY <1>8, <2>3, <2>4, <2>5, ZenonT(30) DEF Dispatch
  <1>9. ASSUME NEW c \in CallIds, Claim(c)
        PROVE  tasks'[u] = tasks[u]
    <2>1. tasks[calls[c].task].status = "running"
      BY <1>9 DEF Claim, ClaimSend, ClaimPark, ClaimRefuse, Claimable
    <2>2. tasks' = tasks \/ \E r : tasks' = [tasks EXCEPT ![calls[c].task] = r]
      BY <1>9, ZenonT(30) DEF Claim, ClaimSend, ClaimPark, ClaimRefuse, Settle
    <2> QED
      BY <1>1, <1>4, <1>5, <2>1, <2>2, ZenonT(30)
  <1>10. ASSUME NEW c \in CallIds, Complete(c)
         PROVE  tasks'[u] = tasks[u]
    <2>1. CASE tasks' = tasks
      BY <2>1, ZenonT(30)
    <2>2. CASE tasks[calls[c].task].status = "running"
      <3>1. \/ tasks' = tasks
            \/ \E r : tasks' = [tasks EXCEPT ![calls[c].task] = r]
            \/ \E r : \E n \in NextId(tasks, MaxTasks) : \E q :
                 tasks' = [tasks EXCEPT ![calls[c].task] = r, ![n] = q]
        BY <1>10, ZenonT(30) DEF Complete, CompleteStale, CompleteSkipped, ToolResult, CallError,
             AmbiguousResult, Pause, Submit, FinalAnswer, Note, ApplyChange, ReplyRejected,
             ReplyRaises, ReplyDiscarded, AwaitHuman, AwaitChildren, ToolCall, DelegateRefused, Delegate, Settle
      <3> QED
        BY <1>1, <1>2, <1>4, <1>5, <2>2, <3>1, ZenonT(30)
    <2> QED
      BY <1>10, <2>1, <2>2, ZenonT(30)
         DEF Complete, CompleteStale, CompleteSkipped, Delivers, ToolResult, CallError,
             AmbiguousResult, Submit, FinalAnswer, Note, ApplyChange, ReplyRejected,
             ReplyRaises, ReplyDiscarded, AwaitHuman, AwaitChildren, ToolCall, DelegateRefused, Delegate,
             Says, Answers
  <1> QED
    BY <1>4, <1>6, <1>7, <1>8, <1>9, <1>10 DEF Next, DropResult, WorkerCrash, ApprovalClock, vars

\* No step touches a call that is settled.
LEMMA EndedCalls ==
  ASSUME TypeInv, [Next]_vars, NEW c \in CallIds, calls[c].status \in {"harvested", "lost"}
  PROVE  calls'[c] = calls[c]
  <1>0. calls \in [CallIds -> CallRow]
    BY ZenonT(30) DEF TypeInv, CallsTyped
  <1>1. CASE calls' = calls
    BY <1>1, ZenonT(30)
  <1>2. ASSUME NEW d, calls[d].status \in Live, NEW q, calls' = [calls EXCEPT ![d] = q]
        PROVE  calls'[c] = calls[c]
    BY <1>0, <1>2, ZenonT(30) DEF Live
  <1>3. ASSUME NEW owners, calls' = Withdrawn(owners)
        PROVE  calls'[c] = calls[c]
    BY <1>3, ZenonT(30) DEF Withdrawn, Live
  <1>4. ASSUME NEW n \in NextId(calls, MaxCalls), NEW q, calls' = [calls EXCEPT ![n] = q]
        PROVE  calls'[c] = calls[c]
    BY <1>0, <1>4, ZenonT(30) DEF NextId
  <1>5. ASSUME NEW d \in CallIds, NEW k, ToolCall(d, k)
        PROVE  calls'[c] = calls[c]
    <2>1. PICK n \in NextId(calls, MaxCalls) :
            calls' = [calls EXCEPT ![d].status = "harvested", ![n] = NewCall(calls[d].task, k)]
      BY <1>5, ZenonT(30) DEF ToolCall
    <2>2. n # c /\ d # c
      BY <1>5 DEF NextId, ToolCall, Says, Answers, Delivers, Holds
    <2> QED
      BY <1>0, <2>1, <2>2, ZenonT(30)
  <1>6. ASSUME NEW d \in CallIds, Complete(d)
        PROVE  calls'[c] = calls[c]
    <2>1. \/ calls' = calls
          \/ calls[d].status = "in_flight" /\ \E q : calls' = [calls EXCEPT ![d] = q]
          \/ \E k \in ToolKinds : ToolCall(d, k)
      BY <1>6, ZenonT(30) DEF Complete, CompleteStale, CompleteSkipped, ToolResult, CallError,
           AmbiguousResult, Pause, Submit, FinalAnswer, Note, ApplyChange, ReplyRejected,
           ReplyRaises, ReplyDiscarded, AwaitHuman, AwaitChildren, DelegateRefused, Delegate, Harvested,
           Says, Answers, Delivers, Holds
    <2> QED
      BY <2>1, <1>1, <1>2, <1>5, SMTT(30), Z3T(30) DEF Live
  <1>7. CASE Operator
    <2>1. calls' = calls \/ \E owners : calls' = Withdrawn(owners)
      BY <1>7, ZenonT(30) DEF Operator, CreateSession, SetAgentActive, SetPermission, ContinueSession,
           CancelSession, DecideApproval, SetRule, SetCap, SetProvider
    <2> QED
      BY <2>1, <1>1, <1>3, ZenonT(30)
  <1>8. CASE Watchdog
    <2>1. \/ calls' = calls
          \/ \E d \in CallIds : /\ calls[d].status = "in_flight"
                                /\ \E q : calls' = [calls EXCEPT ![d] = q]
          \/ \E owners : calls' = Withdrawn(owners)
      BY <1>8, ZenonT(30) DEF Watchdog, Reclaim, Pause, ExpireApproval, TurnTimeout, WakeParent
    <2> QED
      BY <2>1, <1>1, <1>2, <1>3, SMTT(30), Z3T(30) DEF Live
  <1>9. CASE \E t \in TaskIds : Dispatch(t)
    <2>1. \/ calls' = calls
          \/ \E n \in NextId(calls, MaxCalls) : \E q : calls' = [calls EXCEPT ![n] = q]
      BY <1>9, ZenonT(30) DEF Dispatch, DispatchDone, DispatchLlm, DispatchNoProvider
    <2> QED
      BY <2>1, <1>1, <1>4, ZenonT(30)
  <1>10. ASSUME NEW d \in CallIds, Claim(d)
         PROVE  calls'[c] = calls[c]
    <2>1. \/ calls' = calls
          \/ calls[d].status = "queued" /\ \E q : calls' = [calls EXCEPT ![d] = q]
      BY <1>10, ZenonT(30) DEF Claim, ClaimSend, ClaimPark, ClaimRefuse, Claimable
    <2> QED
      BY <2>1, <1>1, <1>2, SMTT(30), Z3T(30) DEF Live
  <1> QED
    BY <1>1, <1>6, <1>7, <1>8, <1>9, <1>10, ZenonT(30) DEF Next, DropResult, WorkerCrash, ApprovalClock, vars

\* EndedForever holds in every step: a late result, a watchdog iteration or an operator
\* function never revives a finished task, a settled call or a rejected approval.
THEOREM EndedStaysEnded == Spec => EndedForever
  <1> DEFINE Stays ==
        /\ \A t \in TaskIds : tasks[t].status \in Terminal => tasks'[t] = tasks[t]
        /\ \A c \in CallIds : calls[c].status \in {"harvested", "lost"} => calls'[c] = calls[c]
        /\ \A p \in ApprovalIds :
             approvals[p].status = "rejected" => approvals'[p].status = "rejected"
  <1>1. ASSUME TypeInv, [Next]_vars, NEW p \in ApprovalIds, approvals[p].status = "rejected"
        PROVE  approvals'[p].status = "rejected"
    <2>1. SameApproval(p)
      BY <1>1, ApprovalsKeep, ZenonT(30)
    <2> QED
      BY <1>1, <2>1, ZenonT(30) DEF SameApproval
  <1>2. TypeInv /\ [Next]_vars => [Stays]_vars
    BY <1>1, EndedTasks, EndedCalls, ZenonT(30)
  <1>3. IInv => TypeInv
    BY DEF IInv
  <1> QED
    BY <1>2, <1>3, Invariance, PTL DEF Spec, EndedForever
============================================================================
