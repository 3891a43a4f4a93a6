--------------------------- MODULE TaskLifecycle ---------------------------
(***************************************************************************)
(* The task engine of the control plane: sessions, tasks, the call queues  *)
(* (outbound_calls, sql_calls, function_calls, procedure_calls), human     *)
(* approvals, and the runtime worker that claims calls and reports their   *)
(* results.                                                                *)
(*                                                                         *)
(* Every PL/pgSQL function runs in one transaction and locks the rows it   *)
(* changes, so a function call is one action.  The loops of fn_watchdog,   *)
(* fn_dispatch_tasks and the fn_claim functions treat one row per          *)
(* iteration; an iteration is one action.  Time is left out: whatever may  *)
(* be late, may be late now.                                               *)
(***************************************************************************)
EXTENDS Naturals, FiniteSets

CONSTANTS
  Agents,           \* the agents
  NoAgent,          \* no agent: the agent of an unused row
  Compactor,        \* the agent named session_compactor, or NoAgent
  Delegates,        \* the pairs <<a, b>> where a holds permission to delegate to b
  TurnLimited,      \* the agents whose policy sets max_turn_seconds
  Autonomous,       \* the system agents whose changes need no admin_approval
  MaxSteps,         \* policies.max_steps
  MaxRetries,       \* policies.max_retries
  MaxDepth,         \* policies.max_delegation_depth
  MaxSessionTasks,  \* policies.max_session_tasks
  InitCap,          \* policies.max_concurrent_tasks at the start
  Caps,             \* the values an operator gives max_concurrent_tasks
  ToolKinds,        \* the kinds of calls the model asks for
  Replies,          \* what the model answers
  OperatorOps,      \* the operator functions that are called
  Faults,           \* what may go wrong on the way to a call's result
  MaxTasks,         \* bounds: the rows each table may hold,
  MaxSessions,
  MaxCalls,
  MaxApprovals,
  MaxEdits          \* and how often an agent's rules and policy are edited

Kinds == {"llm", "query", "read", "mutate", "sql", "local"}

AllReplies == {"final", "note", "reject", "tool", "delegate", "await_human",
               "await_children", "change", "raise", "http_error"}

AllOps == {"continue", "cancel", "active", "provider", "permission", "rule", "cap"}

\* The worker crashes, drops one result, or is slower than the watchdog.
AllFaults == {"crash", "drop", "late"}

ASSUME ConstantsAssumption ==
  /\ NoAgent \notin Agents
  /\ Compactor \in Agents \cup {NoAgent}
  /\ Delegates \subseteq Agents \X Agents
  /\ TurnLimited \subseteq Agents
  /\ Autonomous \subseteq Agents
  /\ {MaxSteps, MaxRetries, MaxDepth, MaxSessionTasks} \subseteq Nat
  /\ InitCap \in Caps
  /\ Caps \subseteq Nat \ {0}
  /\ ToolKinds \subseteq Kinds \ {"llm"}
  /\ Replies \subseteq AllReplies
  /\ OperatorOps \subseteq AllOps
  /\ Faults \subseteq AllFaults
  /\ {MaxTasks, MaxSessions, MaxCalls, MaxApprovals, MaxEdits} \subseteq Nat

VARIABLES
  tasks,      \* allgres_private.tasks
  sessions,   \* allgres_private.sessions
  calls,      \* the four call queues
  approvals,  \* allgres_private.human_approvals
  jobs,       \* the calls the runtime worker holds: claimed, result not reported
  active,     \* agents.is_active
  provider,   \* are the providers of models and embeddings configured and enabled?
  permitted,  \* does the agent hold the permission its tool calls need?
  rule,       \* the decision of the agent's execution rule
  cap,        \* policies.max_concurrent_tasks
  gen         \* generation of everything an approval's snapshot holds

config == <<active, provider, permitted, rule, cap, gen>>
vars == <<tasks, sessions, calls, approvals, jobs, config>>

----------------------------------------------------------------------------
(* Rows *)

TaskIds == 1..MaxTasks
SessionIds == 1..MaxSessions
CallIds == 1..MaxCalls
ApprovalIds == 1..MaxApprovals

Holding == {"running", "waiting_human", "waiting_children"}
Open == Holding \cup {"queued"}
Terminal == {"completed", "failed", "cancelled"}
Live == {"queued", "in_flight"}

TaskRow == [status: {"none"} \cup Open \cup Terminal, agent: Agents \cup {NoAgent},
            session: Nat, parent: Nat, depth: Nat, step: Nat, errs: Nat,
            started: BOOLEAN, answer: BOOLEAN]

SessionRow == [status: {"none", "open", "completed", "failed", "cancelled"},
               agent: Agents \cup {NoAgent}, answer: Nat, compacts: Nat]

\* sent, strict and gen record the claim: whether it happened, whether a rule asked
\* for an approval then, and the generation it was checked against.
CallRow == [status: {"none", "harvested", "lost"} \cup Live, task: Nat, kind: Kinds,
            sent: BOOLEAN, strict: BOOLEAN, gen: Nat]

\* why: an await_human reply, an ambiguous mutation, or a guarded call (payload ? 'queue').
ApprovalRow == [status: {"none", "pending", "approved", "rejected"}, task: Nat, call: Nat,
                why: {"human", "ambiguous", "guard"}, gen: Nat, expired: BOOLEAN]

NewTask(a, s, p, d) ==
  [status |-> "queued", agent |-> a, session |-> s, parent |-> p, depth |-> d,
   step |-> 0, errs |-> 0, started |-> FALSE, answer |-> FALSE]

NewSession(a, target) ==
  [status |-> "open", agent |-> a, answer |-> 0, compacts |-> target]

NewCall(t, k) ==
  [status |-> "queued", task |-> t, kind |-> k, sent |-> FALSE, strict |-> FALSE, gen |-> 0]

NewApproval(t, c, why, g) ==
  [status |-> "pending", task |-> t, call |-> c, why |-> why, gen |-> g, expired |-> FALSE]

Unused(row) == [row EXCEPT !.status = "none"]

\* The id of the next row of a table: none when the table is at its bound.
NextId(table, max) ==
  {i \in 1..max : /\ table[i].status = "none"
                  /\ \A j \in 1..(i - 1) : table[j].status # "none"}

Init ==
  /\ tasks = [t \in TaskIds |-> Unused(NewTask(NoAgent, 0, 0, 0))]
  /\ sessions = [s \in SessionIds |-> Unused(NewSession(NoAgent, 0))]
  /\ calls = [c \in CallIds |-> Unused(NewCall(0, "llm"))]
  /\ approvals = [p \in ApprovalIds |-> Unused(NewApproval(0, 0, "human", 0))]
  /\ jobs = {}
  /\ active = [a \in Agents |-> TRUE]
  /\ provider = TRUE
  /\ permitted = [a \in Agents |-> TRUE]
  /\ rule = [a \in Agents |-> "allow"]
  /\ cap = [a \in Agents |-> InitCap]
  /\ gen = [a \in Agents |-> 1]

----------------------------------------------------------------------------
(* Tasks and the session they belong to *)

OpenIn(ts, s) == \E t \in TaskIds : ts[t].session = s /\ ts[t].status \in Open

CompletedRoots(ts, s) ==
  {t \in TaskIds : ts[t].session = s /\ ts[t].parent = 0 /\ ts[t].status = "completed"}

\* The latest completed root task when it carries an answer.  Root tasks of a session
\* run one after the other, so the latest is the one with the greatest id.
RootAnswer(ts, s) ==
  {t \in CompletedRoots(ts, s) : ts[t].answer /\ \A u \in CompletedRoots(ts, s) : u <= t}

\* Mutant: the session keeps the answer given last.
MaybeCompleteLastAnswer(ts, ss, s) ==
  IF OpenIn(ts, s) \/ ss[s].status # "open" THEN ss ELSE [ss EXCEPT ![s].status = "completed"]

\* maybe_complete_session: close session s of ss once the tasks ts leave it no open task.
MaybeComplete(ts, ss, s) ==
  LET failed == \E t \in TaskIds : ts[t].session = s /\ ts[t].status = "failed"
      answered == RootAnswer(ts, s)
  IN  IF OpenIn(ts, s) \/ ss[s].status # "open"
      THEN ss
      ELSE IF failed /\ answered = {}
      THEN [ss EXCEPT ![s].status = "failed"]
      ELSE [ss EXCEPT ![s].status = "completed",
                      ![s].answer = IF answered = {} THEN @
                                    ELSE CHOOSE t \in answered : TRUE]

\* Write a task row, then maybe_complete_session (which leaves the session alone
\* while this or another of its tasks is open).
Settle(t, row) ==
  /\ tasks' = [tasks EXCEPT ![t] = row]
  /\ sessions' = MaybeComplete(tasks', sessions, row.session)

Step(row) == [row EXCEPT !.step = @ + 1]

\* Mutant: a rejected reply costs no step.
RejectFree(row) == [row EXCEPT !.errs = @ + 1]

\* An 'error' log and the step it costs.
Reject(row) == [row EXCEPT !.step = @ + 1, !.errs = @ + 1]

Fail(row) == [row EXCEPT !.status = "failed"]

\* fn_submit_result refuses to go on for an inactive agent.
Discard(row) == [row EXCEPT !.status = "failed", !.errs = @ + 1]

\* fn_submit_result of an 'error' payload, on a running task.
SubmitError(row) ==
  IF ~active[row.agent] THEN Discard(row)
  ELSE IF row.errs + 1 > MaxRetries THEN Fail(Reject(row)) ELSE Reject(row)

\* fn_submit_result of a 'function_result' or 'procedure_result' payload.
SubmitResult(row) == IF active[row.agent] THEN Step(row) ELSE Discard(row)

----------------------------------------------------------------------------
(* Sessions *)

CreateSession(a) ==
  /\ active[a]
  /\ \E s \in NextId(sessions, MaxSessions), t \in NextId(tasks, MaxTasks) :
       /\ sessions' = [sessions EXCEPT ![s] = NewSession(a, 0)]
       /\ tasks' = [tasks EXCEPT ![t] = NewTask(a, s, 0, 0)]
  /\ UNCHANGED <<calls, approvals, jobs, config>>

\* Mutant: a follow-up message does not reopen the session.
ContinueClosed(s) ==
  /\ "continue" \in OperatorOps
  /\ sessions[s].status # "none"
  /\ active[sessions[s].agent]
  /\ \A t \in TaskIds :
       tasks[t].session = s /\ tasks[t].parent = 0 => tasks[t].status \notin Open
  /\ \E t \in NextId(tasks, MaxTasks) :
       tasks' = [tasks EXCEPT ![t] = NewTask(sessions[s].agent, s, 0, 0)]
  /\ UNCHANGED <<sessions, calls, approvals, jobs, config>>

\* Mutant: a follow-up message does not wait for the turn before it.
ContinueAtOnce(s) ==
  /\ "continue" \in OperatorOps
  /\ sessions[s].status # "none"
  /\ active[sessions[s].agent]
  /\ \E t \in NextId(tasks, MaxTasks) :
       tasks' = [tasks EXCEPT ![t] = NewTask(sessions[s].agent, s, 0, 0)]
  /\ sessions' = [sessions EXCEPT ![s].status = "open"]
  /\ UNCHANGED <<calls, approvals, jobs, config>>

\* A follow-up message: one turn at a time, and a closed session is reopened.
ContinueSession(s) ==
  /\ "continue" \in OperatorOps
  /\ sessions[s].status # "none"
  /\ active[sessions[s].agent]
  /\ \A t \in TaskIds :
       tasks[t].session = s /\ tasks[t].parent = 0 => tasks[t].status \notin Open
  /\ \E t \in NextId(tasks, MaxTasks) :
       tasks' = [tasks EXCEPT ![t] = NewTask(sessions[s].agent, s, 0, 0)]
  /\ sessions' = [sessions EXCEPT ![s].status = "open"]
  /\ UNCHANGED <<calls, approvals, jobs, config>>

\* Mutant: a status the CHECK constraints of the queues do not know.
WithdrawnCancelled(owners) ==
  [c \in CallIds |-> IF calls[c].task \in owners /\ calls[c].status \in Live
                     THEN [calls[c] EXCEPT !.status = "cancelled"] ELSE calls[c]]

\* Mutant: only what has not been claimed is withdrawn.
WithdrawnQueued(owners) ==
  [c \in CallIds |-> IF calls[c].task \in owners /\ calls[c].status = "queued"
                     THEN [calls[c] EXCEPT !.status = "lost"] ELSE calls[c]]

\* The calls that cancelling and turn_timeout withdraw: outbound_calls and sql_calls,
\* not function_calls and procedure_calls ("local").
Withdrawn(owners) ==
  [c \in CallIds |->
     IF calls[c].task \in owners /\ calls[c].status \in Live /\ calls[c].kind # "local"
     THEN [calls[c] EXCEPT !.status = "lost"] ELSE calls[c]]

CancelSession(s) ==
  LET owners == {t \in TaskIds : tasks[t].session = s}
  IN  /\ "cancel" \in OperatorOps
      /\ sessions[s].status # "none"
      /\ tasks' = [t \in TaskIds |->
                     IF t \in owners /\ tasks[t].status \in Open
                     THEN [Step(tasks[t]) EXCEPT !.status = "cancelled"] ELSE tasks[t]]
      /\ calls' = Withdrawn(owners)
      /\ approvals' = [p \in ApprovalIds |->
                         IF approvals[p].task \in owners /\ approvals[p].status = "pending"
                         THEN [approvals[p] EXCEPT !.status = "rejected"] ELSE approvals[p]]
      /\ sessions' = [sessions EXCEPT ![s].status = IF @ = "open" THEN "cancelled" ELSE @]
      /\ UNCHANGED <<jobs, config>>

----------------------------------------------------------------------------
(* fn_dispatch_tasks: one iteration *)

SlotsTaken(t) ==
  Cardinality({u \in TaskIds \ {t} :
    tasks[u].agent = tasks[t].agent /\ tasks[u].status \in Holding})

\* Mutant: pending calls are not looked at.
EligibleBusy(t) ==
  tasks[t].status \in {"queued", "running"} /\ SlotsTaken(t) < cap[tasks[t].agent]

\* Mutant: one slot too many.
EligibleOneMore(t) ==
  /\ tasks[t].status \in {"queued", "running"}
  /\ \A c \in CallIds : calls[c].task = t => calls[c].status \notin Live
  /\ SlotsTaken(t) <= cap[tasks[t].agent]

\* Runnable, waiting for no call, and within max_concurrent_tasks.
Eligible(t) ==
  /\ tasks[t].status \in {"queued", "running"}
  /\ \A c \in CallIds : calls[c].task = t => calls[c].status \notin Live
  /\ SlotsTaken(t) < cap[tasks[t].agent]

\* fn_next_step makes the task running; started_at keeps its first value.
Started(t) == [tasks[t] EXCEPT !.status = "running", !.started = TRUE]

\* fn_next_step ends a task whose agent is inactive or that has spent max_steps.
DispatchDone(t) ==
  /\ Eligible(t)
  /\ ~active[tasks[t].agent] \/ tasks[t].step >= MaxSteps
  /\ Settle(t, [Fail(Started(t)) EXCEPT !.errs = @ + 1])
  /\ UNCHANGED <<calls, approvals, jobs, config>>

\* maybe_trigger_compaction on session s: whether the log is past the threshold is
\* left open.  tasks' = ts and sessions' = ss but for the compaction it may create.
MaybeCompact(root, s, ts, ss) ==
  \/ tasks' = ts /\ sessions' = ss
  \/ /\ root
     /\ Compactor \in Agents
     /\ active[Compactor]
     /\ \A x \in SessionIds : ~(sessions[x].status = "open" /\ sessions[x].compacts = s)
     /\ \E x \in NextId(sessions, MaxSessions), t \in NextId(tasks, MaxTasks) :
          /\ sessions' = [ss EXCEPT ![x] = NewSession(Compactor, s)]
          /\ tasks' = [ts EXCEPT ![t] = NewTask(Compactor, x, 0, 0)]

GoesOn(t) == Eligible(t) /\ active[tasks[t].agent] /\ tasks[t].step < MaxSteps

DispatchLlm(t) ==
  /\ GoesOn(t)
  /\ provider
  /\ MaybeCompact(tasks[t].parent = 0, tasks[t].session,
                  [tasks EXCEPT ![t] = Started(t)], sessions)
  /\ \E c \in NextId(calls, MaxCalls) : calls' = [calls EXCEPT ![c] = NewCall(t, "llm")]
  /\ UNCHANGED <<approvals, jobs, config>>

\* build_llm_http refuses: an 'error' result is submitted at once.
DispatchNoProvider(t) ==
  LET ts == [tasks EXCEPT ![t] = SubmitError(Started(t))]
  IN  /\ GoesOn(t)
      /\ ~provider
      /\ MaybeCompact(tasks[t].parent = 0, tasks[t].session,
                      ts, MaybeComplete(ts, sessions, tasks[t].session))
      /\ UNCHANGED <<calls, approvals, jobs, config>>

----------------------------------------------------------------------------
(* fn_claim_outbound, fn_claim_sql, fn_claim_function_calls and                *)
(* fn_claim_procedure_calls with guard_queued_call: one iteration              *)

AgentOf(c) == tasks[calls[c].task].agent

\* The actions execution rules speak about; llm and embedding calls are not.
Guarded(c) == calls[c].kind \in {"read", "mutate", "sql", "local"}

Claimable(c) == calls[c].status = "queued" /\ tasks[calls[c].task].status = "running"

\* v_reason: the agent, the provider, a permission or a rule forbids the call by now.
Refused(c) ==
  \/ ~active[AgentOf(c)]
  \/ calls[c].kind \in {"llm", "query"} /\ ~provider
  \/ Guarded(c) /\ (~permitted[AgentOf(c)] \/ rule[AgentOf(c)] = "deny")

GuardApprovals(c) ==
  {p \in ApprovalIds : /\ approvals[p].status # "none"
                       /\ approvals[p].why = "guard" /\ approvals[p].call = c}

Latest(c) == {p \in GuardApprovals(c) : \A q \in GuardApprovals(c) : q <= p}

Strict(c) == Guarded(c) /\ rule[AgentOf(c)] = "approve"

NeedsApproval(c) == Strict(c) \/ GuardApprovals(c) # {}

\* Mutant: the snapshot is not compared.
ClearedOnce(c) ==
  \E p \in Latest(c) : approvals[p].status = "approved" /\ ~approvals[p].expired

\* Approved, not expired, and nothing in its snapshot has changed since.
Cleared(c) ==
  \E p \in Latest(c) : /\ approvals[p].status = "approved"
                       /\ ~approvals[p].expired
                       /\ approvals[p].gen = gen[AgentOf(c)]

ClaimSend(c) ==
  /\ Claimable(c)
  /\ ~Refused(c)
  /\ NeedsApproval(c) => Cleared(c)
  /\ calls' = [calls EXCEPT ![c].status = "in_flight", ![c].sent = TRUE,
                            ![c].strict = Strict(c), ![c].gen = gen[AgentOf(c)]]
  /\ jobs' = jobs \cup {c}
  /\ UNCHANGED <<tasks, sessions, approvals, config>>

\* The call stays queued, its task waits for a (new) approval.
ClaimPark(c) ==
  /\ Claimable(c)
  /\ ~Refused(c)
  /\ NeedsApproval(c)
  /\ ~Cleared(c)
  /\ \E n \in NextId(approvals, MaxApprovals) :
       approvals' = [p \in ApprovalIds |->
         IF p = n THEN NewApproval(calls[c].task, c, "guard", gen[AgentOf(c)])
         ELSE IF p \in Latest(c) THEN [approvals[p] EXCEPT !.status = "rejected"]
         ELSE approvals[p]]
  /\ tasks' = [tasks EXCEPT ![calls[c].task].status = "waiting_human"]
  /\ UNCHANGED <<sessions, calls, jobs, config>>

\* Mutant: the session of the refused task is not looked at.
ClaimRefuseOnly(c) ==
  /\ Claimable(c)
  /\ Refused(c)
  /\ calls' = [calls EXCEPT ![c].status = "lost"]
  /\ tasks' = [tasks EXCEPT ![calls[c].task] = Discard(@)]
  /\ UNCHANGED <<sessions, approvals, jobs, config>>

ClaimRefuse(c) ==
  /\ Claimable(c)
  /\ Refused(c)
  /\ calls' = [calls EXCEPT ![c].status = "lost"]
  /\ Settle(calls[c].task, Discard(tasks[calls[c].task]))
  /\ UNCHANGED <<approvals, jobs, config>>

----------------------------------------------------------------------------
(* fn_complete_outbound and the other fn_complete functions: the worker        *)
(* reports the result of call c                                                *)

Holds(c) == c \in jobs /\ calls[c].status = "in_flight"

\* Mutant: no fence.
CompleteUnfenced(c) ==
  /\ c \in jobs
  /\ calls[c].status # "in_flight"
  /\ calls' = [calls EXCEPT ![c].status = "harvested"]
  /\ jobs' = jobs \ {c}
  /\ UNCHANGED <<tasks, sessions, approvals, config>>

\* The fence: the call has been reclaimed or withdrawn, its result is ignored.
CompleteStale(c) ==
  /\ c \in jobs
  /\ calls[c].status # "in_flight"
  /\ jobs' = jobs \ {c}
  /\ UNCHANGED <<tasks, sessions, calls, approvals, config>>

\* The response is recorded, but its task is no longer running.
CompleteSkipped(c) ==
  /\ Holds(c)
  /\ tasks[calls[c].task].status # "running"
  /\ calls' = [calls EXCEPT ![c].status = "harvested"]
  /\ jobs' = jobs \ {c}
  /\ UNCHANGED <<tasks, sessions, approvals, config>>

\* The result of c reaches its running task.
Delivers(c) ==
  /\ Holds(c)
  /\ tasks[calls[c].task].status = "running"
  /\ jobs' = jobs \ {c}

Harvested(c) == [calls EXCEPT ![c].status = "harvested"]

ToolResult(c) ==
  /\ Delivers(c)
  /\ calls[c].kind # "llm"
  /\ calls' = Harvested(c)
  /\ Settle(calls[c].task, SubmitResult(tasks[calls[c].task]))
  /\ UNCHANGED <<approvals, config>>

\* A plain GET reports every status as its result, never as an error.
CallError(c) ==
  /\ Delivers(c)
  /\ calls[c].kind # "read"
  /\ calls[c].kind = "llm" => "http_error" \in Replies
  /\ calls' = Harvested(c)
  /\ Settle(calls[c].task, SubmitError(tasks[calls[c].task]))
  /\ UNCHANGED <<approvals, config>>

\* Mutant: an ambiguous mutation is an error like any other.
PauseAsError(c) ==
  /\ calls' = [calls EXCEPT ![c].status = "lost"]
  /\ Settle(calls[c].task, SubmitError(tasks[calls[c].task]))
  /\ UNCHANGED approvals

\* pause_ambiguous_outbound: a mutation that may have happened waits for a human.
Pause(c) ==
  /\ calls' = [calls EXCEPT ![c].status = "lost"]
  /\ tasks' = [tasks EXCEPT ![calls[c].task].status = "waiting_human",
                            ![calls[c].task].errs = @ + 1]
  /\ \E p \in NextId(approvals, MaxApprovals) :
       approvals' = [approvals EXCEPT ![p] = NewApproval(calls[c].task, c, "ambiguous", 0)]
  /\ UNCHANGED sessions

AmbiguousResult(c) ==
  /\ Delivers(c)
  /\ calls[c].kind = "mutate"
  /\ Pause(c)
  /\ UNCHANGED config

----------------------------------------------------------------------------
(* fn_submit_result of an 'llm_response' payload: what the model asks for      *)

Answers(c) == Delivers(c) /\ calls[c].kind = "llm"

ReplyDiscarded(c) ==
  /\ Answers(c)
  /\ ~active[AgentOf(c)]
  /\ calls' = Harvested(c)
  /\ Settle(calls[c].task, Discard(tasks[calls[c].task]))
  /\ UNCHANGED <<approvals, config>>

Says(c, reply) ==
  Answers(c) /\ active[AgentOf(c)] /\ reply \in Replies /\ UNCHANGED config

\* A final_answer overwrites the session's final_answer, whichever task gives it;
\* maybe_complete_session prefers the root task's.
FinalAnswer(c) ==
  LET t == calls[c].task
      s == tasks[t].session
  IN  /\ Says(c, "final")
      /\ calls' = Harvested(c)
      /\ tasks' = [tasks EXCEPT ![t] = [Step(@) EXCEPT !.status = "completed", !.answer = TRUE]]
      /\ sessions' = MaybeComplete(tasks', [sessions EXCEPT ![s].answer = t], s)
      /\ UNCHANGED approvals

\* remember, create_agent, create_function, update_function, and propose_change and
\* propose_fix while they wait for an administrator: the engine takes a step.
Note(c) ==
  /\ Says(c, "note")
  /\ calls' = Harvested(c)
  /\ tasks' = [tasks EXCEPT ![calls[c].task] = Step(@)]
  /\ UNCHANGED <<sessions, approvals>>

\* propose_change and propose_fix of an autonomous agent take effect at once: agent a has
\* a new policy generation, loses a permission or is deactivated.
ApplyChange(c, a) ==
  /\ Answers(c)
  /\ "change" \in Replies
  /\ active[AgentOf(c)]
  /\ AgentOf(c) \in Autonomous
  /\ calls' = Harvested(c)
  /\ tasks' = [tasks EXCEPT ![calls[c].task] = Step(@)]
  /\ \/ gen[a] <= MaxEdits /\ gen' = [gen EXCEPT ![a] = @ + 1] /\ UNCHANGED <<permitted, active>>
     \/ permitted' = [permitted EXCEPT ![a] = FALSE] /\ UNCHANGED <<gen, active>>
     \/ active' = [active EXCEPT ![a] = FALSE] /\ UNCHANGED <<gen, permitted>>
  /\ UNCHANGED <<sessions, approvals, provider, rule, cap>>

\* unknown_action, an invalid request, a call the agent has no permission for, or a
\* search without an embedding provider.
ReplyRejected(c) ==
  /\ Says(c, "reject") \/ (Says(c, "tool") /\ ~(permitted[AgentOf(c)] /\ provider))
  /\ calls' = Harvested(c)
  /\ tasks' = [tasks EXCEPT ![calls[c].task] = Reject(@)]
  /\ UNCHANGED <<sessions, approvals>>

\* execute_sql, call_function, run_procedure, search_agents, search_capabilities, recall.
ToolCall(c, k) ==
  /\ Says(c, "tool")
  /\ IF k = "query" THEN provider ELSE permitted[AgentOf(c)]
  /\ \E n \in NextId(calls, MaxCalls) :
       calls' = [calls EXCEPT ![c].status = "harvested", ![n] = NewCall(calls[c].task, k)]
  /\ tasks' = [tasks EXCEPT ![calls[c].task] = Step(@)]
  /\ UNCHANGED <<sessions, approvals>>

AwaitHuman(c) ==
  /\ Says(c, "await_human")
  /\ calls' = Harvested(c)
  /\ tasks' = [tasks EXCEPT ![calls[c].task] = [Step(@) EXCEPT !.status = "waiting_human"]]
  /\ \E p \in NextId(approvals, MaxApprovals) :
       approvals' = [approvals EXCEPT ![p] = NewApproval(calls[c].task, 0, "human", 0)]
  /\ UNCHANGED sessions

Unfinished(t) == {u \in TaskIds : tasks[u].parent = t /\ tasks[u].status \in Open}

AwaitChildren(c) ==
  /\ Says(c, "await_children")
  /\ calls' = Harvested(c)
  /\ tasks' = [tasks EXCEPT ![calls[c].task] =
                 IF Unfinished(calls[c].task) = {} THEN Reject(@)
                 ELSE [Step(@) EXCEPT !.status = "waiting_children"]]
  /\ UNCHANGED <<sessions, approvals>>

\* fn_submit_result raises (a malformed "wait" or id fails its cast): its effects are
\* rolled back, the response stays harvested.
ReplyRaises(c) ==
  /\ Says(c, "raise")
  /\ calls' = Harvested(c)
  /\ UNCHANGED <<tasks, sessions, approvals>>

\* t and the tasks it descends from: the least set with t and every parent of a member
\* (the recursive query ancestors).
Ancestors(t) ==
  {u \in TaskIds :
     \A S \in SUBSET TaskIds :
       t \in S /\ (\A v \in S : tasks[v].parent \in S \cup {0}) => u \in S}

\* Mutant: no ancestor check.
MayDelegateBack(t, b) ==
  /\ active[b]
  /\ <<tasks[t].agent, b>> \in Delegates
  /\ tasks[t].depth + 1 <= MaxDepth

MayDelegate(t, b) ==
  /\ active[b]
  /\ <<tasks[t].agent, b>> \in Delegates
  /\ tasks[t].depth + 1 <= MaxDepth
  /\ \A u \in Ancestors(t) : tasks[u].agent # b
  /\ Cardinality({u \in TaskIds : tasks[u].session = tasks[t].session}) < MaxSessionTasks

\* Without wait the parent is done: it hands its job over.
Delegate(c, b, wait) ==
  LET t == calls[c].task
  IN  /\ Says(c, "delegate")
      /\ MayDelegate(t, b)
      /\ calls' = Harvested(c)
      /\ \E n \in NextId(tasks, MaxTasks) :
           tasks' = [tasks EXCEPT
             ![t] = [Step(@) EXCEPT !.status = IF wait THEN "running" ELSE "completed"],
             ![n] = NewTask(b, tasks[t].session, t, tasks[t].depth + 1)]
      /\ UNCHANGED <<sessions, approvals>>

DelegateRefused(c, b) ==
  /\ Says(c, "delegate")
  /\ ~MayDelegate(calls[c].task, b)
  /\ calls' = Harvested(c)
  /\ tasks' = [tasks EXCEPT ![calls[c].task] = Reject(@)]
  /\ UNCHANGED <<sessions, approvals>>

----------------------------------------------------------------------------
(* What may go wrong in the worker *)

WorkerCrash ==
  /\ "crash" \in Faults
  /\ jobs # {}
  /\ jobs' = {}
  /\ UNCHANGED <<tasks, sessions, calls, approvals, config>>

\* The transaction that reports a result fails: the call stays in_flight.
DropResult(c) ==
  /\ "drop" \in Faults
  /\ Holds(c)
  /\ jobs' = jobs \ {c}
  /\ UNCHANGED <<tasks, sessions, calls, approvals, config>>

----------------------------------------------------------------------------
(* fn_watchdog: one iteration of each of its loops *)

\* A call in flight for too long is lost.
Reclaim(c) ==
  LET t == calls[c].task
  IN  /\ calls[c].status = "in_flight"
      /\ c \in jobs => "late" \in Faults
      /\ \/ /\ tasks[t].status = "running"
            /\ calls[c].kind = "mutate"
            /\ Pause(c)
         \/ /\ tasks[t].status = "running"
            /\ calls[c].kind # "mutate"
            /\ calls' = [calls EXCEPT ![c].status = "lost"]
            /\ Settle(t, SubmitError(tasks[t]))
            /\ UNCHANGED approvals
         \/ /\ tasks[t].status # "running"
            /\ calls' = [calls EXCEPT ![c].status = "lost"]
            /\ UNCHANGED <<tasks, sessions, approvals>>
      /\ UNCHANGED <<jobs, config>>

\* expires_at passes.
ApprovalClock(p) ==
  /\ approvals[p].status \in {"pending", "approved"}
  /\ ~approvals[p].expired
  /\ approvals' = [approvals EXCEPT ![p].expired = TRUE]
  /\ UNCHANGED <<tasks, sessions, calls, jobs, config>>

\* Mutant: the task is left waiting.
ExpireApprovalOnly(p) ==
  /\ approvals[p].status = "pending"
  /\ approvals[p].expired
  /\ approvals' = [approvals EXCEPT ![p].status = "rejected"]
  /\ UNCHANGED <<tasks, sessions, calls, jobs, config>>

ExpireApproval(p) ==
  LET t == approvals[p].task
  IN  /\ approvals[p].status = "pending"
      /\ approvals[p].expired
      /\ approvals' = [approvals EXCEPT ![p].status = "rejected"]
      /\ IF tasks[t].status = "waiting_human"
         THEN Settle(t, Fail(Step(tasks[t])))
         ELSE UNCHANGED <<tasks, sessions>>
      /\ UNCHANGED <<calls, jobs, config>>

\* max_turn_seconds since started_at have passed.
TurnTimeout(t) ==
  /\ tasks[t].status \in Holding
  /\ tasks[t].agent \in TurnLimited
  /\ tasks[t].started
  /\ calls' = Withdrawn({t})
  /\ Settle(t, Fail(Reject(tasks[t])))
  /\ UNCHANGED <<approvals, jobs, config>>

\* Mutant: a failed child keeps its parent waiting.
WakeParentCompleted(t) ==
  /\ tasks[t].status = "waiting_children"
  /\ \A u \in TaskIds : tasks[u].parent = t => tasks[u].status = "completed"
  /\ tasks' = [tasks EXCEPT ![t] = [Step(@) EXCEPT !.status = "queued"]]
  /\ UNCHANGED <<sessions, calls, approvals, jobs, config>>

WakeParent(t) ==
  /\ tasks[t].status = "waiting_children"
  /\ Unfinished(t) = {}
  /\ tasks' = [tasks EXCEPT ![t] = [Step(@) EXCEPT !.status = "queued"]]
  /\ UNCHANGED <<sessions, calls, approvals, jobs, config>>

----------------------------------------------------------------------------
(* Operator decisions *)

\* fn_decide_approval: a task that no longer waits keeps its state.
DecideApproval(p, accept) ==
  LET t == approvals[p].task
  IN  /\ approvals[p].status = "pending"
      /\ ~approvals[p].expired
      /\ approvals' = [approvals EXCEPT ![p].status = IF accept THEN "approved" ELSE "rejected"]
      /\ IF tasks[t].status # "waiting_human"
         THEN UNCHANGED <<tasks, sessions>>
         ELSE Settle(t, [Step(tasks[t]) EXCEPT
                !.status = IF ~accept THEN "failed"
                           ELSE IF approvals[p].why = "guard" THEN "running" ELSE "queued"])
      /\ UNCHANGED <<calls, jobs, config>>

SetAgentActive(a) ==
  /\ "active" \in OperatorOps
  /\ active' = [active EXCEPT ![a] = ~@]
  /\ UNCHANGED <<tasks, sessions, calls, approvals, jobs, provider, permitted, rule, cap, gen>>

SetProvider ==
  /\ "provider" \in OperatorOps
  /\ provider' = ~provider
  /\ UNCHANGED <<tasks, sessions, calls, approvals, jobs, active, permitted, rule, cap, gen>>

\* fn_grant_permission, fn_revoke_permission: not part of an approval's snapshot.
SetPermission(a) ==
  /\ "permission" \in OperatorOps
  /\ permitted' = [permitted EXCEPT ![a] = ~@]
  /\ UNCHANGED <<tasks, sessions, calls, approvals, jobs, active, provider, rule, cap, gen>>

\* fn_set_execution_rule
SetRule(a, r) ==
  /\ "rule" \in OperatorOps
  /\ gen[a] <= MaxEdits
  /\ rule' = [rule EXCEPT ![a] = r]
  /\ gen' = [gen EXCEPT ![a] = @ + 1]
  /\ UNCHANGED <<tasks, sessions, calls, approvals, jobs, active, provider, permitted, cap>>

\* fn_set_policy
SetCap(a, n) ==
  /\ "cap" \in OperatorOps
  /\ gen[a] <= MaxEdits
  /\ n # cap[a]
  /\ cap' = [cap EXCEPT ![a] = n]
  /\ gen' = [gen EXCEPT ![a] = @ + 1]
  /\ UNCHANGED <<tasks, sessions, calls, approvals, jobs, active, provider, permitted, rule>>

----------------------------------------------------------------------------
\* The handler around fn_next_step has no action: that raises only for a task or a
\* policy that is missing and for a task that is not runnable, and the loop has just
\* read the task as queued or running and locked it; every agent has a policy.
Dispatch(t) == DispatchDone(t) \/ DispatchLlm(t) \/ DispatchNoProvider(t)

Claim(c) == ClaimSend(c) \/ ClaimPark(c) \/ ClaimRefuse(c)

Submit(c) ==
  \/ FinalAnswer(c) \/ Note(c) \/ ReplyRejected(c) \/ ReplyRaises(c) \/ ReplyDiscarded(c)
  \/ AwaitHuman(c) \/ AwaitChildren(c)
  \/ \E k \in ToolKinds : ToolCall(c, k)
  \/ \E a \in Agents : ApplyChange(c, a)
  \/ \E b \in Agents : DelegateRefused(c, b) \/ \E w \in BOOLEAN : Delegate(c, b, w)

Complete(c) ==
  \/ CompleteStale(c) \/ CompleteSkipped(c)
  \/ ToolResult(c) \/ CallError(c) \/ AmbiguousResult(c)
  \/ Submit(c)

Watchdog ==
  \/ \E c \in CallIds : Reclaim(c)
  \/ \E p \in ApprovalIds : ExpireApproval(p)
  \/ \E t \in TaskIds : TurnTimeout(t) \/ WakeParent(t)

Operator ==
  \/ \E a \in Agents : CreateSession(a) \/ SetAgentActive(a) \/ SetPermission(a)
  \/ \E s \in SessionIds : ContinueSession(s) \/ CancelSession(s)
  \/ \E p \in ApprovalIds, accept \in BOOLEAN : DecideApproval(p, accept)
  \/ \E a \in Agents, r \in {"allow", "approve", "deny"} : SetRule(a, r)
  \/ \E a \in Agents, n \in Caps : SetCap(a, n)
  \/ SetProvider

Next ==
  \/ Operator
  \/ Watchdog
  \/ \E t \in TaskIds : Dispatch(t)
  \/ \E c \in CallIds : Claim(c) \/ Complete(c) \/ DropResult(c)
  \/ WorkerCrash
  \/ \E p \in ApprovalIds : ApprovalClock(p)

Spec == Init /\ [][Next]_vars

\* The runtime worker's loop never stops: each tick runs fn_watchdog, fn_dispatch_tasks
\* and the claims, and reports what it has finished; and time passes.
Fairness ==
  /\ \A t \in TaskIds : /\ WF_vars(Dispatch(t))
                         /\ WF_vars(WakeParent(t))
                         /\ WF_vars(TurnTimeout(t))
  /\ \A c \in CallIds : WF_vars(Claim(c)) /\ WF_vars(Complete(c)) /\ WF_vars(Reclaim(c))
  /\ \A p \in ApprovalIds : WF_vars(ApprovalClock(p)) /\ WF_vars(ExpireApproval(p))

FairSpec == Spec /\ Fairness

----------------------------------------------------------------------------
(* Properties *)

\* Every row of every table has the type its column declarations give it.
TypeOK ==
  /\ tasks \in [TaskIds -> TaskRow]
  /\ sessions \in [SessionIds -> SessionRow]
  /\ calls \in [CallIds -> CallRow]
  /\ approvals \in [ApprovalIds -> ApprovalRow]
  /\ jobs \subseteq CallIds
  /\ active \in [Agents -> BOOLEAN]
  /\ provider \in BOOLEAN
  /\ permitted \in [Agents -> BOOLEAN]
  /\ rule \in [Agents -> {"allow", "approve", "deny"}]
  /\ cap \in [Agents -> Caps]
  /\ gen \in [Agents -> Nat]

\* A turn waits for one call at a time: no task has two live calls in the four queues,
\* and a task that is queued or waits for its children has none.  (The NOT EXISTS
\* conditions of fn_dispatch_tasks are what keeps a second model call from racing
\* a result that is still pending.)
OneLiveCall ==
  \A c \in CallIds : calls[c].status \in Live =>
    /\ tasks[calls[c].task].status \notin {"none", "queued", "waiting_children"}
    /\ \A d \in CallIds : calls[d].status \in Live /\ calls[d].task = calls[c].task => d = c

\* Cancelling and turn_timeout reach the calls: an HTTP or SQL call that is in flight
\* belongs to a running task, so nothing it brings back can be applied elsewhere.
InFlightIsRunning ==
  \A c \in CallIds :
    calls[c].status = "in_flight" /\ calls[c].kind # "local" =>
      tasks[calls[c].task].status = "running"

\* A human is asked exactly when someone waits for the answer: a task in waiting_human
\* has one pending approval, and no other open task has any (guard_queued_call,
\* pause_ambiguous_outbound, await_human against fn_decide_approval and fn_watchdog).
HumanIsAsked ==
  \A t \in TaskIds : tasks[t].status \in Open =>
    Cardinality({p \in ApprovalIds : approvals[p].task = t /\ approvals[p].status = "pending"})
      = IF tasks[t].status = "waiting_human" THEN 1 ELSE 0

\* A session is open exactly as long as one of its tasks is (maybe_complete_session is
\* called wherever the last task can end, and fn_continue_session reopens).
SessionOpenIffWork ==
  \A s \in SessionIds : sessions[s].status = "open" <=> OpenIn(tasks, s)

\* A mutation that was sent and whose result is unknown is never retried or built upon
\* unless a human has approved it: a later call of its task needs the approval
\* (pause_ambiguous_outbound, from fn_complete_outbound or fn_watchdog).
AmbiguousNeedsHuman ==
  \A c, d \in CallIds :
    /\ calls[c].kind = "mutate" /\ calls[c].sent /\ calls[c].status = "lost"
    /\ c < d /\ calls[d].status # "none" /\ calls[d].task = calls[c].task
    => \E p \in ApprovalIds : /\ approvals[p].why = "ambiguous" /\ approvals[p].call = c
                              /\ approvals[p].status = "approved"

\* A call leaves only with the approval it needs: when the rule asked for one at the
\* claim, or one was ever asked for, the latest is approved and was given for the
\* generation of policy and rules the call was claimed under (guard_queued_call: "A
\* previously required approval cannot be bypassed by relaxing its rule").
SentAsApproved ==
  \A c \in CallIds : calls[c].sent =>
    /\ calls[c].strict => GuardApprovals(c) # {}
    /\ \A p \in Latest(c) : approvals[p].status = "approved" /\ approvals[p].gen = calls[c].gen

\* What has ended stays as it is: no late result, watchdog loop or operator function
\* revives a finished task, a settled call or a rejected approval (the fence of the
\* fn_complete functions).
EndedForever ==
  [][/\ \A t \in TaskIds : tasks[t].status \in Terminal => tasks'[t] = tasks[t]
     /\ \A c \in CallIds : calls[c].status \in {"harvested", "lost"} => calls'[c] = calls[c]
     /\ \A p \in ApprovalIds :
          approvals[p].status = "rejected" => approvals'[p].status = "rejected"]_vars

\* No agent holds more turns at once than the largest max_concurrent_tasks it was given
\* (the present one, when it was never edited), whatever waits, resumes or is approved
\* meanwhile (slot check of fn_dispatch_tasks).
WithinCap ==
  \A a \in Agents :
    \E n \in Caps :
      /\ gen[a] = 1 => n = cap[a]
      /\ Cardinality({t \in TaskIds : tasks[t].agent = a /\ tasks[t].status \in Holding}) <= n

\* Delegation chains are short and never come back to an agent: along a chain every
\* agent is different, and the depth counts the ancestors and is within
\* max_delegation_depth (the delegate branch of fn_submit_result).
ChainsAcyclic ==
  \A t \in TaskIds : tasks[t].status # "none" =>
    /\ \A u, v \in Ancestors(t) : tasks[u].agent = tasks[v].agent => u = v
    /\ tasks[t].depth = Cardinality(Ancestors(t)) - 1
    /\ tasks[t].depth <= MaxDepth

\* A completed session reports what its latest root task answered, even when a delegated
\* task answered after it (final_answer against maybe_complete_session).
RootAnswerWins ==
  \A s \in SessionIds :
    /\ sessions[s].status = "completed"
    /\ RootAnswer(tasks, s) # {}
    => sessions[s].answer \in RootAnswer(tasks, s)

\* max_steps bounds the model calls of a task, whatever the model answers and however
\* its calls fail (control_plane.sql: "max_steps bounds a runaway *loop* (how many turns)").
ModelCallsBounded ==
  \A t \in TaskIds :
    Cardinality({c \in CallIds : /\ calls[c].status # "none" /\ calls[c].kind = "llm"
                                 /\ calls[c].task = t}) <= MaxSteps

\* Every task comes to an end, through lost results, unanswered approvals and delegation.
EveryTaskEnds ==
  \A t \in TaskIds : tasks[t].status \in Open ~> tasks[t].status \in Terminal

\* A parent that waits for its children does not wait forever
\* (docs/task-orchestration.md: "a child that never finishes does not let its parent
\* wait forever").  It does where no max_turn_seconds is set: see CircularWait.cfg.
ParentsResume ==
  \A t \in TaskIds :
    tasks[t].status = "waiting_children" ~> tasks[t].status # "waiting_children"

\* A running task goes on with its turns, its slot is its own (fn_dispatch_tasks: "that's
\* not a new slot, it already holds the one it's in").  It does not once
\* max_concurrent_tasks is lowered: see LoweredCap.cfg.
RunningGoesOn ==
  \A t \in TaskIds : tasks[t].status = "running" ~> tasks[t].status # "running"

============================================================================
