------------------------ MODULE TaskLifecycle_calls -------------------------
(***************************************************************************)
(* What leaves the database: calls go out as they were approved, a         *)
(* mutation whose result is unknown stops its task, and max_steps bounds   *)
(* the model calls, for every value of the constants.                      *)
(***************************************************************************)
EXTENDS TaskLifecycle_safety

----------------------------------------------------------------------------
(* What a step does to a call *)

\* Task t may queue a call: it is runnable, and a call it waited for is settled by now.
MayCall(t) ==
  /\ tasks[t].status \in {"queued", "running"}
  /\ \A d \in CallIds : calls[d].task = t /\ calls[d].status \in Live => calls'[d].status \notin Live

\* Row c is taken into use; only fn_dispatch_tasks queues model calls.
Created(c) ==
  /\ c \in NextId(calls, MaxCalls)
  /\ \E t \in TaskIds, k \in Kinds : /\ calls'[c] = NewCall(t, k)
                                     /\ MayCall(t)
                                     /\ k = "llm" => DispatchLlm(t)

SettledAs(c, st) == calls[c].status \in Live /\ calls'[c] = [calls[c] EXCEPT !.status = st]

CallStep(c) ==
  \/ calls'[c] = calls[c]
  \/ SettledAs(c, "harvested") \/ SettledAs(c, "lost")
  \/ ClaimSend(c)
  \/ Created(c)

\* One live call is settled.
LEMMA OneSettled ==
  ASSUME TypeInv, NEW d \in CallIds, calls[d].status \in Live, NEW st \in {"harvested", "lost"},
         calls' = [calls EXCEPT ![d].status = st], NEW c \in CallIds
  PROVE  CallStep(c)
<1>1. calls \in [CallIds -> CallRow]
  BY DEF TypeInv, CallsTyped
<1>2. CASE c = d
  <2>1. calls'[c] = [calls[c] EXCEPT !.status = st]
    BY <1>1, <1>2, ZenonT(30)
  <2> QED
    BY <1>2, <2>1, ZenonT(30) DEF CallStep, SettledAs
<1>3. CASE c # d
  <2>1. calls'[c] = calls[c]
    BY <1>1, <1>3, ZenonT(30)
  <2> QED
    BY <2>1, ZenonT(30) DEF CallStep
<1> QED
  BY <1>2, <1>3, ZenonT(30)

\* The calls of some tasks are withdrawn.
LEMMA SomeWithdrawn ==
  ASSUME NEW owners, calls' = Withdrawn(owners), NEW c \in CallIds
  PROVE  CallStep(c)
<1>1. \/ calls'[c] = calls[c]
      \/ calls[c].status \in Live /\ calls'[c] = [calls[c] EXCEPT !.status = "lost"]
  BY ZenonT(30) DEF Withdrawn
<1> QED
  BY <1>1, ZenonT(30) DEF CallStep, SettledAs

\* A model call is queued.
LEMMA ModelCalled ==
  ASSUME TypeInv, NEW t \in TaskIds, DispatchLlm(t), NEW c \in CallIds
  PROVE  CallStep(c)
<1>0. calls \in [CallIds -> CallRow]
  BY ZenonT(30) DEF TypeInv, CallsTyped
<1>1. PICK n \in NextId(calls, MaxCalls) : calls' = [calls EXCEPT ![n] = NewCall(t, "llm")]
  BY ZenonT(30) DEF DispatchLlm
<1>2. n \in CallIds
  BY DEF NextId, CallIds
<1>3. tasks[t].status \in {"queued", "running"}
      /\ \A d \in CallIds : calls[d].task = t => calls[d].status \notin Live
  BY ZenonT(30) DEF DispatchLlm, GoesOn, Eligible
<1>4. CASE c = n
  <2>1. calls'[c] = NewCall(t, "llm") /\ "llm" \in Kinds
    BY <1>0, <1>1, <1>4, ZenonT(30) DEF Kinds
  <2>2. MayCall(t)
    BY <1>3, ZenonT(30) DEF MayCall
  <2> QED
    BY <1>4, <2>1, <2>2, ZenonT(30) DEF CallStep, Created
<1>5. CASE c # n
  <2>1. calls'[c] = calls[c]
    BY <1>0, <1>1, <1>5, ZenonT(30)
  <2> QED
    BY <2>1, ZenonT(30) DEF CallStep
<1> QED
  BY <1>4, <1>5, ZenonT(30)

\* A tool call is queued where the model's reply has been harvested.
LEMMA ToolCalled ==
  ASSUME IInv, NEW d \in CallIds, NEW k \in ToolKinds, ToolCall(d, k), NEW c \in CallIds
  PROVE  CallStep(c)
<1>0. calls \in [CallIds -> CallRow] /\ TypeInv /\ OneLiveCall
  BY ZenonT(30) DEF IInv, Safe, TypeInv, CallsTyped
<1> DEFINE t == calls[d].task
<1>1. PICK n \in NextId(calls, MaxCalls) :
        calls' = [calls EXCEPT ![d].status = "harvested", ![n] = NewCall(t, k)]
  BY ZenonT(30) DEF ToolCall
<1>2. calls[d].status = "in_flight" /\ Delivers(d)
  BY ZenonT(30) DEF ToolCall, Says, Answers, Delivers, Holds
<1>3. t \in TaskIds /\ tasks[t].status = "running"
  BY <1>0, <1>2, DeliveredTask, ZenonT(30)
<1>4. n \in CallIds /\ calls[n].status = "none" /\ n # d /\ calls[d].status \in Live
  BY <1>2, ZenonT(30) DEF NextId, CallIds, Live
<1> HIDE DEF t
<1>5. /\ calls'[d] = [calls[d] EXCEPT !.status = "harvested"] /\ calls'[n] = NewCall(t, k)
      /\ \A e \in CallIds \ {d, n} : calls'[e] = calls[e]
  BY <1>0, <1>1, <1>4, ZenonT(30)
<1>6. MayCall(t)
  <2>1. \A e \in CallIds : calls[e].task = t /\ calls[e].status \in Live => e = d
    BY <1>0, <1>4, ZenonT(30) DEF OneLiveCall, t
  <2>2. calls'[d].status \notin Live
    BY <1>0, <1>5, ZenonT(30) DEF CallRow, Live
  <2> QED
    BY <1>3, <2>1, <2>2, ZenonT(30) DEF MayCall
<1>7. k \in Kinds /\ k # "llm"
  BY ConstantsAssumption, ZenonT(30)
<1>8. CASE c = n
  BY <1>3, <1>5, <1>6, <1>7, <1>8, ZenonT(30) DEF CallStep, Created
<1>9. CASE c # n
  BY <1>4, <1>5, <1>9, ZenonT(30) DEF CallStep, SettledAs
<1> QED
  BY <1>8, <1>9, ZenonT(30)

\* Every step settles, sends, creates or leaves alone a call.
LEMMA CallSteps ==
  ASSUME IInv, [Next]_vars, NEW c \in CallIds
  PROVE  CallStep(c)
<1>0. TypeInv /\ calls \in [CallIds -> CallRow]
  BY ZenonT(30) DEF IInv, TypeInv, CallsTyped
<1>1. CASE calls' = calls
  BY <1>1, ZenonT(30) DEF CallStep
<1>2. ASSUME NEW d \in CallIds, Complete(d)
      PROVE  CallStep(c)
  <2>1. \/ calls' = calls
        \/ /\ calls[d].status = "in_flight"
           /\ \E st \in {"harvested", "lost"} : calls' = [calls EXCEPT ![d].status = st]
        \/ \E k \in ToolKinds : ToolCall(d, k)
    BY <1>2, ZenonT(30) DEF Complete, CompleteStale, CompleteSkipped, ToolResult, CallError,
         AmbiguousResult, Pause, Submit, FinalAnswer, Note, ApplyChange, ReplyRejected,
         ReplyRaises, ReplyDiscarded, AwaitHuman, AwaitChildren, DelegateRefused, Delegate, Harvested,
         Says, Answers, Delivers, Holds
  <2>2. "in_flight" \in Live
    BY ZenonT(30) DEF Live
  <2> QED
    BY <1>0, <1>1, <2>1, <2>2, OneSettled, ToolCalled, ZenonT(30)
<1>3. CASE Operator
  <2>1. calls' = calls \/ \E owners : calls' = Withdrawn(owners)
    BY <1>3, ZenonT(30) DEF Operator, CreateSession, SetAgentActive, SetPermission, ContinueSession,
         CancelSession, DecideApproval, SetRule, SetCap, SetProvider
  <2> QED
    BY <1>1, <2>1, SomeWithdrawn, ZenonT(30)
<1>4. CASE Watchdog
  <2>1. \/ calls' = calls
        \/ \E d \in CallIds : /\ calls[d].status = "in_flight"
                              /\ calls' = [calls EXCEPT ![d].status = "lost"]
        \/ \E owners : calls' = Withdrawn(owners)
    BY <1>4, ZenonT(30) DEF Watchdog, Reclaim, Pause, ExpireApproval, TurnTimeout, WakeParent
  <2>2. "in_flight" \in Live
    BY ZenonT(30) DEF Live
  <2> QED
    BY <1>0, <1>1, <2>1, <2>2, OneSettled, SomeWithdrawn, ZenonT(30)
<1>5. ASSUME NEW t \in TaskIds, Dispatch(t)
      PROVE  CallStep(c)
  <2>1. calls' = calls \/ DispatchLlm(t)
    BY <1>5, ZenonT(30) DEF Dispatch, DispatchDone, DispatchNoProvider
  <2> QED
    BY <1>0, <1>1, <2>1, ModelCalled, ZenonT(30)
<1>6. ASSUME NEW d \in CallIds, Claim(d)
      PROVE  CallStep(c)
  <2>1. CASE calls[d].status = "queued" /\ calls' = [calls EXCEPT ![d].status = "lost"]
    <3>1. "queued" \in Live
      BY DEF Live
    <3> QED
      BY <1>0, <2>1, <3>1, OneSettled, ZenonT(30)
  <2>2. CASE ClaimSend(d)
    <3>1. c # d => calls'[c] = calls[c]
      BY <1>0, <2>2 DEF ClaimSend
    <3> QED
      BY <2>2, <3>1, ZenonT(30) DEF CallStep
  <2> QED
    BY <1>1, <1>6, <2>1, <2>2, ZenonT(30) DEF Claim, ClaimPark, ClaimRefuse, Claimable
<1> QED
  BY <1>1, <1>2, <1>3, <1>4, <1>5, <1>6, ZenonT(30)
     DEF Next, DropResult, WorkerCrash, ApprovalClock, vars

----------------------------------------------------------------------------
(* Calls go out as they were approved *)

SentIsClaimed == \A c \in CallIds : calls[c].sent => calls[c].status \notin {"none", "queued"}

\* What a claim recorded stays.
LEMMA SentStays ==
  ASSUME IInv, SentIsClaimed, [Next]_vars, NEW c \in CallIds, calls'[c].sent
  PROVE  \/ /\ calls[c].sent
            /\ calls'[c].strict = calls[c].strict
            /\ calls'[c].gen = calls[c].gen
            /\ calls'[c].status \notin {"none", "queued"}
         \/ ClaimSend(c) /\ calls'[c].status = "in_flight"
<1>0. calls \in [CallIds -> CallRow] /\ (calls[c].sent => calls[c].status \notin {"none", "queued"})
  BY ZenonT(30) DEF IInv, TypeInv, CallsTyped, SentIsClaimed
<1>1. CASE calls'[c] = calls[c]
  BY <1>0, <1>1, ZenonT(30)
<1>2. ASSUME NEW st \in {"harvested", "lost"}, SettledAs(c, st)
      PROVE  /\ calls[c].sent
             /\ calls'[c].strict = calls[c].strict
             /\ calls'[c].gen = calls[c].gen
             /\ calls'[c].status \notin {"none", "queued"}
  BY <1>0, <1>2 DEF SettledAs, CallRow
<1>3. CASE ClaimSend(c)
  BY <1>0, <1>3, ZenonT(30) DEF ClaimSend, CallRow
<1>4. CASE Created(c)
  BY <1>4 DEF Created, NewCall
<1> QED
  BY <1>1, <1>2, <1>3, <1>4, CallSteps, ZenonT(30) DEF CallStep

\* A call has one latest approval at most.
LEMMA LatestIsOne ==
  ASSUME NEW c, NEW p \in Latest(c), NEW q \in Latest(c)
  PROVE  p = q
<1>1. p \in GuardApprovals(c) /\ q \in GuardApprovals(c) /\ p <= q /\ q <= p
  BY ZenonT(30) DEF Latest
<1>2. p \in Nat /\ q \in Nat
  BY <1>1 DEF GuardApprovals, ApprovalIds
<1> QED
  BY <1>1, <1>2

\* Nobody asks again about a call that is not queued.
LEMMA ApprovedStays ==
  ASSUME IInv, [Next]_vars, NEW c \in CallIds, calls[c].status # "queued"
  PROVE  /\ GuardApprovals(c)' = GuardApprovals(c)
         /\ \A p \in GuardApprovals(c) : /\ approvals'[p].gen = approvals[p].gen
                                         /\ approvals[p].status = "approved" =>
                                              approvals'[p].status = "approved"
<1>0. TypeInv
  BY ZenonT(30) DEF IInv
<1>1. ~ClaimPark(c)
  BY ZenonT(30) DEF ClaimPark, Claimable
<1>2. ASSUME NEW p \in ApprovalIds
      PROVE  /\ p \in GuardApprovals(c)' <=> p \in GuardApprovals(c)
             /\ p \in GuardApprovals(c) => SameApproval(p) /\ ~AskedAgain(p)
  <2>1. CASE SameApproval(p)
    <3>1. p \in GuardApprovals(c)' <=> p \in GuardApprovals(c)
      BY <2>1, ZenonT(30) DEF SameApproval, GuardApprovals
    <3>2. p \in GuardApprovals(c) => ~AskedAgain(p)
      BY <1>1, ZenonT(30) DEF AskedAgain, GuardApprovals
    <3> QED
      BY <2>1, <3>1, <3>2, ZenonT(30)
  <2>2. CASE approvals[p].status = "none" /\ approvals'[p].why # "guard"
    BY <2>2, ZenonT(30) DEF GuardApprovals
  <2>3. CASE approvals[p].status = "none" /\ \E d \in CallIds : ClaimPark(d) /\ approvals'[p].call = d
    BY <1>1, <2>3, ZenonT(30) DEF GuardApprovals
  <2> QED
    BY <1>0, <2>1, <2>2, <2>3, ApprovalsKeep, ZenonT(30)
<1>3. GuardApprovals(c)' \subseteq ApprovalIds /\ GuardApprovals(c) \subseteq ApprovalIds
  BY ZenonT(30) DEF GuardApprovals
<1>4. GuardApprovals(c)' = GuardApprovals(c)
  BY <1>2, <1>3, ZenonT(30)
<1> QED
  BY <1>2, <1>3, <1>4, ZenonT(30) DEF SameApproval

LEMMA SentStep ==
  ASSUME IInv, SentIsClaimed, SentAsApproved, [Next]_vars
  PROVE  SentIsClaimed' /\ SentAsApproved'
<1>1. SentIsClaimed'
  <2>1. ASSUME NEW c \in CallIds, calls'[c].sent
        PROVE  calls'[c].status \notin {"none", "queued"}
    BY <2>1, SentStays, ZenonT(30)
  <2> QED
    BY <2>1, ZenonT(30) DEF SentIsClaimed
<1>2. ASSUME NEW c \in CallIds, calls'[c].sent
      PROVE  /\ calls'[c].strict => GuardApprovals(c)' # {}
             /\ \A p \in Latest(c)' :
                  approvals'[p].status = "approved" /\ approvals'[p].gen = calls'[c].gen
  <2>1. CASE /\ calls[c].sent
             /\ calls'[c].strict = calls[c].strict
             /\ calls'[c].gen = calls[c].gen
    <3>1. /\ calls[c].strict => GuardApprovals(c) # {}
          /\ \A p \in Latest(c) : approvals[p].status = "approved" /\ approvals[p].gen = calls[c].gen
      BY <2>1, ZenonT(30) DEF SentAsApproved
    <3>2. /\ GuardApprovals(c)' = GuardApprovals(c)
          /\ \A p \in GuardApprovals(c) : /\ approvals'[p].gen = approvals[p].gen
                                          /\ approvals[p].status = "approved" =>
                                               approvals'[p].status = "approved"
      <4>1. calls[c].status # "queued"
        BY <2>1, ZenonT(30) DEF SentIsClaimed
      <4> QED
        BY <4>1, ApprovedStays, ZenonT(30)
    <3>3. Latest(c)' = Latest(c) /\ Latest(c) \subseteq GuardApprovals(c)
      BY <3>2, ZenonT(30) DEF Latest
    <3> QED
      BY <2>1, <3>1, <3>2, <3>3, ZenonT(30)
  <2>2. CASE ClaimSend(c)
    <3>1. approvals' = approvals /\ (NeedsApproval(c) => Cleared(c))
      BY <2>2, ZenonT(30) DEF ClaimSend
    <3>2. GuardApprovals(c)' = GuardApprovals(c) /\ Latest(c)' = Latest(c)
      BY <3>1, ZenonT(30) DEF Latest, GuardApprovals
    <3>3. calls'[c].strict = Strict(c) /\ calls'[c].gen = gen[AgentOf(c)]
      <4> HIDE DEF Strict, AgentOf
      <4> QED
        BY <2>2, ZenonT(30) DEF ClaimSend, IInv, TypeInv, CallsTyped, CallRow
    <3>4. Cleared(c) => \E p \in Latest(c) : /\ approvals[p].status = "approved"
                                             /\ approvals[p].gen = gen[AgentOf(c)]
      BY ZenonT(30) DEF Cleared
    <3>5. Latest(c) \subseteq GuardApprovals(c)
      BY ZenonT(30) DEF Latest
    <3>6. calls'[c].strict => GuardApprovals(c)' # {}
      BY <3>1, <3>2, <3>3, <3>4, <3>5, ZenonT(30) DEF NeedsApproval
    <3>7. ASSUME NEW p \in Latest(c)
          PROVE  approvals[p].status = "approved" /\ approvals[p].gen = gen[AgentOf(c)]
      <4>1. PICK q \in Latest(c) : approvals[q].status = "approved" /\ approvals[q].gen = gen[AgentOf(c)]
        BY <3>1, <3>4, <3>5, ZenonT(30) DEF NeedsApproval
      <4>2. p = q
        BY LatestIsOne, ZenonT(30)
      <4> QED
        BY <4>1, <4>2, ZenonT(30)
    <3> QED
      BY <3>1, <3>2, <3>3, <3>6, <3>7, ZenonT(30)
  <2> QED
    BY <1>2, <2>1, <2>2, SentStays, ZenonT(30)
<1>3. SentAsApproved'
  BY <1>2, ZenonT(30) DEF SentAsApproved
<1> QED
  BY <1>1, <1>3, ZenonT(30)

LEMMA SentInit == Init => SentIsClaimed /\ SentAsApproved
  BY SMTT(30) DEF Init, SentIsClaimed, SentAsApproved, Unused, NewCall

\* A call leaves only with the approval it needs, given for the generation of rules and
\* policy it is claimed under, and that approval is not withdrawn while the call is out
\* (guard_queued_call).
THEOREM CallsLeaveApproved == Spec => []SentAsApproved
<1> DEFINE Inv == IInv /\ SentIsClaimed /\ SentAsApproved
<1>1. Init => Inv
  BY SafeInit, SentInit
<1>2. IInv /\ [Next]_vars => IInv'
  BY TypeStep, SafeStep, GuardStep, ZenonT(30) DEF IInv
<1>3. Inv /\ [Next]_vars => Inv'
  BY <1>2, SentStep, ZenonT(30)
<1> QED
  BY <1>1, <1>3, PTL DEF Spec

----------------------------------------------------------------------------
(* The order of a task's calls *)

\* Ids are given out in order.
IdsInOrder ==
  \A c, d \in CallIds : c < d /\ calls[d].status # "none" => calls[c].status # "none"

LastOfTask(c) ==
  \A d \in CallIds : c < d /\ calls[d].status # "none" => calls[d].task # calls[c].task

\* A call a task waits for is the last one it made.
LiveIsLast == \A c \in CallIds : calls[c].status \in Live => LastOfTask(c)

Ordered == IdsInOrder /\ LiveIsLast

LEMMA NewIsCreated ==
  ASSUME IInv, [Next]_vars, NEW c \in CallIds, calls[c].status = "none", calls'[c].status # "none"
  PROVE  Created(c)
<1>1. ~SettledAs(c, "harvested") /\ ~SettledAs(c, "lost")
  BY DEF SettledAs, Live
<1>2. ~ClaimSend(c)
  BY ZenonT(30) DEF ClaimSend, Claimable
<1>3. calls'[c] # calls[c]
  OBVIOUS
<1> QED
  BY <1>1, <1>2, <1>3, CallSteps, ZenonT(30) DEF CallStep

LEMMA CreatedIsNext ==
  ASSUME NEW c \in CallIds, Created(c)
  PROVE  /\ calls[c].status = "none" /\ calls'[c].status = "queued"
         /\ \A d \in CallIds : d < c => calls[d].status # "none"
<1>1. c \in Nat /\ calls[c].status = "none" /\ \A d \in 1..(c - 1) : calls[d].status # "none"
  BY DEF Created, NextId, CallIds
<1>2. \A d \in CallIds : d < c => d \in 1..(c - 1)
  BY <1>1 DEF CallIds
<1>3. calls'[c].status = "queued"
  <2>1. PICK t \in TaskIds, k \in Kinds : calls'[c] = NewCall(t, k)
    BY ZenonT(30) DEF Created
  <2> QED
    BY <2>1 DEF NewCall
<1> QED
  BY <1>1, <1>2, <1>3, ZenonT(30)

\* A call stays the last of its task unless the task may make another.
LEMMA LastStays ==
  ASSUME IInv, [Next]_vars, NEW c \in CallIds, calls[c].status # "none", LastOfTask(c)
  PROVE  LastOfTask(c)' \/ \E d \in CallIds : Created(d) /\ MayCall(calls[c].task)
<1>0. TypeInv
  BY ZenonT(30) DEF IInv
<1>1. calls'[c].task = calls[c].task
  BY <1>0, CallKeepsTask, ZenonT(30)
<1>2. SUFFICES ASSUME NEW d \in CallIds, c < d, calls'[d].status # "none",
                      calls'[d].task = calls'[c].task
               PROVE  Created(d) /\ MayCall(calls[c].task)
  BY ZenonT(30) DEF LastOfTask
<1>3. calls[d].status = "none"
  <2> SUFFICES ASSUME calls[d].status # "none"
               PROVE  FALSE
    OBVIOUS
  <2>1. calls'[d].task = calls[d].task
    BY <1>0, CallKeepsTask, ZenonT(30)
  <2> QED
    BY <1>1, <1>2, <2>1, ZenonT(30) DEF LastOfTask
<1>4. Created(d)
  BY <1>2, <1>3, NewIsCreated, ZenonT(30)
<1>5. PICK t \in TaskIds, k \in Kinds : calls'[d] = NewCall(t, k) /\ MayCall(t)
  BY <1>4, ZenonT(30) DEF Created
<1>6. t = calls[c].task
  BY <1>1, <1>2, <1>5 DEF NewCall
<1> QED
  BY <1>4, <1>5, <1>6, ZenonT(30)

LEMMA OrderStep ==
  ASSUME IInv, Ordered, [Next]_vars
  PROVE  Ordered'
<1>0. TypeInv
  BY ZenonT(30) DEF IInv
<1>1. ASSUME NEW c \in CallIds, NEW d \in CallIds, c < d, calls'[d].status # "none"
      PROVE  calls'[c].status # "none"
  <2>1. calls[c].status # "none"
    <3>1. CASE calls[d].status = "none"
      BY <1>1, <3>1, NewIsCreated, CreatedIsNext, ZenonT(30)
    <3>2. CASE calls[d].status # "none"
      BY <1>1, <3>2, ZenonT(30) DEF Ordered, IdsInOrder
    <3> QED
      BY <3>1, <3>2, ZenonT(30)
  <2> QED
    BY <1>0, <2>1, CallKeepsTask, ZenonT(30)
<1>2. ASSUME NEW c \in CallIds, calls'[c].status \in Live
      PROVE  LastOfTask(c)'
  <2>1. CASE calls[c].status \in Live
    <3>1. LastOfTask(c) /\ calls[c].status # "none"
      BY <2>1, ZenonT(30) DEF Ordered, LiveIsLast, Live
    <3>2. ~MayCall(calls[c].task)
      BY <1>2, <2>1, ZenonT(30) DEF MayCall
    <3> QED
      BY <3>1, <3>2, LastStays, ZenonT(30)
  <2>2. CASE Created(c)
    <3> SUFFICES ASSUME NEW d \in CallIds, c < d, calls'[d].status # "none"
                 PROVE  FALSE
      BY ZenonT(30) DEF LastOfTask
    <3>1. calls[c].status = "none"
      BY <2>2, CreatedIsNext, ZenonT(30)
    <3>2. calls[d].status = "none"
      BY <3>1, ZenonT(30) DEF Ordered, IdsInOrder
    <3>3. calls[c].status # "none"
      BY <3>2, NewIsCreated, CreatedIsNext, ZenonT(30)
    <3> QED
      BY <3>1, <3>3, ZenonT(30)
  <2>3. CASE calls[c].status \notin Live /\ ~Created(c)
    <3>1. calls'[c] # calls[c]
      BY <1>2, <2>3, ZenonT(30)
    <3>2. ~SettledAs(c, "harvested") /\ ~SettledAs(c, "lost")
      BY <2>3, ZenonT(30) DEF SettledAs
    <3>3. ~ClaimSend(c)
      BY <2>3, ZenonT(30) DEF ClaimSend, Claimable, Live
    <3> QED
      BY <2>3, <3>1, <3>2, <3>3, CallSteps, ZenonT(30) DEF CallStep
  <2> QED
    BY <2>1, <2>2, <2>3, ZenonT(30)
<1>3. IdsInOrder'
  BY <1>1, ZenonT(30) DEF IdsInOrder
<1>4. LiveIsLast'
  BY <1>2, ZenonT(30) DEF LiveIsLast
<1> QED
  BY <1>3, <1>4, ZenonT(30) DEF Ordered

----------------------------------------------------------------------------
(* A mutation whose result is unknown *)

Unknown(c) == calls[c].kind = "mutate" /\ calls[c].sent /\ calls[c].status = "lost"

\* p asks whether the mutation c may be taken for done.
About(p, c) == approvals[p].why = "ambiguous" /\ approvals[p].call = c

\* The task of c has ended or waits for a human, and made no call after c.
Stopped(c) ==
  /\ LastOfTask(c)
  /\ \/ tasks[calls[c].task].status \in Terminal
     \/ \E p \in ApprovalIds : About(p, c) /\ Pending(p) /\ approvals[p].task = calls[c].task

\* A human has approved what became of c, or c is the last thing its task did.
UnknownStops ==
  \A c \in CallIds : Unknown(c) =>
    Stopped(c) \/ \E p \in ApprovalIds : About(p, c) /\ approvals[p].status = "approved"

\* A human's question about a mutation stays until it is approved or the task ends.
LEMMA QuestionStays ==
  ASSUME IInv, [Next]_vars, NEW p \in ApprovalIds, Pending(p), approvals[p].why = "ambiguous"
  PROVE  \/ approvals'[p].status \in {"pending", "approved"}
         \/ tasks'[approvals[p].task].status \in Terminal
<1> DEFINE t == approvals[p].task
           Goal == \/ approvals'[p].status \in {"pending", "approved"}
                   \/ tasks'[t].status \in Terminal
<1>0. /\ TypeInv /\ approvals \in [ApprovalIds -> ApprovalRow] /\ tasks \in [TaskIds -> TaskRow]
      /\ t \in TaskIds /\ tasks[t].status \in {"waiting_human"} \cup Terminal
      /\ approvals[p].status = "pending"
  BY ZenonT(30) DEF IInv, Safe, AskedTasksWait, TypeInv, ApprovalsTyped, TasksTyped, Pending
<1>1. CASE tasks[t].status \in Terminal
  BY <1>0, <1>1, EndedTasks, ZenonT(30)
<1>2. CASE approvals'[p] = approvals[p]
  BY <1>0, <1>2, ZenonT(30)
<1>3. CASE tasks[t].status = "waiting_human" /\ approvals'[p] # approvals[p]
  <2>1. ASSUME NEW n \in NextId(approvals, MaxApprovals), NEW q, approvals' = [approvals EXCEPT ![n] = q]
        PROVE  FALSE
    BY <1>0, <1>3, <2>1, ZenonT(30) DEF NextId
  <2>2. ASSUME NEW s \in SessionIds, CancelSession(s)
        PROVE  Goal
    <3>1. tasks[t].session = s
      BY <1>0, <1>3, <2>2, ZenonT(30) DEF CancelSession
    <3>2. tasks'[t] = StepTo(tasks[t], "cancelled")
      BY <1>0, <1>3, <2>2, <3>1, ZenonT(30) DEF CancelSession, StepTo, Open, Holding
    <3>3. "cancelled" \in Statuses /\ "cancelled" \in Terminal
      BY ZenonT(30) DEF Statuses, Terminal
    <3> QED
      BY <1>0, <3>2, <3>3, StatusMoves
  <2>3. ASSUME NEW q \in ApprovalIds, NEW accept \in BOOLEAN, DecideApproval(q, accept)
        PROVE  Goal
    <3>1. q = p
      BY <1>0, <1>3, <2>3, ZenonT(30) DEF DecideApproval
    <3>2. CASE accept
      BY <1>0, <2>3, <3>1, <3>2, ZenonT(30) DEF DecideApproval, ApprovalRow
    <3>3. CASE ~accept
      <4>1. tasks' = [tasks EXCEPT ![t] = StepTo(tasks[t], "failed")]
        BY <1>3, <2>3, <3>1, <3>3, ZenonT(30) DEF DecideApproval, Settle, StepTo
      <4>2. "failed" \in Statuses /\ "failed" \in Terminal
        BY ZenonT(30) DEF Statuses, Terminal
      <4>3. tasks'[t] = StepTo(tasks[t], "failed")
        BY <1>0, <4>1, ZenonT(30)
      <4> QED
        BY <1>0, <4>2, <4>3, StatusMoves
    <3> QED
      BY <3>2, <3>3, ZenonT(30)
  <2>4. ASSUME NEW q \in ApprovalIds, ExpireApproval(q)
        PROVE  Goal
    <3>1. q = p
      BY <1>0, <1>3, <2>4, ZenonT(30) DEF ExpireApproval
    <3>2. tasks' = [tasks EXCEPT ![t] = Fail(Step(tasks[t]))]
      BY <1>3, <2>4, <3>1, ZenonT(30) DEF ExpireApproval, Settle
    <3>3. tasks'[t].status = "failed"
      BY <1>0, <3>2, RowMoves, ZenonT(30) DEF SameOwner
    <3> QED
      BY <3>3, ZenonT(30) DEF Terminal
  <2>5. ASSUME NEW c \in CallIds, ClaimPark(c)
        PROVE  FALSE
    <3>1. p \notin Latest(c)
      BY ZenonT(30) DEF Latest, GuardApprovals
    <3>2. PICK n \in NextId(approvals, MaxApprovals) :
            approvals' = [q \in ApprovalIds |->
              IF q = n THEN NewApproval(calls[c].task, c, "guard", gen[AgentOf(c)])
              ELSE IF q \in Latest(c) THEN [approvals[q] EXCEPT !.status = "rejected"]
              ELSE approvals[q]]
      BY <2>5, ZenonT(30) DEF ClaimPark
    <3>3. p # n
      BY <1>0, ZenonT(30) DEF NextId
    <3> QED
      BY <1>3, <3>1, <3>2, <3>3, ZenonT(30)
  <2>6. ASSUME NEW q \in ApprovalIds, ApprovalClock(q)
        PROVE  Goal
    BY <1>0, <2>6, ZenonT(30) DEF ApprovalClock, ApprovalRow
  <2>7. ASSUME NEW c \in CallIds, AwaitHuman(c) \/ Pause(c)
        PROVE  FALSE
    BY <2>1, <2>7, ZenonT(30) DEF AwaitHuman, Pause
  <2>8. approvals' # approvals
    BY <1>3
  <2>9. CASE Operator
    BY <2>2, <2>3, <2>8, <2>9, ZenonT(30) DEF Operator, CreateSession, SetAgentActive, SetPermission,
         ContinueSession, SetRule, SetCap, SetProvider
  <2>10. CASE Watchdog
    BY <2>4, <2>7, <2>8, <2>10, ZenonT(30) DEF Watchdog, Reclaim, TurnTimeout, WakeParent
  <2>11. ASSUME NEW c \in CallIds, Complete(c)
         PROVE  FALSE
    BY <2>7, <2>8, <2>11, ZenonT(30)
       DEF Complete, CompleteStale, CompleteSkipped, ToolResult, CallError, AmbiguousResult, Submit,
           FinalAnswer, Note, ApplyChange, ReplyRejected, ReplyRaises, ReplyDiscarded, AwaitChildren,
           DelegateRefused, Delegate, ToolCall
  <2>12. ASSUME NEW c \in CallIds, Claim(c)
         PROVE  FALSE
    BY <2>5, <2>8, <2>12, ZenonT(30) DEF Claim, ClaimSend, ClaimRefuse
  <2>13. ASSUME NEW u \in TaskIds, Dispatch(u)
         PROVE  FALSE
    BY <2>8, <2>13, ZenonT(30) DEF Dispatch, DispatchDone, DispatchLlm, DispatchNoProvider
  <2> QED
    BY <2>6, <2>8, <2>9, <2>10, <2>11, <2>12, <2>13, ZenonT(30)
       DEF Next, DropResult, WorkerCrash, vars
<1> QED
  BY <1>0, <1>1, <1>2, <1>3, ZenonT(30)

\* A mutation in flight is lost by pausing its task or with the task.
LEMMA LostWithTask ==
  ASSUME IInv, [Next]_vars, NEW c \in CallIds, calls[c].status = "in_flight", calls[c].kind = "mutate",
         calls'[c].status = "lost"
  PROVE  /\ Pause(c) \/ tasks'[calls[c].task].status \in Terminal
         /\ \A d \in CallIds : ~Created(d)
<1> DEFINE t == calls[c].task
<1>0. /\ TypeInv /\ calls \in [CallIds -> CallRow] /\ tasks \in [TaskIds -> TaskRow]
      /\ t \in TaskIds /\ tasks[t].status = "running"
  BY CallOfTask, ZenonT(30) DEF IInv, Safe, InFlightIsRunning, TypeInv, CallsTyped, TasksTyped
<1>1. ASSUME NEW d \in CallIds, NEW q, calls' = [calls EXCEPT ![d] = q], d # c
      PROVE  FALSE
  BY <1>0, <1>1, ZenonT(30)
<1>2. ASSUME NEW d \in CallIds, NEW st \in {"harvested", "lost"}, calls' = [calls EXCEPT ![d].status = st]
      PROVE  d = c /\ st = "lost" /\ \A e \in CallIds : ~Created(e)
  <2>1. d = c
    BY <1>1, <1>2, ZenonT(30)
  <2>2. st = "lost"
    BY <1>0, <1>2, <2>1, ZenonT(30) DEF CallRow
  <2>3. \A e \in CallIds \ {c} : calls'[e] = calls[e]
    BY <1>0, <1>2, <2>1, ZenonT(30)
  <2>4. ASSUME NEW e \in CallIds, Created(e)
        PROVE  FALSE
    <3>1. calls[e].status = "none" /\ calls'[e].status = "queued"
      BY <2>4, CreatedIsNext, ZenonT(30)
    <3> QED
      BY <2>3, <3>1, ZenonT(30)
  <2> QED
    BY <2>1, <2>2, <2>4, ZenonT(30)
<1>3. ASSUME NEW owners, calls' = Withdrawn(owners)
      PROVE  t \in owners /\ \A e \in CallIds : ~Created(e)
  <2>1. t \in owners
    BY <1>3, ZenonT(30) DEF Withdrawn
  <2>2. ASSUME NEW e \in CallIds, Created(e)
        PROVE  FALSE
    <3>1. calls[e].status = "none" /\ calls'[e].status = "queued"
      BY <2>2, CreatedIsNext, ZenonT(30)
    <3> QED
      BY <1>3, <3>1, ZenonT(30) DEF Withdrawn, Live
  <2> QED
    BY <2>1, <2>2, ZenonT(30)
<1>4. calls' # calls
  OBVIOUS
<1>5. CASE Operator
  <2>1. PICK s \in SessionIds : CancelSession(s)
    BY <1>4, <1>5, ZenonT(30) DEF Operator, CreateSession, SetAgentActive, SetPermission,
         ContinueSession, DecideApproval, SetRule, SetCap, SetProvider
  <2>2. calls' = Withdrawn({u \in TaskIds : tasks[u].session = s})
    BY <2>1, ZenonT(30) DEF CancelSession
  <2>3. tasks[t].session = s /\ \A e \in CallIds : ~Created(e)
    BY <1>3, <2>2
  <2>4. tasks'[t] = StepTo(tasks[t], "cancelled")
    BY <1>0, <2>1, <2>3, ZenonT(30) DEF CancelSession, StepTo, Open, Holding
  <2>5. "cancelled" \in Statuses /\ "cancelled" \in Terminal
    BY ZenonT(30) DEF Statuses, Terminal
  <2> QED
    BY <1>0, <2>3, <2>4, <2>5, StatusMoves
<1>6. CASE Watchdog
  <2>1. ASSUME NEW d \in CallIds, Reclaim(d)
        PROVE  Pause(c) /\ \A e \in CallIds : ~Created(e)
    <3>1. calls' = [calls EXCEPT ![d].status = "lost"]
      BY <2>1, ZenonT(30) DEF Reclaim, Pause
    <3>2. d = c /\ \A e \in CallIds : ~Created(e)
      BY <1>2, <3>1, ZenonT(30)
    <3> QED
      BY <1>0, <2>1, <3>2, ZenonT(30) DEF Reclaim
  <2>2. ASSUME NEW u \in TaskIds, TurnTimeout(u)
        PROVE  tasks'[t].status \in Terminal /\ \A e \in CallIds : ~Created(e)
    <3>1. u = t /\ \A e \in CallIds : ~Created(e)
      BY <1>3, <2>2 DEF TurnTimeout
    <3>2. tasks' = [tasks EXCEPT ![t] = Fail(Reject(tasks[t]))]
      BY <2>2, <3>1, ZenonT(30) DEF TurnTimeout, Settle
    <3>3. tasks'[t].status = "failed"
      BY <1>0, <3>2, RowMoves, ZenonT(30) DEF SameOwner
    <3> QED
      BY <3>1, <3>3 DEF Terminal
  <2> QED
    BY <1>4, <1>6, <2>1, <2>2, ZenonT(30) DEF Watchdog, ExpireApproval, WakeParent
<1>7. ASSUME NEW d \in CallIds, Complete(d)
      PROVE  Pause(c) /\ \A e \in CallIds : ~Created(e)
  <2>1. ASSUME NEW k, ToolCall(d, k)
        PROVE  FALSE
    <3>1. PICK n \in NextId(calls, MaxCalls) :
            calls' = [calls EXCEPT ![d].status = "harvested", ![n] = NewCall(calls[d].task, k)]
      BY <2>1, ZenonT(30) DEF ToolCall
    <3>2. n # c
      BY ZenonT(30) DEF NextId
    <3> QED
      BY <1>0, <3>1, <3>2, ZenonT(30) DEF CallRow
  <2>2. calls' # [calls EXCEPT ![d].status = "harvested"]
    BY <1>2, ZenonT(30)
  <2>3. AmbiguousResult(d)
    BY <1>4, <1>7, <2>1, <2>2, ZenonT(30)
       DEF Complete, CompleteStale, CompleteSkipped, ToolResult, CallError, Submit,
           FinalAnswer, Note, ApplyChange, ReplyRejected, ReplyRaises, ReplyDiscarded, AwaitHuman,
           AwaitChildren, DelegateRefused, Delegate, Harvested
  <2>4. calls' = [calls EXCEPT ![d].status = "lost"]
    BY <2>3, ZenonT(30) DEF AmbiguousResult, Pause
  <2>5. d = c /\ \A e \in CallIds : ~Created(e)
    BY <1>2, <2>4, ZenonT(30)
  <2> QED
    BY <2>3, <2>5, ZenonT(30) DEF AmbiguousResult
<1>8. ASSUME NEW d \in CallIds, Claim(d)
      PROVE  FALSE
  <2>1. d # c
    BY <1>8, ZenonT(30) DEF Claim, ClaimSend, ClaimPark, ClaimRefuse, Claimable
  <2>2. calls' = calls \/ \E q : calls' = [calls EXCEPT ![d] = q]
    BY <1>8 DEF Claim, ClaimSend, ClaimPark, ClaimRefuse
  <2> QED
    BY <1>1, <1>4, <2>1, <2>2, ZenonT(30)
<1>9. ASSUME NEW u \in TaskIds, Dispatch(u)
      PROVE  FALSE
  <2>1. PICK n \in NextId(calls, MaxCalls) : calls' = [calls EXCEPT ![n] = NewCall(u, "llm")]
    BY <1>4, <1>9, ZenonT(30) DEF Dispatch, DispatchDone, DispatchLlm, DispatchNoProvider
  <2>2. n \in CallIds /\ n # c
    BY ZenonT(30) DEF NextId, CallIds
  <2> QED
    BY <1>1, <2>1, <2>2
<1> QED
  BY <1>4, <1>5, <1>6, <1>7, <1>8, <1>9, ZenonT(30)
     DEF Next, DropResult, WorkerCrash, ApprovalClock, vars

LEMMA UnknownStep ==
  ASSUME IInv, SentIsClaimed, Ordered, UnknownStops, [Next]_vars
  PROVE  UnknownStops'
<1>0. TypeInv /\ calls \in [CallIds -> CallRow]
  BY ZenonT(30) DEF IInv, TypeInv, CallsTyped
<1> SUFFICES ASSUME NEW c \in CallIds, Unknown(c)'
             PROVE  \/ Stopped(c)'
                    \/ \E p \in ApprovalIds : About(p, c)' /\ approvals'[p].status = "approved"
  BY ZenonT(30) DEF UnknownStops
<1> DEFINE t == calls[c].task
<1>1. CASE Unknown(c)
  <2>1. calls'[c] = calls[c] /\ calls[c].status # "none" /\ t \in TaskIds
    BY <1>0, <1>1, EndedCalls, CallOfTask, ZenonT(30) DEF Unknown
  <2>2. ASSUME NEW p \in ApprovalIds, approvals[p].status # "none", About(p, c)
        PROVE  SameApproval(p) /\ About(p, c)' /\ ~AskedAgain(p)
    <3>1. SameApproval(p)
      BY <1>0, <2>2, ApprovalsKeep, ZenonT(30)
    <3>2. About(p, c)'
      BY <2>2, <3>1, ZenonT(30) DEF About, SameApproval
    <3>3. ~AskedAgain(p)
      BY <2>2, ZenonT(30) DEF AskedAgain, About
    <3> QED
      BY <3>1, <3>2, <3>3, ZenonT(30)
  <2>3. ASSUME NEW p \in ApprovalIds, About(p, c), approvals[p].status = "approved"
        PROVE  About(p, c)' /\ approvals'[p].status = "approved"
    <3>1. approvals[p].status # "none"
      BY <2>3, ZenonT(30)
    <3> QED
      BY <2>2, <2>3, <3>1, ZenonT(30) DEF SameApproval
  <2>4. ASSUME Stopped(c)
        PROVE  \/ Stopped(c)'
               \/ \E p \in ApprovalIds : About(p, c)' /\ approvals'[p].status = "approved"
    <3>1. tasks[t].status \in {"waiting_human"} \cup Terminal
      BY <2>4, ZenonT(30) DEF Stopped, IInv, Safe, AskedTasksWait
    <3>2. LastOfTask(c)'
      <4>1. ~MayCall(t)
        BY <3>1, ZenonT(30) DEF MayCall, Terminal
      <4> QED
        BY <2>1, <2>4, <4>1, LastStays, ZenonT(30) DEF Stopped
    <3>3. CASE tasks[t].status \in Terminal
      <4>1. tasks'[t].status \in Terminal
        BY <1>0, <2>1, <3>3, EndedTasks, ZenonT(30)
      <4> QED
        BY <2>1, <3>2, <4>1, ZenonT(30) DEF Stopped
    <3>4. ASSUME NEW p \in ApprovalIds, About(p, c), Pending(p), approvals[p].task = t
          PROVE  \/ Stopped(c)'
                 \/ \E q \in ApprovalIds : About(q, c)' /\ approvals'[q].status = "approved"
      <4>1. /\ approvals[p].status # "none" /\ approvals[p].why = "ambiguous"
        BY <3>4, ZenonT(30) DEF Pending, About
      <4>2. SameApproval(p) /\ About(p, c)'
        BY <2>2, <3>4, <4>1, ZenonT(30)
      <4>3. approvals'[p].status \in {"pending", "approved"} \/ tasks'[t].status \in Terminal
        BY <3>4, <4>1, QuestionStays, ZenonT(30)
      <4>4. approvals'[p].task = calls'[c].task
        BY <2>1, <3>4, <4>2, ZenonT(30) DEF SameApproval
      <4>5. CASE approvals'[p].status = "approved"
        BY <4>2, <4>5, ZenonT(30)
      <4>6. CASE approvals'[p].status = "pending"
        BY <3>2, <4>2, <4>4, <4>6, ZenonT(30) DEF Stopped, Pending
      <4>7. CASE tasks'[t].status \in Terminal
        BY <2>1, <3>2, <4>7, ZenonT(30) DEF Stopped
      <4> QED
        BY <4>3, <4>5, <4>6, <4>7, ZenonT(30)
    <3> QED
      BY <2>4, <3>3, <3>4, ZenonT(30) DEF Stopped
  <2> QED
    BY <1>1, <2>3, <2>4, ZenonT(30) DEF UnknownStops
<1>2. CASE ~Unknown(c)
  <2>1. calls[c].sent /\ calls[c].kind = "mutate" /\ calls[c].status \in Live
    <3>1. calls'[c] # calls[c]
      BY <1>2, ZenonT(30) DEF Unknown
    <3>2. ~ClaimSend(c)
      BY <1>0 DEF ClaimSend, Unknown, CallRow
    <3>3. ~Created(c)
      BY CreatedIsNext, ZenonT(30) DEF Unknown
    <3>4. SettledAs(c, "harvested") \/ SettledAs(c, "lost")
      BY <3>1, <3>2, <3>3, CallSteps, ZenonT(30) DEF CallStep
    <3> QED
      BY <1>0, <3>4, ZenonT(30) DEF SettledAs, Unknown, CallRow
  <2>2. calls[c].status = "in_flight"
    BY <2>1, ZenonT(30) DEF SentIsClaimed, Live
  <2>3. /\ Pause(c) \/ tasks'[t].status \in Terminal
        /\ \A d \in CallIds : ~Created(d)
    BY <2>1, <2>2, LostWithTask, ZenonT(30) DEF Unknown
  <2>4. calls'[c].task = t
    BY <1>0, <2>2, CallKeepsTask, ZenonT(30)
  <2>5. LastOfTask(c)'
    <3>1. LastOfTask(c) /\ calls[c].status # "none"
      BY <2>1, <2>2, ZenonT(30) DEF Ordered, LiveIsLast
    <3> QED
      BY <2>3, <3>1, LastStays, ZenonT(30)
  <2>6. CASE Pause(c)
    <3>1. PICK p \in NextId(approvals, MaxApprovals) :
            approvals' = [approvals EXCEPT ![p] = NewApproval(t, c, "ambiguous", 0)]
      BY <2>6, ZenonT(30) DEF Pause
    <3>2. p \in ApprovalIds
      BY DEF NextId, ApprovalIds
    <3>3. approvals'[p] = NewApproval(t, c, "ambiguous", 0)
      BY <1>0, <3>1, <3>2 DEF TypeInv, ApprovalsTyped
    <3>4. /\ approvals'[p].why = "ambiguous" /\ approvals'[p].call = c
          /\ approvals'[p].status = "pending" /\ approvals'[p].task = t
      BY <3>3 DEF NewApproval
    <3>5. About(p, c)' /\ Pending(p)'
      BY <3>4, ZenonT(30) DEF About, Pending
    <3> QED
      BY <2>4, <2>5, <3>2, <3>4, <3>5, ZenonT(30) DEF Stopped
  <2>7. CASE tasks'[t].status \in Terminal
    BY <2>4, <2>5, <2>7, ZenonT(30) DEF Stopped
  <2> QED
    BY <2>3, <2>6, <2>7, ZenonT(30)
<1> QED
  BY <1>1, <1>2, ZenonT(30)

LEMMA UnknownInit == Init => Ordered /\ UnknownStops
<1> SUFFICES ASSUME Init
             PROVE  Ordered /\ UnknownStops
  OBVIOUS
<1>1. \A c \in CallIds : calls[c].status = "none"
  BY ZenonT(30) DEF Init, Unused, NewCall
<1> QED
  BY <1>1, ZenonT(30) DEF Ordered, IdsInOrder, LiveIsLast, LastOfTask, Live, UnknownStops, Unknown

\* A mutation that was sent and whose result is unknown is never retried or built upon
\* unless a human has approved it: its task makes no later call before
\* (pause_ambiguous_outbound, from fn_complete_outbound or fn_watchdog).
THEOREM UnknownNeedsHuman == Spec => []AmbiguousNeedsHuman
<1> DEFINE Inv == IInv /\ SentIsClaimed /\ SentAsApproved /\ Ordered /\ UnknownStops
<1>1. Init => Inv
  BY SafeInit, SentInit, UnknownInit, ZenonT(30)
<1>2. IInv /\ [Next]_vars => IInv'
  BY TypeStep, SafeStep, GuardStep DEF IInv
<1>3. Inv /\ [Next]_vars => Inv'
  BY <1>2, SentStep, OrderStep, UnknownStep, ZenonT(30)
<1>4. UnknownStops => AmbiguousNeedsHuman
  <2> SUFFICES ASSUME UnknownStops, NEW c \in CallIds, NEW d \in CallIds,
                      Unknown(c), c < d, calls[d].status # "none", calls[d].task = calls[c].task
               PROVE  \E p \in ApprovalIds : About(p, c) /\ approvals[p].status = "approved"
    BY ZenonT(30) DEF AmbiguousNeedsHuman, Unknown, About
  <2>1. ~Stopped(c)
    BY ZenonT(30) DEF Stopped, LastOfTask
  <2> QED
    BY <2>1, ZenonT(30) DEF UnknownStops
<1> QED
  BY <1>1, <1>3, <1>4, PTL DEF Spec

----------------------------------------------------------------------------
(* max_steps bounds the model calls *)

\* The model calls of task t.
ModelCalls(t) ==
  {c \in CallIds : calls[c].status # "none" /\ calls[c].kind = "llm" /\ calls[c].task = t}

\* An open task has paid a step for each of its model calls but the one it waits for.
CallsPaid ==
  \A t \in TaskIds : tasks[t].status \in Open =>
    \/ Cardinality(ModelCalls(t)) <= tasks[t].step
    \/ /\ \E c \in ModelCalls(t) : calls[c].status \in Live
       /\ Cardinality(ModelCalls(t)) <= tasks[t].step + 1

\* A reply that reaches its task costs a step or ends the task, unless fn_submit_result raises.
LEMMA ReplyCosts ==
  ASSUME IInv, "raise" \notin Replies, NEW c \in CallIds, Complete(c), calls[c].kind = "llm",
         calls' # calls
  PROVE  Paid(tasks'[calls[c].task], tasks[calls[c].task])
<1> DEFINE t == calls[c].task
           row == tasks[t]
<1>0. /\ TypeInv /\ tasks \in [TaskIds -> TaskRow] /\ Holds(c)
  BY ZenonT(30)
     DEF IInv, TypeInv, TasksTyped, Complete, CompleteStale, CompleteSkipped, ToolResult, CallError,
         AmbiguousResult, Submit, FinalAnswer, Note, ApplyChange, ReplyRejected, ReplyRaises,
         ReplyDiscarded, AwaitHuman, AwaitChildren, ToolCall, DelegateRefused, Delegate, Says, Answers,
         Delivers
<1>1. t \in TaskIds /\ row \in TaskRow /\ row.status = "running"
  BY <1>0, CallOfTask, ZenonT(30) DEF IInv, Safe, InFlightIsRunning, Holds
<1>c. /\ Paid(Step(row), row) /\ Paid(Reject(row), row) /\ Paid(Discard(row), row)
      /\ Paid(Answered(row), row) /\ Paid(SubmitError(row), row)
      /\ \A st : Paid(StepTo(row, st), row)
  BY <1>1, RowCosts, ZenonT(30)
<1>2. ASSUME NEW r, tasks' = [tasks EXCEPT ![t] = r], Paid(r, row)
      PROVE  Paid(tasks'[t], row)
  BY <1>0, <1>1, <1>2, ZenonT(30)
<1> SUFFICES Paid(tasks'[t], row)
  OBVIOUS
<1> HIDE DEF t
<1>3. CASE CompleteStale(c) \/ CompleteSkipped(c) \/ ToolResult(c) \/ AmbiguousResult(c) \/ ReplyRaises(c)
  BY <1>1, <1>3, ZenonT(30) DEF CompleteStale, CompleteSkipped, ToolResult, AmbiguousResult, ReplyRaises, Says, t
<1>4. CASE CallError(c)
  <2>1. tasks' = [tasks EXCEPT ![t] = SubmitError(row)]
    BY <1>4, ZenonT(30) DEF CallError, Settle, t
  <2> QED
    BY <1>2, <1>c, <2>1, ZenonT(30)
<1>5. CASE FinalAnswer(c)
  <2>1. tasks' = [tasks EXCEPT ![t] = Answered(row)]
    BY <1>5, ZenonT(30) DEF FinalAnswer, Answered, t
  <2> QED
    BY <1>2, <1>c, <2>1, ZenonT(30)
<1>6. CASE Note(c) \/ (\E a \in Agents : ApplyChange(c, a)) \/ \E k \in ToolKinds : ToolCall(c, k)
  <2>1. tasks' = [tasks EXCEPT ![t] = Step(row)]
    BY <1>6, ZenonT(30) DEF Note, ApplyChange, ToolCall, t
  <2> QED
    BY <1>2, <1>c, <2>1, ZenonT(30)
<1>7. CASE ReplyRejected(c) \/ \E b \in Agents : DelegateRefused(c, b)
  <2>1. tasks' = [tasks EXCEPT ![t] = Reject(row)]
    BY <1>7, ZenonT(30) DEF ReplyRejected, DelegateRefused, t
  <2> QED
    BY <1>2, <1>c, <2>1, ZenonT(30)
<1>8. CASE ReplyDiscarded(c)
  <2>1. tasks' = [tasks EXCEPT ![t] = Discard(row)]
    BY <1>8, ZenonT(30) DEF ReplyDiscarded, Settle, t
  <2> QED
    BY <1>2, <1>c, <2>1, ZenonT(30)
<1>9. CASE AwaitHuman(c)
  <2>1. tasks' = [tasks EXCEPT ![t] = StepTo(row, "waiting_human")]
    BY <1>9, ZenonT(30) DEF AwaitHuman, StepTo, t
  <2> QED
    BY <1>2, <1>c, <2>1, ZenonT(30)
<1>10. CASE AwaitChildren(c)
  <2>1. \/ tasks' = [tasks EXCEPT ![t] = Reject(row)]
        \/ tasks' = [tasks EXCEPT ![t] = StepTo(row, "waiting_children")]
    BY <1>10, ZenonT(30) DEF AwaitChildren, StepTo, t
  <2> QED
    BY <1>2, <1>c, <2>1, ZenonT(30)
<1>11. ASSUME NEW b \in Agents, NEW w \in BOOLEAN, Delegate(c, b, w)
       PROVE  Paid(tasks'[t], row)
  <2> DEFINE r == StepTo(row, IF w THEN "running" ELSE "completed")
  <2>1. PICK n \in NextId(tasks, MaxTasks) :
          tasks' = [tasks EXCEPT ![t] = r, ![n] = NewTask(b, row.session, t, row.depth + 1)]
    BY <1>11, ZenonT(30) DEF Delegate, StepTo, t
  <2>2. n # t
    BY <1>1, ZenonT(30) DEF NextId
  <2> HIDE DEF r
  <2>3. tasks'[t] = r
    BY <1>0, <1>1, <2>1, <2>2, ZenonT(30)
  <2> QED
    BY <1>c, <2>3, ZenonT(30) DEF r
<1> QED
  BY <1>3, <1>4, <1>5, <1>6, <1>7, <1>8, <1>9, <1>10, <1>11, ZenonT(30) DEF Complete, Submit, t

\* So does a model call that ends in any way: it is refused, reclaimed or withdrawn.
LEMMA EndingCosts ==
  ASSUME IInv, "raise" \notin Replies, [Next]_vars, NEW c \in CallIds,
         calls[c].kind = "llm", calls[c].status \in Live, calls'[c].status \notin Live
  PROVE  Paid(tasks'[calls[c].task], tasks[calls[c].task])
<1> DEFINE t == calls[c].task
           row == tasks[t]
<1>0. /\ TypeInv /\ calls \in [CallIds -> CallRow] /\ tasks \in [TaskIds -> TaskRow]
      /\ calls[c].status # "none"
  BY ZenonT(30) DEF IInv, TypeInv, CallsTyped, TasksTyped, Live
<1>1. t \in TaskIds /\ row \in TaskRow /\ row.status \in {"running", "waiting_human"} \cup Terminal
  BY <1>0, CallOfTask, ZenonT(30) DEF IInv, Safe, OneLiveCall, TaskRow, Open, Holding
<1>2. calls[c].status = "in_flight" => row.status = "running"
  BY ZenonT(30) DEF IInv, Safe, InFlightIsRunning
<1>3. calls'[c] # calls[c]
  OBVIOUS
<1>4. ASSUME NEW d \in CallIds, NEW q, calls' = [calls EXCEPT ![d] = q]
      PROVE  d = c
  BY <1>0, <1>3, <1>4, ZenonT(30)
<1> SUFFICES Paid(tasks'[t], row)
  OBVIOUS
<1>5. ASSUME NEW r, tasks' = [tasks EXCEPT ![t] = r], Paid(r, row)
      PROVE  Paid(tasks'[t], row)
  BY <1>0, <1>1, <1>5, ZenonT(30)
<1>6. ASSUME tasks'[t].status \in Terminal
      PROVE  Paid(tasks'[t], row)
  BY <1>6, ZenonT(30) DEF Paid
<1>7. CASE row.status \in Terminal
  BY <1>0, <1>1, <1>6, <1>7, EndedTasks, ZenonT(30)
<1>8. CASE row.status \in {"running", "waiting_human"}
  <2>1. ASSUME NEW s \in SessionIds, CancelSession(s)
        PROVE  Paid(tasks'[t], row)
    <3>1. tasks[t].session = s
      BY <1>3, <2>1, ZenonT(30) DEF CancelSession, Withdrawn
    <3>2. tasks'[t] = StepTo(row, "cancelled")
      BY <1>1, <1>8, <2>1, <3>1, ZenonT(30) DEF CancelSession, StepTo, Open, Holding
    <3> QED
      BY <1>1, <3>2, RowCosts, ZenonT(30)
  <2>2. ASSUME NEW u \in TaskIds, TurnTimeout(u)
        PROVE  Paid(tasks'[t], row)
    <3>1. u = t
      BY <1>3, <2>2, ZenonT(30) DEF TurnTimeout, Withdrawn
    <3>2. tasks' = [tasks EXCEPT ![t] = Fail(Reject(row))]
      BY <2>2, <3>1, ZenonT(30) DEF TurnTimeout, Settle
    <3>3. tasks'[t].status = "failed"
      BY <1>0, <1>1, <3>2, RowMoves, ZenonT(30) DEF SameOwner
    <3> QED
      BY <1>6, <3>3, ZenonT(30) DEF Terminal
  <2>3. ASSUME NEW d \in CallIds, Reclaim(d)
        PROVE  Paid(tasks'[t], row)
    <3>1. calls' = [calls EXCEPT ![d].status = "lost"]
      BY <2>3, ZenonT(30) DEF Reclaim, Pause
    <3>2. d = c
      BY <1>4, <3>1, ZenonT(30)
    <3>3. tasks' = [tasks EXCEPT ![t] = SubmitError(row)]
      BY <1>2, <2>3, <3>2, ZenonT(30) DEF Reclaim, Settle
    <3> QED
      BY <1>1, <1>5, <3>3, RowCosts, ZenonT(30)
  <2>4. ASSUME NEW d \in CallIds, Claim(d)
        PROVE  Paid(tasks'[t], row)
    <3>1. ClaimRefuse(d) \/ ClaimSend(d)
      BY <1>3, <2>4, ZenonT(30) DEF Claim, ClaimPark
    <3>2. d = c
      BY <1>4, <3>1 DEF ClaimRefuse, ClaimSend
    <3>3. ~ClaimSend(c)
      <4>1. ClaimSend(c) => calls'[c].status = "in_flight"
        BY <1>0 DEF ClaimSend, CallRow
      <4> QED
        BY <4>1, ZenonT(30) DEF Live
    <3>4. tasks' = [tasks EXCEPT ![t] = Discard(row)]
      BY <3>1, <3>2, <3>3, ZenonT(30) DEF ClaimRefuse, Settle
    <3> QED
      BY <1>1, <1>5, <3>4, RowCosts, ZenonT(30)
  <2>5. ASSUME NEW d \in CallIds, Complete(d)
        PROVE  Paid(tasks'[t], row)
    <3>1. ASSUME NEW k, ToolCall(d, k)
          PROVE  d = c
      <4>1. PICK n \in NextId(calls, MaxCalls) :
              calls' = [calls EXCEPT ![d].status = "harvested", ![n] = NewCall(calls[d].task, k)]
        BY <3>1, ZenonT(30) DEF ToolCall
      <4>2. n # c
        BY <1>0, ZenonT(30) DEF NextId
      <4> QED
        BY <1>0, <1>3, <4>1, <4>2, ZenonT(30)
    <3>2. \/ calls' = calls
          \/ \E q : calls' = [calls EXCEPT ![d] = q]
          \/ \E k \in ToolKinds : ToolCall(d, k)
      BY <2>5, ZenonT(30) DEF Complete, CompleteStale, CompleteSkipped, ToolResult, CallError,
           AmbiguousResult, Pause, Submit, FinalAnswer, Note, ApplyChange, ReplyRejected,
           ReplyRaises, ReplyDiscarded, AwaitHuman, AwaitChildren, DelegateRefused, Delegate, Harvested
    <3>3. d = c
      BY <1>3, <1>4, <3>1, <3>2, ZenonT(30)
    <3> QED
      BY <1>3, <2>5, <3>3, ReplyCosts, ZenonT(30)
  <2>6. ASSUME NEW u \in TaskIds, Dispatch(u)
        PROVE  FALSE
    <3>1. PICK n \in NextId(calls, MaxCalls) : calls' = [calls EXCEPT ![n] = NewCall(u, "llm")]
      BY <1>3, <2>6, ZenonT(30) DEF Dispatch, DispatchDone, DispatchLlm, DispatchNoProvider
    <3>2. n \in CallIds /\ n # c
      BY <1>0, ZenonT(30) DEF NextId, CallIds
    <3> QED
      BY <1>4, <3>1, <3>2, ZenonT(30)
  <2>7. calls' # calls
    BY <1>3, ZenonT(30)
  <2> QED
    BY <2>1, <2>2, <2>3, <2>4, <2>5, <2>6, <2>7, ZenonT(30)
       DEF Next, Operator, CreateSession, SetAgentActive, SetPermission, ContinueSession, DecideApproval,
           SetRule, SetCap, SetProvider, Watchdog, ExpireApproval, WakeParent, DropResult, WorkerCrash,
           ApprovalClock, vars
<1> QED
  BY <1>1, <1>7, <1>8, ZenonT(30)

\* A call in use keeps its kind.
LEMMA CallKeepsKind ==
  ASSUME IInv, [Next]_vars, NEW c \in CallIds, calls[c].status # "none"
  PROVE  calls'[c].kind = calls[c].kind
<1>0. calls \in [CallIds -> CallRow]
  BY ZenonT(30) DEF IInv, TypeInv, CallsTyped
<1>1. ASSUME NEW st, SettledAs(c, st)
      PROVE  calls'[c].kind = calls[c].kind
  BY <1>0, <1>1, ZenonT(30) DEF SettledAs, CallRow
<1>2. ClaimSend(c) => calls'[c].kind = calls[c].kind
  BY <1>0 DEF ClaimSend, CallRow
<1>3. ~Created(c)
  BY CreatedIsNext, ZenonT(30)
<1> QED
  BY <1>1, <1>2, <1>3, CallSteps, ZenonT(30) DEF CallStep

\* A task's model calls grow only where fn_dispatch_tasks queues one.
LEMMA ModelCallsStep ==
  ASSUME IInv, [Next]_vars, NEW t \in TaskIds
  PROVE  \/ ModelCalls(t)' = ModelCalls(t)
         \/ /\ DispatchLlm(t)
            /\ \E n : /\ ModelCalls(t)' = ModelCalls(t) \cup {n}
                      /\ calls'[n].status \in Live
<1>0. TypeInv
  BY ZenonT(30) DEF IInv
<1>1. ASSUME NEW c \in CallIds, calls[c].status # "none"
      PROVE  c \in ModelCalls(t)' <=> c \in ModelCalls(t)
  <2>1. calls'[c].task = calls[c].task /\ calls'[c].status # "none" /\ calls'[c].kind = calls[c].kind
    BY <1>0, <1>1, CallKeepsTask, CallKeepsKind, ZenonT(30)
  <2> QED
    BY <1>1, <2>1, ZenonT(30) DEF ModelCalls
<1>2. ASSUME NEW c \in CallIds, calls[c].status = "none"
      PROVE  /\ c \notin ModelCalls(t)
             /\ c \in ModelCalls(t)' => Created(c) /\ DispatchLlm(t)
  <2>1. c \notin ModelCalls(t)
    BY <1>2, ZenonT(30) DEF ModelCalls
  <2>2. ASSUME c \in ModelCalls(t)'
        PROVE  Created(c) /\ DispatchLlm(t)
    <3>1. calls'[c].status # "none" /\ calls'[c].kind = "llm" /\ calls'[c].task = t
      BY <2>2, ZenonT(30) DEF ModelCalls
    <3>2. Created(c)
      BY <1>2, <3>1, NewIsCreated, ZenonT(30)
    <3>3. PICK u \in TaskIds, k \in Kinds : calls'[c] = NewCall(u, k) /\ (k = "llm" => DispatchLlm(u))
      BY <3>2, ZenonT(30) DEF Created
    <3>4. u = t /\ k = "llm"
      BY <3>1, <3>3 DEF NewCall
    <3> QED
      BY <3>2, <3>3, <3>4, ZenonT(30)
  <2> QED
    BY <2>1, <2>2, ZenonT(30)
<1>3. ModelCalls(t)' \subseteq CallIds /\ ModelCalls(t) \subseteq CallIds
  BY ZenonT(30) DEF ModelCalls
<1>4. CASE \A c \in CallIds : calls[c].status = "none" => c \notin ModelCalls(t)'
  <2>1. \A c \in CallIds : c \in ModelCalls(t)' <=> c \in ModelCalls(t)
    BY <1>1, <1>2, <1>4, ZenonT(30)
  <2>2. ModelCalls(t)' = ModelCalls(t)
    BY <1>3, <2>1, ZenonT(30)
  <2> QED
    BY <2>2, ZenonT(30)
<1>5. ASSUME NEW n \in CallIds, calls[n].status = "none", n \in ModelCalls(t)'
      PROVE  /\ DispatchLlm(t)
             /\ ModelCalls(t)' = ModelCalls(t) \cup {n}
             /\ calls'[n].status \in Live
  <2>1. Created(n) /\ DispatchLlm(t)
    BY <1>2, <1>5, ZenonT(30)
  <2>2. calls'[n].status \in Live
    BY <2>1, CreatedIsNext, ZenonT(30) DEF Live
  <2>3. ASSUME NEW c \in CallIds, calls[c].status = "none", c \in ModelCalls(t)'
        PROVE  c = n
    <3>1. Created(c)
      BY <1>2, <2>3, ZenonT(30)
    <3>2. ~(c < n) /\ ~(n < c)
      BY <1>5, <2>1, <2>3, <3>1, CreatedIsNext, ZenonT(30)
    <3> QED
      BY <3>2 DEF CallIds
  <2>4. ModelCalls(t)' = ModelCalls(t) \cup {n}
    BY <1>1, <1>2, <1>3, <1>5, <2>3, ZenonT(30)
  <2> QED
    BY <2>1, <2>2, <2>4, ZenonT(30)
<1> QED
  BY <1>4, <1>5, ZenonT(30)

LEMMA PaidStep ==
  ASSUME IInv, CallsPaid, ModelCallsBounded, "raise" \notin Replies, [Next]_vars, NEW t \in TaskIds
  PROVE  /\ Cardinality(ModelCalls(t)') <= MaxSteps
         /\ tasks'[t].status \in Open =>
              \/ Cardinality(ModelCalls(t)') <= tasks'[t].step
              \/ /\ \E c \in ModelCalls(t)' : calls'[c].status \in Live
                 /\ Cardinality(ModelCalls(t)') <= tasks'[t].step + 1
<1> DEFINE M == ModelCalls(t)
           n == Cardinality(M)
           N == Cardinality(M')
<1>0. /\ TypeInv /\ TypeInv' /\ tasks[t].step \in Nat /\ tasks'[t].step \in Nat /\ MaxSteps \in Nat
      /\ tasks[t] \in TaskRow
  BY TypeStep, ConstantsAssumption, ZenonT(30) DEF IInv, TypeInv, TasksTyped, TaskRow
<1>1. IsFiniteSet(M) /\ n \in Nat
  <2>1. IsFiniteSet(CallIds) /\ M \in SUBSET CallIds
    BY FS_Interval, ConstantsAssumption DEF CallIds, ModelCalls
  <2> QED
    BY <2>1, FS_Subset, FS_CardinalityType, ZenonT(30)
<1>2. n <= MaxSteps
  BY ZenonT(30) DEF ModelCallsBounded, ModelCalls
<1>3. tasks[t].status \in Open =>
        \/ n <= tasks[t].step
        \/ \E c \in M : calls[c].status \in Live /\ n <= tasks[t].step + 1
  BY ZenonT(30) DEF CallsPaid
<1>4. tasks[t].status # "none" => tasks'[t].step >= tasks[t].step
  <2>1. tasks[t].status # "none" => tasks'[t].step \in {tasks[t].step, tasks[t].step + 1}
    BY <1>0, StepsGrow, ZenonT(30) DEF Grown
  <2> QED
    BY <1>0, <2>1, SMTT(30)
<1>5. ASSUME NEW c \in M
      PROVE  c \in CallIds /\ calls[c].status # "none" /\ calls[c].kind = "llm" /\ calls[c].task = t
  BY ZenonT(30) DEF ModelCalls
<1> HIDE DEF M
<1>6. CASE M' = M
  <2>1. N = n
    BY <1>6, ZenonT(30)
  <2> HIDE DEF n, N
  <2>2. SUFFICES ASSUME tasks'[t].status \in Open
                 PROVE  \/ N <= tasks'[t].step
                        \/ (\E c \in M' : calls'[c].status \in Live) /\ N <= tasks'[t].step + 1
    BY <1>2, <2>1, ZenonT(30) DEF N, M
  <2>3. CASE tasks[t].status = "none"
    <3>1. M = {}
      BY <1>0, <1>5, <2>3, ZenonT(30) DEF TypeInv, CallsTyped
    <3>2. N = 0
      BY <2>1, <3>1, FS_EmptySet, ZenonT(30) DEF n
    <3> QED
      BY <1>0, <3>2
  <2>4. CASE tasks[t].status \in Terminal
    BY <1>0, <2>2, <2>4, EndedTasks, ZenonT(30) DEF Open, Holding, Terminal
  <2>5. CASE tasks[t].status \in Open
    <3>1. tasks'[t].step >= tasks[t].step
      BY <1>4, <2>5, ZenonT(30) DEF Open, Holding
    <3>2. CASE n <= tasks[t].step
      BY <1>0, <1>1, <2>1, <3>1, <3>2 DEF n
    <3>3. ASSUME NEW c \in M, calls[c].status \in Live, n <= tasks[t].step + 1
          PROVE  \/ N <= tasks'[t].step
                 \/ (\E d \in M' : calls'[d].status \in Live) /\ N <= tasks'[t].step + 1
      <4>0. n \in Nat
        BY <1>1, ZenonT(30) DEF n
      <4>1. N <= tasks'[t].step + 1
        BY <1>0, <2>1, <3>1, <3>3, <4>0
      <4>2. CASE calls'[c].status \in Live
        BY <1>6, <4>1, <4>2, ZenonT(30)
      <4>3. CASE calls'[c].status \notin Live
        <5>1. Paid(tasks'[t], tasks[t])
          BY <1>5, <3>3, <4>3, EndingCosts, ZenonT(30)
        <5>2. tasks'[t].step = tasks[t].step + 1
          BY <2>2, <5>1, ZenonT(30) DEF Paid, Open, Holding, Terminal
        <5> QED
          BY <2>1, <3>3, <5>2, ZenonT(30)
      <4> QED
        BY <4>2, <4>3, ZenonT(30)
    <3> QED
      BY <1>3, <2>5, <3>2, <3>3, ZenonT(30)
  <2> QED
    BY <1>0, <2>3, <2>4, <2>5, ZenonT(30) DEF TaskRow
<1>7. ASSUME NEW x, DispatchLlm(t), M' = M \cup {x}, calls'[x].status \in Live
      PROVE  /\ N <= MaxSteps
             /\ (\E c \in M' : calls'[c].status \in Live) /\ N <= tasks'[t].step + 1
  <2>1. /\ tasks[t].step < MaxSteps /\ tasks[t].status \in {"queued", "running"}
        /\ \A c \in CallIds : calls[c].task = t => calls[c].status \notin Live
    BY <1>7, ZenonT(30) DEF DispatchLlm, GoesOn, Eligible
  <2>2. n <= tasks[t].step
    <3>1. tasks[t].status \in Open
      BY <2>1, ZenonT(30) DEF Open, Holding
    <3>2. ~\E c \in M : calls[c].status \in Live
      BY <1>5, <2>1, ZenonT(30)
    <3> QED
      BY <1>3, <3>1, <3>2, ZenonT(30)
  <2>3. N <= n + 1 /\ N \in Nat
    <3>1. /\ IsFiniteSet(M \cup {x})
          /\ Cardinality(M \cup {x}) = IF x \in M THEN Cardinality(M) ELSE Cardinality(M) + 1
      BY <1>1, FS_AddElement, ZenonT(30)
    <3>2. N = Cardinality(M \cup {x})
      BY <1>7, ZenonT(30)
    <3> QED
      BY <1>1, <3>1, <3>2
  <2>4. tasks'[t].step >= tasks[t].step
    BY <1>4, <2>1, ZenonT(30)
  <2>5. x \in M'
    BY <1>7, ZenonT(30)
  <2> HIDE DEF n, N
  <2>6. n \in Nat
    BY <1>1, ZenonT(30) DEF n
  <2>7. N <= MaxSteps /\ N <= tasks'[t].step + 1
    BY <1>0, <2>1, <2>2, <2>3, <2>4, <2>6
  <2> QED
    BY <1>7, <2>5, <2>7, ZenonT(30)
<1> QED
  BY <1>6, <1>7, ModelCallsStep, ZenonT(30) DEF M

LEMMA PaidInit == Init => CallsPaid /\ ModelCallsBounded
<1> SUFFICES ASSUME Init
             PROVE  CallsPaid /\ ModelCallsBounded
  OBVIOUS
<1>1. (\A c \in CallIds : calls[c].status = "none") /\ \A t \in TaskIds : tasks[t].status = "none"
  BY ZenonT(30) DEF Init, Unused, NewCall, NewTask
<1>2. CallsPaid
  BY <1>1, ZenonT(30) DEF CallsPaid, Open, Holding
<1>3. ASSUME NEW t \in TaskIds
      PROVE  Cardinality(ModelCalls(t)) <= MaxSteps
  <2>1. ModelCalls(t) = {}
    BY <1>1, ZenonT(30) DEF ModelCalls
  <2>2. Cardinality(ModelCalls(t)) = 0
    BY <2>1, FS_EmptySet, ZenonT(30)
  <2> QED
    BY <2>2, ConstantsAssumption
<1> QED
  BY <1>2, <1>3, ZenonT(30) DEF ModelCallsBounded, ModelCalls

\* max_steps bounds the model calls of a task, however its calls fail and whatever the
\* model answers, as long as fn_submit_result raises for no reply: a reply that makes it
\* raise costs no step (the run malformed_reply).
THEOREM ModelCallsStayBounded ==
  ASSUME "raise" \notin Replies
  PROVE  Spec => []ModelCallsBounded
<1> DEFINE Inv == IInv /\ CallsPaid /\ ModelCallsBounded
<1>1. Init => Inv
  BY SafeInit, PaidInit, ZenonT(30)
<1>2. IInv /\ [Next]_vars => IInv'
  BY TypeStep, SafeStep, GuardStep, ZenonT(30) DEF IInv
<1>3. ASSUME Inv, [Next]_vars
      PROVE  CallsPaid' /\ ModelCallsBounded'
  <2>1. ASSUME NEW t \in TaskIds
        PROVE  /\ Cardinality(ModelCalls(t)') <= MaxSteps
               /\ tasks'[t].status \in Open =>
                    \/ Cardinality(ModelCalls(t)') <= tasks'[t].step
                    \/ /\ \E c \in ModelCalls(t)' : calls'[c].status \in Live
                       /\ Cardinality(ModelCalls(t)') <= tasks'[t].step + 1
    BY <1>3, PaidStep, ZenonT(30)
  <2>2. CallsPaid'
    BY <2>1, ZenonT(30) DEF CallsPaid
  <2>3. ModelCallsBounded'
    BY <2>1, ZenonT(30) DEF ModelCallsBounded, ModelCalls
  <2> QED
    BY <2>2, <2>3, ZenonT(30)
<1>4. Inv /\ [Next]_vars => Inv'
  BY <1>2, <1>3, ZenonT(30)
<1> QED
  BY <1>1, <1>4, PTL DEF Spec

============================================================================
