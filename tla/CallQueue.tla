----------------------------- MODULE CallQueue -----------------------------
(***************************************************************************)
(* What the worker promises the control plane: a queue of calls, each of   *)
(* which is claimed once, acts on the world at most once and never before  *)
(* it left the queue, and ends as done or lost for good.                   *)
(***************************************************************************)
EXTENDS Naturals

CONSTANT Rows   \* the calls

VARIABLES
  status,   \* the status of the call's row
  effects   \* how often the call has acted: its request sent, its body run

qvars == <<status, effects>>

Statuses == {"absent", "queued", "in_flight", "done", "lost"}

Init ==
  /\ status = [r \in Rows |-> "absent"]
  /\ effects = [r \in Rows |-> 0]

\* A call enters the queue.
Enqueue(r) ==
  /\ status[r] = "absent"
  /\ status' = [status EXCEPT ![r] = "queued"]
  /\ UNCHANGED effects

\* One transaction claims some queued calls and gives up others.
Pump ==
  /\ status' \in [Rows -> Statuses]
  /\ \A r \in Rows :
       status'[r] # status[r] =>
         <<status[r], status'[r]>> \in {<<"queued", "in_flight">>,
                                        <<"queued", "lost">>,
                                        <<"in_flight", "lost">>}
  /\ UNCHANGED effects

\* A call acts, though it may have been given up meanwhile.
Act(r) ==
  /\ status[r] \in {"in_flight", "lost"}
  /\ effects[r] = 0
  /\ effects' = [effects EXCEPT ![r] = 1]
  /\ UNCHANGED status

\* A result is recorded.
Settle(r) ==
  /\ status[r] = "in_flight"
  /\ status' = [status EXCEPT ![r] = "done"]
  /\ UNCHANGED effects

Next ==
  \/ \E r \in Rows : Enqueue(r) \/ Act(r) \/ Settle(r)
  \/ Pump

Spec == Init /\ [][Next]_qvars

=============================================================================
