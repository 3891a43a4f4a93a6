--------------------------- MODULE TaskSessions -----------------------------
(***************************************************************************)
(* TaskLifecycle as an implementation of SessionContract: what the one who *)
(* talks to a session sees of its row and its tasks.                       *)
(***************************************************************************)
EXTENDS TaskLifecycle

\* The tasks that work on a message to session s.
OpenRoots(ts, s) ==
  {t \in TaskIds : ts[t].session = s /\ ts[t].parent = 0 /\ ts[t].status \in Open}

Contract ==
  INSTANCE SessionContract WITH
    Sessions <- SessionIds,
    Turns    <- TaskIds,
    status   <- [s \in SessionIds |-> sessions[s].status],
    turn     <- [s \in SessionIds |-> OpenRoots(tasks, s)],
    answered <- [s \in SessionIds |-> RootAnswer(tasks, s)],
    reply    <- [s \in SessionIds |-> sessions[s].answer]

\* Sessions keep their contract through delegation, cancelling, lost results and
\* compaction: one message at a time, closed only when every turn has ended, reopened
\* only by a message, and the answer of the latest root turn is the one reported
\* (fn_create_session, fn_continue_session, fn_cancel_session, maybe_complete_session).
ImplementsSession == Contract!Spec

=============================================================================
