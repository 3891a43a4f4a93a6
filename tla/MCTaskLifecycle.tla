-------------------------- MODULE MCTaskLifecycle --------------------------
(* Small instances of TaskLifecycle for TLC. *)
EXTENDS TaskSessions

CONSTANTS a1, a2

NoDelegates == {}
OneWay == {<<a1, a2>>}
BothWays == {<<a1, a2>>, <<a2, a1>>}
============================================================================
