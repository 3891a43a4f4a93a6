---------------------------- MODULE MCWebServer ----------------------------
(* A small instance of WebServer for TLC. *)
EXTENDS WebServer, TLC

Symmetric == Permutations(Conns)

Known(p) == [path |-> p, bearer |-> TRUE]
Unknown(p) == [path |-> p, bearer |-> FALSE]

RequestMixes == {{Known("ticket"), Unknown("events")}, {Known("ticket"), Unknown("api")},
                 {Known("events")}, {Known("api")}, {Known("other")}}
============================================================================
