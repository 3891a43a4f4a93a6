------------------------ MODULE RuntimeWorker_proofs ------------------------
(***************************************************************************)
(* Every step of RuntimeWorker keeps its inductive invariant; from it, the *)
(* safety properties of the worker and its pool, and that it implements    *)
(* CallQueue, for every set of rows, every pool and every bound.           *)
(*                                                                         *)
(* All of it rests on the transactions of the worker ending: the fault     *)
(* "role_in_run" (RoleUnavailable) is excluded.  The README says what      *)
(* happens with it.                                                        *)
(***************************************************************************)
EXTENDS RuntimeWorker, FiniteSetTheorems, TLAPS

Status == {"absent", "queued", "in_flight", "done", "lost", "failed"}

Tables == [status : [Rows -> Status],
           body : [Builds -> 0..MaxBody],
           object : [Builds -> [of : 0..MaxBody, guarded : BOOLEAN]]]

Jobs == [row : Rows \cup {"none"}, body : 0..MaxBody,
         made : [of : 0..MaxBody, guarded : BOOLEAN], ok : BOOLEAN]

\* Where a build is, and the object it has made once the body is created.
Building == {"run", "wrap", "rewrap"}
Wrapping == {"wrap", "rewrap"}
Bare(body) == [of |-> body, guarded |-> FALSE]

\* The places of a call whose own request has not been sent.
BeforeSend == {"job", "dial_init", "dial_note", "dial_tool", "wait_init", "wait_note", "unsent"}

\* The worker's session sees what is committed, and its job is a local one.
Types ==
  /\ place \in [Calls -> Places]
  /\ flags \subseteq Running
  /\ threads \in 0..HTTP_THREADS
  /\ effects \in [CallRows -> {0, 1}]
  /\ db \in Tables /\ view = db /\ open = FALSE
  /\ ended \subseteq CallRows
  /\ installed \in BOOLEAN /\ timer \in BOOLEAN /\ interrupt \in BOOLEAN
  /\ pc \in {"harvest", "pump", "run", "wrap", "rewrap", "body", "submit"}
  /\ stage \in DOMAIN Stages
  /\ job \in Jobs
  /\ pc \in {"run", "wrap", "rewrap", "body", "submit"} => job.row \in Rows \ Calls
  /\ pc \in Wrapping => job.row \in Builds /\ job.made = Bare(job.body)
  /\ pc = "body" => job.row \notin Builds
  /\ in_flight \in Nat
  /\ faults \in 0..MaxFaults

\* A call acts only after it left the queue, and nothing that has still to act has
\* acted: neither a call on its way to its request nor the local execution under way.
CallsInv ==
  /\ \A r \in CallRows : db.status[r] \in {"absent", "queued"} => effects[r] = 0
  /\ \A c \in Calls : place[c] # "none" => db.status[c] \in {"in_flight", "lost"}
  /\ \A c \in Calls : place[c] \in BeforeSend => effects[c] = 0
  /\ \A c \in flags : db.status[c] = "lost"
  /\ pc \in {"run", "body"} /\ job.row \in CallRows =>
       db.status[job.row] \in {"in_flight", "lost"} /\ effects[job.row] = 0

Current(b) == db.object[b] = [of |-> db.body[b], guarded |-> TRUE]

\* A build under way is of the body in the row unless that was edited, which sends the
\* row back to the queue; a build that succeeded left the guarded object.
BuildsInv ==
  /\ \A b \in Builds : db.status[b] = "done" => Current(b)
  /\ \A b \in Builds : db.object[b] # NoObject => db.object[b].guarded
  /\ pc \in Building /\ job.row \in Builds =>
       /\ db.status[job.row] \in {"queued", "in_flight"}
       /\ db.status[job.row] = "in_flight" => job.body = db.body[job.row]
  /\ pc = "submit" /\ job.row \in Builds /\ job.ok /\ db.status[job.row] = "in_flight" =>
       Current(job.row)

\* Only a build fails.
NoneFailed == \A r \in CallRows : db.status[r] # "failed"

IInv == Types /\ CallsInv /\ BuildsInv /\ InFlightExact /\ NoneFailed

----------------------------------------------------------------------------
(* The tables *)

\* Set changes the status of the rows it is given and nothing else.
LEMMA SetFacts ==
  ASSUME NEW v \in Tables, NEW S, NEW s \in Status
  PROVE  /\ Set(v, S, s) \in Tables
         /\ Set(v, S, s).body = v.body /\ Set(v, S, s).object = v.object
         /\ \A r \in Rows : Set(v, S, s).status[r] = IF r \in S THEN s ELSE v.status[r]
  BY ZenonT(30) DEF Set, Tables

\* A result changes a row from in flight only.
LEMMA SettledFacts ==
  ASSUME NEW v \in Tables, NEW r \in Rows, NEW s \in Status
  PROVE  /\ Settled(v, r, s) \in Tables
         /\ Settled(v, r, s).body = v.body /\ Settled(v, r, s).object = v.object
         /\ \A q \in Rows : Settled(v, r, s).status[q] =
              IF q = r /\ v.status[r] = "in_flight" THEN s ELSE v.status[q]
  <1>1. CASE v.status[r] = "in_flight"
    BY <1>1, SetFacts DEF Settled
  <1>2. CASE v.status[r] # "in_flight"
    BY <1>2 DEF Settled
  <1> QED
    BY <1>1, <1>2

\* The watchdog moves rows out of flight only: calls are lost, builds are queued again.
LEMMA WatchdogFacts ==
  ASSUME NEW v \in Tables, NEW w \in fn_watchdog(v)
  PROVE  /\ w \in Tables
         /\ w.body = v.body /\ w.object = v.object
         /\ \A r \in Rows :
              \/ w.status[r] = v.status[r]
              \/ /\ v.status[r] = "in_flight"
                 /\ w.status[r] = IF r \in Builds THEN "queued" ELSE "lost"
  <1>1. PICK L \in SUBSET {r \in Rows : v.status[r] = "in_flight"} :
          w = Set(Set(v, L \ Builds, "lost"), L \cap Builds, "queued")
    BY ZenonT(30) DEF fn_watchdog
  <1> DEFINE u == Set(v, L \ Builds, "lost")
  <1>2. /\ u \in Tables /\ u.body = v.body /\ u.object = v.object
        /\ \A r \in Rows : u.status[r] = IF r \in L \ Builds THEN "lost" ELSE v.status[r]
    BY SetFacts DEF Status
  <1> HIDE DEF u
  <1>3. /\ w \in Tables /\ w.body = u.body /\ w.object = u.object
        /\ \A r \in Rows : w.status[r] = IF r \in L \cap Builds THEN "queued" ELSE u.status[r]
    BY <1>1, <1>2, SetFacts DEF Status, u
  <1> QED
    BY <1>1, <1>2, <1>3, ZenonT(30)

\* The rows of the HTTP queues are calls, and no build is.
LEMMA RowFacts ==
  /\ Calls \subseteq CallRows
  /\ CallRows \subseteq Rows /\ Builds \subseteq Rows
  /\ IsFiniteSet(Calls)
  /\ \A r \in Rows : Queue[r] \notin HttpQueues => r \notin Calls
  /\ \A r \in Rows : IsRoutineCall(r) => r \in CallRows \ Calls /\ Callee[r] \in Builds
  BY WorkerAssumption, PoolAssumption
     DEF CallRows, Builds, Of, HttpQueues, BuildQueues, RoutineQueues, IsRoutineCall

\* A committed transaction shows in both views, unless one is left open.
LEMMA CommitFacts ==
  ASSUME open = FALSE, NEW v, Commit(v)
  PROVE  db' = v /\ view' = v /\ open' = FALSE
  BY ZenonT(30) DEF Commit

\* After a queue the loop takes the next one, or goes back to harvest.
LEMMA NextStageFacts ==
  ASSUME stage \in DOMAIN Stages, NextStage
  PROVE  stage' \in DOMAIN Stages /\ pc' \in {"harvest", "pump"}
  <1>1. Cardinality(DOMAIN Stages) \in Nat
    BY WorkerAssumption, FS_CardinalityType
  <1> QED
    BY <1>1, WorkerAssumption DEF NextStage

\* Without "role_in_run" no transaction is left open.
LEMMA NoOpen ==
  ASSUME "role_in_run" \notin Faults
  PROVE  ~RoleUnavailable
  BY ZenonT(30) DEF RoleUnavailable, DropFails

----------------------------------------------------------------------------
(* Types *)

\* No job is a job.
LEMMA NoJobFacts == NoJob \in Jobs
  BY WorkerAssumption, SMTT(30), Z3T(30) DEF NoJob, NoObject, Jobs

\* The initial state is typed.
LEMMA TypesInit == Init => Types
  <1> SUFFICES ASSUME Init PROVE Types
    OBVIOUS
  <1>1. db \in Tables
    BY WorkerAssumption DEF Init, Tables, Status, NoObject
  <1>2. place \in [Calls -> Places] /\ flags = {} /\ threads \in 0..HTTP_THREADS
    BY PoolAssumption DEF Init, PoolInit, Places
  <1>3. job \in Jobs
    BY NoJobFacts, ZenonT(30) DEF Init
  <1>4. flags \subseteq Running /\ effects \in [CallRows -> {0, 1}]
    BY <1>2, ZenonT(30) DEF Init
  <1>5. in_flight \in Nat /\ faults \in 0..MaxFaults /\ stage \in DOMAIN Stages
    BY WorkerAssumption DEF Init
  <1> QED
    BY <1>1, <1>2, <1>3, <1>4, <1>5, ZenonT(30) DEF Init, Types, Wrapping

\* What a pool thread does to the types; its call is not local.
LEMMA PoolTypes ==
  ASSUME Types, CallsInv, NEW c \in Calls, PoolStep(c)
  PROVE  /\ place' \in [Calls -> Places]
         /\ flags' \subseteq Running'
         /\ threads' = threads
         /\ effects' \in [CallRows -> {0, 1}]
  <1>1. ASSUME NEW p \in Places \ {"none"}, Goto(c, p), c \in Running => p \in Dialing \cup Waiting \cup Results,
               p \in {"dial_init", "dial_tool", "unsent", "dial_note"} \cup Waiting \cup Results
        PROVE  /\ place' \in [Calls -> Places]
               /\ flags' \subseteq Running'
               /\ threads' = threads
    BY <1>1, ZenonT(30) DEF Types, Goto, Running, Dialing, Waiting, Results
  <1>2. CASE Recv(c)
    BY <1>1, <1>2, ZenonT(30) DEF Recv, Types, Places, Dialing, Waiting, Results
  <1>3. CASE Dial(c)
    <2>1. place[c] = "dial_tool" => effects[c] = 0
      BY ZenonT(30) DEF CallsInv, BeforeSend
    <2>2. effects' \in [CallRows -> {0, 1}]
      BY <1>3, <2>1, RowFacts DEF Dial, Types
    <2> QED
      BY <1>1, <1>3, <2>2, ZenonT(30) DEF Dial, Places, Dialing, Waiting, Results
  <1>4. CASE Answer(c)
    <2>1. PICK a \in Answers : Goto(c, AfterAnswer(place[c], a))
      BY <1>4, ZenonT(30) DEF Answer
    <2>2. AfterAnswer(place[c], a) \in {"dial_note", "dial_tool", "unsent", "unknown", "answered"}
      BY <1>4, ZenonT(30) DEF Answer, AfterAnswer, Waiting
    <2> QED
      BY <1>1, <1>4, <2>1, <2>2, ZenonT(30) DEF Answer, Types, Places, Dialing, Waiting, Results
  <1>5. CASE Fail(c)
    BY <1>1, <1>5, ZenonT(30) DEF Fail, AfterError, Types, Places, Dialing, Waiting, Results
  <1> QED
    BY <1>2, <1>3, <1>4, <1>5, ZenonT(30) DEF PoolStep

\* What ClaimHttp does when it claims: the watchdog leaves v, and the calls C of the
\* queue are sent.
Claims(v, C) ==
  /\ v \in Tables
  /\ v.body = view.body /\ v.object = view.object
  /\ \A r \in Rows :
       \/ v.status[r] = view.status[r]
       \/ /\ view.status[r] = "in_flight"
          /\ v.status[r] = IF r \in Builds THEN "queued" ELSE "lost"
  /\ C \subseteq Calls
  /\ \A c \in C : view.status[c] = "queued"
  /\ Cardinality(C) <= capacity - in_flight
  /\ db' = Set(v, C, "in_flight") /\ view' = db' /\ open' = FALSE
  /\ Send(C)

\* ClaimHttp claims in that way, or moves only to the next queue.
LEMMA ClaimHttpFacts ==
  ASSUME Types, ClaimHttp, ~UNCHANGED <<tables, place, in_flight>>
  PROVE  \E v, C : Claims(v, C)
  <1>1. PICK v \in IF stage = 1 THEN fn_watchdog(view) ELSE {view} :
          LET Q == {c \in Calls : Queue[c] = Stages[stage] /\ v.status[c] = "queued"}
          IN \E C \in SUBSET Q :
               /\ Cardinality(C) <= capacity - in_flight
               /\ Commit(Set(v, C, "in_flight"))
               /\ Send(C)
    BY ZenonT(30) DEF ClaimHttp
  <1>2. PICK C \in SUBSET {c \in Calls : Queue[c] = Stages[stage] /\ v.status[c] = "queued"} :
               /\ Cardinality(C) <= capacity - in_flight
               /\ Commit(Set(v, C, "in_flight"))
               /\ Send(C)
    BY <1>1, ZenonT(30)
  <1>3. /\ v \in Tables
        /\ v.body = view.body /\ v.object = view.object
        /\ \A r \in Rows :
             \/ v.status[r] = view.status[r]
             \/ /\ view.status[r] = "in_flight"
                /\ v.status[r] = IF r \in Builds THEN "queued" ELSE "lost"
    BY WatchdogFacts DEF Types
  <1>4. C \subseteq Calls /\ \A c \in C : view.status[c] = "queued"
    BY <1>3, RowFacts DEF CallRows
  <1>5. db' = Set(v, C, "in_flight") /\ view' = db' /\ open' = FALSE
    BY <1>2, ZenonT(30) DEF Commit, Types
  <1> QED
    BY <1>2, <1>3, <1>4, <1>5, ZenonT(30) DEF Claims

\* What ClaimLocal does when it claims r: give it up, or make it the job.
GivesUp(r) ==
  /\ r \in CallRows
  /\ db' = Set(view, {r}, "lost") /\ view' = db' /\ open' = FALSE
  /\ job' = job /\ pc' \in {"harvest", "pump"} /\ stage' \in DOMAIN Stages

MakesJob(r) ==
  /\ db' = Set(view, {r}, "in_flight") /\ view' = db' /\ open' = FALSE
  /\ job' = [row |-> r, body |-> IF r \in Builds THEN view.body[r] ELSE 0, made |-> NoObject,
             ok |-> FALSE]
  /\ pc' = "run" /\ stage' = stage

\* What the three do to the rows.
LEMMA ClaimsFacts ==
  ASSUME NEW v, NEW C, Claims(v, C)
  PROVE  /\ \A r \in Rows : db'.status[r] = IF r \in C THEN "in_flight" ELSE v.status[r]
         /\ db'.body = v.body /\ db'.object = v.object
  <1>1. "in_flight" \in Status
    BY ZenonT(30) DEF Status
  <1>2. v \in Tables /\ db' = Set(v, C, "in_flight")
    BY ZenonT(30) DEF Claims
  <1> DEFINE w == Set(v, C, "in_flight")
  <1>3. /\ \A r \in Rows : w.status[r] = IF r \in C THEN "in_flight" ELSE v.status[r]
        /\ w.body = v.body /\ w.object = v.object
    BY <1>1, <1>2, SetFacts, SMTT(30), Z3T(30)
  <1>4. db' = w
    BY <1>2
  <1> HIDE DEF w
  <1> QED
    BY <1>3, <1>4, ZenonT(30)

LEMMA GivesUpFacts ==
  ASSUME Types, NEW r, GivesUp(r)
  PROVE  /\ \A q \in Rows : db'.status[q] = IF q = r THEN "lost" ELSE db.status[q]
         /\ db'.body = db.body /\ db'.object = db.object
  <1>1. "lost" \in Status
    BY ZenonT(30) DEF Status
  <1>2. view \in Tables /\ view = db /\ db' = Set(view, {r}, "lost")
    BY ZenonT(30) DEF GivesUp, Types
  <1> DEFINE w == Set(view, {r}, "lost")
  <1>3. /\ \A q \in Rows : w.status[q] = IF q \in {r} THEN "lost" ELSE view.status[q]
        /\ w.body = view.body /\ w.object = view.object
    BY <1>1, <1>2, SetFacts, SMTT(30), Z3T(30)
  <1>4. db' = w
    BY <1>2
  <1> HIDE DEF w
  <1> QED
    BY <1>2, <1>3, <1>4, ZenonT(30)

LEMMA MakesJobFacts ==
  ASSUME Types, NEW r, MakesJob(r)
  PROVE  /\ \A q \in Rows : db'.status[q] = IF q = r THEN "in_flight" ELSE db.status[q]
         /\ db'.body = db.body /\ db'.object = db.object
  <1>1. "in_flight" \in Status
    BY ZenonT(30) DEF Status
  <1>2. view \in Tables /\ view = db /\ db' = Set(view, {r}, "in_flight")
    BY ZenonT(30) DEF MakesJob, Types
  <1> DEFINE w == Set(view, {r}, "in_flight")
  <1>3. /\ \A q \in Rows : w.status[q] = IF q \in {r} THEN "in_flight" ELSE view.status[q]
        /\ w.body = view.body /\ w.object = view.object
    BY <1>1, <1>2, SetFacts, SMTT(30), Z3T(30)
  <1>4. db' = w
    BY <1>2
  <1> HIDE DEF w
  <1> QED
    BY <1>2, <1>3, <1>4, ZenonT(30)

\* ClaimLocal claims in that way, or moves only to the next queue.
LEMMA ClaimLocalFacts ==
  ASSUME Types, ClaimLocal
  PROVE  \/ /\ UNCHANGED <<tables, job>>
            /\ pc' \in {"harvest", "pump"} /\ stage' \in DOMAIN Stages
         \/ \E r \in Rows \ Calls : view.status[r] = "queued" /\ (GivesUp(r) \/ MakesJob(r))
  <1>1. NextStage => pc' \in {"harvest", "pump"} /\ stage' \in DOMAIN Stages
    BY NextStageFacts, ZenonT(30) DEF Types
  <1>2. ASSUME NEW r \in Claimable,
               IF IsRoutineCall(r) /\ ~Built(view, r)
               THEN Commit(Set(view, {r}, "lost")) /\ UNCHANGED job /\ NextStage
               ELSE /\ Commit(Set(view, {r}, "in_flight"))
                    /\ job' = [row |-> r, body |-> IF r \in Builds THEN view.body[r] ELSE 0,
                               made |-> NoObject, ok |-> FALSE]
                    /\ pc' = "run"
                    /\ UNCHANGED stage
        PROVE  r \in Rows \ Calls /\ view.status[r] = "queued" /\ (GivesUp(r) \/ MakesJob(r))
    <2>1. r \in Rows \ Calls /\ view.status[r] = "queued"
      BY RowFacts, ZenonT(30) DEF Claimable, ClaimLocal
    <2>2. CASE IsRoutineCall(r) /\ ~Built(view, r)
      BY <1>1, <1>2, <2>1, <2>2, RowFacts, ZenonT(30) DEF GivesUp, Commit, Types
    <2>3. CASE ~(IsRoutineCall(r) /\ ~Built(view, r))
      BY <1>2, <2>1, <2>3, ZenonT(30) DEF MakesJob, Commit, Types
    <2> QED
      BY <2>1, <2>2, <2>3, ZenonT(30)
  <1>3. \/ UNCHANGED <<tables, job>> /\ NextStage
        \/ \E r \in Claimable :
             IF IsRoutineCall(r) /\ ~Built(view, r)
             THEN Commit(Set(view, {r}, "lost")) /\ UNCHANGED job /\ NextStage
             ELSE /\ Commit(Set(view, {r}, "in_flight"))
                  /\ job' = [row |-> r, body |-> IF r \in Builds THEN view.body[r] ELSE 0,
                             made |-> NoObject, ok |-> FALSE]
                  /\ pc' = "run"
                  /\ UNCHANGED stage
    BY ZenonT(30) DEF ClaimLocal
  <1> QED
    BY <1>1, <1>2, <1>3, ZenonT(30)

\* An execution that returns keeps its row.
LEMMA ReturnsFacts ==
  ASSUME job \in Jobs, NEW ok \in BOOLEAN, Returns(ok)
  PROVE  /\ pc' = "submit" /\ stage' = stage
         /\ job' \in Jobs /\ job'.row = job.row /\ job'.body = job.body /\ job'.ok = ok
  BY ZenonT(30) DEF Returns, Jobs

\* The end of a build puts its object in place.
LEMMA EndBuildFacts ==
  ASSUME Types, NEW b \in Builds, NEW o \in [of : 0..MaxBody, guarded : BOOLEAN],
         NEW ok \in BOOLEAN, EndBuild(b, o, ok)
  PROVE  /\ db' \in Tables /\ view' = db' /\ open' = FALSE
         /\ db'.status = db.status /\ db'.body = db.body
         /\ \A x \in Builds : db'.object[x] = IF x = b THEN o ELSE db.object[x]
         /\ pc' = "submit" /\ stage' = stage
         /\ job' \in Jobs /\ job'.row = job.row /\ job'.body = job.body /\ job'.ok = ok
  <1>1. db \in Tables /\ view = db /\ open = FALSE /\ job \in Jobs
    BY ZenonT(30) DEF Types
  <1>2. /\ [db EXCEPT !.object[b] = o] \in Tables
        /\ [db EXCEPT !.object[b] = o].status = db.status
        /\ [db EXCEPT !.object[b] = o].body = db.body
        /\ [db EXCEPT !.object[b] = o].object = [db.object EXCEPT ![b] = o]
    BY <1>1, ZenonT(30) DEF Tables
  <1>3. db.object \in [Builds -> [of : 0..MaxBody, guarded : BOOLEAN]]
    BY <1>1, ZenonT(30) DEF Tables
  <1>4. db' = [db EXCEPT !.object[b] = o] /\ view' = db' /\ open' = FALSE
    BY <1>1, ZenonT(30) DEF EndBuild, Commit
  <1>5. \A x \in Builds : db'.object[x] = IF x = b THEN o ELSE db.object[x]
    BY <1>2, <1>3, <1>4
  <1>6. /\ pc' = "submit" /\ stage' = stage
        /\ job' \in Jobs /\ job'.row = job.row /\ job'.body = job.body /\ job'.ok = ok
    BY <1>1, ReturnsFacts, ZenonT(30) DEF EndBuild
  <1> QED
    BY <1>2, <1>4, <1>5, <1>6, ZenonT(30)

\* A step of a build.
BuildStep == \E b \in Builds : Creates(b) \/ Wraps(b) \/ WrapFails(b)

\* A step of a build goes on to wrap what it made, or ends: then the object is the guarded
\* build of the body that was claimed if the build succeeded, and untouched if it failed.
LEMMA BuildStepFacts ==
  ASSUME Types, BuildStep, "role_in_run" \notin Faults
  PROVE  /\ pc \in Building /\ job.row \in Builds
         /\ db' \in Tables /\ view' = db' /\ open' = FALSE
         /\ db'.status = db.status /\ db'.body = db.body
         /\ pc' \in {"wrap", "rewrap", "submit"} /\ stage' = stage /\ faults' = faults
         /\ job' \in Jobs /\ job'.row = job.row /\ job'.body = job.body
         /\ pc' \in Wrapping => job'.made = Bare(job.body)
         /\ \A x \in Builds : db'.object[x] =
              IF x = job.row /\ pc' = "submit" /\ job'.ok
              THEN [of |-> job.body, guarded |-> TRUE] ELSE db.object[x]
         /\ interrupt' \in BOOLEAN
         /\ UNCHANGED <<poolVars, effects, in_flight, timer, env>>
  <1>0. db \in Tables /\ view = db /\ open = FALSE /\ job \in Jobs /\ interrupt \in BOOLEAN
    BY ZenonT(30) DEF Types
  <1>1. PICK b \in Builds : Creates(b) \/ Wraps(b) \/ WrapFails(b)
    BY ZenonT(30) DEF BuildStep
  <1>2. job.row = b
    BY <1>1, ZenonT(30) DEF Creates, Wraps, WrapFails
  <1>3. CASE Creates(b)
    <2>1. /\ pc = "run" /\ faults' = faults /\ UNCHANGED tables
          /\ interrupt' \in BOOLEAN
          /\ UNCHANGED <<poolVars, effects, in_flight, timer, env>>
          /\ \/ Returns(FALSE)
             \/ /\ job' = [job EXCEPT !.made = Bare(job.body)]
                /\ pc' = "wrap" /\ stage' = stage
      BY <1>0, <1>3, NoOpen, ZenonT(30) DEF Creates, Ready, DropHolds, signals, Bare
    <2>2. CASE Returns(FALSE)
      <3>1. /\ pc' = "submit" /\ stage' = stage /\ job' \in Jobs
            /\ job'.row = job.row /\ job'.body = job.body /\ job'.ok = FALSE
        BY <1>0, <2>2, ReturnsFacts, ZenonT(30)
      <3> QED
        BY <1>0, <1>2, <2>1, <3>1, ZenonT(30) DEF tables, Building, Wrapping
    <2>3. CASE job' = [job EXCEPT !.made = Bare(job.body)] /\ pc' = "wrap" /\ stage' = stage
      <3>1. Bare(job.body) \in [of : 0..MaxBody, guarded : BOOLEAN]
        BY <1>0, ZenonT(30) DEF Bare, Jobs
      <3>2. job' \in Jobs /\ job'.row = job.row /\ job'.body = job.body /\ job'.made = Bare(job.body)
        BY <1>0, <2>3, <3>1, ZenonT(30) DEF Jobs
      <3> QED
        BY <1>0, <1>2, <2>1, <2>3, <3>2, ZenonT(30) DEF tables, Building, Wrapping
    <2> QED
      BY <2>1, <2>2, <2>3, ZenonT(30)
  <1>4. CASE Wraps(b)
    <2>1. pc \in Wrapping /\ job.made = Bare(job.body)
      BY <1>4, ZenonT(30) DEF Wraps, Ready, Wrapping, Types
    <2>2. job.made.of = job.body
      BY <2>1, SMTT(30), Z3T(30) DEF Bare
    <2>3. [of |-> job.body, guarded |-> TRUE] \in [of : 0..MaxBody, guarded : BOOLEAN]
      BY <1>0, ZenonT(30) DEF Jobs
    <2>4. EndBuild(b, [of |-> job.body, guarded |-> TRUE], TRUE)
      BY <1>4, <2>2, ZenonT(30) DEF Wraps
    <2>5. /\ db' \in Tables /\ view' = db' /\ open' = FALSE
          /\ db'.status = db.status /\ db'.body = db.body
          /\ \A x \in Builds : db'.object[x] = IF x = b THEN [of |-> job.body, guarded |-> TRUE] ELSE db.object[x]
          /\ pc' = "submit" /\ stage' = stage
          /\ job' \in Jobs /\ job'.row = job.row /\ job'.body = job.body /\ job'.ok = TRUE
      BY <2>3, <2>4, EndBuildFacts, ZenonT(30)
    <2>6. /\ faults' = faults /\ interrupt' \in BOOLEAN
          /\ UNCHANGED <<poolVars, effects, in_flight, timer, env>>
      BY <1>0, <1>4, ZenonT(30) DEF Wraps, signals
    <2> QED
      BY <1>2, <2>1, <2>5, <2>6, ZenonT(30) DEF Building, Wrapping
  <1>5. CASE WrapFails(b)
    <2>1. /\ faults' = faults /\ interrupt' \in BOOLEAN
          /\ UNCHANGED <<poolVars, effects, in_flight, timer, env>>
      BY <1>5, ZenonT(30) DEF WrapFails
    <2>2. CASE pc = "wrap" /\ pc' = "rewrap" /\ UNCHANGED <<stage, job, tables>>
      <3>1. job.made = Bare(job.body)
        BY <2>2, ZenonT(30) DEF Types, Wrapping
      <3> QED
        BY <1>0, <1>2, <2>1, <2>2, <3>1, ZenonT(30) DEF tables, Building, Wrapping
    <2>3. CASE pc = "rewrap" /\ EndBuild(b, RolledBack(b), FALSE)
      <3>1. RolledBack(b) = db.object[b] /\ db.object[b] \in [of : 0..MaxBody, guarded : BOOLEAN]
        BY <1>0, ZenonT(30) DEF RolledBack, Tables
      <3>2. EndBuild(b, db.object[b], FALSE)
        BY <2>3, <3>1, ZenonT(30)
      <3>3. /\ db' \in Tables /\ view' = db' /\ open' = FALSE
            /\ db'.status = db.status /\ db'.body = db.body
            /\ \A x \in Builds : db'.object[x] = IF x = b THEN db.object[b] ELSE db.object[x]
            /\ pc' = "submit" /\ stage' = stage
            /\ job' \in Jobs /\ job'.row = job.row /\ job'.body = job.body /\ job'.ok = FALSE
        BY <3>1, <3>2, EndBuildFacts, ZenonT(30)
      <3>4. \A x \in Builds : db'.object[x] = db.object[x]
        BY <3>3, ZenonT(30)
      <3> QED
        BY <1>2, <2>1, <2>3, <3>3, <3>4, ZenonT(30) DEF Building, Wrapping
    <2> QED
      BY <1>5, <2>2, <2>3, ZenonT(30) DEF WrapFails
  <1> QED
    BY <1>1, <1>3, <1>4, <1>5, ZenonT(30)

\* An edit counts the body up and queues the build.
LEMMA EditFacts ==
  ASSUME Types, NEW b \in Builds, Edit(b)
  PROVE  /\ db' \in Tables /\ view' = db' /\ open' = FALSE
         /\ \A r \in Rows : db'.status[r] = IF r = b THEN "queued" ELSE db.status[r]
         /\ \A x \in Builds : x # b => db'.body[x] = db.body[x]
         /\ db'.object = db.object
  <1>1. db \in Tables /\ view = db /\ open = FALSE /\ db.body[b] < MaxBody
    BY ZenonT(30) DEF Types, Edit
  <1>2. db.body[b] + 1 \in 0..MaxBody
    BY <1>1, WorkerAssumption DEF Tables
  <1> DEFINE edited == [db EXCEPT !.body[b] = @ + 1]
  <1>3. /\ edited \in Tables
        /\ edited.status = db.status /\ edited.object = db.object
        /\ \A x \in Builds : x # b => edited.body[x] = db.body[x]
    BY <1>1, <1>2, ZenonT(30) DEF Tables
  <1>4. db' = [edited EXCEPT !.status[b] = "queued"]
    BY ZenonT(30) DEF Edit
  <1> HIDE DEF edited
  <1>5. /\ db' \in Tables
        /\ db'.body = edited.body /\ db'.object = edited.object
        /\ \A r \in Rows : db'.status[r] = IF r = b THEN "queued" ELSE edited.status[r]
    BY <1>3, <1>4, RowFacts, ZenonT(30) DEF Tables, Status
  <1>6. view' = db' /\ open' = FALSE
    BY <1>1, ZenonT(30) DEF Edit
  <1> QED
    BY <1>3, <1>5, <1>6, ZenonT(30)

\* Every step keeps the types.
LEMMA TypesStep ==
  ASSUME Types, CallsInv, [Next]_vars, "role_in_run" \notin Faults
  PROVE  Types'
  <1> USE DEF Types, Wrapping
  <1>1. ASSUME NEW c \in Calls, SubmitResult(c) PROVE Types'
    <2> DEFINE v == Settled(view, c, "done")
    <2>0. v \in Tables
      BY SettledFacts, RowFacts, ZenonT(30) DEF Status
    <2>1. db' \in Tables /\ view' = db' /\ open' = FALSE
      <3> HIDE DEF v
      <3>1. Commit(v) \/ UNCHANGED tables
        BY <1>1, ZenonT(30) DEF SubmitResult, v
      <3>2. CASE Commit(v)
        <4>1. open = FALSE
          OBVIOUS
        <4>2. db' = v /\ view' = v /\ open' = FALSE
          BY <3>2, <4>1, CommitFacts, ZenonT(30)
        <4> QED
          BY <2>0, <4>2, ZenonT(30)
      <3>3. CASE UNCHANGED tables
        BY <3>3, ZenonT(30) DEF tables
      <3> QED
        BY <3>1, <3>2, <3>3, ZenonT(30)
    <2>2. flags' \subseteq Running'
      BY <1>1, ZenonT(30) DEF SubmitResult, Running, Results, Dialing, Waiting
    <2>3. faults' \in 0..MaxFaults /\ in_flight' \in Nat
      BY <1>1, WorkerAssumption DEF SubmitResult, DropHolds, DropFails
    <2> QED
      BY <1>1, <2>1, <2>2, <2>3, ZenonT(30) DEF SubmitResult, signals, env, Ready, Places
  <1>2. ASSUME NEW due \in BOOLEAN, Tick(due) PROVE Types'
    <2>1. flags' \subseteq Running' /\ faults' \in 0..MaxFaults
      BY <1>2, WorkerAssumption DEF Tick, propagate_outbound_cancellations, Running, DropHolds, DropFails
    <2> QED
      BY <1>2, <2>1, ZenonT(30) DEF Tick, signals, tables, env, Ready
  <1>3. CASE ClaimHttp
    <2>1. db' \in Tables /\ view' = db' /\ open' = FALSE /\ in_flight' \in Nat
          /\ place' \in [Calls -> Places] /\ Running' = Running
      <3>1. CASE UNCHANGED <<tables, place, in_flight>>
        BY <3>1, ZenonT(30) DEF tables, Running
      <3>2. CASE ~UNCHANGED <<tables, place, in_flight>>
        <4>1. PICK v, C : Claims(v, C)
          BY <1>3, <3>2, ClaimHttpFacts, ZenonT(30)
        <4>2. db' \in Tables /\ view' = db' /\ open' = FALSE
          BY <4>1, SetFacts, ZenonT(30) DEF Claims, Status
        <4>3. \A c \in C : place[c] = "none"
          BY <4>1, ZenonT(30) DEF CallsInv, Claims
        <4>4. Cardinality(C) \in Nat
          BY <4>1, RowFacts, FS_Subset, FS_CardinalityType, ZenonT(30) DEF Claims
        <4> QED
          BY <4>1, <4>2, <4>3, <4>4 DEF Claims, Send, Running, Places, Dialing, Waiting
      <3> QED
        BY <3>1, <3>2, ZenonT(30)
    <2>2. stage' \in DOMAIN Stages /\ pc' \in {"harvest", "pump"}
      BY <1>3, NextStageFacts, ZenonT(30) DEF ClaimHttp
    <2>3. faults' \in 0..MaxFaults
      BY <1>3, WorkerAssumption, SMTT(30), Z3T(30) DEF ClaimHttp, DropHolds, DropFails
    <2> QED
      BY <1>3, <2>1, <2>2, <2>3, ZenonT(30) DEF ClaimHttp, signals, env
  <1>4. CASE ClaimLocal
    <2>1. faults' \in 0..MaxFaults
      BY <1>4, WorkerAssumption DEF ClaimLocal, DropHolds, DropFails
    <2>2. CASE UNCHANGED <<tables, job>> /\ pc' \in {"harvest", "pump"} /\ stage' \in DOMAIN Stages
      BY <1>4, <2>1, <2>2, ZenonT(30) DEF ClaimLocal, poolVars, signals, env, tables, Running
    <2>3. ASSUME NEW r \in Rows \ Calls, GivesUp(r) PROVE Types'
      <3>1. db' \in Tables
        BY <2>3, SetFacts, SMTT(30), Z3T(30) DEF GivesUp, Status
      <3> QED
        BY <1>4, <2>1, <2>3, <3>1, ZenonT(30) DEF GivesUp, ClaimLocal, poolVars, signals, env, Running
    <2>4. ASSUME NEW r \in Rows \ Calls, MakesJob(r) PROVE Types'
      <3>1. db' \in Tables
        BY <2>4, SetFacts DEF MakesJob, Status
      <3>2. (IF r \in Builds THEN view.body[r] ELSE 0) \in 0..MaxBody
        BY WorkerAssumption, SMTT(30), Z3T(30) DEF Tables
      <3>3. NoObject \in [of : 0..MaxBody, guarded : BOOLEAN]
        BY WorkerAssumption, SMTT(30), Z3T(30) DEF NoObject
      <3>4. job' \in Jobs /\ job'.row = r
        BY <2>4, <3>2, <3>3, ZenonT(30) DEF MakesJob, Jobs
      <3> QED
        BY <1>4, <2>1, <2>4, <3>1, <3>4, ZenonT(30) DEF MakesJob, ClaimLocal, poolVars, signals, env, Running
    <2> QED
      BY <1>4, <2>2, <2>3, <2>4, ClaimLocalFacts, ZenonT(30)
  <1>5. CASE BuildStep
    <2>1. job'.row \in Builds /\ job'.row \in Rows \ Calls
      BY <1>5, BuildStepFacts, RowFacts, ZenonT(30) DEF Building
    <2> QED
      BY <1>5, <2>1, BuildStepFacts, ZenonT(30) DEF poolVars, env, Running, Wrapping
  <1>6. CASE BeginCall
    <2>1. /\ UNCHANGED <<poolVars, effects, in_flight, interrupt, tables, env, faults>>
          /\ pc = "run" /\ job.row \notin Builds
          /\ \/ Returns(FALSE) /\ timer' = timer
             \/ pc' = "body" /\ timer' = TRUE /\ stage' = stage /\ job' = job
      BY <1>6, NoOpen, ZenonT(30) DEF BeginCall, Ready, DropHolds
    <2>2. job' \in Jobs /\ job'.row = job.row /\ stage' = stage /\ pc' \in {"body", "submit"} /\ timer' \in BOOLEAN
      BY <2>1, ReturnsFacts, ZenonT(30)
    <2> QED
      BY <2>1, <2>2, ZenonT(30) DEF poolVars, tables, env, Running
  <1>7. CASE Finish
    <2>1. job.row \in CallRows /\ effects[job.row] = 0
      BY <1>7, ZenonT(30) DEF Finish, Ready, CallsInv, CallRows
    <2>2. effects' \in [CallRows -> {0, 1}]
      BY <1>7, <2>1 DEF Finish
    <2>3. job' \in Jobs /\ job'.row = job.row /\ stage' = stage /\ pc' = "submit"
      BY <1>7, ReturnsFacts, ZenonT(30) DEF Finish
    <2> QED
      BY <1>7, <2>2, <2>3, ZenonT(30) DEF Finish, Ready, poolVars, tables, env, Running
  <1>8. CASE Raise
    <2>1. job' \in Jobs /\ job'.row = job.row /\ stage' = stage /\ pc' = "submit"
      BY <1>8, ReturnsFacts, ZenonT(30) DEF Raise
    <2> QED
      BY <1>8, <2>1, ZenonT(30) DEF Raise, poolVars, tables, env, Running
  <1>9. CASE Submit
    <2> DEFINE v == Settled(view, job.row, IF job.row \in Builds /\ ~job.ok THEN "failed" ELSE "done")
    <2>1. v \in Tables
      BY <1>9, SettledFacts, ZenonT(30) DEF Submit, Ready, Status
    <2>2. db' \in Tables /\ view' = db' /\ open' = FALSE
      <3> HIDE DEF v
      <3>1. Commit(v) \/ UNCHANGED tables
        BY <1>9, ZenonT(30) DEF Submit, v
      <3>2. CASE Commit(v)
        <4>1. open = FALSE
          OBVIOUS
        <4>2. db' = v /\ view' = v /\ open' = FALSE
          BY <3>2, <4>1, CommitFacts, ZenonT(30)
        <4> QED
          BY <2>1, <4>2, ZenonT(30)
      <3>3. CASE UNCHANGED tables
        BY <3>3, ZenonT(30) DEF tables
      <3> QED
        BY <3>1, <3>2, <3>3, ZenonT(30)
    <2>3. faults' \in 0..MaxFaults
      BY <1>9, WorkerAssumption DEF Submit, DropHolds, DropFails
    <2>4. stage' \in DOMAIN Stages /\ pc' \in {"harvest", "pump"}
      BY <1>9, NextStageFacts, ZenonT(30) DEF Submit
    <2>5. job' \in Jobs
      BY <1>9, NoJobFacts, ZenonT(30) DEF Submit
    <2> QED
      BY <1>9, <2>2, <2>3, <2>4, <2>5, ZenonT(30) DEF Submit, poolVars, signals, env, Running
  <1>10. ASSUME NEW c \in Calls, Pool(c) PROVE Types'
    BY <1>10, PoolTypes, ZenonT(30) DEF Pool, spi, signals, tables, env
  <1>11. CASE TimerFires
    BY <1>11, ZenonT(30) DEF TimerFires, poolVars, spi, tables, env, Running
  <1>12. CASE Die \/ Crash
    <2>1. faults' \in 0..MaxFaults /\ Restart
      BY <1>12, WorkerAssumption DEF Die, Crash
    <2>2. place' \in [Calls -> Places] /\ flags' \subseteq Running' /\ threads' \in 0..HTTP_THREADS
      BY <2>1, PoolAssumption DEF Restart, Places
    <2>3. job' \in Jobs /\ stage' \in DOMAIN Stages
      BY <2>1, NoJobFacts, WorkerAssumption, ZenonT(30) DEF Restart
    <2> QED
      BY <2>1, <2>2, <2>3, ZenonT(30) DEF Restart, env
  <1>13. ASSUME NEW r \in CallRows, NEW s \in Status, Write(r, s) PROVE db' \in Tables /\ view' = db' /\ open' = FALSE
    BY <1>13, RowFacts, ZenonT(30) DEF Write, Tables
  <1>14. ASSUME NEW r \in CallRows, Enqueue(r) PROVE Types'
    BY <1>13, <1>14, ZenonT(30) DEF Enqueue, poolVars, spi, signals, env, Status, Running
  <1>15. ASSUME NEW r \in CallRows, Cancel(r) PROVE Types'
    BY <1>13, <1>15, ZenonT(30) DEF Cancel, poolVars, spi, tables, Status, Running
  <1>16. ASSUME NEW b \in Builds, Edit(b) PROVE Types'
    <2>1. db' \in Tables /\ view' = db' /\ open' = FALSE
      BY <1>16, EditFacts, ZenonT(30)
    <2> QED
      BY <1>16, <2>1 DEF Edit, poolVars, spi, signals, env, Running
  <1>17. CASE Install
    BY <1>17, ZenonT(30) DEF Install, poolVars, spi, signals, tables, Running
  <1>18. CASE UNCHANGED vars
    BY <1>18, ZenonT(30) DEF vars, poolVars, spi, signals, tables, env, Running
  <1> QED
    BY <1>1, <1>2, <1>3, <1>4, <1>5, <1>6, <1>7, <1>8, <1>9, <1>10, <1>11, <1>12, <1>14, <1>15, ZenonT(30),
       <1>16, <1>17, <1>18
       DEF Next, Spi, BuildStep, Operators


----------------------------------------------------------------------------
(* CallsInv *)

\* How the row of a call may move while no call acts and no place changes.
Moves == {<<"absent", "queued">>, <<"queued", "in_flight">>, <<"queued", "lost">>, <<"in_flight", "lost">>}

MovesOnly ==
  \A r \in CallRows : db'.status[r] = db.status[r] \/ <<db.status[r], db'.status[r]>> \in Moves

\* An operator's write changes one status, in both views.
LEMMA WriteFacts ==
  ASSUME Types, NEW r \in CallRows, NEW s \in Status, Write(r, s)
  PROVE  /\ \A q \in Rows : db'.status[q] = IF q = r THEN s ELSE db.status[q]
         /\ db'.body = db.body /\ db'.object = db.object
  BY RowFacts, ZenonT(30) DEF Types, Tables, Write

\* Such a step keeps the calls in order.
LEMMA CallsQuiet ==
  ASSUME Types, CallsInv, MovesOnly,
         UNCHANGED <<place, flags, effects>>,
         pc' \in {"run", "body"} =>
           \/ pc \in {"run", "body"} /\ job'.row = job.row
           \/ job'.row \in CallRows =>
                db.status[job'.row] = "queued" /\ db'.status[job'.row] = "in_flight"
  PROVE  CallsInv'
  <1>1. \A c \in flags : c \in CallRows /\ c \in Calls
    BY RowFacts, ZenonT(30) DEF Types, Running
  <1>2. \A r \in CallRows : db'.status[r] \in {"absent", "queued"} => db.status[r] \in {"absent", "queued"}
    BY ZenonT(30) DEF MovesOnly, Moves
  <1>3. \A r \in CallRows : db.status[r] \in {"in_flight", "lost"} => db'.status[r] \in {"in_flight", "lost"}
    BY ZenonT(30) DEF MovesOnly, Moves
  <1>4. \A r \in CallRows : db.status[r] = "lost" => db'.status[r] = "lost"
    BY DEF MovesOnly, Moves
  <1>5. Calls \subseteq CallRows
    BY RowFacts, ZenonT(30)
  <1> QED
    BY <1>1, <1>2, <1>3, <1>4, <1>5, ZenonT(30) DEF CallsInv

\* A thread that sends a call's own request has not sent it before.
LEMMA CallsPool ==
  ASSUME Types, CallsInv, NEW c \in Calls, Pool(c)
  PROVE  CallsInv'
  <1> USE RowFacts
  <1>1. db' = db /\ pc' = pc /\ job' = job
    BY ZenonT(30) DEF Pool, spi, tables
  <1>2. /\ \A x \in Calls : x # c => place'[x] = place[x]
        /\ place[c] # "none"
        /\ flags' \subseteq flags
    BY ZenonT(30) DEF Pool, PoolStep, Recv, Dial, Answer, Fail, Goto, Types, Running, Dialing, Waiting
  <1>3. \/ effects' = effects /\ (place'[c] \in BeforeSend => place[c] \in BeforeSend)
        \/ place[c] = "dial_tool" /\ place'[c] = "wait_tool" /\ effects' = [effects EXCEPT ![c] = @ + 1]
    <2>1. CASE Recv(c)
      BY <2>1, ZenonT(30) DEF Recv, BeforeSend, Goto, Types
    <2>2. CASE Dial(c)
      BY <2>2, ZenonT(30) DEF Dial, BeforeSend, Goto, Types
    <2>3. CASE Answer(c)
      <3>1. PICK a \in Answers : Goto(c, AfterAnswer(place[c], a))
        BY <2>3, ZenonT(30) DEF Answer
      <3>2. place[c] \notin BeforeSend => AfterAnswer(place[c], a) \in {"unknown", "answered"}
        BY <2>3, ZenonT(30) DEF Answer, AfterAnswer, Waiting, BeforeSend
      <3>3. place'[c] = AfterAnswer(place[c], a)
        BY <3>1, ZenonT(30) DEF Goto, Types
      <3> QED
        BY <2>3, <3>2, <3>3, ZenonT(30) DEF Answer, BeforeSend
    <2>4. CASE Fail(c)
      BY <2>4, ZenonT(30) DEF Fail, AfterError, BeforeSend, Goto, Types, Running, Dialing, Waiting
    <2> QED
      BY <2>1, <2>2, <2>3, <2>4, ZenonT(30) DEF Pool, PoolStep
  <1>4. \A r \in CallRows : r # c => effects'[r] = effects[r]
    BY <1>3, ZenonT(30) DEF Types
  <1>5. db.status[c] \in {"in_flight", "lost"}
    BY <1>2, ZenonT(30) DEF CallsInv
  <1>6. pc \in {"run", "body"} => job.row # c
    BY ZenonT(30) DEF Types
  <1>7. \A x \in Calls : place'[x] \in BeforeSend => effects'[x] = 0
    BY <1>2, <1>3, <1>4, ZenonT(30) DEF CallsInv, BeforeSend
  <1>8. \A x \in Calls : place'[x] # "none" => db.status[x] \in {"in_flight", "lost"}
    BY <1>2, <1>5, ZenonT(30) DEF CallsInv
  <1> QED
    BY <1>1, <1>2, <1>4, <1>5, <1>6, <1>7, <1>8, ZenonT(30) DEF CallsInv

\* Every step keeps the calls in order: none acts before its claim or twice.
LEMMA CallsStep ==
  ASSUME Types, CallsInv, [Next]_vars, "role_in_run" \notin Faults
  PROVE  CallsInv'
  <1> USE RowFacts
  <1>1. ASSUME NEW c \in Calls, SubmitResult(c) PROVE CallsInv'
    <2>1. /\ \A x \in Calls : place'[x] = IF x = c THEN "none" ELSE place[x]
          /\ flags' = flags /\ effects' = effects /\ pc' = "harvest" /\ place[c] \in Results
      BY <1>1, ZenonT(30) DEF SubmitResult, Ready, Types
    <2>2. \A r \in Rows : \/ db'.status[r] = db.status[r]
                          \/ r = c /\ db.status[r] = "in_flight" /\ db'.status[r] = "done"
      <3> DEFINE v == Settled(view, c, "done")
      <3>1. \A r \in Rows : v.status[r] = IF r = c /\ db.status[c] = "in_flight" THEN "done" ELSE db.status[r]
        BY SettledFacts DEF Status, Types
      <3> HIDE DEF v
      <3>2. db' = v \/ db' = db
        BY <1>1, CommitFacts, ZenonT(30) DEF SubmitResult, v, Types, tables
      <3> QED
        BY <3>1, <3>2, ZenonT(30)
    <2>3. c \notin flags
      BY <2>1, ZenonT(30) DEF Types, Running, Results, Dialing, Waiting
    <2> QED
      BY <2>1, <2>2, <2>3 DEF CallsInv, Types, Running, BeforeSend
  <1>2. ASSUME NEW due \in BOOLEAN, Tick(due) PROVE CallsInv'
    <2>1. \A c \in flags' : c \in flags \/ db.status[c] = "lost"
      BY <1>2, ZenonT(30) DEF Tick, propagate_outbound_cancellations, Types
    <2> QED
      BY <1>2, <2>1, ZenonT(30) DEF Tick, tables, CallsInv
  <1>3. CASE ClaimHttp
    <2>1. flags' = flags /\ effects' = effects /\ pc' \in {"harvest", "pump"}
      BY <1>3, NextStageFacts, ZenonT(30) DEF ClaimHttp, Types
    <2>2. CASE UNCHANGED <<tables, place, in_flight>>
      BY <2>1, <2>2, ZenonT(30) DEF CallsInv, tables
    <2>3. CASE ~UNCHANGED <<tables, place, in_flight>>
      <3>1. PICK v, C : Claims(v, C)
        BY <1>3, <2>3, ClaimHttpFacts, ZenonT(30)
      <3>2. \A r \in Rows : db'.status[r] = IF r \in C THEN "in_flight" ELSE v.status[r]
        BY <3>1, ClaimsFacts, ZenonT(30)
      <3>3. \A c \in C : c \in CallRows /\ db.status[c] = "queued" /\ place[c] = "none" /\ effects[c] = 0
        BY <3>1, ZenonT(30) DEF Claims, CallsInv, Types
      <3>4. \A r \in CallRows \ C :
              db'.status[r] = db.status[r] \/ (db.status[r] = "in_flight" /\ db'.status[r] = "lost")
        BY <3>1, <3>2, SMTT(30), Z3T(30) DEF Claims, Types, CallRows
      <3>5. \A c \in Calls : place'[c] = place[c] \/ c \in C
        BY <3>1, ZenonT(30) DEF Claims, Send
      <3>6. \A c \in C : db'.status[c] = "in_flight"
        BY <3>2, <3>3, ZenonT(30)
      <3>7. \A c \in flags : c \notin C /\ c \in Calls
        BY <3>3, ZenonT(30) DEF Types, Running, Dialing, Waiting
      <3> QED
        BY <2>1, <3>3, <3>4, <3>5, <3>6, <3>7, ZenonT(30) DEF CallsInv
    <2> QED
      BY <2>2, <2>3, ZenonT(30)
  <1>4. CASE ClaimLocal
    <2>1. UNCHANGED <<place, flags, effects>>
      BY <1>4, ZenonT(30) DEF ClaimLocal, poolVars
    <2>2. CASE UNCHANGED <<tables, job>> /\ pc' \in {"harvest", "pump"}
      BY <2>1, <2>2, CallsQuiet, ZenonT(30) DEF MovesOnly, tables
    <2>3. ASSUME NEW r \in Rows \ Calls, view.status[r] = "queued", GivesUp(r) PROVE CallsInv'
      <3>1. MovesOnly /\ pc' \in {"harvest", "pump"}
        <4>1. \A q \in Rows : db'.status[q] = IF q = r THEN "lost" ELSE db.status[q]
          BY <2>3, GivesUpFacts, ZenonT(30)
        <4>2. db.status[r] = "queued" /\ pc' \in {"harvest", "pump"}
          BY <2>3, ZenonT(30) DEF GivesUp, Types
        <4>3. <<"queued", "lost">> \in Moves
          BY ZenonT(30) DEF Moves
        <4>4. ASSUME NEW q \in CallRows
              PROVE  db'.status[q] = db.status[q] \/ <<db.status[q], db'.status[q]>> \in Moves
          <5>1. q \in Rows
            BY ZenonT(30) DEF CallRows
          <5>2. CASE q = r
            BY <5>1, <5>2, <4>1, <4>2, <4>3, ZenonT(30)
          <5>3. CASE q # r
            BY <5>1, <5>3, <4>1, ZenonT(30)
          <5> QED
            BY <5>2, <5>3, ZenonT(30)
        <4> QED
          BY <4>2, <4>4, ZenonT(30) DEF MovesOnly
      <3> QED
        BY <2>1, <3>1, CallsQuiet, ZenonT(30)
    <2>4. ASSUME NEW r \in Rows \ Calls, view.status[r] = "queued", MakesJob(r) PROVE CallsInv'
      <3>1. \A q \in Rows : db'.status[q] = IF q = r THEN "in_flight" ELSE db.status[q]
        BY <2>4, MakesJobFacts, ZenonT(30)
      <3>2. MovesOnly /\ job'.row = r /\ db.status[r] = "queued" /\ db'.status[r] = "in_flight"
        BY <2>4, <3>1, ZenonT(30) DEF MovesOnly, Moves, MakesJob, Types
      <3> QED
        BY <2>1, <3>2, CallsQuiet, ZenonT(30)
    <2> QED
      BY <1>4, <2>2, <2>3, <2>4, ClaimLocalFacts, ZenonT(30)
  <1>5. CASE BuildStep
    BY <1>5, BuildStepFacts, CallsQuiet, ZenonT(30) DEF poolVars, MovesOnly
  <1>6. CASE BeginCall
    <2>1. UNCHANGED <<place, flags, effects, db>> /\ pc = "run" /\ job'.row = job.row
      BY <1>6, NoOpen, ReturnsFacts, ZenonT(30) DEF BeginCall, Ready, poolVars, tables, Types
    <2> QED
      BY <2>1, CallsQuiet, ZenonT(30) DEF MovesOnly
  <1>7. CASE Finish
    <2>1. /\ UNCHANGED <<place, flags, db>> /\ pc = "body" /\ pc' = "submit"
          /\ effects' = [effects EXCEPT ![job.row] = @ + 1]
          /\ job.row \in CallRows \ Calls
      BY <1>7, ZenonT(30) DEF Finish, Returns, Ready, poolVars, tables, Types, CallRows
    <2>2. \A r \in CallRows : r # job.row => effects'[r] = effects[r]
      BY <2>1, ZenonT(30) DEF Types
    <2>3. db.status[job.row] \in {"in_flight", "lost"}
      BY <2>1, ZenonT(30) DEF CallsInv
    <2> QED
      BY <2>1, <2>2, <2>3, ZenonT(30) DEF CallsInv
  <1>8. CASE Raise
    BY <1>8, CallsQuiet, ZenonT(30) DEF Raise, Returns, poolVars, tables, MovesOnly
  <1>9. CASE Submit
    <2>1. UNCHANGED <<place, flags, effects>> /\ pc' \in {"harvest", "pump"} /\ job.row \in Rows \ Calls
      BY <1>9, NextStageFacts, ZenonT(30) DEF Submit, Ready, poolVars, Types
    <2>2. \A r \in Rows : \/ db'.status[r] = db.status[r]
                          \/ /\ r = job.row /\ db.status[r] = "in_flight"
                             /\ db'.status[r] \in {"done", "failed"}
      <3> DEFINE s == IF job.row \in Builds /\ ~job.ok THEN "failed" ELSE "done"
                 v == Settled(view, job.row, s)
      <3>2. s \in {"done", "failed"}
        OBVIOUS
      <3>3. Commit(v) \/ UNCHANGED tables
        BY <1>9, ZenonT(30) DEF Submit
      <3> HIDE DEF s
      <3>1. \A r \in Rows : v.status[r] =
              IF r = job.row /\ db.status[job.row] = "in_flight" THEN s ELSE db.status[r]
        <4>1. view \in Tables /\ view = db /\ s \in Status /\ job.row \in Rows
          BY <2>1, <3>2 DEF Types, Status
        <4>2. \A r \in Rows : v.status[r] =
                IF r = job.row /\ view.status[job.row] = "in_flight" THEN s ELSE view.status[r]
          BY <4>1, SettledFacts, ZenonT(30)
        <4> QED
          BY <4>1, <4>2, ZenonT(30)
      <3> HIDE DEF v
      <3>4. db' = v \/ db' = db
        BY <3>3, CommitFacts, ZenonT(30) DEF Types, tables
      <3> QED
        BY <3>1, <3>2, <3>4, ZenonT(30)
    <2>3. \A c \in Calls : db'.status[c] = db.status[c]
      BY <2>1, <2>2 DEF CallRows
    <2>4. \A r \in CallRows : db'.status[r] \in {"absent", "queued"} => db.status[r] \in {"absent", "queued"}
      BY <2>2 DEF CallRows
    <2> QED
      BY <2>1, <2>3, <2>4, ZenonT(30) DEF CallsInv, Types, Running
  <1>10. ASSUME NEW c \in Calls, Pool(c) PROVE CallsInv'
    BY <1>10, CallsPool, ZenonT(30)
  <1>11. CASE TimerFires \/ Install \/ UNCHANGED vars
    BY <1>11, CallsQuiet, ZenonT(30) DEF TimerFires, Install, vars, poolVars, spi, tables, MovesOnly
  <1>12. CASE Die \/ Crash
    <2>1. db' = db /\ effects' = effects /\ flags' = {} /\ pc' = "harvest"
          /\ \A c \in Calls : place'[c] = "none"
      BY <1>12, ZenonT(30) DEF Die, Crash, Restart
    <2> QED
      BY <2>1, ZenonT(30) DEF CallsInv, BeforeSend
  <1>14. ASSUME NEW r \in CallRows, Enqueue(r) PROVE CallsInv'
    <2>1. MovesOnly
      BY <1>14, WriteFacts, ZenonT(30) DEF Enqueue, MovesOnly, Moves, Status, CallRows
    <2> QED
      BY <1>14, <2>1, CallsQuiet, ZenonT(30) DEF Enqueue, poolVars, spi
  <1>15. ASSUME NEW r \in CallRows, Cancel(r) PROVE CallsInv'
    <2>1. MovesOnly
      BY <1>15, WriteFacts DEF Cancel, MovesOnly, Moves, Status, CallRows, tables
    <2> QED
      BY <1>15, <2>1, CallsQuiet, ZenonT(30) DEF Cancel, poolVars, spi
  <1>16. ASSUME NEW b \in Builds, Edit(b) PROVE CallsInv'
    <2>1. MovesOnly
      BY <1>16, EditFacts, ZenonT(30) DEF MovesOnly, CallRows
    <2> QED
      BY <1>16, <2>1, CallsQuiet, ZenonT(30) DEF Edit, poolVars, spi
  <1> QED
    BY <1>1, <1>2, <1>3, <1>4, <1>5, <1>6, <1>7, <1>8, <1>9, <1>10, <1>11, <1>12, <1>14, <1>15, <1>16, ZenonT(30)
       DEF Next, Spi, BuildStep, Operators

----------------------------------------------------------------------------
(* BuildsInv *)

\* A step that changes no routine, builds nothing and starts no build.
LEMMA BuildsQuiet ==
  ASSUME Types, BuildsInv, db'.body = db.body, db'.object = db.object,
         \A b \in Builds : db'.status[b] = "done" => db.status[b] = "done",
         job'.row \in Builds =>
           /\ pc' # "submit" \/ ~job'.ok \/ (pc = "submit" /\ job' = job /\ db'.status[job.row] = db.status[job.row])
           /\ pc' \notin Building \/ (pc \in Building /\ job' = job /\ db'.status[job.row] = db.status[job.row])
  PROVE  BuildsInv'
  <1>1. \A b \in Builds : Current(b)' = Current(b)
    BY DEF Current
  <1>2. (\A b \in Builds : db.status[b] = "done" => Current(b))'
    BY <1>1, ZenonT(30) DEF BuildsInv
  <1>3. (\A b \in Builds : db.object[b] # NoObject => db.object[b].guarded)'
    BY ZenonT(30) DEF BuildsInv
  <1>4. (pc \in Building /\ job.row \in Builds =>
          /\ db.status[job.row] \in {"queued", "in_flight"}
          /\ db.status[job.row] = "in_flight" => job.body = db.body[job.row])'
    BY ZenonT(30) DEF BuildsInv
  <1>5. (pc = "submit" /\ job.row \in Builds /\ job.ok /\ db.status[job.row] = "in_flight" =>
           Current(job.row))'
    BY <1>1, ZenonT(30) DEF BuildsInv, Current
  <1> QED
    BY <1>2, <1>3, <1>4, <1>5 DEF BuildsInv

\* A build of the body in the row leaves the object current; one of an older body meets a
\* row that is queued again.
LEMMA BuildsRun ==
  ASSUME Types, BuildsInv, BuildStep, "role_in_run" \notin Faults
  PROVE  BuildsInv'
  <1> DEFINE r == job.row
  <1>1. /\ pc \in Building /\ r \in Builds /\ job'.row = r /\ job'.body = job.body
        /\ db'.status = db.status /\ db'.body = db.body
        /\ \A x \in Builds : db'.object[x] =
             IF x = r /\ pc' = "submit" /\ job'.ok
             THEN [of |-> job.body, guarded |-> TRUE] ELSE db.object[x]
    BY BuildStepFacts, ZenonT(30)
  <1>2. /\ db.status[r] \in {"queued", "in_flight"}
        /\ db.status[r] = "in_flight" => job.body = db.body[r]
    BY <1>1, ZenonT(30) DEF BuildsInv
  <1> HIDE DEF r
  <1>3. \A b \in Builds : db'.status[b] = "done" =>
          db'.object[b] = [of |-> db'.body[b], guarded |-> TRUE]
    BY <1>1, <1>2, ZenonT(30) DEF BuildsInv, Current
  <1>4. \A b \in Builds : db'.object[b] # NoObject => db'.object[b].guarded
    BY <1>1, SMTT(30), Z3T(30) DEF BuildsInv
  <1>5. pc' = "submit" /\ job'.ok /\ db'.status[r] = "in_flight" =>
          db'.object[r] = [of |-> db'.body[r], guarded |-> TRUE]
    BY <1>1, <1>2, ZenonT(30)
  <1> QED
    BY <1>1, <1>2, <1>3, <1>4, <1>5, ZenonT(30) DEF BuildsInv, Current

\* A build ends as done only when it succeeded and its row was not touched.
LEMMA BuildsSubmit ==
  ASSUME Types, BuildsInv, Submit
  PROVE  BuildsInv'
  <1> USE RowFacts
  <1> DEFINE s == IF job.row \in Builds /\ ~job.ok THEN "failed" ELSE "done"
             v == Settled(view, job.row, s)
  <1>1. pc = "submit" /\ pc' \in {"harvest", "pump"} /\ job.row \in Rows
    BY NextStageFacts DEF Submit, Ready, Types
  <1>2. s \in Status /\ (job.row \in Builds /\ s = "done" => job.ok)
    BY ZenonT(30) DEF Status
  <1>3. Commit(v) \/ UNCHANGED tables
    BY ZenonT(30) DEF Submit
  <1> HIDE DEF s
  <1>4. /\ \A r \in Rows : v.status[r] = IF r = job.row /\ db.status[job.row] = "in_flight" THEN s ELSE db.status[r]
        /\ v.body = db.body /\ v.object = db.object
    <2>1. view \in Tables /\ view = db
      BY ZenonT(30) DEF Types
    <2> QED
      BY <1>1, <1>2, <2>1, SettledFacts
  <1> HIDE DEF v
  <1>5. db' = v \/ db' = db
    BY <1>3, CommitFacts, ZenonT(30) DEF Types, tables
  <1>6. db'.body = db.body /\ db'.object = db.object
    BY <1>4, <1>5, ZenonT(30)
  <1>7. \A b \in Builds : db'.status[b] = "done" =>
          \/ db.status[b] = "done"
          \/ b = job.row /\ job.ok /\ db.status[b] = "in_flight"
    BY <1>2, <1>4, <1>5, ZenonT(30)
  <1>8. \A b \in Builds : db'.status[b] = "done" => db.object[b] = [of |-> db.body[b], guarded |-> TRUE]
    BY <1>1, <1>7, ZenonT(30) DEF BuildsInv, Current
  <1> QED
    BY <1>1, <1>6, <1>8, ZenonT(30) DEF BuildsInv, Current, Building

\* Every step keeps the builds current.
LEMMA BuildsStep ==
  ASSUME Types, BuildsInv, [Next]_vars, "role_in_run" \notin Faults
  PROVE  BuildsInv'
  <1> USE RowFacts DEF Building
  <1>0. \A r \in CallRows : r \in Rows /\ r \notin Builds
    BY ZenonT(30) DEF CallRows
  <1>1. ASSUME NEW c \in Calls, SubmitResult(c) PROVE BuildsInv'
    <2> DEFINE v == Settled(view, c, "done")
    <2>1. v.body = db.body /\ v.object = db.object /\ \A b \in Builds : v.status[b] = db.status[b]
      <3>1. view \in Tables /\ view = db /\ c \in Rows /\ "done" \in Status
        BY ZenonT(30) DEF Types, Status
      <3> QED
        BY <1>0, <3>1, SettledFacts, SMTT(30), Z3T(30)
    <2> HIDE DEF v
    <2>2. db' = v \/ db' = db
      BY <1>1, CommitFacts, ZenonT(30) DEF SubmitResult, v, Types, tables
    <2> QED
      BY <1>1, <2>1, <2>2, BuildsQuiet, ZenonT(30) DEF SubmitResult, Ready
  <1>2. ASSUME NEW due \in BOOLEAN, Tick(due) PROVE BuildsInv'
    BY <1>2, BuildsQuiet, ZenonT(30) DEF Tick, tables
  <1>3. CASE ClaimHttp
    <2>1. pc' \in {"harvest", "pump"}
      BY <1>3, NextStageFacts, ZenonT(30) DEF ClaimHttp, Types
    <2>2. CASE UNCHANGED <<tables, place, in_flight>>
      BY <2>1, <2>2, BuildsQuiet, ZenonT(30) DEF tables
    <2>3. CASE ~UNCHANGED <<tables, place, in_flight>>
      <3>1. PICK v, C : Claims(v, C)
        BY <1>3, <2>3, ClaimHttpFacts, ZenonT(30)
      <3>2. /\ \A r \in Rows : db'.status[r] = IF r \in C THEN "in_flight" ELSE v.status[r]
            /\ db'.body = v.body /\ db'.object = v.object
        BY <3>1, ClaimsFacts, ZenonT(30)
      <3>3. db'.body = db.body /\ db'.object = db.object
        BY <3>1, <3>2, ZenonT(30) DEF Claims, Types
      <3>4. \A b \in Builds : db'.status[b] = "done" => db.status[b] = "done"
        BY <3>1, <3>2 DEF Claims, Types
      <3> QED
        BY <2>1, <3>3, <3>4, BuildsQuiet, ZenonT(30)
    <2> QED
      BY <2>2, <2>3, ZenonT(30)
  <1>4. CASE ClaimLocal
    <2>1. CASE UNCHANGED <<tables, job>> /\ pc' \in {"harvest", "pump"}
      BY <2>1, BuildsQuiet, ZenonT(30) DEF tables
    <2>2. ASSUME NEW r \in Rows \ Calls, GivesUp(r) PROVE BuildsInv'
      <3>1. db'.body = db.body /\ db'.object = db.object /\ \A b \in Builds : db'.status[b] = db.status[b]
        <4>1. \A b \in Builds : b \in Rows /\ b # r
          BY <2>2, ZenonT(30) DEF GivesUp, CallRows, Builds, Of
        <4> QED
          BY <2>2, <4>1, GivesUpFacts, ZenonT(30)
      <3> QED
        BY <2>2, <3>1, BuildsQuiet, ZenonT(30) DEF GivesUp
    <2>3. ASSUME NEW r \in Rows \ Calls, MakesJob(r) PROVE BuildsInv'
      <3>1. /\ db'.body = db.body /\ db'.object = db.object
            /\ \A q \in Rows : db'.status[q] = IF q = r THEN "in_flight" ELSE db.status[q]
        BY <2>3, MakesJobFacts, ZenonT(30)
      <3>2. pc' = "run" /\ job'.row = r /\ (r \in Builds => job'.body = db.body[r])
        BY <2>3, ZenonT(30) DEF MakesJob, Types
      <3> QED
        BY <3>1, <3>2, SMTT(30), Z3T(30) DEF BuildsInv, Current
    <2> QED
      BY <1>4, <2>1, <2>2, <2>3, ClaimLocalFacts, ZenonT(30)
  <1>5. CASE BuildStep
    BY <1>5, BuildsRun, ZenonT(30)
  <1>6. CASE BeginCall \/ Finish \/ Raise
    <2>1. db' = db /\ job'.row = job.row
      BY <1>6, NoOpen, ReturnsFacts, ZenonT(30) DEF BeginCall, Finish, Raise, tables, Types
    <2>2. pc' \notin Building /\ (pc' = "submit" => ~job'.ok \/ job.row \notin Builds)
      BY <1>6, NoOpen, ZenonT(30) DEF BeginCall, Finish, Raise, Returns, Ready, Types, Jobs, Building
    <2> QED
      BY <2>1, <2>2, BuildsQuiet, ZenonT(30)
  <1>9. CASE Submit
    BY <1>9, BuildsSubmit, ZenonT(30)
  <1>10. CASE (\E c \in Calls : Pool(c)) \/ TimerFires \/ Install \/ UNCHANGED vars
    <2>1. db' = db /\ pc' = pc /\ job' = job
      BY <1>10, ZenonT(30) DEF Pool, TimerFires, Install, vars, spi, tables
    <2> QED
      BY <2>1, BuildsQuiet, ZenonT(30)
  <1>12. CASE Die \/ Crash
    <2>1. db' = db /\ pc' = "harvest"
      BY <1>12, ZenonT(30) DEF Die, Crash, Restart
    <2> QED
      BY <2>1, BuildsQuiet, ZenonT(30)
  <1>14. ASSUME NEW r \in CallRows, Enqueue(r) \/ Cancel(r) PROVE BuildsInv'
    <2>1. UNCHANGED <<pc, job>>
      BY <1>14, ZenonT(30) DEF Enqueue, Cancel, spi
    <2>2. db'.body = db.body /\ db'.object = db.object /\ \A b \in Builds : db'.status[b] = db.status[b]
      BY <1>0, <1>14, WriteFacts, SMTT(30), Z3T(30) DEF Enqueue, Cancel, Status, tables
    <2> QED
      BY <2>1, <2>2, BuildsQuiet, ZenonT(30)
  <1>16. ASSUME NEW b \in Builds, Edit(b) PROVE BuildsInv'
    <2>1. /\ \A r \in Rows : db'.status[r] = IF r = b THEN "queued" ELSE db.status[r]
          /\ \A x \in Builds : x # b => db'.body[x] = db.body[x]
          /\ db'.object = db.object
      BY <1>16, EditFacts, ZenonT(30)
    <2>2. UNCHANGED <<pc, job>>
      BY <1>16, ZenonT(30) DEF Edit, spi
    <2>3. \A x \in Builds : db'.status[x] \in {"done", "in_flight"} =>
            x # b /\ db'.status[x] = db.status[x] /\ Current(x)' = Current(x) /\ db'.body[x] = db.body[x]
      BY <2>1, ZenonT(30) DEF Current
    <2>4. \A x \in Builds : db'.status[x] = db.status[x] \/ db'.status[x] = "queued"
      BY <2>1, ZenonT(30)
    <2>5. (pc \in Building /\ job.row \in Builds =>
            /\ db.status[job.row] \in {"queued", "in_flight"}
            /\ db.status[job.row] = "in_flight" => job.body = db.body[job.row])'
      BY <2>2, <2>3, <2>4, ZenonT(30) DEF BuildsInv
    <2>6. (pc = "submit" /\ job.row \in Builds /\ job.ok /\ db.status[job.row] = "in_flight" =>
             Current(job.row))'
      <3> SUFFICES ASSUME pc' = "submit", job.row \in Builds, job.ok, db'.status[job.row] = "in_flight"
                   PROVE  db'.object[job.row] = [of |-> db'.body[job.row], guarded |-> TRUE]
        BY <2>2, ZenonT(30) DEF Current
      <3> QED
        BY <2>1, <2>2, <2>3, ZenonT(30) DEF BuildsInv, Current
    <2>7. (\A x \in Builds : db.status[x] = "done" => Current(x))'
      BY <2>3, ZenonT(30) DEF BuildsInv
    <2>8. (\A x \in Builds : db.object[x] # NoObject => db.object[x].guarded)'
      BY <2>1, ZenonT(30) DEF BuildsInv
    <2> QED
      BY <2>5, <2>6, <2>7, <2>8, ZenonT(30) DEF BuildsInv
  <1> QED
    BY <1>1, <1>2, <1>3, <1>4, <1>5, <1>6, <1>9, <1>10, <1>12, <1>14, <1>16, ZenonT(30)
       DEF Next, Spi, BuildStep, Operators

----------------------------------------------------------------------------
(* InFlightExact *)

\* The pool holds finitely many calls.
LEMMA PoolFinite == IsFiniteSet(InPool) /\ Cardinality(InPool) \in Nat
  <1>1. InPool \subseteq Calls
    BY DEF InPool
  <1> QED
    BY <1>1, RowFacts, FS_Subset, FS_CardinalityType, ZenonT(30)

\* Every step keeps the count of in_flight exact.
LEMMA CountStep ==
  ASSUME Types, CallsInv, InFlightExact, [Next]_vars, "role_in_run" \notin Faults
  PROVE  InFlightExact'
  <1> USE DEF InFlightExact
  <1>0. capacity \in Nat /\ Cardinality({}) = 0
    BY PoolAssumption, FS_EmptySet DEF capacity
  <1>1. ASSUME NEW c \in Calls, SubmitResult(c) PROVE InFlightExact'
    <2>1. c \in InPool /\ InPool' = InPool \ {c}
      BY <1>1, ZenonT(30) DEF SubmitResult, InPool, Results, Types
    <2>2. Cardinality(InPool \ {c}) = Cardinality(InPool) - 1
      BY <2>1, PoolFinite, FS_RemoveElement, ZenonT(30)
    <2>3. Cardinality(InPool \ {c}) \in Nat
      BY PoolFinite, FS_Subset, FS_CardinalityType, ZenonT(30)
    <2>4. in_flight' = IF in_flight = 0 THEN 0 ELSE in_flight - 1
      BY <1>1, ZenonT(30) DEF SubmitResult
    <2> QED
      BY <1>0, <2>1, <2>2, <2>3, <2>4, PoolFinite
  <1>2. CASE ClaimHttp
    <2>1. CASE UNCHANGED <<tables, place, in_flight>>
      BY <2>1, ZenonT(30) DEF InPool
    <2>2. CASE ~UNCHANGED <<tables, place, in_flight>>
      <3>1. PICK v, C : Claims(v, C)
        BY <1>2, <2>2, ClaimHttpFacts, ZenonT(30)
      <3>2. /\ C \subseteq Calls /\ Send(C)
            /\ Cardinality(C) <= capacity - in_flight
        BY <3>1, ZenonT(30) DEF Claims
      <3>3. \A c \in C : place[c] = "none"
        BY <3>1, ZenonT(30) DEF CallsInv, Claims, Types
      <3>4. IsFiniteSet(C) /\ Cardinality(C) \in Nat
        BY <3>2, RowFacts, FS_Subset, FS_CardinalityType, ZenonT(30)
      <3>5. CASE threads > 0
        <4>1. InPool' = InPool \cup C /\ InPool \cap C = {}
          BY <3>2, <3>3, <3>5, ZenonT(30) DEF InPool, Send
        <4>2. Cardinality(InPool \cup C) = Cardinality(InPool) + Cardinality(C)
          <5>1. Cardinality(InPool \cup C) = Cardinality(InPool) + Cardinality(C) - Cardinality(InPool \cap C)
            BY <3>4, PoolFinite, FS_Union, ZenonT(30)
          <5>2. Cardinality(InPool \cap C) = 0
            BY <1>0, <4>1, ZenonT(30)
          <5> QED
            BY <3>4, <5>1, <5>2, PoolFinite
        <4>3. in_flight' = in_flight + Cardinality(C)
          BY <3>2, <3>5, ZenonT(30) DEF Send
        <4> QED
          BY <1>0, <3>2, <3>4, <4>1, <4>2, <4>3, PoolFinite, SMTT(30), Z3T(30)
      <3>6. CASE ~(threads > 0)
        BY <3>2, <3>6, ZenonT(30) DEF InPool, Send
      <3> QED
        BY <3>5, <3>6, ZenonT(30)
    <2> QED
      BY <2>1, <2>2, ZenonT(30)
  <1>3. ASSUME NEW c \in Calls, Pool(c) PROVE InFlightExact'
    <2>1. place[c] # "none" /\ place'[c] # "none" /\ \A x \in Calls : x # c => place'[x] = place[x]
      <3>1. PICK p : p # "none" /\ Goto(c, p)
        BY <1>3, ZenonT(30) DEF Pool, PoolStep, Recv, Dial, Answer, Fail, AfterAnswer, AfterError, Waiting
      <3> QED
        BY <1>3, <3>1, ZenonT(30) DEF Types, Goto, Pool, PoolStep, Recv, Dial, Answer, Fail, Running, Dialing, Waiting
    <2>2. InPool' = InPool /\ in_flight' = in_flight
      BY <1>3, <2>1, ZenonT(30) DEF InPool, Pool, spi
    <2> QED
      BY <2>2, ZenonT(30)
  <1>4. CASE Die \/ Crash
    <2>1. in_flight' = 0 /\ InPool' = {}
      BY <1>4, ZenonT(30) DEF Die, Crash, Restart, InPool
    <2> QED
      BY <1>0, <2>1
  <1>5. CASE \/ \E due \in BOOLEAN : Tick(due)
             \/ ClaimLocal \/ BuildStep \/ BeginCall \/ Finish \/ Raise \/ Submit
             \/ TimerFires \/ Operators \/ UNCHANGED vars
    <2>1. place' = place /\ in_flight' = in_flight
      BY <1>5, ZenonT(30) DEF Tick, ClaimLocal, BuildStep, Creates, Wraps, WrapFails,
                  BeginCall, Finish, Raise, Submit, TimerFires,
                  Operators, Install, Enqueue, Cancel, Edit, vars, poolVars, spi
    <2> QED
      BY <2>1, ZenonT(30) DEF InPool
  <1> QED
    BY <1>1, <1>2, <1>3, <1>4, <1>5, ZenonT(30) DEF Next, Spi, BuildStep

----------------------------------------------------------------------------
(* What each step does to the calls, in the terms of CallQueue *)

Same == \A r \in CallRows : db'.status[r] = db.status[r]

Enqueues(q) ==
  /\ db.status[q] = "absent"
  /\ \A r \in CallRows : db'.status[r] = IF r = q THEN "queued" ELSE db.status[r]
  /\ effects' = effects

Pumps ==
  /\ \A r \in CallRows :
       \/ db'.status[r] = db.status[r]
       \/ <<db.status[r], db'.status[r]>> \in
            {<<"queued", "in_flight">>, <<"queued", "lost">>, <<"in_flight", "lost">>}
  /\ effects' = effects

Acts(q) ==
  /\ db.status[q] \in {"in_flight", "lost"} /\ effects[q] = 0
  /\ effects' = [effects EXCEPT ![q] = 1]
  /\ Same

Settles(q) ==
  /\ db.status[q] = "in_flight"
  /\ \A r \in CallRows : db'.status[r] = IF r = q THEN "done" ELSE db.status[r]
  /\ effects' = effects

QueueStep ==
  \/ Same /\ effects' = effects
  \/ Pumps
  \/ \E q \in CallRows : Enqueues(q) \/ Acts(q) \/ Settles(q)

\* Every step is a step of the abstract queue, or leaves it as it is.
LEMMA CallsMove ==
  ASSUME Types, CallsInv, [Next]_vars, "role_in_run" \notin Faults
  PROVE  QueueStep
  <1> USE RowFacts
  <1>0. view = db /\ view \in Tables /\ \A r \in CallRows : r \in Rows /\ r \notin Builds
    BY DEF Types, CallRows
  <1>1. ASSUME NEW c \in Calls, SubmitResult(c) PROVE QueueStep
    <2> DEFINE v == Settled(view, c, "done")
    <2>1. \A r \in Rows : v.status[r] = IF r = c /\ db.status[c] = "in_flight" THEN "done" ELSE db.status[r]
      BY <1>0, SettledFacts, SMTT(30), Z3T(30) DEF Status
    <2> HIDE DEF v
    <2>2. effects' = effects /\ (db' = v \/ db' = db)
      BY <1>1, CommitFacts, ZenonT(30) DEF SubmitResult, v, Types, tables
    <2> QED
      BY <1>0, <2>1, <2>2, ZenonT(30) DEF QueueStep, Same, Settles
  <1>2. CASE ClaimHttp
    <2>1. effects' = effects
      BY <1>2, ZenonT(30) DEF ClaimHttp
    <2>2. CASE UNCHANGED <<tables, place, in_flight>>
      BY <2>1, <2>2, ZenonT(30) DEF tables, QueueStep, Same
    <2>3. CASE ~UNCHANGED <<tables, place, in_flight>>
      <3>1. PICK v, C : Claims(v, C)
        BY <1>2, <2>3, ClaimHttpFacts
      <3>2. \A r \in Rows : db'.status[r] = IF r \in C THEN "in_flight" ELSE v.status[r]
        BY <3>1, SetFacts DEF Claims, Status
      <3>3. \A c \in C : db.status[c] = "queued"
        BY <1>0, <3>1, ZenonT(30) DEF Claims
      <3>4. \A r \in CallRows \ C :
              db'.status[r] = db.status[r] \/ (db.status[r] = "in_flight" /\ db'.status[r] = "lost")
        BY <1>0, <3>1, <3>2, ZenonT(30) DEF Claims
      <3> QED
        BY <1>0, <2>1, <3>2, <3>3, <3>4, ZenonT(30) DEF QueueStep, Pumps
    <2> QED
      BY <2>2, <2>3, ZenonT(30)
  <1>3. CASE ClaimLocal
    <2>1. effects' = effects
      BY <1>3, ZenonT(30) DEF ClaimLocal
    <2>2. CASE UNCHANGED <<tables, job>>
      BY <2>1, <2>2, ZenonT(30) DEF tables, QueueStep, Same
    <2>3. ASSUME NEW r \in Rows \ Calls, view.status[r] = "queued", GivesUp(r) \/ MakesJob(r) PROVE QueueStep
      <3>1. PICK s \in {"lost", "in_flight"} : db' = Set(view, {r}, s)
        BY <2>3, ZenonT(30) DEF GivesUp, MakesJob
      <3>2. \A q \in Rows : db'.status[q] = IF q = r THEN s ELSE db.status[q]
        BY <1>0, <3>1, SetFacts, SMTT(30), Z3T(30) DEF Status
      <3> QED
        BY <1>0, <2>1, <2>3, <3>2, ZenonT(30) DEF QueueStep, Pumps
    <2> QED
      BY <1>3, <2>2, <2>3, ClaimLocalFacts, ZenonT(30)
  <1>4. CASE BuildStep
    BY <1>4, BuildStepFacts, ZenonT(30) DEF QueueStep, Same
  <1>5. CASE Finish
    <2>1. /\ job.row \in CallRows /\ db' = db
          /\ effects' = [effects EXCEPT ![job.row] = @ + 1]
      BY <1>5, ZenonT(30) DEF Finish, Ready, tables, Types, CallRows
    <2>2. db.status[job.row] \in {"in_flight", "lost"} /\ effects[job.row] = 0
      BY <1>5, <2>1, ZenonT(30) DEF CallsInv, Finish, Ready
    <2>3. effects' = [effects EXCEPT ![job.row] = 1]
      BY <2>1, <2>2, SMTT(30), Z3T(30) DEF Types
    <2> QED
      BY <2>1, <2>2, <2>3, ZenonT(30) DEF QueueStep, Acts, Same
  <1>6. CASE Submit
    <2> DEFINE s == IF job.row \in Builds /\ ~job.ok THEN "failed" ELSE "done"
               v == Settled(view, job.row, s)
    <2>1. job.row \in Rows /\ effects' = effects
      BY <1>6, ZenonT(30) DEF Submit, Ready, Types
    <2>2. s \in Status /\ (job.row \notin Builds => s = "done")
      BY ZenonT(30) DEF Status
    <2>3. Commit(v) \/ UNCHANGED tables
      BY <1>6, ZenonT(30) DEF Submit
    <2> HIDE DEF s
    <2>4. \A r \in Rows : v.status[r] = IF r = job.row /\ db.status[job.row] = "in_flight" THEN s ELSE db.status[r]
      BY <1>0, <2>1, <2>2, SettledFacts, SMTT(30), Z3T(30)
    <2> HIDE DEF v
    <2>5. db' = v \/ db' = db
      BY <2>3, CommitFacts, ZenonT(30) DEF Types, tables
    <2>6. CASE job.row \in Builds
      BY <1>0, <2>1, <2>4, <2>5, <2>6, ZenonT(30) DEF QueueStep, Same
    <2>7. CASE job.row \notin Builds
      <3>1. job.row \in CallRows
        BY <2>1, <2>7, ZenonT(30) DEF CallRows
      <3> QED
        BY <1>0, <2>1, <2>2, <2>4, <2>5, <2>7, <3>1, SMTT(30), Z3T(30) DEF QueueStep, Same, Settles
    <2> QED
      BY <2>6, <2>7, ZenonT(30)
  <1>7. ASSUME NEW c \in Calls, Pool(c) PROVE QueueStep
    <2>1. db' = db
      BY <1>7, ZenonT(30) DEF Pool, tables
    <2>2. CASE effects' = effects
      BY <2>1, <2>2, ZenonT(30) DEF QueueStep, Same
    <2>3. CASE effects' # effects
      <3>1. place[c] = "dial_tool" /\ effects' = [effects EXCEPT ![c] = @ + 1]
        BY <1>7, <2>3, ZenonT(30) DEF Pool, PoolStep, Recv, Dial, Answer, Fail
      <3>2. effects[c] = 0 /\ db.status[c] \in {"in_flight", "lost"}
        BY <3>1, ZenonT(30) DEF CallsInv, BeforeSend
      <3>3. effects' = [effects EXCEPT ![c] = 1]
        BY <3>1, <3>2, SMTT(30), Z3T(30) DEF Types
      <3> QED
        BY <2>1, <3>2, <3>3, ZenonT(30) DEF QueueStep, Acts, Same
    <2> QED
      BY <2>2, <2>3, ZenonT(30)
  <1>8. CASE \/ \E due \in BOOLEAN : Tick(due)
             \/ BeginCall \/ Raise \/ TimerFires \/ Install \/ Die \/ Crash \/ UNCHANGED vars
    <2>1. db' = db /\ effects' = effects
      BY <1>8, NoOpen, ZenonT(30) DEF Tick, BeginCall, Raise, TimerFires, Install, Die, Crash, Restart, vars, tables
    <2> QED
      BY <2>1, ZenonT(30) DEF QueueStep, Same
  <1>9. ASSUME NEW r \in CallRows, Enqueue(r) PROVE QueueStep
    <2>1. \A q \in Rows : db'.status[q] = IF q = r THEN "queued" ELSE db.status[q]
      BY <1>9, WriteFacts, ZenonT(30) DEF Enqueue, Status
    <2> QED
      BY <1>0, <1>9, <2>1, ZenonT(30) DEF Enqueue, QueueStep, Enqueues
  <1>10. ASSUME NEW r \in CallRows, Cancel(r) PROVE QueueStep
    <2>1. effects' = effects /\ db.status[r] \in {"queued", "in_flight"}
      BY <1>10, ZenonT(30) DEF Cancel
    <2>2. db' = db \/ \A q \in Rows : db'.status[q] = IF q = r THEN "lost" ELSE db.status[q]
      BY <1>10, WriteFacts, ZenonT(30) DEF Cancel, Status, tables
    <2> QED
      BY <1>0, <2>1, <2>2, ZenonT(30) DEF QueueStep, Same, Pumps
  <1>11. ASSUME NEW b \in Builds, Edit(b) PROVE QueueStep
    <2>1. Same
      BY <1>0, <1>11, EditFacts, ZenonT(30) DEF Same
    <2> QED
      BY <1>11, <2>1, ZenonT(30) DEF Edit, QueueStep
  <1> QED
    BY <1>1, <1>2, <1>3, <1>4, <1>5, <1>6, <1>7, <1>8, <1>9, <1>10, <1>11, ZenonT(30) DEF Next, Spi, BuildStep, Operators

----------------------------------------------------------------------------
(* Theorems *)

\* The inductive invariant of the worker: what the session sees is committed, a call that
\* has left the queue acts at most once, a build that is done is current, and the count of
\* calls in the pool is exact.
THEOREM WorkerInvariant == "role_in_run" \notin Faults => (Spec => []IInv)
  <1> SUFFICES ASSUME "role_in_run" \notin Faults PROVE Spec => []IInv
    OBVIOUS
  <1>1. Init => IInv
    <2> SUFFICES ASSUME Init PROVE IInv
      OBVIOUS
    <2>1. Types
      BY TypesInit
    <2>2. CallsInv /\ NoneFailed
      BY RowFacts, ZenonT(30) DEF Init, PoolInit, CallsInv, NoneFailed, BeforeSend, CallRows
    <2>3. BuildsInv
      BY RowFacts, ZenonT(30) DEF Init, BuildsInv, Current, Building
    <2>4. InFlightExact
      <3>1. InPool = {}
        BY ZenonT(30) DEF Init, PoolInit, InPool
      <3> QED
        BY <3>1, FS_EmptySet, PoolAssumption, SMTT(30), Z3T(30) DEF Init, InFlightExact, capacity
    <2> QED
      BY <2>1, <2>2, <2>3, <2>4 DEF IInv
  <1>2. IInv /\ [Next]_vars => IInv'
    <2> SUFFICES ASSUME IInv, [Next]_vars PROVE IInv'
      OBVIOUS
    <2>1. Types /\ CallsInv /\ BuildsInv /\ InFlightExact /\ NoneFailed
      BY DEF IInv
    <2>2. Types'
      BY <2>1, TypesStep, ZenonT(30)
    <2>3. CallsInv'
      BY <2>1, CallsStep, ZenonT(30)
    <2>4. BuildsInv'
      BY <2>1, BuildsStep, ZenonT(30)
    <2>5. InFlightExact'
      BY <2>1, CountStep, ZenonT(30)
    <2>6. NoneFailed'
      <3>1. QueueStep
        BY <2>1, CallsMove, ZenonT(30)
      <3> QED
        BY <2>1, <3>1, ZenonT(30) DEF NoneFailed, QueueStep, Same, Pumps, Enqueues, Acts, Settles
    <2> QED
      BY <2>2, <2>3, <2>4, <2>5, <2>6, ZenonT(30) DEF IInv
  <1> QED
    BY <1>1, <1>2, PTL DEF Spec

\* The state is well typed, and the pool never holds more calls than the loop has room for.
THEOREM WorkerTypes == "role_in_run" \notin Faults => (Spec => []TypeOK)
  <1> SUFFICES ASSUME "role_in_run" \notin Faults PROVE Spec => []TypeOK
    OBVIOUS
  <1>1. IInv => TypeOK
    <2> SUFFICES ASSUME IInv PROVE TypeOK
      OBVIOUS
    <2>1. effects \in [CallRows -> Nat] /\ in_flight \in 0..capacity
      BY PoolAssumption DEF IInv, Types, InFlightExact, capacity
    <2> QED
      BY <2>1, ZenonT(30) DEF IInv, Types, Tables, Status, TypeOK, Executing
  <1> QED
    BY <1>1, WorkerInvariant, PTL

\* For every pool and every bound the loop's count is what the pool holds (in_flight of
\* allgres_runtime_main).
THEOREM CountExact == "role_in_run" \notin Faults => (Spec => []InFlightExact)
  <1> SUFFICES ASSUME "role_in_run" \notin Faults PROVE Spec => []InFlightExact
    OBVIOUS
  <1>1. IInv => InFlightExact
    BY ZenonT(30) DEF IInv
  <1> QED
    BY <1>1, WorkerInvariant, PTL

\* No thread is stopped on behalf of another call: a call in the pool is flagged only
\* after its row was given up (propagate_outbound_cancellations).
THEOREM FlagsLostOnly == "role_in_run" \notin Faults => (Spec => []FlaggedIsLost)
  <1> SUFFICES ASSUME "role_in_run" \notin Faults PROVE Spec => []FlaggedIsLost
    BY ZenonT(30)
  <1>1. IInv => FlaggedIsLost
    BY ZenonT(30) DEF IInv, Types, CallsInv, FlaggedIsLost
  <1> QED
    BY <1>1, WorkerInvariant, PTL

\* A result that says "not sent" is true, whatever the pool, the server and the watchdog
\* do in between (the statuses of perform_http).
THEOREM UnsentTruthful == "role_in_run" \notin Faults => (Spec => []UnsentIsUnsent)
  <1> SUFFICES ASSUME "role_in_run" \notin Faults PROVE Spec => []UnsentIsUnsent
    BY ZenonT(30)
  <1>1. IInv => UnsentIsUnsent
    BY ZenonT(30) DEF IInv, Types, CallsInv, UnsentIsUnsent, BeforeSend
  <1> QED
    BY <1>1, WorkerInvariant, PTL

\* However edits, builds, crashes and the watchdog interleave, a routine that counts as
\* built is the guarded build of its present body.
THEOREM BuildsCurrent == "role_in_run" \notin Faults => (Spec => []BuiltIsCurrent)
  <1> SUFFICES ASSUME "role_in_run" \notin Faults PROVE Spec => []BuiltIsCurrent
    BY ZenonT(30)
  <1>1. IInv => BuiltIsCurrent
    BY ZenonT(30) DEF IInv, BuildsInv, Current, BuiltIsCurrent
  <1> QED
    BY <1>1, WorkerInvariant, PTL

\* No build commits an object without the guard, whichever of its CREATEs fails or is
\* interrupted, and wherever between them the worker ends.
THEOREM BuildsGuarded == "role_in_run" \notin Faults => (Spec => []AlwaysGuarded)
  <1> SUFFICES ASSUME "role_in_run" \notin Faults PROVE Spec => []AlwaysGuarded
    BY ZenonT(30)
  <1>1. IInv => AlwaysGuarded
    BY ZenonT(30) DEF IInv, BuildsInv, Current, AlwaysGuarded
  <1> QED
    BY <1>1, WorkerInvariant, PTL

\* A call of a routine acts only in the body of that routine, past the guard that asks
\* again whether it is built: what acts is the guarded build of the present body.
THEOREM CallsRunAsBuilt == "role_in_run" \notin Faults => (Spec => RunsAsBuilt)
  <1> SUFFICES ASSUME "role_in_run" \notin Faults PROVE Spec => RunsAsBuilt
    BY ZenonT(30)
  <1>1. ASSUME IInv, [Next]_vars, NEW r \in Of(RoutineQueues), effects'[r] # effects[r]
        PROVE  view.object[Callee[r]] = [of |-> view.body[Callee[r]], guarded |-> TRUE]
    <2>1. Types /\ BuildsInv /\ view = db
      BY <1>1, ZenonT(30) DEF IInv, Types
    <2>2. r \in CallRows /\ r \notin Calls /\ IsRoutineCall(r) /\ Callee[r] \in Builds
      BY RowFacts, WorkerAssumption, ZenonT(30)
         DEF Of, CallRows, Builds, IsRoutineCall, HttpQueues, BuildQueues, RoutineQueues
    <2>3. Finish
      <3>1. effects' # effects
        BY <1>1, ZenonT(30)
      <3>2. Finish \/ \E c \in Calls : Pool(c)
        BY <1>1, <3>1, ZenonT(30)
           DEF Next, Spi, SubmitResult, Tick, ClaimHttp, ClaimLocal, Creates, Wraps, WrapFails,
               BeginCall, Raise, Submit, Die, Crash, Restart, TimerFires, Operators, Install,
               Enqueue, Cancel, Edit, vars
      <3>3. ASSUME NEW c \in Calls, Pool(c) PROVE effects'[r] = effects[r]
        BY <2>1, <2>2, <3>3, ZenonT(30) DEF Pool, PoolStep, Recv, Dial, Answer, Fail, Types
      <3> QED
        BY <1>1, <3>2, <3>3, ZenonT(30)
    <2>4. job.row = r
      BY <1>1, <2>1, <2>2, <2>3, ZenonT(30) DEF Finish, Types
    <2>5. Asserts(r)
      BY <2>2, <2>3, <2>4, ZenonT(30) DEF Finish
    <2>6. db.status[Callee[r]] = "done"
      BY <2>1, <2>2, <2>5, ZenonT(30) DEF Asserts, Built, BuildsInv
    <2> QED
      BY <2>1, <2>2, <2>6, ZenonT(30) DEF BuildsInv, Current
  <1>2. IInv /\ [Next]_vars =>
          [\A r \in Of(RoutineQueues) : effects'[r] # effects[r] =>
             view.object[Callee[r]] = [of |-> view.body[Callee[r]], guarded |-> TRUE]]_vars
    BY <1>1, ZenonT(30)
  <1> QED
    BY <1>2, WorkerInvariant, PTL DEF Spec, RunsAsBuilt

\* The worker with its pool implements the abstract queue: every call is claimed once, acts
\* at most once and only after its claim is committed, and ends for good.
THEOREM WorkerImplementsCallQueue == "role_in_run" \notin Faults => (Spec => ImplementsCallQueue)
  <1> SUFFICES ASSUME "role_in_run" \notin Faults PROVE Spec => Promise!Spec
    BY ZenonT(30) DEF ImplementsCallQueue
  <1>1. Init => Promise!Init
    BY RowFacts DEF Init, Promise!Init, CallRows
  <1>2. IInv /\ [Next]_vars => [Promise!Next]_(Promise!qvars)
    <2> SUFFICES ASSUME IInv, [Next]_vars PROVE [Promise!Next]_(Promise!qvars)
      OBVIOUS
    <2>1. QueueStep /\ Types /\ NoneFailed
      BY CallsMove, ZenonT(30) DEF IInv
    <2>2. CASE Same /\ effects' = effects
      BY <2>2, ZenonT(30) DEF Same, Promise!qvars
    <2>3. CASE Pumps
      <3>1. \A r \in CallRows : db'.status[r] \in Promise!Statuses
        BY <2>1, <2>3, ZenonT(30) DEF Pumps, NoneFailed, Types, Tables, Status, CallRows, Promise!Statuses
      <3>2. Promise!Pump
        BY <2>3, <3>1, ZenonT(30) DEF Pumps, Promise!Pump
      <3> QED
        BY <3>2, ZenonT(30) DEF Promise!Next
    <2>4. ASSUME NEW q \in CallRows, Enqueues(q) PROVE Promise!Next
      BY <2>4, ZenonT(30) DEF Enqueues, Promise!Next, Promise!Enqueue
    <2>5. ASSUME NEW q \in CallRows, Acts(q) PROVE Promise!Next
      BY <2>5, ZenonT(30) DEF Acts, Same, Promise!Next, Promise!Act
    <2>6. ASSUME NEW q \in CallRows, Settles(q) PROVE Promise!Next
      BY <2>6, ZenonT(30) DEF Settles, Promise!Next, Promise!Settle
    <2> QED
      BY <2>1, <2>2, <2>3, <2>4, <2>5, <2>6, ZenonT(30) DEF QueueStep
  <1> QED
    BY <1>1, <1>2, WorkerInvariant, PTL DEF Spec, Promise!Spec

=============================================================================
