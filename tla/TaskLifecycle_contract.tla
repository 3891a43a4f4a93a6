---------------------- MODULE TaskLifecycle_contract ------------------------
(***************************************************************************)
(* Sessions keep the contract of SessionContract, for every value of the   *)
(* constants.                                                              *)
(***************************************************************************)
EXTENDS TaskLifecycle_sessions, TaskSessions

----------------------------------------------------------------------------
(* The contract of a session *)

\* u and t are root tasks of the same session.
SameTalk(ts, t, u) == ts[t].session = ts[u].session /\ ts[t].parent = 0 /\ ts[u].parent = 0

\* Ids are given out in order, so the root tasks of a session run in the order of their
\* ids; and a task that is still open has no answer yet.
TurnsFit(ts) ==
  /\ \A t \in Used(ts) : \A u \in TaskIds : u < t => u \in Used(ts)
  /\ \A t, u \in Used(ts) : SameTalk(ts, t, u) /\ u < t => ts[u].status \notin Open
  /\ \A t \in TaskIds : ts[t].status \in Open => ts[t].answer = FALSE

\* A new id is beyond those in use.
LEMMA NewestId ==
  ASSUME TurnsFit(tasks), NEW n \in NextId(tasks, MaxTasks)
  PROVE  n \in TaskIds /\ n \notin Used(tasks) /\ \A u \in Used(tasks) : u < n
<1>1. n \in TaskIds /\ tasks[n].status = "none"
  BY ZenonT(30) DEF NextId, TaskIds
<1>2. ASSUME NEW u \in Used(tasks)
      PROVE  u < n
  <2>1. u \in TaskIds /\ u # n /\ ~(n < u)
    BY <1>1, ZenonT(30) DEF Used, TurnsFit
  <2> QED
    BY <1>1, <2>1, SMTT(30), Z3T(30) DEF TaskIds
<1> QED
  BY <1>1, <1>2, ZenonT(30) DEF Used

\* An open task is rewritten.
LEMMA MovesKeepTurns ==
  ASSUME TypeInv, TurnsFit(tasks), NEW t \in TaskIds, NEW r, NEW ts, NEW ss, MovesTo(t, r, ts, ss)
  PROVE  TurnsFit(ts) /\ Used(ts) = Used(tasks)
<1>0. tasks \in [TaskIds -> TaskRow]
  BY DEF TypeInv, TasksTyped
<1>1. ts[t] = r /\ \A u \in TaskIds \ {t} : ts[u] = tasks[u]
  BY <1>0, ZenonT(30) DEF MovesTo
<1>2. /\ tasks[t].status \in Open /\ tasks[t].status # "none" /\ r.status # "none"
      /\ r.session = tasks[t].session /\ r.parent = tasks[t].parent
      /\ r.status \in Open => r.answer = tasks[t].answer
  BY DEF MovesTo, RowStep, SameOwner, Open, Holding, Terminal
<1>3. Used(ts) = Used(tasks)
  BY <1>1, <1>2, ZenonT(30) DEF Used
<1>4. ASSUME NEW u \in Used(ts), NEW v \in Used(ts), SameTalk(ts, u, v), v < u
      PROVE  ts[v].status \notin Open
  <2>1. u \in TaskIds /\ v \in TaskIds /\ u \in Used(tasks) /\ v \in Used(tasks)
    BY <1>3, ZenonT(30) DEF Used
  <2>2. SameTalk(tasks, u, v)
    BY <1>1, <1>2, <1>4, <2>1, ZenonT(30) DEF SameTalk
  <2>3. tasks[v].status \notin Open
    BY <1>4, <2>1, <2>2, ZenonT(30) DEF TurnsFit
  <2> QED
    BY <1>1, <1>2, <2>1, <2>3, ZenonT(30)
<1>5. ASSUME NEW u \in TaskIds, ts[u].status \in Open
      PROVE  ts[u].answer = FALSE
  BY <1>1, <1>2, <1>5, ZenonT(30) DEF TurnsFit
<1>6. \A u \in Used(ts) : \A v \in TaskIds : v < u => v \in Used(ts)
  BY <1>3, ZenonT(30) DEF TurnsFit
<1> QED
  BY <1>3, <1>4, <1>5, <1>6, ZenonT(30) DEF TurnsFit

\* A task is added under the next id: a child, or a root after every other root of its
\* session has ended.
LEMMA AddKeepsTurns ==
  ASSUME TurnsFit(tasks), NEW ts, TurnsFit(ts), Used(ts) = Used(tasks),
         NEW n \in NextId(tasks, MaxTasks), NEW us,
         us[n].status \in Open, us[n].answer = FALSE,
         \A u \in TaskIds \ {n} : us[u] = ts[u],
         \A u \in Used(ts) : SameTalk(us, n, u) => ts[u].status \notin Open
  PROVE  TurnsFit(us)
<1>1. n \in TaskIds /\ n \notin Used(ts) /\ \A u \in Used(ts) : u < n
  BY NewestId, ZenonT(30)
<1>2. \A u \in TaskIds : u < n => u \in Used(ts)
  <2>1. \A u \in TaskIds : u < n => u \in 1..(n - 1)
    BY <1>1, SMTT(30), Z3T(30) DEF TaskIds
  <2>2. \A u \in 1..(n - 1) : tasks[u].status # "none"
    BY ZenonT(30) DEF NextId
  <2> QED
    BY <2>1, <2>2, ZenonT(30) DEF Used
<1>3. us[n].status # "none"
  BY DEF Open, Holding
<1>4. Used(us) = Used(ts) \cup {n}
  BY <1>1, <1>3, ZenonT(30) DEF Used
<1>5. ASSUME NEW t \in Used(us), NEW u \in TaskIds, u < t
      PROVE  u \in Used(us)
  BY <1>2, <1>4, <1>5, ZenonT(30) DEF TurnsFit
<1>6. ASSUME NEW t \in Used(us), NEW u \in Used(us), SameTalk(us, t, u), u < t
      PROVE  us[u].status \notin Open
  <2>0. t \in TaskIds /\ u \in TaskIds /\ t \in Nat /\ u \in Nat /\ n \in Nat
    BY <1>1, SMTT(30), Z3T(30) DEF Used, TaskIds
  <2>1. u # n /\ u \in Used(ts)
    <3>1. CASE t = n
      BY <1>4, <1>6, <2>0, <3>1, SMTT(30), Z3T(30)
    <3>2. CASE t # n
      <4>1. t < n
        BY <1>1, <1>4, <3>2, ZenonT(30)
      <4> QED
        BY <1>4, <1>6, <2>0, <4>1, SMTT(30), Z3T(30)
    <3> QED
      BY <3>1, <3>2, ZenonT(30)
  <2>2. us[u] = ts[u]
    BY <2>0, <2>1, ZenonT(30)
  <2>3. CASE t = n
    BY <1>6, <2>1, <2>2, <2>3, ZenonT(30)
  <2>4. CASE t # n
    <3>1. t \in Used(ts) /\ us[t] = ts[t]
      BY <1>4, <2>0, <2>4, ZenonT(30)
    <3> QED
      BY <1>6, <2>1, <2>2, <3>1, ZenonT(30) DEF TurnsFit, SameTalk
  <2> QED
    BY <2>3, <2>4, ZenonT(30)
<1>7. ASSUME NEW t \in TaskIds, us[t].status \in Open
      PROVE  us[t].answer = FALSE
  BY <1>7, ZenonT(30) DEF TurnsFit
<1> QED
  BY <1>5, <1>6, <1>7, ZenonT(30) DEF TurnsFit

\* What the contract shows of a session depends on its own tasks only.
LEMMA SameView ==
  ASSUME NEW ts, NEW us, NEW s \in SessionIds,
         \A t \in TaskIds : us[t] = ts[t] \/ ~(InSession(ts, t, s) \/ InSession(us, t, s))
  PROVE  OpenRoots(us, s) = OpenRoots(ts, s) /\ RootAnswer(us, s) = RootAnswer(ts, s)
<1>1. "none" \notin Open
  BY DEF Open, Holding
<1>2. OpenRoots(us, s) = OpenRoots(ts, s)
  BY <1>1, ZenonT(30) DEF OpenRoots, InSession
<1>3. CompletedRoots(us, s) = CompletedRoots(ts, s)
  BY ZenonT(30) DEF CompletedRoots, InSession
<1>4. \A t \in CompletedRoots(ts, s) : us[t] = ts[t]
  BY ZenonT(30) DEF CompletedRoots, InSession
<1>5. RootAnswer(us, s) = RootAnswer(ts, s)
  BY <1>3, <1>4, ZenonT(30) DEF RootAnswer
<1> QED
  BY <1>2, <1>5, ZenonT(30)

\* An open task t is rewritten, and children may be added: the root tasks of its session.
LEMMA RootsMove ==
  ASSUME TypeInv, TurnsFit(tasks), NEW t \in TaskIds, tasks[t].status \in Open, NEW us,
         us[t].session = tasks[t].session, us[t].parent = tasks[t].parent,
         \A u \in TaskIds \ {t} :
           us[u] = tasks[u] \/ (tasks[u].status = "none" /\ us[u].parent # 0)
  PROVE  LET s == tasks[t].session
         IN  /\ us[t].status \in Open \/ tasks[t].parent # 0 => OpenRoots(us, s) = OpenRoots(tasks, s)
             /\ tasks[t].parent = 0 => OpenRoots(tasks, s) = {t}
             /\ tasks[t].parent = 0 /\ us[t].status \notin Open => OpenRoots(us, s) = {}
             /\ us[t].status # "completed" \/ tasks[t].parent # 0 =>
                  RootAnswer(us, s) = RootAnswer(tasks, s)
             /\ us[t].status = "completed" /\ tasks[t].parent = 0 =>
                  RootAnswer(us, s) = IF us[t].answer THEN {t} ELSE {}
<1> DEFINE s == tasks[t].session
<1>0. "none" \notin Open /\ "completed" \notin Open /\ t \in Used(tasks) /\ TaskIds \subseteq Nat
  BY DEF Open, Holding, Used, TaskIds
<1>1. us[t].status \in Open \/ tasks[t].parent # 0 => OpenRoots(us, s) = OpenRoots(tasks, s)
  BY <1>0, ZenonT(30) DEF OpenRoots
<1>2. ASSUME tasks[t].parent = 0, NEW u \in TaskIds, u # t, u \in Used(tasks),
             tasks[u].session = s, tasks[u].parent = 0
      PROVE  u < t /\ tasks[u].status \notin Open
  <2>1. SameTalk(tasks, t, u) /\ SameTalk(tasks, u, t)
    BY <1>2, ZenonT(30) DEF SameTalk
  <2>2. ~(t < u)
    BY <1>0, <1>2, <2>1, ZenonT(30) DEF TurnsFit
  <2>3. u < t
    BY <1>0, <1>2, <2>2, SMTT(30), Z3T(30)
  <2> QED
    BY <1>0, <1>2, <2>1, <2>3, ZenonT(30) DEF TurnsFit
<1>3. tasks[t].parent = 0 => OpenRoots(tasks, s) = {t}
  <2>1. tasks[t].parent = 0 => t \in OpenRoots(tasks, s)
    BY ZenonT(30) DEF OpenRoots
  <2>2. tasks[t].parent = 0 => \A u \in OpenRoots(tasks, s) : u = t
    BY <1>0, <1>2, ZenonT(30) DEF OpenRoots, Used
  <2> QED
    BY <2>1, <2>2, ZenonT(30)
<1>4. tasks[t].parent = 0 /\ us[t].status \notin Open => OpenRoots(us, s) = {}
  <2>1. us[t].status \notin Open => \A u \in OpenRoots(us, s) : u # t /\ u \in OpenRoots(tasks, s)
    BY ZenonT(30) DEF OpenRoots
  <2> QED
    BY <1>3, <2>1, ZenonT(30)
<1>5. ASSUME us[t].status # "completed" \/ tasks[t].parent # 0
      PROVE  RootAnswer(us, s) = RootAnswer(tasks, s)
  <2>1. CompletedRoots(us, s) = CompletedRoots(tasks, s)
    BY <1>0, <1>5, ZenonT(30) DEF CompletedRoots
  <2>2. \A u \in CompletedRoots(tasks, s) : us[u] = tasks[u]
    BY <1>0, ZenonT(30) DEF CompletedRoots
  <2> QED
    BY <2>1, <2>2, ZenonT(30) DEF RootAnswer
<1>6. ASSUME us[t].status = "completed", tasks[t].parent = 0
      PROVE  RootAnswer(us, s) = IF us[t].answer THEN {t} ELSE {}
  <2>1. t \in CompletedRoots(us, s)
    BY <1>6, ZenonT(30) DEF CompletedRoots
  <2>2. \A u \in CompletedRoots(us, s) : u # t => u < t
    BY <1>2, <1>6, ZenonT(30) DEF CompletedRoots, Used
  <2>3. \A u \in CompletedRoots(us, s) : u <= t /\ (u # t => ~(t <= u)) /\ u \in Nat
    BY <1>0, <2>2, SMTT(30), Z3T(30) DEF CompletedRoots
  <2> QED
    BY <2>1, <2>3, ZenonT(30) DEF RootAnswer
<1> QED
  BY <1>1, <1>3, <1>4, <1>5, <1>6, ZenonT(30)

\* maybe_complete_session, as the contract sees it.
LEMMA MaybeCompleteView ==
  ASSUME NEW ts, NEW ss \in [SessionIds -> SessionRow], NEW s \in SessionIds, ss[s].status = "open"
  PROVE  LET zz == MaybeComplete(ts, ss, s)
         IN  \/ OpenIn(ts, s) /\ zz = ss
             \/ /\ OpenRoots(ts, s) = {}
                /\ zz[s].status \in {"completed", "failed"}
                /\ RootAnswer(ts, s) # {} =>
                     zz[s].status = "completed" /\ zz[s].answer \in RootAnswer(ts, s)
                /\ zz[s].answer \in RootAnswer(ts, s) \cup {ss[s].answer}
<1> DEFINE zz == MaybeComplete(ts, ss, s)
           answered == RootAnswer(ts, s)
           answer == IF answered = {} THEN ss[s].answer ELSE CHOOSE t \in answered : TRUE
<1>1. CASE OpenIn(ts, s)
  BY <1>1, ZenonT(30) DEF MaybeComplete
<1>2. CASE ~OpenIn(ts, s)
  <2>1. OpenRoots(ts, s) = {}
    BY <1>2, ZenonT(30) DEF OpenRoots, OpenIn
  <2>2. \/ answered = {} /\ zz = [ss EXCEPT ![s].status = "failed"]
        \/ zz = [ss EXCEPT ![s].status = "completed", ![s].answer = answer]
    BY <1>2, ZenonT(30) DEF MaybeComplete
  <2>3. answered # {} => answer \in answered
    BY ZenonT(30)
  <2>4. answered = {} => answer = ss[s].answer
    OBVIOUS
  <2> HIDE DEF answered, answer, zz
  <2>5. /\ zz[s].status \in {"completed", "failed"}
        /\ answered # {} => zz[s].status = "completed" /\ zz[s].answer = answer
        /\ answered = {} => zz[s].answer = ss[s].answer
    BY <2>2, <2>4, ZenonT(30) DEF SessionRow
  <2> QED
    BY <2>1, <2>3, <2>5, ZenonT(30) DEF answered, zz
<1> QED
  BY <1>1, <1>2, ZenonT(30)

\* What a task may do to its session between the tables ts, ss and us, zz: nothing the
\* contract shows, end its turn or report an answer, or close the session.
Quiet(ts, ss, us, zz, s) ==
  /\ OpenRoots(us, s) = OpenRoots(ts, s) /\ RootAnswer(us, s) = RootAnswer(ts, s)
  /\ zz[s].status = ss[s].status /\ zz[s].answer = ss[s].answer

Works(ts, ss, us, zz, s) ==
  /\ ss[s].status = "open" /\ zz[s].status = "open"
  /\ \/ /\ OpenRoots(us, s) = OpenRoots(ts, s) /\ RootAnswer(us, s) = RootAnswer(ts, s)
        /\ zz[s].answer \in TaskIds
     \/ /\ OpenRoots(ts, s) # {} /\ OpenRoots(us, s) = {}
        /\ \/ RootAnswer(us, s) = OpenRoots(ts, s) /\ zz[s].answer \in OpenRoots(ts, s)
           \/ RootAnswer(us, s) \in {{}, RootAnswer(ts, s)} /\ zz[s].answer = ss[s].answer

Closes(ts, ss, us, zz, s) ==
  /\ ss[s].status = "open" /\ zz[s].status \in {"completed", "failed"}
  /\ OpenRoots(us, s) = {}
  /\ \/ RootAnswer(us, s) = RootAnswer(ts, s)
     \/ OpenRoots(ts, s) # {} /\ RootAnswer(us, s) = OpenRoots(ts, s)
  /\ RootAnswer(us, s) # {} => zz[s].status = "completed" /\ zz[s].answer \in RootAnswer(us, s)
  /\ zz[s].answer \in TaskIds \cup {ss[s].answer}

Promise(ts, ss, us, zz, s) ==
  Quiet(ts, ss, us, zz, s) \/ Works(ts, ss, us, zz, s) \/ Closes(ts, ss, us, zz, s)

\* A task that moves on keeps the promise of every session.
LEMMA MovesPromise ==
  ASSUME TypeInv, Fits(tasks, sessions), TurnsFit(tasks),
         NEW t \in TaskIds, NEW r, NEW ts, NEW ss, MovesTo(t, r, ts, ss), NEW x \in SessionIds
  PROVE  Promise(tasks, sessions, ts, ss, x)
<1> DEFINE s == tasks[t].session
           zz == [sessions EXCEPT ![s].answer = t]
<1>0. /\ tasks \in [TaskIds -> TaskRow] /\ sessions \in [SessionIds -> SessionRow]
      /\ tasks[t].status \in Open /\ s \in SessionIds /\ t \in Nat
      /\ r.session = s /\ r.parent = tasks[t].parent
  <2>1. tasks \in [TaskIds -> TaskRow] /\ sessions \in [SessionIds -> SessionRow]
    BY ZenonT(30) DEF TypeInv, TasksTyped
  <2>2. tasks[t].status \in Open /\ r.session = s /\ r.parent = tasks[t].parent
    BY ZenonT(30) DEF MovesTo, RowStep, SameOwner
  <2>3. "none" \notin Open
    BY ZenonT(30) DEF Open, Holding
  <2>4. s \in SessionIds
    BY <2>2, <2>3, ZenonT(30) DEF TypeInv, TasksTyped
  <2>5. t \in Nat
    BY SMTT(30), Z3T(30) DEF TaskIds
  <2> QED
    BY <2>1, <2>2, <2>4, <2>5, ZenonT(30)
<1>1. ts[t] = r /\ \A u \in TaskIds \ {t} : ts[u] = tasks[u]
  BY <1>0, ZenonT(30) DEF MovesTo
<1>2. sessions[s].status = "open"
  BY <1>0, ZenonT(30) DEF Fits, SessionFits, OpenIn
<1>3. /\ r.status \in Open \/ tasks[t].parent # 0 => OpenRoots(ts, s) = OpenRoots(tasks, s)
      /\ tasks[t].parent = 0 => OpenRoots(tasks, s) = {t}
      /\ tasks[t].parent = 0 /\ r.status \notin Open => OpenRoots(ts, s) = {}
      /\ r.status # "completed" \/ tasks[t].parent # 0 => RootAnswer(ts, s) = RootAnswer(tasks, s)
      /\ r.status = "completed" /\ tasks[t].parent = 0 =>
           RootAnswer(ts, s) = IF r.answer THEN {t} ELSE {}
  BY <1>0, <1>1, RootsMove, ZenonT(30)
<1>4. /\ zz \in [SessionIds -> SessionRow] /\ zz[s].status = "open" /\ zz[s].answer = t
      /\ \A y \in SessionIds \ {s} : zz[y] = sessions[y]
  BY <1>0, <1>2, ZenonT(30) DEF SessionRow
<1>o. "failed" \notin Open /\ "completed" \notin Open /\ "completed" # "failed"
  BY ZenonT(30) DEF Open, Holding
<1>r. RootAnswer(ts, s) \subseteq TaskIds
  BY ZenonT(30) DEF RootAnswer, CompletedRoots
<1>m. \/ ss = sessions \/ ss = MaybeComplete(ts, sessions, s) \/ ss = MaybeComplete(ts, zz, s)
  BY <1>0, ZenonT(30) DEF MovesTo
<1> HIDE DEF zz
<1>5. CASE x # s
  <2>1. ss[x] = sessions[x]
    <3>1. \A y \in SessionIds \ {s} : MaybeComplete(ts, sessions, s)[y] = sessions[y]
      BY <1>0, <1>2, MaybeCompleteFits, SMTT(30), Z3T(30)
    <3>2. \A y \in SessionIds \ {s} : MaybeComplete(ts, zz, s)[y] = zz[y]
      BY <1>0, <1>4, MaybeCompleteFits, SMTT(30), Z3T(30)
    <3> QED
      BY <1>4, <1>5, <1>m, <3>1, <3>2, ZenonT(30)
  <2>2. \A u \in TaskIds : ts[u] = tasks[u] \/ ~(InSession(tasks, u, x) \/ InSession(ts, u, x))
    BY <1>0, <1>1, <1>5, ZenonT(30) DEF InSession
  <2> QED
    BY <2>1, <2>2, SameView, ZenonT(30) DEF Promise, Quiet
<1>6. CASE x = s /\ r.status \in Open /\ ss = sessions
  BY <1>3, <1>6, <1>o, ZenonT(30) DEF Promise, Quiet
<1>7. CASE x = s /\ r.status = "failed" /\ ss = MaybeComplete(ts, sessions, s)
  <2>1. RootAnswer(ts, s) = RootAnswer(tasks, s)
    BY <1>3, <1>7, <1>o, ZenonT(30)
  <2>2. \/ ss = sessions
        \/ /\ OpenRoots(ts, s) = {}
           /\ ss[s].status \in {"completed", "failed"}
           /\ RootAnswer(ts, s) # {} => ss[s].status = "completed" /\ ss[s].answer \in RootAnswer(ts, s)
           /\ ss[s].answer \in RootAnswer(ts, s) \cup {sessions[s].answer}
    BY <1>0, <1>2, <1>7, MaybeCompleteView, ZenonT(30)
  <2>3. CASE ss = sessions /\ tasks[t].parent = 0
    BY <1>2, <1>3, <1>7, <1>o, <2>1, <2>3, ZenonT(30) DEF Promise, Works
  <2>4. CASE ss = sessions /\ tasks[t].parent # 0
    BY <1>3, <1>7, <2>1, <2>4, ZenonT(30) DEF Promise, Quiet
  <2>5. CASE ss # sessions
    BY <1>2, <1>7, <1>r, <2>1, <2>2, <2>5, ZenonT(30) DEF Promise, Closes
  <2> QED
    BY <2>3, <2>4, <2>5, ZenonT(30)
<1>8. CASE x = s /\ r.status = "completed" /\ r.answer /\ ss = MaybeComplete(ts, zz, s)
  <2>1. \/ ss = zz
        \/ /\ OpenRoots(ts, s) = {}
           /\ ss[s].status \in {"completed", "failed"}
           /\ RootAnswer(ts, s) # {} => ss[s].status = "completed" /\ ss[s].answer \in RootAnswer(ts, s)
           /\ ss[s].answer \in RootAnswer(ts, s) \cup {t}
    BY <1>0, <1>4, <1>8, MaybeCompleteView, SMTT(30), Z3T(30)
  <2>2. \/ RootAnswer(ts, s) = RootAnswer(tasks, s)
        \/ OpenRoots(tasks, s) # {} /\ RootAnswer(ts, s) = OpenRoots(tasks, s)
    BY <1>3, <1>8, ZenonT(30)
  <2>3. CASE ss = zz /\ tasks[t].parent = 0
    BY <1>2, <1>3, <1>4, <1>8, <1>o, <2>3, ZenonT(30) DEF Promise, Works
  <2>4. CASE ss = zz /\ tasks[t].parent # 0
    BY <1>2, <1>3, <1>4, <1>8, <2>4, ZenonT(30) DEF Promise, Works
  <2>5. CASE ss # zz
    BY <1>2, <1>8, <1>r, <2>1, <2>2, <2>5, ZenonT(30) DEF Promise, Closes
  <2> QED
    BY <2>3, <2>4, <2>5, ZenonT(30)
<1> QED
  BY <1>0, <1>5, <1>6, <1>7, <1>8, ZenonT(30) DEF MovesTo, zz

\* Handing a job over ends the turn without an answer; delegating does nothing else to a session.
LEMMA DelegatePromise ==
  ASSUME TypeInv, Fits(tasks, sessions), TurnsFit(tasks), NEW x \in SessionIds,
         NEW c \in CallIds, NEW b \in Agents, NEW w \in BOOLEAN, Delegate(c, b, w)
  PROVE  Promise(tasks, sessions, tasks', sessions', x) /\ TurnsFit(tasks')
<1> DEFINE t == calls[c].task
           s == tasks[t].session
           st == IF w THEN "running" ELSE "completed"
           r == StepTo(tasks[t], st)
<1>1. t \in TaskIds /\ tasks[t].status = "running" /\ tasks[t] \in TaskRow /\ t # 0
  <2>1. t \in TaskIds /\ tasks[t].status = "running" /\ tasks[t] \in TaskRow
    BY DeliveredTask, ZenonT(30) DEF Delegate, Says, Answers
  <2> QED
    BY <2>1, SMTT(30), Z3T(30) DEF TaskIds
<1>2. SameOwner(r, tasks[t]) /\ r.answer = tasks[t].answer /\ r.status = st
  <2>1. st \in Statuses
    BY DEF Statuses, Open, Holding, Terminal
  <2> QED
    BY <1>1, <2>1, StatusMoves, AnswerKept, ZenonT(30)
<1>3. PICK n \in NextId(tasks, MaxTasks) :
        /\ tasks' = [tasks EXCEPT ![t] = r, ![n] = NewTask(b, s, t, tasks[t].depth + 1)]
        /\ sessions' = sessions
  BY ZenonT(30) DEF Delegate, StepTo
<1>4. n \in TaskIds /\ tasks[n].status = "none" /\ n # t
  BY <1>1, ZenonT(30) DEF NextId, TaskIds
<1>o. /\ "running" \in Open /\ "queued" \in Open /\ "completed" \notin Open /\ "none" \notin Open
      /\ "completed" # "none"
  BY ZenonT(30) DEF Open, Holding
<1>5. /\ tasks[t].status \in Open /\ r.session = s /\ r.parent = tasks[t].parent
      /\ r.answer = FALSE /\ r.status \in {"running", "completed"} /\ s \in SessionIds
  <2>1. tasks[t].status \in Open /\ r.session = s /\ r.parent = tasks[t].parent
    BY <1>1, <1>2, <1>o, ZenonT(30) DEF SameOwner
  <2>2. r.answer = FALSE
    BY <1>1, <1>2, <2>1, ZenonT(30) DEF TurnsFit
  <2>3. s \in SessionIds
    BY <1>1, ZenonT(30) DEF TypeInv, TasksTyped
  <2> QED
    BY <1>2, <2>1, <2>2, <2>3, ZenonT(30)
<1> HIDE DEF r, t
<1>6. /\ tasks'[t] = r /\ tasks'[n] = NewTask(b, s, t, tasks[t].depth + 1)
      /\ \A u \in TaskIds \ {t, n} : tasks'[u] = tasks[u]
  BY <1>1, <1>3, <1>4, ZenonT(30) DEF TypeInv, TasksTyped
<1>7. /\ tasks'[n].session = s /\ tasks'[n].parent = t /\ tasks'[n].status = "queued"
      /\ tasks'[n].answer = FALSE
  BY <1>6, SMTT(30), Z3T(30) DEF NewTask
<1>8. Promise(tasks, sessions, tasks', sessions', x)
  <2>1. CASE x # s
    <3>1. \A u \in TaskIds : tasks'[u] = tasks[u] \/ ~(InSession(tasks, u, x) \/ InSession(tasks', u, x))
      BY <1>4, <1>5, <1>6, <1>7, <2>1, ZenonT(30) DEF InSession
    <3> QED
      BY <1>3, <3>1, SameView, ZenonT(30) DEF Promise, Quiet
  <2>2. CASE x = s
    <3>1. /\ \A u \in TaskIds \ {t} :
               tasks'[u] = tasks[u] \/ (tasks[u].status = "none" /\ tasks'[u].parent # 0)
      BY <1>1, <1>4, <1>6, <1>7, ZenonT(30)
    <3>2. /\ r.status \in Open \/ tasks[t].parent # 0 => OpenRoots(tasks', s) = OpenRoots(tasks, s)
          /\ tasks[t].parent = 0 => OpenRoots(tasks, s) = {t}
          /\ tasks[t].parent = 0 /\ r.status \notin Open => OpenRoots(tasks', s) = {}
          /\ r.status # "completed" \/ tasks[t].parent # 0 =>
               RootAnswer(tasks', s) = RootAnswer(tasks, s)
          /\ r.status = "completed" /\ tasks[t].parent = 0 =>
               RootAnswer(tasks', s) = IF r.answer THEN {t} ELSE {}
      BY <1>1, <1>5, <1>6, <3>1, RootsMove, ZenonT(30)
    <3>3. sessions[s].status = "open"
      BY <1>1, <1>5, ZenonT(30) DEF Fits, SessionFits, OpenIn
    <3>4. CASE r.status = "completed" /\ tasks[t].parent = 0
      BY <1>3, <1>5, <1>o, <2>2, <3>2, <3>3, <3>4, ZenonT(30) DEF Promise, Works
    <3>5. CASE ~(r.status = "completed" /\ tasks[t].parent = 0)
      BY <1>3, <1>5, <1>o, <2>2, <3>2, <3>5, ZenonT(30) DEF Promise, Quiet
    <3> QED
      BY <3>4, <3>5, ZenonT(30)
  <2> QED
    BY <2>1, <2>2, ZenonT(30)
<1>9. TurnsFit(tasks')
  <2> DEFINE ts == [tasks EXCEPT ![t] = r]
  <2>1. ts[t] = r /\ \A u \in TaskIds \ {t} : ts[u] = tasks[u]
    BY <1>1 DEF TypeInv, TasksTyped
  <2> HIDE DEF ts
  <2>2. Used(ts) = Used(tasks)
    BY <1>1, <1>5, <2>1, ZenonT(30) DEF Used
  <2>3. TurnsFit(ts)
    <3>1. ASSUME NEW u \in Used(ts), NEW v \in Used(ts), SameTalk(ts, u, v), v < u
          PROVE  ts[v].status \notin Open
      <4>1. u \in TaskIds /\ v \in TaskIds /\ u \in Used(tasks) /\ v \in Used(tasks)
        BY <2>2, ZenonT(30) DEF Used
      <4>2. SameTalk(tasks, u, v)
        BY <1>5, <2>1, <3>1, <4>1, ZenonT(30) DEF SameTalk
      <4>3. tasks[v].status \notin Open
        BY <3>1, <4>1, <4>2, ZenonT(30) DEF TurnsFit
      <4> QED
        BY <1>5, <2>1, <4>1, <4>3, ZenonT(30)
    <3>2. \A u \in TaskIds : ts[u].status \in Open => ts[u].answer = FALSE
      BY <1>5, <2>1, ZenonT(30) DEF TurnsFit
    <3>3. \A u \in Used(ts) : \A v \in TaskIds : v < u => v \in Used(ts)
      BY <2>2, ZenonT(30) DEF TurnsFit
    <3> QED
      BY <3>1, <3>2, <3>3, ZenonT(30) DEF TurnsFit
  <2>4. \A u \in TaskIds \ {n} : tasks'[u] = ts[u]
    BY <1>6, <2>1, ZenonT(30)
  <2>5. \A u \in Used(ts) : SameTalk(tasks', n, u) => ts[u].status \notin Open
    BY <1>1, <1>7, ZenonT(30) DEF SameTalk
  <2> QED
    BY <1>7, <1>o, <2>2, <2>3, <2>4, <2>5, AddKeepsTurns, ZenonT(30)
<1> QED
  BY <1>8, <1>9, ZenonT(30)

\* The promise is what the contract allows.
LEMMA PromiseKept ==
  ASSUME NEW s \in SessionIds, Promise(tasks, sessions, tasks', sessions', s)
  PROVE  Contract!Interim(s) \/ Contract!TurnOver(s) \/ Contract!Close(s) \/ Contract!Stay(s)
<1>1. CASE Quiet(tasks, sessions, tasks', sessions', s)
  BY <1>1, ZenonT(30) DEF Quiet, Contract!Stay
<1>2. CASE Works(tasks, sessions, tasks', sessions', s)
  BY <1>2, ZenonT(30) DEF Works, Contract!Interim, Contract!TurnOver
<1>3. CASE Closes(tasks, sessions, tasks', sessions', s)
  BY <1>3, ZenonT(30) DEF Closes, Contract!Close
<1> QED
  BY <1>1, <1>2, <1>3, ZenonT(30) DEF Promise

\* A session begins, after a task of another one has moved on to ts and ss.
LEMMA BeginsPromise ==
  ASSUME TypeInv, TurnsFit(tasks), NEW ts, NEW ss, TurnsFit(ts), Used(ts) = Used(tasks),
         \A u \in TaskIds : ts[u].session = tasks[u].session,
         DOMAIN ts = TaskIds, DOMAIN ss = SessionIds,
         \A s \in SessionIds : Promise(tasks, sessions, ts, ss, s),
         NEW a, Begins(a, ts, ss)
  PROVE  /\ TurnsFit(tasks')
         /\ \A s \in SessionIds : Promise(tasks, sessions, tasks', sessions', s) \/ Contract!Begin(s)
<1>1. PICK x \in NextId(sessions, MaxSessions), n \in NextId(tasks, MaxTasks), target \in Nat :
        /\ sessions' = [ss EXCEPT ![x] = NewSession(a, target)]
        /\ tasks' = [ts EXCEPT ![n] = NewTask(a, x, 0, 0)]
  BY ZenonT(30) DEF Begins
<1>2. /\ x \in SessionIds /\ sessions[x].status = "none"
      /\ n \in TaskIds /\ n \notin Used(ts)
  BY ZenonT(30) DEF NextId, SessionIds, TaskIds, Used
<1>3. /\ tasks'[n].session = x /\ tasks'[n].parent = 0 /\ tasks'[n].status = "queued"
      /\ tasks'[n].answer = FALSE
      /\ \A u \in TaskIds \ {n} : tasks'[u] = ts[u]
  BY <1>1, <1>2, ZenonT(30) DEF NewTask
<1>4. /\ sessions'[x].status = "open" /\ sessions'[x].answer = 0
      /\ \A s \in SessionIds \ {x} : sessions'[s] = ss[s]
  BY <1>1, <1>2, ZenonT(30) DEF NewSession
<1>o. "queued" \in Open /\ "none" \notin Open /\ "queued" # "completed" /\ "none" # "completed"
  BY DEF Open, Holding
<1>5. \A u \in Used(ts) : u \in TaskIds /\ u # n /\ tasks'[u].session # x /\ tasks'[u] = ts[u]
  <2>1. \A u \in Used(ts) : u \in TaskIds /\ tasks[u].session # x
    BY <1>2, ZenonT(30) DEF Used, TypeInv, TasksTyped
  <2> QED
    BY <1>2, <1>3, <2>1, ZenonT(30)
<1>6. \A u \in TaskIds \ {n} : u \notin Used(ts) => tasks'[u].status = "none"
  BY <1>3, ZenonT(30) DEF Used
<1>7. TurnsFit(tasks')
  <2>1. \A u \in Used(ts) : SameTalk(tasks', n, u) => ts[u].status \notin Open
    BY <1>3, <1>5, ZenonT(30) DEF SameTalk
  <2>2. tasks'[n].status \in Open
    BY <1>3, <1>o, ZenonT(30)
  <2> QED
    BY <1>3, <2>1, <2>2, AddKeepsTurns, ZenonT(30)
<1>8. Contract!Begin(x)
  <2>1. OpenRoots(tasks', x) = {n}
    BY <1>2, <1>3, <1>5, <1>6, <1>o, ZenonT(30) DEF OpenRoots
  <2>2. RootAnswer(tasks', x) = {}
    <3>1. CompletedRoots(tasks', x) = {}
      BY <1>3, <1>5, <1>6, <1>o, ZenonT(30) DEF CompletedRoots
    <3> QED
      BY <3>1, ZenonT(30) DEF RootAnswer
  <2> QED
    BY <1>2, <1>4, <2>1, <2>2, ZenonT(30) DEF Contract!Begin
<1>9. ASSUME NEW s \in SessionIds, s # x
      PROVE  Promise(tasks, sessions, tasks', sessions', s)
  <2>1. \A u \in TaskIds : tasks'[u] = ts[u] \/ ~(InSession(ts, u, s) \/ InSession(tasks', u, s))
    BY <1>2, <1>3, <1>9, ZenonT(30) DEF InSession, Used
  <2>2. OpenRoots(tasks', s) = OpenRoots(ts, s) /\ RootAnswer(tasks', s) = RootAnswer(ts, s)
    BY <2>1, SameView, ZenonT(30)
  <2>3. sessions'[s] = ss[s]
    BY <1>4, <1>9, ZenonT(30)
  <2> QED
    BY <2>2, <2>3, ZenonT(30) DEF Promise, Quiet, Works, Closes
<1> QED
  BY <1>7, <1>8, <1>9, ZenonT(30)

\* A message is taken when the turn before it has ended.
LEMMA ContinuePromise ==
  ASSUME TypeInv, TurnsFit(tasks), NEW s \in SessionIds, ContinueSession(s)
  PROVE  /\ TurnsFit(tasks')
         /\ Contract!FollowUp(s)
         /\ \A x \in SessionIds \ {s} : Promise(tasks, sessions, tasks', sessions', x)
<1>1. PICK n \in NextId(tasks, MaxTasks) :
        tasks' = [tasks EXCEPT ![n] = NewTask(sessions[s].agent, s, 0, 0)]
  BY ZenonT(30) DEF ContinueSession
<1>2. n \in TaskIds /\ n \notin Used(tasks) /\ \A u \in Used(tasks) : u < n
  BY NewestId, ZenonT(30)
<1>3. /\ tasks'[n].session = s /\ tasks'[n].parent = 0 /\ tasks'[n].status = "queued"
      /\ tasks'[n].answer = FALSE
      /\ \A u \in TaskIds \ {n} : tasks'[u] = tasks[u]
  BY <1>1, <1>2, ZenonT(30) DEF NewTask, TypeInv, TasksTyped
<1>4. /\ sessions[s].status # "none" /\ sessions'[s].status = "open"
      /\ sessions'[s].answer = sessions[s].answer
      /\ \A x \in SessionIds \ {s} : sessions'[x] = sessions[x]
  BY SMTT(30), Z3T(30) DEF ContinueSession, TypeInv, TasksTyped, SessionRow
<1>5. \A t \in TaskIds : tasks[t].session = s /\ tasks[t].parent = 0 => tasks[t].status \notin Open
  BY ZenonT(30) DEF ContinueSession
<1>o. "queued" \in Open /\ "none" \notin Open /\ "queued" # "completed" /\ "none" # "completed"
  BY ZenonT(30) DEF Open, Holding
<1>6. TurnsFit(tasks')
  <2>1. \A u \in Used(tasks) : SameTalk(tasks', n, u) => tasks[u].status \notin Open
    BY <1>2, <1>3, <1>5, ZenonT(30) DEF SameTalk, Used
  <2>2. tasks'[n].status \in Open
    BY <1>3, <1>o, ZenonT(30)
  <2> QED
    BY <1>3, <2>1, <2>2, AddKeepsTurns, ZenonT(30)
<1>7. Contract!FollowUp(s)
  <2>1. OpenRoots(tasks, s) = {}
    BY <1>5, ZenonT(30) DEF OpenRoots
  <2>2. OpenRoots(tasks', s) = {n}
    BY <1>2, <1>3, <1>5, <1>o, ZenonT(30) DEF OpenRoots
  <2>3. CompletedRoots(tasks', s) = CompletedRoots(tasks, s)
    BY <1>2, <1>3, <1>o, ZenonT(30) DEF CompletedRoots, Used
  <2>4. \A t \in CompletedRoots(tasks, s) : tasks'[t] = tasks[t] /\ t \in Used(tasks)
    BY <1>2, <1>3, <1>o, ZenonT(30) DEF CompletedRoots, Used
  <2>5. RootAnswer(tasks', s) = RootAnswer(tasks, s) /\ \A m \in RootAnswer(tasks, s) : m < n
    BY <1>2, <2>3, <2>4, ZenonT(30) DEF RootAnswer
  <2> QED
    BY <1>2, <1>4, <2>1, <2>2, <2>5, ZenonT(30) DEF Contract!FollowUp
<1>8. ASSUME NEW x \in SessionIds \ {s}
      PROVE  Promise(tasks, sessions, tasks', sessions', x)
  <2>1. \A u \in TaskIds : tasks'[u] = tasks[u] \/ ~(InSession(tasks, u, x) \/ InSession(tasks', u, x))
    BY <1>2, <1>3, ZenonT(30) DEF InSession, Used
  <2>2. OpenRoots(tasks', x) = OpenRoots(tasks, x) /\ RootAnswer(tasks', x) = RootAnswer(tasks, x)
    BY <2>1, SameView, ZenonT(30)
  <2> QED
    BY <1>4, <2>2, ZenonT(30) DEF Promise, Quiet
<1> QED
  BY <1>6, <1>7, <1>8, ZenonT(30)

\* Cancelling ends an open session and leaves a closed one alone.
LEMMA CancelPromise ==
  ASSUME TypeInv, Fits(tasks, sessions), TurnsFit(tasks), NEW s \in SessionIds, CancelSession(s)
  PROVE  /\ TurnsFit(tasks')
         /\ \A x \in SessionIds : Promise(tasks, sessions, tasks', sessions', x) \/ Contract!Cancel(x)
<1>0. \A t \in TaskIds :
        \/ tasks'[t] = tasks[t]
        \/ /\ tasks[t].session = s /\ tasks[t].status \in Open /\ tasks'[t].status = "cancelled"
           /\ tasks'[t].session = s /\ tasks'[t].parent = tasks[t].parent
  BY CancelTasks, ZenonT(30) DEF SameOwner
<1>1. \A t \in TaskIds : tasks[t].session = s /\ tasks[t].status \in Open =>
                           tasks'[t].status = "cancelled"
  BY CancelTasks, ZenonT(30)
<1>o. "cancelled" \notin Open /\ "none" \notin Open /\ "cancelled" # "completed"
      /\ "cancelled" # "none" /\ "completed" \notin Open
  BY ZenonT(30) DEF Open, Holding
<1>2. TurnsFit(tasks')
  <2>1. Used(tasks') = Used(tasks)
    BY <1>0, <1>o, ZenonT(30) DEF Used
  <2>2. \A t \in TaskIds : /\ tasks'[t].session = tasks[t].session
                           /\ tasks'[t].parent = tasks[t].parent
                           /\ tasks'[t].status \in Open => tasks'[t] = tasks[t]
    BY <1>0, <1>o, ZenonT(30)
  <2>3. ASSUME NEW t \in Used(tasks'), NEW u \in Used(tasks'), SameTalk(tasks', t, u), u < t
        PROVE  tasks'[u].status \notin Open
    <3>1. t \in TaskIds /\ u \in TaskIds /\ t \in Used(tasks) /\ u \in Used(tasks)
      BY <2>1, ZenonT(30) DEF Used
    <3>2. tasks[u].status \notin Open
      BY <2>2, <2>3, <3>1, ZenonT(30) DEF TurnsFit, SameTalk
    <3> QED
      BY <2>2, <3>1, <3>2, ZenonT(30)
  <2>4. \A t \in TaskIds : tasks'[t].status \in Open => tasks'[t].answer = FALSE
    BY <2>2, ZenonT(30) DEF TurnsFit
  <2>5. \A t \in Used(tasks') : \A u \in TaskIds : u < t => u \in Used(tasks')
    BY <2>1, ZenonT(30) DEF TurnsFit
  <2> QED
    BY <2>3, <2>4, <2>5, ZenonT(30) DEF TurnsFit
<1>3. /\ sessions'[s].status = IF sessions[s].status = "open" THEN "cancelled" ELSE sessions[s].status
      /\ sessions'[s].answer = sessions[s].answer
      /\ \A x \in SessionIds \ {s} : sessions'[x] = sessions[x]
  <2>1. sessions \in [SessionIds -> SessionRow]
    BY ZenonT(30) DEF TypeInv, TasksTyped
  <2>2. sessions' = [sessions EXCEPT ![s].status =
                       IF sessions[s].status = "open" THEN "cancelled" ELSE sessions[s].status]
    BY DEF CancelSession
  <2> QED
    BY <2>1, <2>2, ZenonT(30) DEF SessionRow
<1>4. ASSUME NEW x \in SessionIds, x # s
      PROVE  Promise(tasks, sessions, tasks', sessions', x)
  <2>1. \A u \in TaskIds : tasks'[u] = tasks[u] \/ ~(InSession(tasks, u, x) \/ InSession(tasks', u, x))
    BY <1>0, <1>4, ZenonT(30) DEF InSession
  <2>2. OpenRoots(tasks', x) = OpenRoots(tasks, x) /\ RootAnswer(tasks', x) = RootAnswer(tasks, x)
    BY <2>1, SameView, ZenonT(30)
  <2> QED
    BY <1>3, <1>4, <2>2, ZenonT(30) DEF Promise, Quiet
<1>5. RootAnswer(tasks', s) = RootAnswer(tasks, s)
  <2>1. CompletedRoots(tasks', s) = CompletedRoots(tasks, s)
    BY <1>0, <1>o, ZenonT(30) DEF CompletedRoots
  <2>2. \A t \in CompletedRoots(tasks, s) : tasks'[t] = tasks[t]
    BY <1>0, <1>o, ZenonT(30) DEF CompletedRoots
  <2> QED
    BY <2>1, <2>2, ZenonT(30) DEF RootAnswer
<1>6. OpenRoots(tasks', s) = {}
  BY <1>0, <1>1, <1>o, ZenonT(30) DEF OpenRoots
<1>7. CASE sessions[s].status = "open"
  <2>1. Contract!Cancel(s)
    BY <1>3, <1>5, <1>6, <1>7, ZenonT(30) DEF Contract!Cancel
  <2> QED
    BY <1>2, <1>4, <2>1, ZenonT(30)
<1>8. CASE sessions[s].status # "open"
  <2>1. OpenRoots(tasks, s) = {}
    BY <1>8, ZenonT(30) DEF Fits, SessionFits, OpenIn, OpenRoots
  <2>2. Promise(tasks, sessions, tasks', sessions', s)
    BY <1>3, <1>5, <1>6, <1>8, <2>1, ZenonT(30) DEF Promise, Quiet
  <2> QED
    BY <1>2, <1>4, <2>2, ZenonT(30)
<1> QED
  BY <1>7, <1>8, ZenonT(30)

\* A step of the contract for session s.
ContractStep(s) ==
  \/ Contract!Begin(s) \/ Contract!FollowUp(s) \/ Contract!Interim(s) \/ Contract!TurnOver(s)
  \/ Contract!Close(s) \/ Contract!Cancel(s) \/ Contract!Stay(s)

LEMMA TurnsInit == Init => TurnsFit(tasks) /\ Contract!Init
<1> SUFFICES ASSUME Init
             PROVE  TurnsFit(tasks) /\ Contract!Init
  OBVIOUS
<1>1. \A t \in TaskIds : tasks[t].status = "none"
  BY ZenonT(30) DEF Init, Unused, NewTask
<1>2. \A s \in SessionIds : sessions[s].status = "none" /\ sessions[s].answer = 0
  BY DEF Init, Unused, NewSession
<1>3. "none" \notin Open
  BY DEF Open, Holding
<1>4. TurnsFit(tasks)
  BY <1>1, <1>3, ZenonT(30) DEF TurnsFit, Used
<1>5. \A s \in SessionIds : OpenRoots(tasks, s) = {}
  BY <1>1, <1>3, ZenonT(30) DEF OpenRoots
<1>6. \A s \in SessionIds : RootAnswer(tasks, s) = {}
  <2>1. \A s \in SessionIds : CompletedRoots(tasks, s) = {}
    BY <1>1, ZenonT(30) DEF CompletedRoots
  <2> QED
    BY <2>1, ZenonT(30) DEF RootAnswer
<1> QED
  BY <1>2, <1>4, <1>5, <1>6, ZenonT(30) DEF Contract!Init

LEMMA ContractTyped == TypeInv => Contract!Typed
<1> SUFFICES ASSUME TypeInv
             PROVE  Contract!Typed
  OBVIOUS
<1>1. \A s \in SessionIds : /\ sessions[s].status \in {"none", "open", "completed", "failed", "cancelled"}
                            /\ sessions[s].answer \in Nat
  BY DEF TypeInv, TasksTyped, SessionRow
<1>2. \A s \in SessionIds : OpenRoots(tasks, s) \in SUBSET TaskIds
  BY ZenonT(30) DEF OpenRoots
<1>3. \A s \in SessionIds : RootAnswer(tasks, s) \in SUBSET TaskIds
  BY ZenonT(30) DEF RootAnswer, CompletedRoots
<1> QED
  BY <1>1, <1>2, <1>3, ZenonT(30) DEF Contract!Typed

\* Every step of the engine, the worker or an operator is one of the contract for each session.
LEMMA TurnsStep ==
  ASSUME TypeInv, Fits(tasks, sessions), TurnsFit(tasks), [Next]_vars
  PROVE  TurnsFit(tasks') /\ \A s \in SessionIds : ContractStep(s)
<1> DEFINE Goal == TurnsFit(tasks') /\ \A s \in SessionIds : ContractStep(s)
<1>0. DOMAIN tasks = TaskIds /\ DOMAIN sessions = SessionIds
  BY DEF TypeInv, TasksTyped
<1>p. \A s \in SessionIds : Promise(tasks, sessions, tasks', sessions', s) => ContractStep(s)
  BY PromiseKept, ZenonT(30) DEF ContractStep
<1>q. \A s \in SessionIds : Promise(tasks, sessions, tasks, sessions, s)
  BY ZenonT(30) DEF Promise, Quiet
<1>1. ASSUME UNCHANGED <<tasks, sessions>>
      PROVE  Goal
  <2>1. tasks' = tasks /\ sessions' = sessions
    BY <1>1, ZenonT(30)
  <2>2. TurnsFit(tasks')
    BY <2>1, ZenonT(30)
  <2>3. \A s \in SessionIds : Promise(tasks, sessions, tasks', sessions', s)
    BY <1>q, <2>1, ZenonT(30)
  <2> QED
    BY <1>p, <2>2, <2>3, ZenonT(30)
<1>2. ASSUME NEW t \in TaskIds, NEW r, MovesTo(t, r, tasks', sessions')
      PROVE  Goal
  <2>1. TurnsFit(tasks')
    BY <1>2, MovesKeepTurns, ZenonT(30)
  <2>2. \A s \in SessionIds : Promise(tasks, sessions, tasks', sessions', s)
    BY <1>2, MovesPromise, ZenonT(30)
  <2> QED
    BY <1>p, <2>1, <2>2, ZenonT(30)
<1>3. ASSUME NEW t \in TaskIds, NEW r, NEW ts, NEW ss, MovesTo(t, r, ts, ss),
             Begins(Compactor, ts, ss)
      PROVE  Goal
  <2>1. TurnsFit(ts) /\ Used(ts) = Used(tasks)
    BY <1>3, MovesKeepTurns, ZenonT(30)
  <2>2. \A s \in SessionIds : Promise(tasks, sessions, ts, ss, s)
    BY <1>3, MovesPromise, ZenonT(30)
  <2>3. DOMAIN ts = TaskIds /\ \A u \in TaskIds : ts[u].session = tasks[u].session
    BY <1>0, <1>3, ZenonT(30) DEF MovesTo, RowStep, SameOwner
  <2>4. DOMAIN ss = SessionIds
    BY <1>0, <1>3, ZenonT(30) DEF MovesTo, MaybeComplete
  <2>5. /\ TurnsFit(tasks')
        /\ \A s \in SessionIds : Promise(tasks, sessions, tasks', sessions', s) \/ Contract!Begin(s)
    BY <1>3, <2>1, <2>2, <2>3, <2>4, BeginsPromise, ZenonT(30)
  <2> QED
    BY <1>p, <2>5, ZenonT(30) DEF ContractStep
<1>4. ASSUME NEW a \in Agents, Begins(a, tasks, sessions)
      PROVE  Goal
  <2>1. /\ TurnsFit(tasks')
        /\ \A s \in SessionIds : Promise(tasks, sessions, tasks', sessions', s) \/ Contract!Begin(s)
    BY <1>0, <1>4, <1>q, BeginsPromise, ZenonT(30)
  <2> QED
    BY <1>p, <2>1, ZenonT(30) DEF ContractStep
<1>5. ASSUME NEW c \in CallIds, NEW b \in Agents, NEW w \in BOOLEAN, Delegate(c, b, w)
      PROVE  Goal
  <2>1. \A s \in SessionIds : Promise(tasks, sessions, tasks', sessions', s)
    BY <1>5, DelegatePromise, ZenonT(30)
  <2>2. TurnsFit(tasks')
    <3>1. calls[c].task \in TaskIds /\ tasks[calls[c].task].status = "running"
      BY <1>5, DeliveredTask, ZenonT(30) DEF Delegate, Says, Answers
    <3>2. tasks[calls[c].task].session \in SessionIds
      BY <3>1, ZenonT(30) DEF TypeInv, TasksTyped
    <3> QED
      BY <1>5, <3>2, DelegatePromise, ZenonT(30)
  <2> QED
    BY <1>p, <2>1, <2>2, ZenonT(30)
<1>6. ASSUME NEW x \in SessionIds, ContinueSession(x)
      PROVE  Goal
  <2>1. /\ TurnsFit(tasks') /\ Contract!FollowUp(x)
        /\ \A s \in SessionIds \ {x} : Promise(tasks, sessions, tasks', sessions', s)
    BY <1>6, ContinuePromise, ZenonT(30)
  <2> QED
    BY <1>p, <2>1, ZenonT(30) DEF ContractStep
<1>7. ASSUME NEW x \in SessionIds, CancelSession(x)
      PROVE  Goal
  <2>1. /\ TurnsFit(tasks')
        /\ \A s \in SessionIds : Promise(tasks, sessions, tasks', sessions', s) \/ Contract!Cancel(s)
    BY <1>7, CancelPromise, ZenonT(30)
  <2> QED
    BY <1>p, <2>1, ZenonT(30) DEF ContractStep
<1> HIDE DEF Goal
<1>8. Goal
  BY <1>1, <1>2, <1>3, <1>4, <1>5, <1>6, <1>7, Steps, ZenonT(30) DEF TablesStep
<1> QED
  BY <1>8, ZenonT(30) DEF Goal

\* TaskLifecycle implements the contract of a session: through delegation, cancelling, lost
\* results, approvals and compaction a session works on one message at a time, is closed
\* only when its last turn ends, is reopened only by a message, and reports the answer of
\* its latest root turn (fn_create_session, fn_continue_session, fn_cancel_session,
\* maybe_complete_session).  Calls of fn_continue_session come one after the other.
THEOREM SessionsKeepTheirContract == Spec => ImplementsSession
<1> DEFINE IInv == TypeInv /\ Fits(tasks, sessions) /\ TurnsFit(tasks)
<1>1. Init => IInv /\ Contract!Init
  BY TypeInit, FitsInit, TurnsInit, ZenonT(30)
<1>2. IInv /\ [Next]_vars => IInv' /\ [Contract!Next]_Contract!svars
  <2> SUFFICES ASSUME TypeInv, Fits(tasks, sessions), TurnsFit(tasks), [Next]_vars
               PROVE  /\ TypeInv' /\ Fits(tasks', sessions') /\ TurnsFit(tasks')
                      /\ Contract!Next
    OBVIOUS
  <2>1. TypeInv'
    BY TypeStep, ZenonT(30)
  <2>2. Fits(tasks', sessions')
    BY FitsStep, ZenonT(30)
  <2>3. TurnsFit(tasks') /\ \A s \in SessionIds : ContractStep(s)
    BY TurnsStep, ZenonT(30)
  <2>4. Contract!Typed'
    BY <2>1, ContractTyped, PTL
  <2>5. Contract!Next
    BY <2>3, <2>4, ZenonT(30) DEF ContractStep, Contract!Next
  <2> QED
    BY <2>1, <2>2, <2>3, <2>5, ZenonT(30)
<1> QED
  BY <1>1, <1>2, PTL DEF Spec, ImplementsSession, Contract!Spec

============================================================================
