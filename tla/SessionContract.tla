-------------------------- MODULE SessionContract ---------------------------
(***************************************************************************)
(* What a session promises the one who talks to it: one message is worked  *)
(* on at a time, a session ends once and only a new message reopens it,    *)
(* and what it reports in the end is the answer to the latest message that *)
(* was answered, whatever the agents it was delegated to said meanwhile.   *)
(***************************************************************************)
EXTENDS Naturals

CONSTANTS
  Sessions,   \* the sessions
  Turns       \* what may answer a message: the turn it starts, and turns delegated by it

VARIABLES
  status,     \* the status of a session
  turn,       \* the turn that works on a message: {} or a singleton
  answered,   \* the latest turn that came to its end, if it has answered: {} or a singleton
  reply       \* whose answer the session shows; 0: none

svars == <<status, turn, answered, reply>>

Typed ==
  /\ status \in [Sessions -> {"none", "open", "completed", "failed", "cancelled"}]
  /\ turn \in [Sessions -> SUBSET Turns]
  /\ answered \in [Sessions -> SUBSET Turns]
  /\ reply \in [Sessions -> Nat]

Init ==
  /\ status = [s \in Sessions |-> "none"]
  /\ turn = [s \in Sessions |-> {}]
  /\ answered = [s \in Sessions |-> {}]
  /\ reply = [s \in Sessions |-> 0]

\* The first message.
Begin(s) ==
  /\ status[s] = "none"
  /\ status'[s] = "open"
  /\ \E n \in Turns : turn'[s] = {n}
  /\ answered'[s] = {}
  /\ reply'[s] = 0

\* A further message, once the turn of the one before has ended.
FollowUp(s) ==
  /\ status[s] # "none"
  /\ turn[s] = {}
  /\ status'[s] = "open"
  /\ \E n \in Turns : turn'[s] = {n} /\ \A m \in answered[s] : m < n
  /\ answered'[s] = answered[s]
  /\ reply'[s] = reply[s]

\* A delegated turn answers.
Interim(s) ==
  /\ status[s] = "open"
  /\ status'[s] = "open"
  /\ turn'[s] = turn[s]
  /\ answered'[s] = answered[s]
  /\ reply'[s] \in Turns

\* The turn ends and leaves delegated turns behind: it has answered, handed over, or failed.
TurnOver(s) ==
  /\ status[s] = "open"
  /\ status'[s] = "open"
  /\ turn[s] # {}
  /\ turn'[s] = {}
  /\ \/ answered'[s] = turn[s] /\ reply'[s] \in turn[s]
     \/ answered'[s] \in {{}, answered[s]} /\ reply'[s] = reply[s]

\* The last turn ends, and the session with it.  It fails only without an answer.
Close(s) ==
  /\ status[s] = "open"
  /\ status'[s] \in {"completed", "failed"}
  /\ turn'[s] = {}
  /\ answered'[s] = answered[s] \/ (turn[s] # {} /\ answered'[s] = turn[s])
  /\ answered'[s] # {} => status'[s] = "completed" /\ reply'[s] \in answered'[s]
  /\ reply'[s] \in Turns \cup {reply[s]}

Cancel(s) ==
  /\ status[s] = "open"
  /\ status'[s] = "cancelled"
  /\ turn'[s] = {}
  /\ answered'[s] = answered[s]
  /\ reply'[s] = reply[s]

Stay(s) ==
  /\ status'[s] = status[s] /\ turn'[s] = turn[s]
  /\ answered'[s] = answered[s] /\ reply'[s] = reply[s]

\* A session may begin in a step of another one: its compaction.
Next ==
  /\ Typed'
  /\ \A s \in Sessions :
       Begin(s) \/ FollowUp(s) \/ Interim(s) \/ TurnOver(s) \/ Close(s) \/ Cancel(s) \/ Stay(s)

Spec == Init /\ [][Next]_svars

=============================================================================
