---------------------------- MODULE CallContract ----------------------------
(***************************************************************************)
(* What the control channel promises to a Workflow that calls another: the *)
(* call is executed at most once; it is answered with its own outcome, and *)
(* only after that execution, or it is refused; and it is over for good    *)
(* then.  A refused call may have been executed, or may still be.          *)
(***************************************************************************)
CONSTANT Calls

VARIABLES
  status,    \* "idle", "open", "answered" or "refused"
  executed   \* how often the Host has begun to execute each call

ccvars == <<status, executed>>

CallInit ==
  /\ status = [c \in Calls |-> "idle"]
  /\ executed = [c \in Calls |-> 0]

Move(c, from, to) ==
  /\ status[c] = from
  /\ status' = [status EXCEPT ![c] = to]
  /\ UNCHANGED executed

Begin(c) == Move(c, "idle", "open")
Refuse(c) == Move(c, "open", "refused")
Satisfy(c) == executed[c] = 1 /\ Move(c, "open", "answered")

Execute(c) ==
  /\ status[c] # "idle"
  /\ executed[c] = 0
  /\ executed' = [executed EXCEPT ![c] = 1]
  /\ UNCHANGED status

CallNext == \E c \in Calls : Begin(c) \/ Refuse(c) \/ Satisfy(c) \/ Execute(c)

CallSpec == CallInit /\ [][CallNext]_ccvars
=============================================================================
