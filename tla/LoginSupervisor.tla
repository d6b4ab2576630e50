------------------------------ MODULE LoginSupervisor ------------------------------
(***************************************************************************)
(* The thread that supervises one `codex login --device-auth' child        *)
(* (codebox-agent-codex/src/runtime.rs) and the child itself.              *)
(*                                                                         *)
(* The thread polls every 10 ms and its channel of events is unbounded.    *)
(* terminate_group signals the process group and reaps the child, so the   *)
(* child is dead when it returns.  The child may complete the              *)
(* authorization at any moment of its life, also while it is being         *)
(* terminated; what it prints matters only as far as parse_device_prompt   *)
(* and parse_login_completion tell outputs apart.                          *)
(***************************************************************************)
EXTENDS LoginLedger, Naturals, Sequences

VARIABLES
  sup,    \* ProcessSupervisor and its thread
  child,  \* per operation: the login process
  auth    \* whether the provider considers the operator logged in

supVars == <<sup, child, auth>>

\* cancel: a Cancel command waits; shown: the instructions were sent
NoSupervisor == [st |-> "none", op |-> NoOp, cancel |-> FALSE, events |-> <<>>, shown |-> FALSE]

NewSupervisor(op) == [NoSupervisor EXCEPT !.st = "spawning", !.op = op]

Finishing == {"Exited", "ExitedBadly", "Deadline", "Canceled", "Uncertain", "Failed"}

SupervisorEvents == {"Started", "Instructions"} \cup Finishing

InitSupervisor ==
  /\ sup = NoSupervisor /\ child = [o \in Ops |-> "none"] /\ auth = FALSE

\* The thread sends its last event and ends.
Finish(event) == sup' = [sup EXCEPT !.st = "done", !.events = Append(@, event)]

\* spawn_bound_child and read_process_identity
SupervisorSpawn ==
  /\ sup.st = "spawning"
  /\ \/ Finish("Failed") /\ UNCHANGED child
     \/ Finish("Uncertain") /\ child' = [child EXCEPT ![sup.op] = "dead"]
     \/ /\ sup' = [sup EXCEPT !.st = "running", !.events = Append(@, "Started")]
        /\ child' = [child EXCEPT ![sup.op] = "alive"]
  /\ UNCHANGED auth

SupervisorShow ==
  /\ sup.st = "running" /\ ~sup.cancel /\ child[sup.op] = "alive" /\ ~sup.shown
  /\ sup' = [sup EXCEPT !.shown = TRUE, !.events = Append(@, "Instructions")]
  /\ UNCHANGED <<child, auth>>

\* terminate_group, then the event
Terminate(event) ==
  /\ child' = [child EXCEPT ![sup.op] = "dead"]
  /\ Finish(event) /\ UNCHANGED auth

\* The command, looked at first in every round; finish_capture may fail.
SupervisorCancel ==
  /\ sup.st = "running" /\ sup.cancel
  /\ Terminate("Canceled") \/ Terminate("Uncertain")

\* try_wait: the child ended by itself
SupervisorExit ==
  /\ sup.st = "running" /\ ~sup.cancel /\ child[sup.op] = "dead"
  /\ Finish("Exited") \/ Finish("ExitedBadly") \/ Finish("Uncertain")
  /\ UNCHANGED <<child, auth>>

\* Mutation: once the instructions are out, no deadline is looked at.
DeadlineBeforeInstructions ==
  /\ sup.st = "running" /\ ~sup.cancel /\ child[sup.op] = "alive" /\ ~sup.shown
  /\ Terminate("Deadline") \/ Terminate("Uncertain")

\* The instruction deadline (30 s, until they are sent), the overall deadline (16 min),
\* output that cannot be parsed or is too long, try_wait failing
SupervisorDeadline ==
  /\ sup.st = "running" /\ ~sup.cancel /\ child[sup.op] = "alive"
  /\ Terminate("Deadline") \/ Terminate("Uncertain")

\* The operator authorizes the device; the child stores the credential.
ChildAuthorizes ==
  /\ \E o \in Ops : child[o] = "alive"
  /\ auth' = TRUE /\ UNCHANGED <<sup, child>>

\* What the status command answers when it succeeds.
PinnedStatus == IF auth THEN "LoggedIn" ELSE "LoggedOut"

\* The child ends by itself; PR_SET_PDEATHSIG kills it after its broker crashed.
ChildEnds(o) ==
  /\ child[o] = "alive" /\ child' = [child EXCEPT ![o] = "dead"]
  /\ UNCHANGED <<sup, auth>>

SupervisorThread ==
  SupervisorSpawn \/ SupervisorShow \/ SupervisorCancel \/ SupervisorExit \/ SupervisorDeadline

SupervisorNext == SupervisorThread \/ ChildAuthorizes \/ \E o \in Ops : ChildEnds(o)
====================================================================================
