------------------------------ MODULE CloudContract ------------------------------
(***************************************************************************)
(* What CloudTaskOrchestrator promises the session runtime: the calls of   *)
(* the P0CloudControl trait and the lifecycle they return, with the two    *)
(* ledgers, the leases and the provider abstracted to the outcomes that a  *)
(* caller can tell apart.  OrchestratorRefinement shows that               *)
(* CloudOrchestrator implements it; SessionRuntime is built on its calls.  *)
(*                                                                         *)
(* A lifecycle is an operation and a phase.  The provider task is left     *)
(* out: an operation is given at most one, and keeps it.                   *)
(***************************************************************************)
CONSTANTS Ops, NoCloud

VARIABLES
  cloud,  \* the current lifecycle, or NoCloud
  call,   \* the start() call: "idle", "running" or "cancelling"
  drawn,  \* operation identifiers used so far
  alive   \* the orchestrator exists

cloudVars == <<cloud, call, drawn, alive>>

Terminal == {"FailedBeforeSubmit", "Ready", "Applied", "ProviderError",
             "CanceledNoTask", "CanceledWithTask", "AbandonedUnknown"}
Statuses == {"Pending", "Ready", "Applied", "ProviderError"}
Phases   == Terminal \cup {"Submitting", "OutcomeUnknown", "Pending"}

Lives == [op : Ops, phase : Phases]

ASSUME ContractAssumption == NoCloud \notin Lives

Life(o, p)  == [op |-> o, phase |-> p]
Settled     == cloud # NoCloud => cloud.phase \in Terminal
InPhase(ps) == cloud # NoCloud /\ cloud.phase \in ps

\* What a call returns: a lifecycle, or one of the errors its callers tell apart.
Ok(life)  == [kind |-> "ok", life |-> life]
Err(kind) == [kind |-> kind, life |-> NoCloud]
CallResults == [kind : {"ok"}, life : Lives]
                 \cup {Err(k) : k \in {"NoCurrentOperation", "ProviderRead", "Other"}}

ContractInit ==
  /\ cloud = NoCloud /\ call = "idle" /\ drawn = {} /\ alive = FALSE

----------------------------------------------------------------------------
\* start(), until it has stored Submitting and lets go of its mutex
StartEnters(o) ==
  /\ alive /\ Settled /\ call = "idle" /\ o \notin drawn
  /\ cloud' = Life(o, "Submitting") /\ call' = "running" /\ drawn' = drawn \cup {o}
  /\ UNCHANGED alive

\* start() is refused by its gate, or fails to store Submitting.
StartRefused(o) ==
  /\ alive /\ call = "idle" /\ o \notin drawn
  /\ drawn' = drawn \cup {o} /\ UNCHANGED <<cloud, call, alive>>

\* start() settles what submit() reported.  If that cannot be stored the lifecycle
\* stays Submitting, with no call behind it.
StartReturns(r) ==
  /\ call # "idle" /\ call' = "idle"
  /\ \/ \E p \in {"FailedBeforeSubmit", "OutcomeUnknown", "Pending"} \cup
                 (IF call = "cancelling" THEN {"CanceledNoTask"} ELSE {}) :
          cloud' = Life(cloud.op, p) /\ r = Ok(cloud')
     \/ cloud' = cloud /\ r = Err("Other")
  /\ UNCHANGED <<drawn, alive>>

\* cancel() signals the submit that is running, and waits for it to return.
CancelSignals ==
  /\ alive /\ call = "running" /\ call' = "cancelling"
  /\ UNCHANGED <<cloud, drawn, alive>>

CancelReturns(r) ==
  /\ alive
  /\ \/ cloud = NoCloud /\ r = Err("NoCurrentOperation") /\ UNCHANGED cloud
     \/ InPhase({"Submitting"}) /\ call = "idle" /\ r = Err("Other") /\ UNCHANGED cloud
     \/ /\ InPhase({"Pending"})
        /\ \/ cloud' = Life(cloud.op, "CanceledWithTask") /\ r = Ok(cloud')
           \/ cloud' = cloud /\ r = Err("Other")
     \/ InPhase(Terminal \cup {"OutcomeUnknown"}) /\ r = Ok(cloud) /\ UNCHANGED cloud
  /\ UNCHANGED <<call, drawn, alive>>

InspectReturns(r) ==
  /\ alive
  /\ \/ cloud = NoCloud /\ r = Err("NoCurrentOperation") /\ UNCHANGED cloud
     \/ InPhase({"Submitting", "OutcomeUnknown"}) /\ r = Err("Other") /\ UNCHANGED cloud
     \/ /\ InPhase({"Pending"})
        /\ \/ \E p \in Statuses : cloud' = Life(cloud.op, p) /\ r = Ok(cloud')
           \/ cloud' = cloud /\ r \in {Err("ProviderRead"), Err("Other")}
     \/ InPhase(Terminal) /\ r = Ok(cloud) /\ UNCHANGED cloud
  /\ UNCHANGED <<call, drawn, alive>>

\* reconcile_unknown() never changes the lifecycle.
ReconcileReturns(r) ==
  /\ alive
  /\ r \in {Err("Other")} \cup (IF InPhase({"OutcomeUnknown"}) THEN {Ok(cloud)} ELSE {})
  /\ UNCHANGED cloudVars

\* resolve_unknown(o, decision); a decision that was already carried out is replayed
ResolveReturns(o, r) ==
  /\ alive
  /\ \/ cloud' = cloud /\ r = Err("Other")
     \/ /\ InPhase({"OutcomeUnknown"}) /\ cloud.op = o
        /\ \E p \in Statuses \cup {"AbandonedUnknown"} : cloud' = Life(o, p) /\ r = Ok(cloud')
     \/ /\ InPhase(Statuses \cup {"AbandonedUnknown"}) /\ cloud.op = o
        /\ cloud' = cloud /\ r = Ok(cloud)
  /\ UNCHANGED <<call, drawn, alive>>

(***************************************************************************)
(* The process dies.  What a caller was told to be terminal stays so,      *)
(* unless the next operation had been recorded; a lifecycle that was still *)
(* open may turn out to have moved on.                                     *)
(***************************************************************************)
Later(life) ==
  {life} \cup
  CASE life.phase = "Submitting" ->
         {Life(life.op, p) : p \in {"FailedBeforeSubmit", "OutcomeUnknown", "Pending", "CanceledNoTask"}}
    [] life.phase = "OutcomeUnknown" ->
         {Life(life.op, p) : p \in Statuses \cup {"AbandonedUnknown"}}
    [] life.phase = "Pending" ->
         {Life(life.op, p) : p \in Statuses \cup {"CanceledWithTask"}}
    [] OTHER -> {}

CloudCrash ==
  /\ alive /\ alive' = FALSE /\ call' = "idle"
  /\ \/ cloud # NoCloud /\ cloud' \in Later(cloud)
     \/ cloud = NoCloud /\ UNCHANGED cloud
     \/ Settled /\ \E o \in drawn : cloud' = Life(o, "Submitting") /\ (cloud # NoCloud => o # cloud.op)
  /\ UNCHANGED drawn

\* Construction, which settles an interrupted submit or fails.
CloudRestart ==
  /\ ~alive
  /\ \/ alive' = TRUE /\ ~InPhase({"Submitting"}) /\ UNCHANGED cloud
     \/ /\ InPhase({"Submitting", "OutcomeUnknown"})
        /\ alive' \in BOOLEAN
        /\ \E p \in {"FailedBeforeSubmit", "OutcomeUnknown", "Pending", "AbandonedUnknown"} :
             /\ InPhase({"OutcomeUnknown"}) => p # "FailedBeforeSubmit"
             /\ cloud' = Life(cloud.op, p)
  /\ UNCHANGED <<call, drawn>>

ContractNext ==
  \/ \E o \in Ops : StartEnters(o) \/ StartRefused(o)
  \/ \E r \in CallResults :
       \/ StartReturns(r) \/ CancelReturns(r) \/ InspectReturns(r) \/ ReconcileReturns(r)
       \/ \E o \in Ops : ResolveReturns(o, r)
  \/ CancelSignals
  \/ CloudCrash \/ CloudRestart

ContractSpec == ContractInit /\ [][ContractNext]_cloudVars
==================================================================================
