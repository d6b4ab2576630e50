------------------------- MODULE OrchestratorRefinement -------------------------
(***************************************************************************)
(* CloudOrchestrator implements CloudContract.  While the orchestrator     *)
(* exists the current lifecycle is its copy in memory; after a crash it is *)
(* the one in cloud-lifecycle.json.                                        *)
(***************************************************************************)
EXTENDS CloudOrchestrator

Projection(ledger) ==
  IF ledger = NoLedger THEN NoLedger ELSE [op |-> ledger.op, phase |-> ledger.phase]

\* None of the lifecycles that lifecycle() returns is the null value.
ASSUME ProjectionAssumption == NoLedger \notin [op : Ops, phase : LifecyclePhases]

CurrentLifecycle == Projection(IF up THEN mem ELSE life)

StartCall ==
  IF pc = "idle" THEN "idle" ELSE IF token = "cancelled" THEN "cancelling" ELSE "running"

Contract == INSTANCE CloudContract WITH
  NoCloud <- NoLedger, cloud <- CurrentLifecycle, call <- StartCall, drawn <- used, alive <- up

\* Every step of the orchestrator, its runner and its two ledgers, crashes and failed
\* writes included, is a step its callers can expect of P0CloudControl, or none at all.
ImplementsContract == Contract!ContractSpec

----------------------------------------------------------------------------
(***************************************************************************)
(* What the refinement needs beyond IInv.                                  *)
(***************************************************************************)
\* A write that failed after its rename leaves the file one transition ahead of the
\* orchestrator's copy, or at the successor that start() drew: never further.
FileFollows ==
  \/ mem = NoLedger /\ life = NoLedger
  \/ /\ mem # NoLedger /\ life # NoLedger /\ life.op = mem.op
     /\ life.phase \in {mem.phase} \cup LifecycleSuccessors(mem.phase)
  \/ /\ StartAdmitted /\ life # NoLedger /\ life.phase = "Submitting"
     /\ mem # NoLedger => life.op # mem.op

\* submit() reports a cancellation only to a start() whose token was signalled.
CancelWasSignalled == pc = "finish" /\ result.kind = "canceled" => token = "cancelled"

\* The inductive invariant behind the refinement: the two ledgers, memory and start() agree
\* (IInv), the file is where a crash may leave it, and a cancellation is never made up.
RefinementInv == IInv /\ (up => FileFollows) /\ CancelWasSignalled
==================================================================================
