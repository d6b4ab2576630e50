----------------------------- MODULE LifecycleLedger -----------------------------
(***************************************************************************)
(* The durable lifecycle ledger of the orchestrator                        *)
(* (crates/codebox-agent-codex/src/cloud_lifecycle_ledger.rs): one record, *)
(* cloud-lifecycle.json, the local projection of the current operation.    *)
(* CanceledLocally { provider_may_continue } is two phases here:           *)
(* "CanceledNoTask" (false) and "CanceledWithTask" (true).                 *)
(***************************************************************************)
EXTENDS SubmitLedger

CONSTANT MaxLifecycleHistory  \* MAX_LIFECYCLE_HISTORY (32)

LifecyclePhases ==
  {"Submitting", "FailedBeforeSubmit", "OutcomeUnknown", "Pending", "Ready", "Applied",
   "ProviderError", "CanceledNoTask", "CanceledWithTask", "AbandonedUnknown"}

LifecycleLedgers ==
  [op : Ops, phase : LifecyclePhases, task : Tasks \cup {NoTask}, generation : Nat,
   candidates : SUBSET Tasks, complete : Completeness, history : Seq(LifecyclePhases)]

\* The longest lifecycle is Submitting, OutcomeUnknown, Pending and a terminal phase.
ASSUME LifecycleLedgerAssumption ==
  /\ NoLedger \notin LifecycleLedgers
  /\ MaxLifecycleHistory \in Nat
  /\ MaxLifecycleHistory >= 4

IsTerminal(phase) ==
  phase \in {"FailedBeforeSubmit", "Ready", "Applied", "ProviderError",
             "CanceledNoTask", "CanceledWithTask", "AbandonedUnknown"}

\* phase_for_status: the phases a provider status maps to
StatusPhases == {"Pending", "Ready", "Applied", "ProviderError"}

LifecycleSuccessors(phase) ==
  CASE phase = "Submitting" ->
         {"FailedBeforeSubmit", "Pending", "OutcomeUnknown", "CanceledNoTask"}
    [] phase = "Pending" -> StatusPhases \cup {"CanceledWithTask"}
    [] phase = "OutcomeUnknown" -> StatusPhases \cup {"OutcomeUnknown", "AbandonedUnknown"}
    [] OTHER -> {}

Submitting(op) ==
  [op |-> op, phase |-> "Submitting", task |-> NoTask, generation |-> 0,
   candidates |-> {}, complete |-> "none", history |-> <<"Submitting">>]

CanMoveTo(ledger, phase) ==
  /\ Len(ledger.history) < MaxLifecycleHistory
  /\ phase \in LifecycleSuccessors(ledger.phase)

MovedTo(ledger, phase) ==
  [ledger EXCEPT !.phase = phase, !.history = Append(@, phase)]

\* record_status: a repeated Pending of the same task changes nothing
CanRecordStatus(ledger, task, phase) ==
  /\ ledger.task \in {NoTask, task}
  /\ \/ ledger.phase = "Pending" /\ phase = "Pending" /\ ledger.task = task
     \/ CanMoveTo(ledger, phase)

RecordStatus(ledger, task, phase) ==
  IF ledger.phase = "Pending" /\ phase = "Pending" /\ ledger.task = task
  THEN ledger
  ELSE [MovedTo(ledger, phase) EXCEPT !.task = task]

\* record_canceled_with_task
CanCancelWithTask(ledger) ==
  ledger.task # NoTask /\ CanMoveTo(ledger, "CanceledWithTask")

\* record_reconciliation
RecordGeneration(ledger, tasks, complete) ==
  [ledger EXCEPT !.generation = @ + 1, !.candidates = tasks, !.complete = complete]

\* validate
LifecycleValid(ledger) ==
  /\ Len(ledger.history) \in 1..MaxLifecycleHistory
  /\ ledger.history[1] = "Submitting"
  /\ ledger.history[Len(ledger.history)] = ledger.phase
  /\ \A i \in 1..(Len(ledger.history) - 1) :
       ledger.history[i + 1] \in LifecycleSuccessors(ledger.history[i])
  /\ ledger.phase \in StatusPhases \cup {"CanceledWithTask"} <=> ledger.task # NoTask
  /\ IF ledger.generation = 0
     THEN ledger.complete = "none" /\ ledger.candidates = {}
     ELSE /\ ledger.complete # "none"
          /\ \E i \in 1..Len(ledger.history) : ledger.history[i] = "OutcomeUnknown"

\* A record the program can hold: valid, and with room for the phases still to come
LifeOk(ledger) ==
  /\ ledger \in LifecycleLedgers /\ LifecycleValid(ledger)
  /\ ledger.phase = "Submitting" => Len(ledger.history) = 1
  /\ ledger.phase = "OutcomeUnknown" => Len(ledger.history) = 2
  /\ ledger.phase = "Pending" => Len(ledger.history) <= 3
==================================================================================
