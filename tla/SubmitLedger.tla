------------------------------ MODULE SubmitLedger ------------------------------
(***************************************************************************)
(* The durable submit ledger of the Cloud command runner                   *)
(* (crates/codebox-agent-codex/src/cloud_submit_ledger.rs): one record,    *)
(* cloud-submit-ledger.json, that describes the current submit operation.  *)
(* This module holds the record and the pure functions on it.  An update   *)
(* that returns a Result in Rust is a pair here: CanX (it returns Ok) and  *)
(* X (the ledger it leaves).                                               *)
(*                                                                         *)
(* Abstracted: the environment and branch strings (one configuration per   *)
(* process), the process identity (present or not), the candidate list (a  *)
(* set: duplicates are refused before it is stored).                       *)
(***************************************************************************)
EXTENDS Integers, Sequences

CONSTANTS
  Ops,              \* submit operation identifiers (UUIDs, never drawn twice)
  Tasks,            \* provider task identifiers
  NoOp,             \* no operation
  NoTask,           \* task_id: None
  NoLedger,         \* the ledger file does not exist
  MaxSubmitHistory  \* MAX_CLOUD_HISTORY_ENTRIES (32)

SubmitPhases ==
  {"Intent", "Authorized", "Started", "TaskRecorded", "FailedBeforeSpawn",
   "OutcomeUnknown", "ReconciliationObserved", "TaskAdopted", "ExplicitlyAbandoned"}

\* reconciliation_complete : Option<bool>
Completeness == {"none", "partial", "full"}

SubmitLedgers ==
  [op : Ops, process : BOOLEAN, task : Tasks \cup {NoTask},
   candidates : SUBSET Tasks, complete : Completeness, history : Seq(SubmitPhases)]

\* The longest path of one submit is Intent, Authorized, Started, OutcomeUnknown.
ASSUME SubmitLedgerAssumption ==
  /\ NoOp \notin Ops
  /\ NoTask \notin Tasks
  /\ NoLedger \notin SubmitLedgers
  /\ MaxSubmitHistory \in Nat
  /\ MaxSubmitHistory >= 4

IsUnknown(phase) == phase \in {"OutcomeUnknown", "ReconciliationObserved"}

PermitsNewOperation(phase) ==
  phase \in {"TaskRecorded", "FailedBeforeSpawn", "TaskAdopted", "ExplicitlyAbandoned"}

SubmitSuccessors(phase) ==
  CASE phase = "Intent"         -> {"Authorized", "FailedBeforeSpawn"}
    [] phase = "Authorized"     -> {"Started", "FailedBeforeSpawn", "OutcomeUnknown"}
    [] phase = "Started"        -> {"TaskRecorded", "OutcomeUnknown"}
    [] phase = "OutcomeUnknown" -> {"ReconciliationObserved"}
    [] phase = "ReconciliationObserved" ->
         {"ReconciliationObserved", "TaskAdopted", "ExplicitlyAbandoned"}
    [] OTHER                    -> {}

NewSubmit(op) ==
  [op |-> op, process |-> FALSE, task |-> NoTask,
   candidates |-> {}, complete |-> "none", history |-> <<"Intent">>]

Latest(ledger) == ledger.history[Len(ledger.history)]

Contains(ledger, phase) == \E i \in 1..Len(ledger.history) : ledger.history[i] = phase

CanAppend(ledger, phase) ==
  /\ Len(ledger.history) < MaxSubmitHistory
  /\ phase \in SubmitSuccessors(Latest(ledger))

Appended(ledger, phase) == [ledger EXCEPT !.history = Append(@, phase)]

\* record_started, record_task
RecordStarted(ledger) == [Appended(ledger, "Started") EXCEPT !.process = TRUE]

RecordTask(ledger, task) == [Appended(ledger, "TaskRecorded") EXCEPT !.task = task]

\* record_reconciliation: evidence is replaced by the latest listing
RecordReconciliation(ledger, tasks, complete) ==
  [Appended(ledger, "ReconciliationObserved")
     EXCEPT !.candidates = tasks, !.complete = complete]

CanAdopt(ledger, task) ==
  /\ Latest(ledger) = "ReconciliationObserved"
  /\ ledger.task = NoTask
  /\ task \in ledger.candidates
  /\ CanAppend(ledger, "TaskAdopted")

RecordAdoptedTask(ledger, task) == [Appended(ledger, "TaskAdopted") EXCEPT !.task = task]

CanAbandon(ledger) ==
  /\ Latest(ledger) = "ReconciliationObserved"
  /\ ledger.task = NoTask
  /\ CanAppend(ledger, "ExplicitlyAbandoned")

RecordExplicitlyAbandoned(ledger) == Appended(ledger, "ExplicitlyAbandoned")

\* validate: what a load, and every write, requires of the record
SubmitValid(ledger) ==
  /\ Len(ledger.history) \in 1..MaxSubmitHistory
  /\ ledger.history[1] = "Intent"
  /\ \A i \in 1..(Len(ledger.history) - 1) :
       ledger.history[i + 1] \in SubmitSuccessors(ledger.history[i])
  /\ Contains(ledger, "Started") <=> ledger.process
  /\ (Contains(ledger, "TaskRecorded") \/ Contains(ledger, "TaskAdopted"))
       <=> ledger.task # NoTask
  /\ Contains(ledger, "ReconciliationObserved") <=> ledger.complete # "none"
  /\ Contains(ledger, "TaskAdopted") => ledger.task \in ledger.candidates

\* A record the program can hold
SubmitOk(ledger) == ledger \in SubmitLedgers /\ SubmitValid(ledger)

(***************************************************************************)
(* recover_current_ledger (cloud_runner.rs): what a load of an interrupted *)
(* record turns it into before anything else looks at it.                  *)
(***************************************************************************)
NeedsRecovery(ledger) ==
  ledger # NoLedger /\ Latest(ledger) \in {"Intent", "Authorized", "Started"}

\* Mutation: an authorized record is taken for one that was never spawned.
RecoveredOptimistic(ledger) ==
  IF ~NeedsRecovery(ledger)
  THEN ledger
  ELSE Appended(ledger, IF Latest(ledger) = "Started" THEN "OutcomeUnknown"
                                                      ELSE "FailedBeforeSpawn")

Recovered(ledger) ==
  IF ~NeedsRecovery(ledger)
  THEN ledger
  ELSE Appended(ledger, IF Latest(ledger) = "Intent" THEN "FailedBeforeSpawn"
                                                     ELSE "OutcomeUnknown")

(***************************************************************************)
(* classify_observation (cloud_runner.rs): what a recovered record says of *)
(* operation op.                                                           *)
(***************************************************************************)
Observation(op, ledger) ==
  IF ledger = NoLedger THEN "Absent"
  ELSE IF ledger.op # op
       THEN IF PermitsNewOperation(Latest(ledger)) THEN "Absent" ELSE "Conflict"
       ELSE CASE Latest(ledger) = "FailedBeforeSpawn" -> "FailedBeforeSpawn"
              [] IsUnknown(Latest(ledger)) -> "OutcomeUnknown"
              [] Latest(ledger) \in {"TaskRecorded", "TaskAdopted"} -> "TaskRecorded"
              [] Latest(ledger) = "ExplicitlyAbandoned" -> "ExplicitlyAbandoned"
              [] OTHER -> "Invalid"
=================================================================================
