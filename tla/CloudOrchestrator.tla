---------------------------- MODULE CloudOrchestrator ----------------------------
(***************************************************************************)
(* CloudTaskOrchestrator (cloud_lifecycle.rs) driving CloudTaskRunner      *)
(* (cloud_runner.rs): the part of Codebox that turns one prompt into at    *)
(* most one Codex Cloud task and survives a crash at any point of it.      *)
(*                                                                         *)
(* Durable state is two files that are written one after the other, each   *)
(* atomically (temporary file, fsync, rename, directory fsync):            *)
(*    submit   the runner's ledger of the current submit (SubmitLedger),   *)
(*    life     the orchestrator's projection of it (LifecycleLedger).      *)
(* In memory, behind one mutex, are the orchestrator's copy `mem' of life  *)
(* and the cancellation token.  Every method holds the mutex for its whole *)
(* duration, so it is one action here, except start, which releases it     *)
(* around runner.submit, and cancel, which waits on a condition variable.  *)
(* The runner's submit is split at each durable write and at each read of  *)
(* the cancellation token.                                                 *)
(*                                                                         *)
(* A write has three outcomes (Outcomes): it succeeds; it fails and leaves *)
(* the file alone (also: the credential-scope lease is held by the login   *)
(* broker or a diff read); or the rename happens and the directory fsync   *)
(* then fails, so the caller sees an error and the file has changed.  A    *)
(* crash between two writes of one method is the second write failing,     *)
(* followed by Crash.  The validate() every write runs first is left out:  *)
(* LedgersValid shows that it never refuses.                               *)
(***************************************************************************)
EXTENDS LifecycleLedger

CONSTANT Cancelers  \* threads that may be inside cancel()

VARIABLES
  submit,    \* cloud-submit-ledger.json
  life,      \* cloud-lifecycle.json
  up,        \* an orchestrator exists (construction succeeded, no crash since)
  mem,       \* OrchestratorState.ledger
  token,     \* OrchestratorState.cancellation: "none", "armed", "cancelled"
  waiting,   \* per canceler: the operation it waits on in changed.wait, or NoOp
  woken,     \* cancelers that changed.notify_all has released from that wait
  pc,        \* where the thread inside start() is
  op,        \* start(): operation_id
  prior,     \* start(): the ledger it replaced
  draft,     \* submit(): its local copy of the submit ledger
  result,    \* what submit() returned
  used,      \* operation identifiers drawn so far
  spawned,   \* external: operations whose `cloud exec' child process was created
  provider   \* external: the provider task each operation's child created

disk     == <<submit, life>>
thread   == <<pc, op, prior, draft, result>>
sleepers == <<waiting, woken>>
external == <<spawned, provider>>
vars     == <<submit, life, up, mem, token, waiting, woken, pc, op, prior, draft,
              result, used, spawned, provider>>

Outcomes == {"ok", "failed", "ambiguous"}

\* What the file holds after a write of `new' over `old' with outcome o.
Stored(old, new, o) == IF o = "failed" THEN old ELSE new

Results == [kind : {"none", "task", "canceled", "unknown", "failed"},
            op : Ops \cup {NoOp}, task : Tasks \cup {NoTask}]

NoResult == [kind |-> "none", op |-> NoOp, task |-> NoTask]

Tokens == {"none", "armed", "cancelled"}

Pcs == {"idle", "intent", "authorize", "spawn", "started", "wait", "finish"}

Init ==
  /\ submit = NoLedger /\ life = NoLedger
  /\ up = FALSE /\ mem = NoLedger /\ token = "none"
  /\ waiting = [c \in Cancelers |-> NoOp] /\ woken = {}
  /\ pc = "idle" /\ op = NoOp /\ prior = NoLedger /\ draft = NoLedger /\ result = NoResult
  /\ used = {} /\ spawned = {}
  /\ provider = [o \in Ops |-> NoTask]

(***************************************************************************)
(* recover_current_ledger under the scope lease, with write outcome r: did *)
(* it return Ok, and what does the file hold afterwards.                   *)
(***************************************************************************)
RecoverOk(r) == NeedsRecovery(submit) => r = "ok"

RecoverStored(r) ==
  IF NeedsRecovery(submit) THEN Stored(submit, Recovered(submit), r) ELSE submit

----------------------------------------------------------------------------
(***************************************************************************)
(* Construction: load the lifecycle ledger and repair_interrupted_state.   *)
(***************************************************************************)
Interrupted(ledger) ==
  ledger # NoLedger /\ ledger.phase \in {"Submitting", "OutcomeUnknown"}

Repairable(ledger, seen) ==
  \/ ledger.phase = "Submitting" /\ seen \notin {"Conflict", "Invalid"}
  \/ ledger.phase = "OutcomeUnknown"
       /\ seen \in {"OutcomeUnknown", "TaskRecorded", "ExplicitlyAbandoned"}

Repaired(ledger, seen, task) ==
  CASE seen \in {"Absent", "FailedBeforeSpawn"} -> MovedTo(ledger, "FailedBeforeSubmit")
    [] seen = "TaskRecorded"   -> RecordStatus(ledger, task, "Pending")
    [] seen = "OutcomeUnknown" -> IF ledger.phase = "OutcomeUnknown" THEN ledger
                                  ELSE MovedTo(ledger, "OutcomeUnknown")
    [] OTHER -> MovedTo(IF ledger.phase = "OutcomeUnknown" THEN ledger
                        ELSE MovedTo(ledger, "OutcomeUnknown"), "AbandonedUnknown")

LoadSettled ==
  /\ ~up /\ ~Interrupted(life)
  /\ up' = TRUE /\ mem' = life
  /\ UNCHANGED <<disk, token, sleepers, thread, used, external>>

LoadInterrupted ==
  /\ ~up /\ Interrupted(life)
  /\ \E r, w \in Outcomes :
       LET ledger == Recovered(submit)
           seen   == Observation(life.op, ledger)
           fixed  == Repaired(life, seen, IF ledger = NoLedger THEN NoTask ELSE ledger.task)
           sound  == RecoverOk(r) /\ Repairable(life, seen)
       IN  /\ submit' = RecoverStored(r)
           /\ life' = IF sound THEN Stored(life, fixed, w) ELSE life
           /\ up' = (sound /\ (fixed = life \/ w = "ok"))
           /\ mem' = IF up' THEN fixed ELSE NoLedger
  /\ UNCHANGED <<token, sleepers, thread, used, external>>

\* The process dies, or is stopped.  A spawned child is not waited for.
Crash ==
  /\ up
  /\ up' = FALSE /\ mem' = NoLedger /\ token' = "none"
  /\ waiting' = [c \in Cancelers |-> NoOp] /\ woken' = {}
  /\ pc' = "idle" /\ op' = NoOp /\ prior' = NoLedger /\ draft' = NoLedger /\ result' = NoResult
  /\ UNCHANGED <<disk, used, external>>

----------------------------------------------------------------------------
(***************************************************************************)
(* start(), up to the release of the mutex.                                *)
(***************************************************************************)
StartAdmitted == mem # NoLedger => IsTerminal(mem.phase)

\* observe_submit(o) must answer Absent
LowerReady(o) == Observation(o, Recovered(submit)) = "Absent"

Start(o) ==
  /\ up /\ StartAdmitted
  /\ o \notin used /\ used' = used \cup {o}
  /\ \E r, w \in Outcomes :
       LET open    == RecoverOk(r) /\ LowerReady(o)
           entered == open /\ w = "ok"
       IN  /\ submit' = RecoverStored(r)
           /\ life' = IF open THEN Stored(life, Submitting(o), w) ELSE life
           /\ mem' = IF entered THEN Submitting(o) ELSE mem
           /\ token' = IF entered THEN "armed" ELSE token
           /\ pc' = IF entered THEN "intent" ELSE pc
           /\ op' = IF entered THEN o ELSE op
           /\ prior' = IF entered THEN mem ELSE prior
  /\ UNCHANGED <<up, sleepers, draft, result, external>>

(***************************************************************************)
(* runner.submit.  Return(kind, o, t): it returns, reporting operation o.  *)
(***************************************************************************)
Return(kind, o, t) ==
  pc' = "finish" /\ result' = [kind |-> kind, op |-> o, task |-> t]

WriteUnknown(ledger) ==
  \E w \in Outcomes :
    /\ submit' = Stored(submit, IF IsUnknown(Latest(ledger)) THEN ledger
                                ELSE Appended(ledger, "OutcomeUnknown"), w)
    /\ Return("unknown", op, NoTask)

WriteFailed(ledger, kind) ==
  \E w \in Outcomes :
    /\ submit' = Stored(submit, Appended(ledger, "FailedBeforeSpawn"), w)
    /\ Return(IF w = "ok" THEN kind ELSE "failed", op, NoTask)

\* dispatch_existing: the answer an existing record gives without a new command
Dispatch(ledger) ==
  LET latest == IF ledger = NoLedger THEN "none" ELSE Latest(ledger)
      Answer(kind, o, t) == [kind |-> kind, op |-> o, task |-> t]
  IN  CASE latest = "none" -> NoResult
        [] latest # "none" /\ (IsUnknown(latest) \/ (ledger.op # op /\ ~PermitsNewOperation(latest)))
             -> Answer("unknown", ledger.op, NoTask)
        [] latest # "none" /\ ledger.op # op /\ PermitsNewOperation(latest) -> NoResult
        [] latest \in {"TaskRecorded", "TaskAdopted"} /\ ledger.op = op
             -> Answer("task", op, ledger.task)
        [] latest \in {"FailedBeforeSpawn", "ExplicitlyAbandoned"} /\ ledger.op = op
             -> Answer("failed", op, NoTask)
        [] OTHER -> Answer("unknown", op, NoTask)

\* The lease, the recovery of the record or the CLI version check fails.
SubmitRefused ==
  /\ pc = "intent"
  /\ submit' \in {submit, Recovered(submit)}
  /\ Return("failed", op, NoTask)
  /\ UNCHANGED <<life, up, mem, token, sleepers, op, prior, draft, used, external>>

SubmitIntent ==
  /\ pc = "intent"
  /\ LET found == Dispatch(Recovered(submit))
     IN  IF found # NoResult
         THEN /\ submit' = Recovered(submit)
              /\ Return(found.kind, found.op, found.task)
              /\ UNCHANGED draft
         ELSE \E w \in Outcomes :
                /\ submit' = Stored(Recovered(submit), NewSubmit(op), w)
                /\ IF w = "ok"
                   THEN pc' = "authorize" /\ draft' = NewSubmit(op) /\ UNCHANGED result
                   ELSE Return("failed", op, NoTask) /\ UNCHANGED draft
  /\ UNCHANGED <<life, up, mem, token, sleepers, op, prior, used, external>>

\* The first read of the token; authorize_login and the diagnostic sentinel.
SubmitCanceledBeforeStart ==
  /\ pc = "authorize" /\ token = "cancelled"
  /\ WriteFailed(draft, "canceled")
  /\ UNCHANGED <<life, up, mem, token, sleepers, op, prior, draft, used, external>>

SubmitUnauthorized ==
  /\ pc = "authorize" /\ token # "cancelled"
  /\ WriteFailed(draft, "failed")
  /\ UNCHANGED <<life, up, mem, token, sleepers, op, prior, draft, used, external>>

SubmitAuthorize ==
  /\ pc = "authorize" /\ token # "cancelled"
  /\ \E w \in Outcomes :
       /\ submit' = Stored(submit, Appended(draft, "Authorized"), w)
       /\ IF w = "ok"
          THEN pc' = "spawn" /\ draft' = Appended(draft, "Authorized") /\ UNCHANGED result
          ELSE Return("failed", op, NoTask) /\ UNCHANGED draft
  /\ UNCHANGED <<life, up, mem, token, sleepers, op, prior, used, external>>

\* The second read of the token, and runtime.start.
SubmitCanceledAuthorized ==
  /\ pc = "spawn" /\ token = "cancelled"
  /\ WriteUnknown(draft)
  /\ UNCHANGED <<life, up, mem, token, sleepers, op, prior, draft, used, external>>

SpawnFails ==
  /\ pc = "spawn" /\ token # "cancelled"
  /\ WriteFailed(draft, "failed")
  /\ UNCHANGED <<life, up, mem, token, sleepers, op, prior, draft, used, external>>

\* Mutation: every error of runtime.start counts as "no child was created".
SpawnUncertainAsFailed ==
  /\ pc = "spawn" /\ token # "cancelled"
  /\ spawned' = spawned \cup {op}
  /\ WriteFailed(draft, "failed")
  /\ UNCHANGED <<life, up, mem, token, sleepers, op, prior, draft, used, provider>>

\* The child exists and its identity or its pipes cannot be had.
SpawnUncertain ==
  /\ pc = "spawn" /\ token # "cancelled"
  /\ spawned' = spawned \cup {op}
  /\ WriteUnknown(draft)
  /\ UNCHANGED <<life, up, mem, token, sleepers, op, prior, draft, used, provider>>

Spawn ==
  /\ pc = "spawn" /\ token # "cancelled"
  /\ spawned' = spawned \cup {op} /\ pc' = "started"
  /\ UNCHANGED <<disk, up, mem, token, sleepers, op, prior, draft, result, used, provider>>

\* Mutation: a ledger error after the spawn is reported like one before it.
SubmitStartedReportsFailure ==
  /\ pc = "started"
  /\ \E w \in Outcomes :
       /\ submit' = Stored(submit, RecordStarted(draft), w)
       /\ IF w = "ok"
          THEN pc' = "wait" /\ draft' = RecordStarted(draft) /\ UNCHANGED result
          ELSE Return("failed", op, NoTask) /\ UNCHANGED draft
  /\ UNCHANGED <<life, up, mem, token, sleepers, op, prior, used, external>>

SubmitStarted ==
  /\ pc = "started"
  /\ \E w \in Outcomes :
       /\ submit' = Stored(submit, RecordStarted(draft), w)
       /\ IF w = "ok"
          THEN pc' = "wait" /\ draft' = RecordStarted(draft) /\ UNCHANGED result
          ELSE Return("unknown", op, NoTask) /\ UNCHANGED draft
  /\ UNCHANGED <<life, up, mem, token, sleepers, op, prior, used, external>>

\* The wait fails, times out or is cancelled, or the output does not decode.
SubmitInconclusive ==
  /\ pc = "wait"
  /\ WriteUnknown(draft)
  /\ UNCHANGED <<life, up, mem, token, sleepers, op, prior, draft, used, external>>

SubmitTask ==
  /\ pc = "wait" /\ provider[op] # NoTask
  /\ \E w, v \in Outcomes :
       LET stored == Stored(submit, RecordTask(draft, provider[op]), w)
       IN  IF w = "ok"
           THEN submit' = stored /\ Return("task", op, provider[op])
           ELSE /\ submit' = Stored(stored, Appended(draft, "OutcomeUnknown"), v)
                /\ Return("unknown", op, NoTask)
  /\ UNCHANGED <<life, up, mem, token, sleepers, op, prior, draft, used, external>>

(***************************************************************************)
(* start(), after the mutex is taken again.                                *)
(***************************************************************************)
\* Mutation: every error counts as an unknown outcome.
DispositionAlwaysUnknown(ledger) ==
  IF result.kind = "task" THEN RecordStatus(ledger, result.task, "Pending")
                          ELSE MovedTo(ledger, "OutcomeUnknown")

Disposition(ledger) ==
  CASE result.kind = "task"     -> RecordStatus(ledger, result.task, "Pending")
    [] result.kind = "canceled" -> MovedTo(ledger, "CanceledNoTask")
    [] result.kind = "unknown"  -> MovedTo(ledger, "OutcomeUnknown")
    [] OTHER                    -> MovedTo(ledger, "FailedBeforeSubmit")

StillSubmitting == mem # NoLedger /\ mem.op = op /\ mem.phase = "Submitting"

\* Mutation: the waiters are not notified.
StartReturnSilently ==
  /\ pc = "finish"
  /\ pc' = "idle" /\ token' = "none"
  /\ op' = NoOp /\ prior' = NoLedger /\ draft' = NoLedger /\ result' = NoResult
  /\ StillSubmitting
  /\ \E w \in Outcomes :
       /\ life' = Stored(life, Disposition(mem), w)
       /\ mem' = IF w = "ok" THEN Disposition(mem) ELSE mem
  /\ UNCHANGED <<submit, up, sleepers, used, external>>

StartReturn ==
  /\ pc = "finish"
  /\ pc' = "idle" /\ token' = "none"
  /\ op' = NoOp /\ prior' = NoLedger /\ draft' = NoLedger /\ result' = NoResult
  /\ IF ~StillSubmitting
     THEN UNCHANGED <<life, mem>>
     ELSE \E w \in Outcomes :
            LET next == IF result.op # op THEN prior ELSE Disposition(mem)
            IN  /\ life' = Stored(life, next, w)
                /\ mem' = IF w = "ok" THEN next ELSE mem
  /\ woken' = {c \in Cancelers : waiting[c] # NoOp}
  /\ UNCHANGED <<submit, up, waiting, used, external>>

----------------------------------------------------------------------------
(***************************************************************************)
(* cancel().  While the operation is Submitting the caller signals the     *)
(* token and waits; it runs the same loop body when StartReturn notifies   *)
(* it.  A spurious wake-up would find nothing changed and wait again.      *)
(***************************************************************************)
\* Mutation: a task that is ready can still be cancelled.
CancelLoopAnyTask(c) ==
  /\ mem # NoLedger /\ mem.task # NoTask
  /\ life' = MovedTo(mem, "CanceledWithTask") /\ mem' = MovedTo(mem, "CanceledWithTask")
  /\ waiting' = [waiting EXCEPT ![c] = NoOp]
  /\ UNCHANGED token

CancelLoop(c) ==
  \/ /\ mem # NoLedger /\ mem.phase = "Submitting" /\ token # "none"
     /\ token' = "cancelled"
     /\ waiting' = [waiting EXCEPT ![c] = mem.op]
     /\ UNCHANGED <<life, mem>>
  \/ /\ mem # NoLedger /\ mem.phase = "Pending" /\ CanCancelWithTask(mem)
     /\ \E w \in Outcomes :
          /\ life' = Stored(life, MovedTo(mem, "CanceledWithTask"), w)
          /\ mem' = IF w = "ok" THEN MovedTo(mem, "CanceledWithTask") ELSE mem
     /\ waiting' = [waiting EXCEPT ![c] = NoOp]
     /\ UNCHANGED token
  \/ /\ mem # NoLedger =>
          \/ mem.phase = "Submitting" /\ token = "none"
          \/ mem.phase \notin {"Submitting", "Pending"}
     /\ waiting' = [waiting EXCEPT ![c] = NoOp]
     /\ UNCHANGED <<life, mem, token>>

Cancel(c) ==
  /\ up /\ waiting[c] = NoOp
  /\ CancelLoop(c)
  /\ UNCHANGED <<submit, up, woken, thread, used, external>>

CancelWake(c) ==
  /\ c \in woken /\ woken' = woken \ {c}
  /\ CancelLoop(c)
  /\ UNCHANGED <<submit, up, thread, used, external>>

\* inspect(): one provider status read of a pending task
Inspect ==
  /\ up /\ mem # NoLedger /\ mem.phase = "Pending"
  /\ \E phase \in StatusPhases, w \in Outcomes :
       /\ CanRecordStatus(mem, mem.task, phase)
       /\ life' = Stored(life, RecordStatus(mem, mem.task, phase), w)
       /\ mem' = IF w = "ok" THEN RecordStatus(mem, mem.task, phase) ELSE mem
  /\ UNCHANGED <<submit, up, token, sleepers, thread, used, external>>

(***************************************************************************)
(* reconcile_unknown(): list the provider's tasks, record the evidence in  *)
(* the submit ledger and then in the lifecycle ledger.                     *)
(***************************************************************************)
Unknown == up /\ mem # NoLedger /\ mem.phase = "OutcomeUnknown"

ProviderTasks == {provider[o] : o \in Ops} \ {NoTask}

Reconcile(tasks, complete) ==
  /\ Unknown
  /\ tasks \subseteq ProviderTasks /\ (complete = "full" => tasks = ProviderTasks)
  /\ \E r, w, v \in Outcomes :
       LET ledger   == Recovered(submit)
           recorded == RecordReconciliation(ledger, tasks, complete)
           listed   == /\ RecoverOk(r) /\ ledger # NoLedger /\ IsUnknown(Latest(ledger))
                       /\ CanAppend(ledger, "ReconciliationObserved")
           copied   == listed /\ w = "ok" /\ ledger.op = mem.op
           next     == RecordGeneration(mem, tasks, complete)
       IN  /\ NeedsRecovery(submit) \/ r = "ok"
           /\ submit' = IF listed THEN Stored(ledger, recorded, w) ELSE RecoverStored(r)
           /\ life' = IF copied THEN Stored(life, next, v) ELSE life
           /\ mem' = IF copied /\ v = "ok" THEN next ELSE mem
  /\ UNCHANGED <<up, token, sleepers, thread, used, external>>

(***************************************************************************)
(* resolve_unknown(): the runner's ledger is resolved first.  Resolving a  *)
(* settled operation again replays the answer and changes nothing.         *)
(***************************************************************************)
\* runner.resolve_unknown on a recovered ledger: the ledger it leaves, or NoLedger if it refuses
ResolvedSubmit(ledger, o, task) ==
  CASE ledger = NoLedger -> NoLedger
    [] ledger # NoLedger /\ ledger.op # o -> NoLedger
    [] ledger # NoLedger /\ ledger.op = o /\ task # NoTask ->
         IF Latest(ledger) = "TaskAdopted" /\ ledger.task = task THEN ledger
         ELSE IF CanAdopt(ledger, task) THEN RecordAdoptedTask(ledger, task) ELSE NoLedger
    [] OTHER ->
         IF Latest(ledger) = "ExplicitlyAbandoned" THEN ledger
         ELSE IF CanAbandon(ledger) THEN RecordExplicitlyAbandoned(ledger) ELSE NoLedger

\* Mutation: the lifecycle is settled without waiting for the submit ledger.
ResolveUpperFirst(task, next) ==
  \E w, v \in Outcomes :
    LET ledger   == Recovered(submit)
        resolved == ResolvedSubmit(ledger, mem.op, task)
    IN  /\ resolved # NoLedger
        /\ submit' = Stored(ledger, resolved, w)
        /\ life' = Stored(life, next, v)
        /\ mem' = IF v = "ok" THEN next ELSE mem

Resolve(task, next) ==
  \E r, w, v \in Outcomes :
    LET ledger   == Recovered(submit)
        resolved == ResolvedSubmit(ledger, mem.op, task)
        ok       == RecoverOk(r) /\ resolved # NoLedger
        written  == ok /\ (resolved = ledger \/ w = "ok")
    IN  /\ NeedsRecovery(submit) \/ r = "ok"
        /\ submit' = IF ok THEN Stored(ledger, resolved, w) ELSE RecoverStored(r)
        /\ life' = IF written THEN Stored(life, next, v) ELSE life
        /\ mem' = IF written /\ v = "ok" THEN next ELSE mem

\* AdoptListedTask: needs complete evidence that names the task, and its status
Adopt(task) ==
  /\ Unknown /\ mem.generation > 0
  /\ mem.complete = "full" /\ task \in mem.candidates
  /\ \E phase \in StatusPhases : Resolve(task, RecordStatus(mem, task, phase))
  /\ UNCHANGED <<up, token, sleepers, thread, used, external>>

\* AbandonAfterReconciliation, acknowledged for this operation
Abandon ==
  /\ Unknown /\ mem.generation > 0
  /\ Resolve(NoTask, MovedTo(mem, "AbandonedUnknown"))
  /\ UNCHANGED <<up, token, sleepers, thread, used, external>>

\* External: a child that was created may bring a provider task into being at any
\* later time, also after it was killed or the process died.
ProviderCreates(o, t) ==
  /\ o \in spawned /\ provider[o] = NoTask /\ t \notin ProviderTasks
  /\ provider' = [provider EXCEPT ![o] = t]
  /\ UNCHANGED <<disk, up, mem, token, sleepers, thread, used, spawned>>

----------------------------------------------------------------------------
\* The steps of the thread inside start()
StartThread ==
  \/ SubmitRefused \/ SubmitIntent
  \/ SubmitCanceledBeforeStart \/ SubmitUnauthorized \/ SubmitAuthorize
  \/ SubmitCanceledAuthorized \/ SpawnFails \/ SpawnUncertain \/ Spawn
  \/ SubmitStarted \/ SubmitInconclusive \/ SubmitTask
  \/ StartReturn

Next ==
  \/ LoadSettled \/ LoadInterrupted \/ Crash
  \/ \E o \in Ops : Start(o)
  \/ StartThread
  \/ \E c \in Cancelers : Cancel(c) \/ CancelWake(c)
  \/ Inspect
  \/ \E tasks \in SUBSET Tasks, complete \in {"partial", "full"} : Reconcile(tasks, complete)
  \/ \E task \in Tasks : Adopt(task)
  \/ Abandon
  \/ \E o \in Ops, t \in Tasks : ProviderCreates(o, t)

Spec == Init /\ [][Next]_vars

(***************************************************************************)
(* Fairness: a thread inside start() keeps running (the child is waited    *)
(* for at most SUBMIT_TIMEOUT), and a notified waiter is scheduled.        *)
(* Nothing is assumed of the operator, the provider or restarts.           *)
(***************************************************************************)
Fairness == WF_vars(StartThread) /\ \A c \in Cancelers : WF_vars(CancelWake(c))

FairSpec == Spec /\ Fairness

----------------------------------------------------------------------------
\* Type invariant: the files and the orchestrator's copy hold ledger records, and the
\* thread inside start() is at one of its points.
TypeOK ==
  /\ submit \in SubmitLedgers \cup {NoLedger}
  /\ life \in LifecycleLedgers \cup {NoLedger}
  /\ up \in BOOLEAN
  /\ mem \in LifecycleLedgers \cup {NoLedger}
  /\ token \in Tokens
  /\ waiting \in [Cancelers -> Ops \cup {NoOp}]
  /\ woken \in SUBSET Cancelers
  /\ pc \in Pcs
  /\ op \in Ops \cup {NoOp}
  /\ prior \in LifecycleLedgers \cup {NoLedger}
  /\ draft \in SubmitLedgers \cup {NoLedger}
  /\ result \in Results
  /\ used \in SUBSET Ops
  /\ spawned \in SUBSET Ops
  /\ provider \in [Ops -> Tasks \cup {NoTask}]

\* Every record the code stores passes validate(): neither ledger can become a
\* file that a later load (load_cloud_ledger, load_lifecycle_ledger) refuses.
LedgersValid ==
  /\ submit # NoLedger => SubmitValid(submit)
  /\ life # NoLedger => LifecycleValid(life)

\* submit() never replaces the record of an operation whose outcome is open: when
\* cloud-submit-ledger.json passes to another operation, the child of the old one
\* either never existed, or its task is on record, or the operator abandoned it.
OpenSubmitNeverReplaced ==
  [][submit # NoLedger /\ submit'.op # submit.op /\ submit.op \in spawned
       => submit.task # NoTask \/ Latest(submit) = "ExplicitlyAbandoned"]_vars

\* Whatever the code calls failed or cancelled before the submit never had a child:
\* neither ledger, on disk or in memory, says so of an operation that was spawned.
FailedMeansNotSpawned ==
  /\ submit # NoLedger /\ Latest(submit) \in {"Intent", "FailedBeforeSpawn"}
       => submit.op \notin spawned
  /\ \A ledger \in {life, mem} :
       ledger # NoLedger /\ ledger.phase \in {"FailedBeforeSubmit", "CanceledNoTask"}
         => ledger.op \notin spawned

\* After a crash anywhere, construction can classify what it finds: the pair of
\* files never is one that repair_interrupted_state answers with OperationConflict.
RestartRepairs ==
  Interrupted(life) => Repairable(life, Observation(life.op, Recovered(submit)))

\* The runner's ledger is settled before the projection (lower, then upper): a
\* lifecycle with a task, or an abandoned one, is backed by the submit ledger.
Backed(ledger) ==
  /\ ledger.phase \in StatusPhases \cup {"CanceledWithTask"} =>
       /\ submit # NoLedger /\ submit.op = ledger.op /\ submit.task = ledger.task
       /\ Latest(submit) \in {"TaskRecorded", "TaskAdopted"}
  /\ ledger.phase = "AbandonedUnknown" =>
       /\ submit # NoLedger /\ submit.op = ledger.op
       /\ Latest(submit) = "ExplicitlyAbandoned"

LowerSettledFirst == \A ledger \in {life, mem} : ledger # NoLedger => Backed(ledger)

\* validate_diff_authority (cloud_runner.rs) on the two files
DiffAuthorized(o, task) ==
  /\ life # NoLedger /\ life.phase \in {"Ready", "Applied"} /\ life.op = o /\ life.task = task
  /\ submit # NoLedger /\ submit.op = o /\ submit.task = task
  /\ Latest(submit) \in {"TaskRecorded", "TaskAdopted"}

\* A terminal lifecycle that was returned to a caller is the durable one, until a
\* start() has written its successor; a diff it offers can be authorized.
SettledIsDurable ==
  up /\ mem # NoLedger /\ IsTerminal(mem.phase) =>
    \/ life = mem /\ (mem.phase \in {"Ready", "Applied"} => DiffAuthorized(mem.op, mem.task))
    \/ life # NoLedger /\ life = Submitting(life.op) /\ life.op # mem.op

\* One operation reaches one terminal lifecycle: no call moves it again.
TerminalIsFinal ==
  [][mem # NoLedger /\ IsTerminal(mem.phase) /\ up' /\ mem' # mem => mem'.op # mem.op]_vars

\* The gate start() passes (observe_submit) still holds when submit() runs under a
\* lease of its own: no other operation is reported, and the lifecycle is untouched.
GateNotStale ==
  pc # "idle" => StillSubmitting /\ (pc = "finish" => result.op = op)

\* start() returns, and so does every cancel() that waits for it.
CallsReturn ==
  /\ pc # "idle" ~> pc = "idle"
  /\ \A c \in Cancelers : waiting[c] # NoOp ~> waiting[c] = NoOp

(***************************************************************************)
(* The inductive invariant behind the safety properties above.             *)
(***************************************************************************)
\* Every ledger in a file or in memory is one the program can hold.
RecordsOk ==
  /\ submit # NoLedger => SubmitOk(submit)
  /\ life # NoLedger => LifeOk(life)
  /\ mem # NoLedger => LifeOk(mem)

\* Identifiers are drawn once, and a child exists only for one that was drawn.
Fresh ==
  /\ submit # NoLedger => submit.op \in used
  /\ life # NoLedger => life.op \in used
  /\ mem # NoLedger => mem.op \in used
  /\ spawned \subseteq used

\* Nothing of operation o has reached the submit ledger or the operating system.
Untouched(o) ==
  /\ o \notin spawned
  /\ submit # NoLedger => submit.op # o /\ PermitsNewOperation(Latest(submit))

\* The thread inside start(): what it knows at each point of submit().
AuthorizedSubmit(o) == Appended(NewSubmit(o), "Authorized")

ThreadOk ==
  /\ ~up => pc = "idle" /\ mem = NoLedger
  /\ pc = "idle" => token = "none" /\ op = NoOp
  /\ pc # "idle" => op \in used /\ mem = Submitting(op) /\ life = Submitting(op)
  /\ pc = "intent" => Untouched(op)
  /\ pc \in {"authorize", "spawn"} => op \notin spawned
  /\ pc = "authorize" => draft = NewSubmit(op) /\ submit = draft
  /\ pc \in {"spawn", "started"} => draft = AuthorizedSubmit(op) /\ submit = draft
  /\ pc = "wait" => draft = RecordStarted(AuthorizedSubmit(op)) /\ submit = draft
  /\ pc = "finish" =>
       /\ result.op = op /\ result.kind # "none"
       /\ result.kind = "task" =>
            /\ submit # NoLedger /\ submit.op = op /\ submit.task = result.task
            /\ Latest(submit) = "TaskRecorded"
       /\ result.kind = "unknown" =>
            /\ submit # NoLedger /\ submit.op = op
            /\ Latest(submit) \notin {"Intent", "FailedBeforeSpawn"}
       /\ result.kind \in {"failed", "canceled"} => op \notin spawned

\* What a lifecycle ledger says agrees with the submit ledger.
Agrees(ledger) ==
  /\ Backed(ledger)
  /\ ledger.phase = "Submitting" =>
       Untouched(ledger.op) \/ (submit # NoLedger /\ submit.op = ledger.op)
  /\ ledger.phase = "OutcomeUnknown" =>
       /\ submit # NoLedger /\ submit.op = ledger.op
       /\ Latest(submit) \notin {"Intent", "FailedBeforeSpawn"}
  /\ ledger.phase \in {"FailedBeforeSubmit", "CanceledNoTask"} => ledger.op \notin spawned

SubmitAgrees ==
  submit # NoLedger /\ Latest(submit) \in {"Intent", "FailedBeforeSpawn"}
    => submit.op \notin spawned

\* The inductive invariant: the two ledgers, the orchestrator's copy and the thread
\* inside start() agree on what has happened to every operation, at each point
\* between two durable writes of start(), submit() and the recovery calls.
IInv ==
  /\ TypeOK /\ RecordsOk /\ Fresh /\ ThreadOk /\ SubmitAgrees /\ SettledIsDurable
  /\ \A ledger \in {life, mem} : ledger # NoLedger => Agrees(ledger)

(***************************************************************************)
(* What the specification documents say and the code does not do.          *)
(***************************************************************************)
\* submit() has returned the failure of a spawn that created no child: only then does it report
\* a failure with the Authorized record as its last successful write (cloud_runner.rs:187-190).
SpawnFailed ==
  pc = "finish" /\ result.kind = "failed" /\ draft # NoLedger /\ Latest(draft) = "Authorized"

\* SPEC-T004A, crash table, spawn proves that no child was created: "Explicit caller retry is
\* allowed": when start() records such a spawn as FailedBeforeSubmit, the gate of the next
\* start() is open.
FailedPermitsRetry ==
  [][SpawnFailed /\ mem' # NoLedger /\ mem'.phase = "FailedBeforeSubmit"
     => PermitsNewOperation(Latest(Recovered(submit')))]_vars
==================================================================================
