------------------------------ MODULE SessionRuntime ------------------------------
(***************************************************************************)
(* P0SessionRuntime (crates/codebox-session-runtime/src/runtime.rs): one   *)
(* session, one current turn, one worker thread, and any number of caller  *)
(* threads, over the calls of CloudContract.                               *)
(*                                                                         *)
(* `rt' is the state behind the runtime's mutex.  Calls of the lower       *)
(* orchestrator are made without that mutex, so every operation that makes *)
(* one is split: what it does under the mutex first, the lower call, and   *)
(* what it commits under the mutex afterwards.  The worker and each caller *)
(* keep the turn they act for, and the result in hand, between the steps.  *)
(* Condition variables are left out: a thread that waits is one whose next *)
(* step is not enabled.                                                    *)
(*                                                                         *)
(* append_event is kept to what the properties ask of it: `told' is the    *)
(* last lifecycle published for each turn, `left' how many sequence        *)
(* numbers remain below 2^64 (Plenty stands for any larger number).        *)
(* History, replay and live delivery are in EventStream.                   *)
(***************************************************************************)
EXTENDS CloudContract, Naturals

CONSTANTS
  Turns, NoTurn,
  Callers,       \* threads that may be inside cancel_turn or a recovery call
  SequenceEnds   \* whether the event sequence may come near 2^64

ASSUME RuntimeAssumption == NoTurn \notin Turns /\ SequenceEnds \in BOOLEAN

VARIABLES
  rt,      \* RuntimeState
  worker,  \* the worker thread: where it is, its turn, the lower result it holds
  caller,  \* the same of each caller, and whether its cancel found the turn Starting
  minted,  \* turn identifiers used so far
  entered  \* per turn: the operations that lower start calls created for it

vars == <<rt, worker, caller, minted, entered, cloudVars>>

Sessions    == {"Ready", "Running", "RecoveryRequired", "MonitoringDegraded", "Stopped"}
Projections == {"none", "Queued", "Starting", "Cloud", "MonitoringDegraded",
                "CanceledBeforeCloudStart", "StoppedBeforeCloudStart", "StoppedAfterLowerFailure"}
Plenty      == 3

\* TurnRecord; `seen' and `requested' are the lifecycle and cancel_requested of the projection
NewTurn(t, proj, life) ==
  [id |-> t, proj |-> proj, seen |-> life, requested |-> FALSE, admitted |-> FALSE,
   cancelling |-> FALSE, cancelled |-> FALSE]

NoWork       == [kind |-> "none", turn |-> NoTurn]
Work(k, t)   == [kind |-> k, turn |-> t]
Nothing      == Err("Other")
Idle         == [pc |-> "idle", turn |-> NoTurn, early |-> FALSE, op |-> NoCloud, res |-> Nothing]

StateFor(life) ==
  CASE life.phase = "OutcomeUnknown" -> "RecoveryRequired"
    [] life.phase \in {"Pending", "Submitting"} -> "Running"
    [] OTHER -> "Ready"

\* initial_state: the one inspect() of construction, and what it makes of the answer
Init ==
  /\ cloud \in {NoCloud} \cup [op : Ops, phase : Terminal \cup {"Pending", "OutcomeUnknown"}]
  /\ call = "idle" /\ alive = TRUE
  /\ drawn = IF cloud = NoCloud THEN {} ELSE {cloud.op}
  /\ \E t \in Turns :
       /\ minted = IF cloud = NoCloud THEN {} ELSE {t}
       /\ rt = [session  |-> IF cloud = NoCloud THEN "Ready" ELSE StateFor(cloud),
                turn     |-> IF cloud = NoCloud THEN NewTurn(NoTurn, "none", NoCloud)
                                                ELSE NewTurn(t, "Cloud", cloud),
                work     |-> IF InPhase({"Pending"}) THEN Work("monitor", t) ELSE NoWork,
                shutdown |-> FALSE, stopped |-> FALSE,
                told     |-> [u \in Turns |-> NoCloud], left |-> Plenty]
  /\ entered = [u \in Turns |-> {}]
  /\ worker = [pc |-> "next", turn |-> NoTurn, res |-> Nothing]
  /\ caller = [c \in Callers |-> Idle]

----------------------------------------------------------------------------
(***************************************************************************)
(* Operations on the state s behind the mutex.                             *)
(***************************************************************************)
Running(s) == ~s.stopped /\ ~s.shutdown

CanPublish(s, n) == s.left >= n

Published(s, n) ==
  [s EXCEPT !.left = IF @ = Plenty THEN @ ELSE @ - n]

PublishedLife(s, t, life) == [Published(s, 1) EXCEPT !.told[t] = life]

\* Mutation: the order of lifecycles is not checked.
AnyTransitionAllowed(from, to) == from \in Phases /\ to \in Phases

TransitionAllowed(from, to) ==
  \/ from = to
  \/ from = "Submitting" /\ to \in {"FailedBeforeSubmit", "OutcomeUnknown", "Pending"}
  \/ from = "OutcomeUnknown" /\ to \in Statuses \cup {"AbandonedUnknown"}
  \/ from = "Pending" /\ to \in Statuses \cup {"CanceledWithTask"}

\* apply_projected_lifecycle
CanApply(s, t, life) ==
  /\ s.turn.id = t
  /\ s.turn.seen # NoCloud =>
       s.turn.seen.op = life.op /\ TransitionAllowed(s.turn.seen.phase, life.phase)

Applied(s, life, completed) ==
  [s EXCEPT !.session = StateFor(life),
            !.work = IF life.phase = "Pending" THEN @ ELSE NoWork,
            !.turn = [s.turn EXCEPT !.proj = "Cloud", !.seen = life, !.cancelled = @ \/ completed]]

Finished(turn, proj) == [turn EXCEPT !.proj = proj, !.seen = NoCloud, !.requested = FALSE]

\* stop_worker
StopWorker(s, reason) ==
  IF s.stopped THEN s
  ELSE LET unstarted == /\ reason = "Shutdown"
                        /\ s.turn.proj \in {"Queued", "Starting"} /\ ~s.turn.admitted
           halted == [s EXCEPT !.turn = IF unstarted THEN Finished(@, "StoppedBeforeCloudStart") ELSE @,
                               !.work = NoWork, !.session = "Stopped", !.stopped = TRUE]
       IN  IF CanPublish(s, 1) THEN Published(halted, 1) ELSE halted

StopAfterLowerFailure(s, t) ==
  StopWorker(IF s.turn.id = t THEN [s EXCEPT !.turn = Finished(@, "StoppedAfterLowerFailure")] ELSE s,
             "LowerFailure")

----------------------------------------------------------------------------
(***************************************************************************)
(* Callers: start_turn, cancel_turn, shutdown.                             *)
(***************************************************************************)
StartTurn(t) ==
  /\ Running(rt) /\ rt.session = "Ready" /\ CanPublish(rt, 1)
  /\ t \notin minted /\ minted' = minted \cup {t}
  /\ rt' = Published([rt EXCEPT !.session = "Running", !.turn = NewTurn(t, "Queued", NoCloud),
                                !.work = Work("start", t)], 1)
  /\ UNCHANGED <<worker, caller, entered, cloudVars>>

Enter(c, pc, o) ==
  caller' = [caller EXCEPT ![c] = [pc |-> pc, turn |-> rt.turn.id, early |-> rt.turn.proj = "Starting",
                                   op |-> o, res |-> Nothing]]
Leave(c)    == caller' = [caller EXCEPT ![c] = Idle]
Go(c, pc)   == caller' = [caller EXCEPT ![c].pc = pc]
Hold(c, pc, r) == caller' = [caller EXCEPT ![c].pc = pc, ![c].res = r]

Cancellable == Running(rt) /\ rt.session \in {"Running", "MonitoringDegraded"} /\ rt.turn.id # NoTurn

\* Mutation: a turn that the worker has claimed counts as queued.
CancelQueuedOrClaimed ==
  /\ Cancellable /\ rt.turn.proj \in {"Queued", "Starting"} /\ CanPublish(rt, 1)
  /\ rt' = Published([rt EXCEPT !.session = "Ready", !.work = NoWork,
                                !.turn = [Finished(@, "CanceledBeforeCloudStart")
                                            EXCEPT !.cancelled = TRUE]], 1)
  /\ UNCHANGED <<worker, caller, minted, entered, cloudVars>>

CancelQueued ==
  /\ Cancellable /\ rt.turn.proj = "Queued" /\ CanPublish(rt, 1)
  /\ rt' = Published([rt EXCEPT !.session = "Ready", !.work = NoWork,
                                !.turn = [Finished(@, "CanceledBeforeCloudStart")
                                            EXCEPT !.cancelled = TRUE]], 1)
  /\ UNCHANGED <<worker, caller, minted, entered, cloudVars>>

\* cancel_turn on a claimed turn, up to the lower call
CancelTurn(c) ==
  /\ caller[c].pc = "idle"
  /\ Cancellable /\ rt.turn.proj # "Queued"
  /\ rt.turn.requested \/ CanPublish(rt, 1)
  /\ LET asked == IF rt.turn.requested THEN rt
                  ELSE Published([rt EXCEPT !.turn.requested = rt.turn.proj \in
                                              {"Starting", "Cloud", "MonitoringDegraded"}], 1)
         calls == ~rt.turn.cancelled /\ ~rt.turn.cancelling
     IN  IF ~calls
         THEN rt' = asked /\ UNCHANGED caller
         ELSE /\ rt' = [asked EXCEPT !.turn.cancelling = TRUE,
                                     !.work = IF rt.turn.proj = "Starting" THEN @ ELSE NoWork]
              /\ Enter(c, "cancel", NoCloud)
  /\ UNCHANGED <<worker, minted, entered, cloudVars>>

\* cloud.cancel(): it waits while a submit is running
CallCancel(c) ==
  /\ caller[c].pc = "cancel"
  /\ \/ CancelSignals /\ UNCHANGED caller
     \/ \E r \in CallResults : CancelReturns(r) /\ Hold(c, "canceled", r)
  /\ UNCHANGED <<rt, worker, minted, entered>>

\* Nothing to cancel yet: look again after 10 ms, for at most a second.
TooEarly(c) ==
  caller[c].pc = "canceled" /\ caller[c].early /\ caller[c].res.kind = "NoCurrentOperation"

CancelAgain(c) ==
  /\ TooEarly(c)
  /\ IF rt.turn.id = caller[c].turn /\ rt.turn.cancelled THEN Leave(c) ELSE Go(c, "cancel")
  /\ UNCHANGED <<rt, worker, minted, entered, cloudVars>>

\* Mutations: the turn is shown as cancelled although the lower cancel failed; the
\* in-progress mark stays; the one-second limit is missing.
CancelGivesUpAsCanceled(c) ==
  /\ caller[c].pc = "canceled" /\ caller[c].res.kind # "ok"
  /\ rt' = IF rt.turn.id = caller[c].turn /\ rt.turn.seen # NoCloud
           THEN Applied(rt, Life(rt.turn.seen.op, "CanceledWithTask"), TRUE) ELSE rt
  /\ Leave(c)
  /\ UNCHANGED <<worker, minted, entered, cloudVars>>

CancelGivesUpMarked(c) ==
  /\ caller[c].pc = "canceled" /\ caller[c].res.kind # "ok"
  /\ Leave(c)
  /\ UNCHANGED <<rt, worker, minted, entered, cloudVars>>

CancelGivesUpOnErrorOnly(c) ==
  /\ caller[c].pc = "canceled" /\ caller[c].res.kind # "ok" /\ ~TooEarly(c)
  /\ rt' = IF rt.turn.id = caller[c].turn THEN [rt EXCEPT !.turn.cancelling = FALSE] ELSE rt
  /\ Leave(c)
  /\ UNCHANGED <<worker, minted, entered, cloudVars>>

\* The second is over, or the lower cancel failed.
CancelGivesUp(c) ==
  /\ caller[c].pc = "canceled" /\ caller[c].res.kind # "ok"
  /\ rt' = IF rt.turn.id = caller[c].turn THEN [rt EXCEPT !.turn.cancelling = FALSE] ELSE rt
  /\ Leave(c)
  /\ UNCHANGED <<worker, minted, entered, cloudVars>>

CommitCancelResult(c) ==
  /\ caller[c].pc = "canceled" /\ caller[c].res.kind = "ok"
  /\ LET life == caller[c].res.life
         changed == rt.turn.seen # life
         done == [Applied(rt, life, TRUE) EXCEPT !.turn.cancelling = FALSE]
         commits == /\ ~rt.stopped /\ CanApply(rt, caller[c].turn, life)
                    /\ changed => CanPublish(rt, 1)
     IN  rt' = CASE ~commits -> rt
                 [] commits /\ changed -> PublishedLife(done, caller[c].turn, life)
                 [] OTHER -> done
  /\ Leave(c)
  /\ UNCHANGED <<worker, minted, entered, cloudVars>>

Shutdown ==
  /\ ~rt.shutdown
  /\ rt' = IF rt.turn.proj = "Queued" /\ CanPublish(rt, 1)
           THEN Published([rt EXCEPT !.shutdown = TRUE, !.work = NoWork, !.session = "Stopped",
                                     !.stopped = TRUE,
                                     !.turn = Finished(@, "StoppedBeforeCloudStart")], 1)
           ELSE [rt EXCEPT !.shutdown = TRUE]
  /\ UNCHANGED <<worker, caller, minted, entered, cloudVars>>

(***************************************************************************)
(* Callers: reconcile_unknown and resolve_unknown.                         *)
(***************************************************************************)
RecoverUnknown(c, pc) ==
  /\ caller[c].pc = "idle"
  /\ Running(rt) /\ rt.session = "RecoveryRequired" /\ rt.turn.seen # NoCloud
  /\ Enter(c, pc, rt.turn.seen.op)
  /\ UNCHANGED <<rt, worker, minted, entered, cloudVars>>

CallReconcile(c) ==
  /\ caller[c].pc = "reconcile"
  /\ \E r \in CallResults : ReconcileReturns(r) /\ Hold(c, "reconciled", r)
  /\ UNCHANGED <<rt, worker, minted, entered>>

CurrentOperationIs(o) == rt.turn.seen # NoCloud /\ rt.turn.seen.op = o

\* RecoveryObserved
CommitReconcile(c) ==
  /\ caller[c].pc = "reconciled"
  /\ LET o == caller[c].op
         r == caller[c].res
     IN  rt' = IF r.kind = "ok" /\ r.life.op = o /\ CurrentOperationIs(o) /\ CanPublish(rt, 1)
               THEN Published(rt, 1) ELSE rt
  /\ Leave(c)
  /\ UNCHANGED <<worker, minted, entered, cloudVars>>

CallResolve(c) ==
  /\ caller[c].pc = "resolve"
  /\ \E r \in CallResults : ResolveReturns(caller[c].op, r) /\ Hold(c, "resolved", r)
  /\ UNCHANGED <<rt, worker, minted, entered>>

\* Mutation: whether the runtime has stopped meanwhile is not asked.
CommitResolveAnyTime(c) ==
  /\ caller[c].pc = "resolved"
  /\ LET o == caller[c].op
         r == caller[c].res
         t == rt.turn.id
     IN  rt' = IF /\ r.kind = "ok" /\ r.life.op = o /\ CurrentOperationIs(o)
                  /\ CanPublish(rt, 2) /\ CanApply(rt, t, r.life)
               THEN PublishedLife(Published(Applied(rt, r.life, FALSE), 1), t, r.life) ELSE rt
  /\ Leave(c)
  /\ UNCHANGED <<worker, minted, entered, cloudVars>>

\* RecoveryResolved and LifecycleChanged
CommitResolve(c) ==
  /\ caller[c].pc = "resolved"
  /\ LET o == caller[c].op
         r == caller[c].res
         t == rt.turn.id
         commits == /\ r.kind = "ok" /\ r.life.op = o /\ CurrentOperationIs(o) /\ Running(rt)
                    /\ CanPublish(rt, 2) /\ CanApply(rt, t, r.life)
         told == PublishedLife(Published(Applied(rt, r.life, FALSE), 1), t, r.life)
     IN  rt' = CASE ~commits -> rt
                 [] commits /\ r.life.phase = "Pending" -> [told EXCEPT !.work = Work("monitor", t)]
                 [] OTHER -> told
  /\ Leave(c)
  /\ UNCHANGED <<worker, minted, entered, cloudVars>>

----------------------------------------------------------------------------
(***************************************************************************)
(* The worker: next_worker_action.  It looks for a shutdown first, then    *)
(* for a cancel nobody is carrying out, then for work.                     *)
(***************************************************************************)
At(pc)         == worker.pc = pc
Take(pc, t)    == worker' = [pc |-> pc, turn |-> t, res |-> Nothing]
Loop           == Take("next", NoTurn)
Keep(pc, r)    == worker' = [worker EXCEPT !.pc = pc, !.res = r]

\* Mutation: the worker exits without recording that it stopped.
WorkerStopsSilently ==
  /\ At("next") /\ rt.shutdown
  /\ Take("exited", NoTurn)
  /\ UNCHANGED <<rt, caller, minted, entered, cloudVars>>

WorkerStops ==
  /\ At("next") /\ rt.shutdown
  /\ rt' = StopWorker(rt, "Shutdown")
  /\ Take("exited", NoTurn)
  /\ UNCHANGED <<caller, minted, entered, cloudVars>>

CancelIsDue(s) ==
  /\ s.turn.requested /\ ~s.turn.cancelling /\ ~s.turn.cancelled
  /\ \/ s.turn.proj = "Cloud" /\ s.turn.seen.phase = "Pending"
     \/ s.turn.proj = "MonitoringDegraded"

WorkerTakesCancel ==
  /\ At("next") /\ ~rt.shutdown /\ CancelIsDue(rt)
  /\ rt' = [rt EXCEPT !.turn.cancelling = TRUE, !.work = NoWork]
  /\ Take("cancel", rt.turn.id)
  /\ UNCHANGED <<caller, minted, entered, cloudVars>>

WorkerTakesStart ==
  /\ At("next") /\ ~rt.shutdown /\ ~CancelIsDue(rt) /\ rt.work.kind = "start"
  /\ IF rt.turn.id = rt.work.turn
     THEN /\ rt' = [rt EXCEPT !.work = NoWork, !.turn.proj = "Starting", !.turn.admitted = FALSE]
          /\ Take("admit", rt.work.turn)
     ELSE /\ rt' = StopWorker([rt EXCEPT !.work = NoWork], "LowerFailure")
          /\ Take("exited", NoTurn)
  /\ UNCHANGED <<caller, minted, entered, cloudVars>>

\* The monitor is due.  How long it waited (backoff) is left out.
WorkerTakesMonitor ==
  /\ At("next") /\ ~rt.shutdown /\ ~CancelIsDue(rt) /\ rt.work.kind = "monitor"
  /\ rt' = [rt EXCEPT !.work = NoWork]
  /\ Take("inspect", rt.work.turn)
  /\ UNCHANGED <<caller, minted, entered, cloudVars>>

(***************************************************************************)
(* The worker: a start.                                                    *)
(***************************************************************************)
AdmitStart ==
  /\ At("admit")
  /\ LET t == worker.turn
         mine == rt.turn.id = t
     IN  \/ /\ rt.shutdown
            /\ rt' = StopWorker(rt, "Shutdown") /\ Loop
         \/ /\ ~rt.shutdown /\ mine /\ rt.turn.requested
            /\ rt' = IF CanPublish(rt, 1)
                     THEN Published([rt EXCEPT !.session = "Ready",
                            !.turn = [Finished(@, "CanceledBeforeCloudStart")
                                        EXCEPT !.cancelling = FALSE, !.cancelled = TRUE]], 1)
                     ELSE StopAfterLowerFailure(rt, t)
            /\ Loop
         \/ /\ ~rt.shutdown /\ ~mine
            /\ rt' = StopAfterLowerFailure(rt, t) /\ Loop
         \/ /\ ~rt.shutdown /\ mine /\ ~rt.turn.requested
            /\ rt' = [rt EXCEPT !.turn.admitted = TRUE] /\ Keep("start", Nothing)
  /\ UNCHANGED <<caller, minted, entered, cloudVars>>

\* cloud.start(): its two critical sections
CallStart(o) ==
  /\ At("start")
  /\ \/ /\ StartEnters(o) /\ Keep("starting", Nothing)
        /\ entered' = [entered EXCEPT ![worker.turn] = @ \cup {o}]
     \/ StartRefused(o) /\ Keep("started", Err("Other")) /\ UNCHANGED entered
  /\ UNCHANGED <<rt, caller, minted>>

CallStartReturns ==
  /\ At("starting")
  /\ \E r \in CallResults : StartReturns(r) /\ Keep("started", r)
  /\ UNCHANGED <<rt, caller, minted, entered>>

HandleStartResult ==
  /\ At("started")
  /\ LET t == worker.turn
         r == worker.res
         seen == IF r.kind = "ok" /\ r.life.phase = "OutcomeUnknown"
                 THEN [rt EXCEPT !.session = "RecoveryRequired"] ELSE rt
         commits == /\ r.kind = "ok" /\ CanPublish(rt, IF rt.shutdown THEN 2 ELSE 1)
                    /\ CanApply(rt, t, r.life)
         told == PublishedLife(Applied(seen, r.life, FALSE), t, r.life)
     IN  \/ /\ ~commits
            /\ rt' = StopAfterLowerFailure(seen, t) /\ Loop
         \/ /\ commits /\ rt.shutdown
            /\ rt' = Published([told EXCEPT !.session = "Stopped", !.stopped = TRUE], 1) /\ Loop
         \/ /\ commits /\ ~rt.shutdown /\ r.life.phase = "Pending"
            /\ IF CancelIsDue(told)
               THEN rt' = [told EXCEPT !.turn.cancelling = TRUE] /\ Take("cancelStart", t)
               ELSE rt' = [told EXCEPT !.work = Work("monitor", t)] /\ Loop
         \/ /\ commits /\ ~rt.shutdown /\ r.life.phase # "Pending"
            /\ rt' = told /\ Loop
  /\ UNCHANGED <<caller, minted, entered, cloudVars>>

(***************************************************************************)
(* The worker: a cancel, from its loop ("cancel") or right after a start   *)
(* ("cancelStart"), which ignores a commit_worker_cancel that fails.       *)
(***************************************************************************)
WorkerCallsCancel ==
  /\ worker.pc \in {"cancel", "cancelStart"}
  /\ \/ CancelSignals /\ UNCHANGED worker
     \/ \E r \in CallResults :
          /\ CancelReturns(r)
          /\ Keep(IF At("cancel") THEN "canceled" ELSE "canceledStart", r)
  /\ UNCHANGED <<rt, caller, minted, entered>>

CommitWorkerCancel ==
  /\ worker.pc \in {"canceled", "canceledStart"}
  /\ LET t == worker.turn
         r == worker.res
         commits == r.kind = "ok" /\ CanPublish(rt, 1) /\ CanApply(rt, t, r.life)
         ignored == At("canceledStart") /\ r.kind = "ok"
     IN  rt' = CASE commits -> PublishedLife([Applied(rt, r.life, TRUE) EXCEPT
                                                !.turn.cancelling = FALSE], t, r.life)
                 [] ~commits /\ ignored -> rt
                 [] OTHER -> StopAfterLowerFailure(rt, t)
  /\ Loop
  /\ UNCHANGED <<caller, minted, entered, cloudVars>>

(***************************************************************************)
(* The worker: one monitoring read.                                        *)
(***************************************************************************)
CallInspect ==
  /\ At("inspect")
  /\ \E r \in CallResults : InspectReturns(r) /\ Keep("inspected", r)
  /\ UNCHANGED <<rt, caller, minted, entered>>

\* Mutation: the lifecycle a read found is shown, and not published.
MonitorOkUnpublished(t, life) ==
  IF ~CanApply(rt, t, life) THEN StopAfterLowerFailure(rt, t)
  ELSE IF life.phase = "Pending"
       THEN [Applied(rt, life, FALSE) EXCEPT !.work = Work("monitor", t)] ELSE Applied(rt, life, FALSE)

\* A read that succeeded, and one that failed, while the runtime is not being shut down
MonitorOk(t, life) ==
  LET changed == rt.turn.seen # life
      done == IF changed THEN PublishedLife(Applied(rt, life, FALSE), t, life)
                         ELSE Applied(rt, life, FALSE)
  IN  IF ~CanApply(rt, t, life) \/ (changed /\ ~CanPublish(rt, 1))
      THEN StopAfterLowerFailure(rt, t)
      ELSE IF life.phase = "Pending" THEN [done EXCEPT !.work = Work("monitor", t)] ELSE done

MonitorFailed(t) ==
  LET pending == rt.turn.seen # NoCloud /\ rt.turn.seen.phase = "Pending"
      degraded == rt.session = "MonitoringDegraded"
      done == [rt EXCEPT !.session = "MonitoringDegraded", !.turn.proj = "MonitoringDegraded",
                         !.work = Work("monitor", t)]
  IN  CASE ~pending \/ (~degraded /\ ~CanPublish(rt, 1)) -> StopAfterLowerFailure(rt, t)
        [] pending /\ degraded -> done
        [] OTHER -> Published(done, 1)

HandleMonitorResult ==
  /\ At("inspected")
  /\ LET t == worker.turn
         r == worker.res
         shown == r.kind = "ok" /\ CanPublish(rt, 2) /\ CanApply(rt, t, r.life)
     IN  rt' = CASE rt.turn.seen # NoCloud /\ rt.turn.seen.phase \in Terminal ->
                      [rt EXCEPT !.work = NoWork]
                 [] OTHER ->
                      IF rt.shutdown
                      THEN StopWorker(IF shown THEN PublishedLife(Applied(rt, r.life, FALSE), t, r.life)
                                               ELSE rt, "Shutdown")
                      ELSE CASE r.kind = "ok"           -> MonitorOk(t, r.life)
                             [] r.kind = "ProviderRead" -> MonitorFailed(t)
                             [] OTHER                   -> StopAfterLowerFailure(rt, t)
  /\ Loop
  /\ UNCHANGED <<caller, minted, entered, cloudVars>>

----------------------------------------------------------------------------
\* Time passes: all but at most two of the 2^64 sequence numbers are used up.
SequenceNearsEnd ==
  /\ SequenceEnds /\ rt.left = Plenty /\ ~rt.stopped
  /\ \E n \in 0 .. 2 : rt' = [rt EXCEPT !.left = n]
  /\ UNCHANGED <<worker, caller, minted, entered, cloudVars>>

\* The worker has been joined and every call has returned.
Joined ==
  /\ At("exited") /\ \A c \in Callers : caller[c].pc = "idle"
  /\ UNCHANGED vars

WorkerStep ==
  \/ WorkerStops \/ WorkerTakesCancel \/ WorkerTakesStart \/ WorkerTakesMonitor
  \/ AdmitStart \/ (\E o \in Ops : CallStart(o)) \/ CallStartReturns \/ HandleStartResult
  \/ WorkerCallsCancel \/ CommitWorkerCancel
  \/ CallInspect \/ HandleMonitorResult

\* A caller goes on with the call it is in.
CallerStep(c) ==
  \/ CallCancel(c) \/ CancelAgain(c) \/ CancelGivesUp(c) \/ CommitCancelResult(c)
  \/ CallReconcile(c) \/ CommitReconcile(c) \/ CallResolve(c) \/ CommitResolve(c)

Next ==
  \/ \E t \in Turns : StartTurn(t)
  \/ CancelQueued
  \/ \E c \in Callers :
       \/ CancelTurn(c) \/ RecoverUnknown(c, "reconcile") \/ RecoverUnknown(c, "resolve")
       \/ CallerStep(c)
  \/ Shutdown
  \/ WorkerStep
  \/ SequenceNearsEnd
  \/ Joined

Spec == Init /\ [][Next]_vars

(***************************************************************************)
(* Fairness: the worker and the threads inside a call are scheduled, lower *)
(* calls return (each has a deadline of its own), and the second that a    *)
(* cancel waits for its operation does pass.                               *)
(***************************************************************************)
Fairness ==
  /\ WF_vars(WorkerStep)
  /\ \A c \in Callers : WF_vars(CallerStep(c)) /\ SF_vars(CancelGivesUp(c))

FairSpec == Spec /\ Fairness

----------------------------------------------------------------------------
WorkerPcs == {"next", "admit", "start", "starting", "started", "cancel", "canceled", "cancelStart",
              "canceledStart", "inspect", "inspected", "exited"}
CallerPcs == {"idle", "cancel", "canceled", "reconcile", "reconciled", "resolve", "resolved"}
Shown     == Lives \cup {NoCloud}

TurnRecords ==
  [id : Turns \cup {NoTurn}, proj : Projections, seen : Shown, requested : BOOLEAN,
   admitted : BOOLEAN, cancelling : BOOLEAN, cancelled : BOOLEAN]
RuntimeStates ==
  [session : Sessions, work : [kind : {"none", "start", "monitor"}, turn : Turns \cup {NoTurn}],
   turn : TurnRecords, shutdown : BOOLEAN, stopped : BOOLEAN, told : [Turns -> Shown],
   left : 0 .. Plenty]
WorkerStates == [pc : WorkerPcs, turn : Turns \cup {NoTurn}, res : CallResults]
CallerStates == [pc : CallerPcs, turn : Turns \cup {NoTurn}, early : BOOLEAN,
                 op : Ops \cup {NoCloud}, res : CallResults]

\* Type invariant: reserve_events keeps every append_event within the sequence numbers
\* left, and the worker and the callers are at one of their points.
TypeOK ==
  /\ cloud \in Shown /\ call \in {"idle", "running", "cancelling"}
  /\ drawn \subseteq Ops /\ alive = TRUE
  /\ rt \in RuntimeStates /\ worker \in WorkerStates /\ caller \in [Callers -> CallerStates]
  /\ minted \subseteq Turns /\ entered \in [Turns -> SUBSET Ops]

\* One receipt, at most one lower start; and none at all once the turn is shown as
\* cancelled or stopped before the cloud start, whatever the worker had claimed.
OneStartPerTurn ==
  /\ \A t \in Turns : \A o, p \in entered[t] : o = p
  /\ rt.turn.proj \in {"Queued", "CanceledBeforeCloudStart", "StoppedBeforeCloudStart"}
       => entered[rt.turn.id] = {} /\ ~(worker.turn = rt.turn.id /\ worker.pc \in {"start", "starting"})

\* A lifecycle moves at most three times.
Reaches(from, to) == \E a \in Later(from) : \E b \in Later(a) : to \in Later(b)

\* The lower orchestrator has committed this lifecycle, and may have gone on since.
Committed(life) ==
  life # NoCloud => life.op \in drawn /\ cloud # NoCloud /\ (cloud.op = life.op => Reaches(life, cloud))

\* A published or shown lifecycle is one the lower orchestrator has committed: it
\* never runs ahead of the current one of the same operation.
ShownIsCommitted ==
  Committed(rt.turn.seen) /\ \A t \in Turns : Committed(rt.told[t])

\* The first terminal lifecycle published for a turn is the last one: a cancel, a late
\* monitoring read, a start result and a recovery may race, but never overwrite it.
TerminalPublishedOnce ==
  [][\A t \in Turns :
       rt.told[t] # NoCloud /\ rt.told[t].phase \in Terminal => rt'.told[t] = rt.told[t]]_vars

\* What a stopped runtime tells of its turn is final: a cancel, a decision, a start or a read
\* that was under way when it stopped changes neither the turn nor its published lifecycle.
\* (The shutdown() that follows may still mark a queued turn as not started.)
StoppedIsFrozen ==
  [][rt.stopped /\ rt'.shutdown = rt.shutdown =>
       rt'.told = rt.told /\ rt'.turn.proj = rt.turn.proj /\ rt'.turn.seen = rt.turn.seen]_vars

\* The snapshot and the event stream tell the same story: the lifecycle a snapshot shows
\* is the last one published for the turn, or the one construction found.
SnapshotMatchesEvents ==
  rt.turn.seen # NoCloud =>
    \/ rt.told[rt.turn.id] = rt.turn.seen
    \/ rt.told[rt.turn.id] = NoCloud /\ entered[rt.turn.id] = {}

\* An active turn is somebody's business: there is work queued for it, or the worker or a
\* caller is acting for it, or the worker will find its cancel request.  (With no sequence
\* number left a cancel cannot be committed, and the turn is given up.)
ActiveTurnIsAttended ==
  ~rt.stopped /\ CanPublish(rt, 1) /\ rt.session \in {"Running", "MonitoringDegraded"} =>
    \/ rt.work.kind # "none" /\ rt.work.turn = rt.turn.id
    \/ worker.turn = rt.turn.id
    \/ \E c \in Callers : caller[c].pc \in {"cancel", "canceled"} /\ caller[c].turn = rt.turn.id
    \/ CancelIsDue(rt)

----------------------------------------------------------------------------
\* The worker acts for a turn.
Engaged == worker.pc \notin {"next", "exited"}

\* The lower start of such a turn was never called.
Unstarted == {"Queued", "CanceledBeforeCloudStart", "StoppedBeforeCloudStart"}

\* Identifiers are fresh, and whoever holds one holds a minted one; queued work is for the
\* current turn.
HoldersInv ==
  /\ \A t \in Turns \ minted : entered[t] = {}
  /\ \A t \in Turns : entered[t] = {} \/ \E o \in Ops : entered[t] = {o}
  /\ IF Engaged THEN worker.turn \in minted ELSE worker.turn = NoTurn
  /\ \A c \in Callers : caller[c].turn \in minted \/ (caller[c].turn = NoTurn /\ caller[c].pc = "idle")
  /\ \/ rt.turn.id \in minted
     \/ rt.turn.id = NoTurn /\ rt.turn.proj = "none" /\ rt.turn.seen = NoCloud
  /\ rt.work.kind # "none" => rt.work.turn = rt.turn.id /\ rt.turn.id \in minted

\* What is shown of the current turn agrees with what was done for it: only a queued turn is
\* to be started; a turn the worker may still start was not started before, and is not shown
\* as unstarted afterwards; a turn that the worker does not act for while it is engaged is an
\* unstarted one, which nobody cancels; and the worker of a stopped runtime does not act for
\* its turn any more, nor will it find anything to do.
ProjectionInv ==
  /\ rt.work.kind = "start" => rt.turn.proj = "Queued"
  /\ rt.work.kind = "monitor" => rt.turn.proj # "Queued"
  /\ rt.turn.proj = "Queued" =>
       /\ rt.turn.seen = NoCloud /\ worker.turn # rt.turn.id
       /\ \A c \in Callers : caller[c].turn # rt.turn.id
  /\ rt.turn.proj \in Unstarted => entered[rt.turn.id] = {}
  /\ rt.turn.proj \in Unstarted \ {"Queued"} => rt.session \notin {"Running", "MonitoringDegraded"}
  /\ rt.turn.proj = "Starting" /\ ~rt.turn.admitted => entered[rt.turn.id] = {}
  /\ worker.pc \in {"admit", "start"} => entered[worker.turn] = {}
  /\ worker.pc = "starting" => cloud # NoCloud
  /\ worker.turn = rt.turn.id =>
       /\ worker.pc \in {"start", "starting"} => rt.turn.admitted
       /\ worker.pc \in {"admit", "start", "starting"} => rt.turn.proj \notin Unstarted
       /\ worker.pc \in {"admit", "start"} /\ rt.turn.seen # NoCloud =>
            rt.told[rt.turn.id] = rt.turn.seen
       /\ Engaged => ~rt.stopped
  /\ Engaged /\ worker.turn # rt.turn.id =>
       /\ rt.turn.proj \in Unstarted /\ rt.turn.seen = NoCloud
       /\ \A c \in Callers : caller[c].pc \in {"cancel", "canceled"} => caller[c].turn # rt.turn.id
  /\ rt.stopped /\ ~rt.shutdown =>
       rt.work.kind = "none" /\ (rt.turn.requested => rt.turn.proj \in Unstarted)
  /\ rt.turn.seen # NoCloud =>
       \/ rt.told[rt.turn.id] = rt.turn.seen
       \/ rt.told[rt.turn.id] = NoCloud /\ entered[rt.turn.id] = {}

TurnInv == HoldersInv /\ ProjectionInv

\* The lower orchestrator as the runtime drives it: a submit runs exactly while the worker is
\* in start(), and whatever result is in hand was committed there.
LowerInv ==
  /\ cloud # NoCloud => cloud.op \in drawn
  /\ IF worker.pc = "starting" THEN InPhase({"Submitting"}) ELSE call = "idle"
  /\ Committed(worker.res.life) /\ \A c \in Callers : Committed(caller[c].res.life)

\* The lifecycles, the holders of the turn and its projection, with the types: in particular,
\* no event is appended beyond the sequence numbers reserved.
RuntimeInv == TypeOK /\ TurnInv /\ LowerInv

(***************************************************************************)
(* Why an active turn is attended.  The cancel of a turn is carried out by *)
(* one thread at a time; a result in hand for a pending turn can always be *)
(* committed, unless the cancel was called too early, which leaves the     *)
(* monitoring of the turn alone.                                           *)
(***************************************************************************)
Active     == rt.session \in {"Running", "MonitoringDegraded"}
Open(life) == life # NoCloud /\ life.phase \notin Terminal
Cancels(c) == caller[c].pc \in {"cancel", "canceled"} /\ caller[c].turn = rt.turn.id
Acts(pcs)  == worker.turn = rt.turn.id /\ worker.pc \in pcs
StartPcs   == {"admit", "start", "starting", "started"}
CancelPcs  == {"cancel", "canceled", "cancelStart", "canceledStart"}
AfterPending == Statuses \cup {"CanceledWithTask"}

\* The session state, the work and the projection go with the lifecycle that is shown.
ShownInv ==
  /\ rt.turn.seen # NoCloud <=> rt.turn.proj \in {"Cloud", "MonitoringDegraded"}
  /\ rt.turn.proj = "MonitoringDegraded" => rt.turn.seen.phase = "Pending"
  /\ Active => \/ rt.turn.proj \in {"Queued", "Starting"}
               \/ rt.turn.seen # NoCloud /\ rt.turn.seen.phase = "Pending"
  /\ rt.session = "Ready" => ~Open(rt.turn.seen)
  /\ rt.work.kind = "monitor" => rt.turn.seen # NoCloud /\ rt.turn.seen.phase = "Pending"

\* Nothing was published for a turn that nothing was shown for, unless its cancel is over.
ToldInv ==
  /\ \A t \in Turns \ minted : rt.told[t] = NoCloud
  /\ rt.turn.proj = "Queued" => rt.told[rt.turn.id] = NoCloud
  /\ rt.turn.proj = "Starting" /\ ~rt.stopped => Acts(StartPcs)
  /\ Engaged /\ worker.turn = rt.turn.id /\ rt.turn.seen = NoCloud =>
       rt.turn.proj = "Starting" /\ worker.pc \in StartPcs /\ rt.told[rt.turn.id] = NoCloud
  /\ ~rt.stopped /\ rt.turn.id # NoTurn /\ rt.turn.seen = NoCloud /\ rt.told[rt.turn.id] # NoCloud =>
       rt.turn.cancelled /\ \A c \in Callers : ~Cancels(c)

\* One thread cancels at a time, and it was asked to; a turn it shows before the start of the
\* worker has returned is cancelled.
CancelInv ==
  /\ \A c \in Callers : Cancels(c) =>
       /\ rt.turn.cancelling \/ rt.turn.cancelled
       /\ rt.turn.proj \in {"Starting", "Cloud", "MonitoringDegraded"} => rt.turn.requested
       /\ rt.turn.cancelled => rt.turn.seen = NoCloud /\ rt.turn.proj \notin {"Queued", "Starting"}
  /\ \A c, d \in Callers : Cancels(c) /\ Cancels(d) => c = d
  /\ Acts(CancelPcs) => (rt.turn.cancelling \/ rt.turn.cancelled) /\ \A c \in Callers : ~Cancels(c)
  /\ Acts(StartPcs) /\ rt.turn.seen # NoCloud =>
       /\ rt.turn.cancelled /\ \A c \in Callers : ~Cancels(c)
       /\ worker.pc # "started" => rt.turn.seen.phase \in Terminal

\* No result in hand is Submitting, a cancel leaves nothing pending, and a start returns the
\* current operation.
HandsInv ==
  /\ worker.res.kind = "ok" =>
       /\ worker.res.life.phase # "Submitting"
       /\ worker.pc \in CancelPcs => worker.res.life.phase # "Pending"
       /\ At("started") => cloud # NoCloud /\ worker.res.life.op = cloud.op
  /\ \A c \in Callers : caller[c].res.kind = "ok" =>
       /\ caller[c].res.life.phase # "Submitting"
       /\ caller[c].pc = "canceled" => caller[c].res.life.phase # "Pending"

\* An open lifecycle that is shown is the current one of the lower orchestrator, which has
\* nothing open that is neither shown nor being started.
OpenInv ==
  /\ Open(rt.turn.seen) => cloud # NoCloud /\ cloud.op = rt.turn.seen.op
  /\ ~rt.stopped /\ ~Open(rt.turn.seen) /\ worker.pc \notin {"starting", "started"} => Settled

\* Whoever cancels what is shown can commit the result, as long as that is open.
CommitInv ==
  /\ Acts(CancelPcs) =>
       /\ rt.turn.seen # NoCloud /\ rt.turn.seen.phase \in AfterPending
       /\ worker.res.kind = "ok" /\ Open(rt.turn.seen) =>
            worker.res.life.op = rt.turn.seen.op /\ worker.res.life.phase \in AfterPending
  /\ \A c \in Callers : Cancels(c) /\ ~caller[c].early =>
       /\ rt.turn.proj \notin {"Queued", "Starting"}
       /\ rt.turn.seen # NoCloud => rt.turn.seen.phase \in AfterPending
       /\ caller[c].res.kind = "ok" /\ Open(rt.turn.seen) =>
            caller[c].res.life.op = rt.turn.seen.op /\ caller[c].res.life.phase \in AfterPending

\* Until the start of the worker has returned, a cancel finds terminal lifecycles only; an open
\* one that it finds later is the current one.
EarlyInv ==
  \A c \in Callers : Cancels(c) /\ caller[c].res.kind = "ok" /\ caller[c].res.life.phase \notin Terminal =>
    /\ ~Acts({"admit", "start", "starting"})
    /\ rt.stopped \/ (cloud # NoCloud /\ caller[c].res.life.op = cloud.op)

ResultInv == HandsInv /\ OpenInv /\ CommitInv /\ EarlyInv

\* ActiveTurnIsAttended, by somebody who does not act too early.
AttendInv ==
  ~rt.stopped /\ CanPublish(rt, 1) /\ Active =>
    \/ rt.work.kind # "none"
    \/ worker.turn = rt.turn.id
    \/ \E c \in Callers : Cancels(c) /\ ~caller[c].early
    \/ CancelIsDue(rt)

AttendedInv == ShownInv /\ ToldInv /\ CancelInv /\ ResultInv /\ AttendInv

\* The inductive invariant of start, cancel, recovery and shutdown against the worker.
SessionInv == RuntimeInv /\ AttendedInv

\* shutdown() joins the worker: whatever lower call it is in, it stops and exits.
ShutdownCompletes == rt.shutdown ~> (At("exited") /\ rt.stopped)

\* A claimed start is always decided, and no caller is kept waiting for ever.
CallsReturn ==
  /\ rt.turn.proj = "Starting" ~> rt.turn.proj # "Starting"
  /\ \A c \in Callers : caller[c].pc # "idle" ~> caller[c].pc = "idle"

\* SPEC-T005A: "later equal projections are no-ops".
EqualProjectionIsNoOp ==
  [][At("inspected") /\ ~rt.shutdown /\ worker.res.kind = "ok" /\ worker.res.life.phase \in Terminal
       /\ worker.res.life = rt.told[worker.turn] /\ worker' # worker
     => ~rt'.stopped]_vars

\* SPEC-T005A: "the latched intent remains and the worker must either suppress the [...]
\* start or call lower cancel": while the cancel of a pending turn is marked as in
\* progress, so that nobody else begins one, some thread is carrying it out.
CancelIsCarriedOut ==
  rt.turn.cancelling /\ ~rt.stopped /\ rt.turn.seen # NoCloud /\ rt.turn.seen.phase = "Pending" =>
    \/ worker.turn = rt.turn.id /\ worker.pc \in {"cancel", "canceled", "cancelStart", "canceledStart"}
    \/ \E c \in Callers : caller[c].turn = rt.turn.id /\ caller[c].pc \in {"cancel", "canceled"}
===================================================================================
