--------------------------- MODULE SessionRuntimeProofs ---------------------------
(***************************************************************************)
(* SessionRuntime for any sets of operations, turns and callers.  First    *)
(* its steps: what the operations on the state behind the mutex change and *)
(* what they leave alone; the three ways in which most actions change that *)
(* state, each of which preserves TurnInv; and the actions that make a     *)
(* lower call, or commit the result that a caller holds.  Then TurnInv is  *)
(* inductive, and what the properties of SessionRuntime need of it.  Last, *)
(* AttendedInv is preserved by each action, given the rest.                *)
(***************************************************************************)
EXTENDS SessionRuntime, TLAPS

\* Two states that differ in their events at most.
SameButEvents(p, s) ==
  /\ p.session = s.session /\ p.work = s.work /\ p.turn = s.turn
  /\ p.shutdown = s.shutdown /\ p.stopped = s.stopped

SameFlags(p, s) == p.shutdown = s.shutdown /\ p.stopped = s.stopped /\ p.told = s.told

\* append_event uses up a sequence number and changes nothing else.
LEMMA PublishedFacts ==
  ASSUME NEW s \in RuntimeStates, NEW n \in {1, 2}, CanPublish(s, n)
  PROVE  /\ Published(s, n) \in RuntimeStates
         /\ SameButEvents(Published(s, n), s) /\ Published(s, n).told = s.told
         /\ \A m \in {1, 2} : s.left >= n + m => CanPublish(Published(s, n), m)
BY DEF Published, RuntimeStates, CanPublish, Plenty, SameButEvents

LEMMA PublishedLifeFacts ==
  ASSUME NEW s \in RuntimeStates, CanPublish(s, 1), NEW t \in Turns, NEW life \in Lives
  PROVE  /\ PublishedLife(s, t, life) \in RuntimeStates
         /\ PublishedLife(s, t, life).told = [s.told EXCEPT ![t] = life]
         /\ SameButEvents(PublishedLife(s, t, life), s)
         /\ \A m \in {1, 2} : s.left >= 1 + m => CanPublish(PublishedLife(s, t, life), m)
<1>1. PICK p \in RuntimeStates : p = Published(s, 1)
  BY PublishedFacts, Zenon
<1>2. /\ SameButEvents(p, s) /\ p.told = s.told
      /\ \A m \in {1, 2} : s.left >= 1 + m => CanPublish(p, m)
  BY <1>1, PublishedFacts, Zenon
<1>3. PublishedLife(s, t, life) = [p EXCEPT !.told[t] = life]
  BY <1>1, Zenon DEF PublishedLife
<1>4. [s.told EXCEPT ![t] = life] \in [Turns -> Shown]
  BY Zenon DEF RuntimeStates, Shown
<1> QED
  BY <1>2, <1>3, <1>4 DEF RuntimeStates, SameButEvents, CanPublish

\* apply_projected_lifecycle shows the lifecycle and keeps the turn's own marks.
LEMMA AppliedFacts ==
  ASSUME NEW s \in RuntimeStates, NEW life \in Lives, NEW completed \in BOOLEAN
  PROVE  LET p == Applied(s, life, completed)
         IN  /\ p \in RuntimeStates /\ SameFlags(p, s) /\ p.left = s.left
             /\ p.session = StateFor(life) /\ p.work \in {s.work, NoWork}
             /\ p.turn.id = s.turn.id /\ p.turn.proj = "Cloud" /\ p.turn.seen = life
             /\ p.turn.requested = s.turn.requested /\ p.turn.admitted = s.turn.admitted
             /\ life.phase # "Pending" => p.work = NoWork
<1>1. StateFor(life) \in Sessions
  BY Zenon DEF StateFor, Sessions
<1>2. NoWork \in [kind : {"none", "start", "monitor"}, turn : Turns \cup {NoTurn}]
  BY Zenon DEF NoWork
<1> DEFINE turn == [s.turn EXCEPT !.proj = "Cloud", !.seen = life, !.cancelled = @ \/ completed]
<1>4. /\ turn \in TurnRecords /\ turn.id = s.turn.id /\ turn.proj = "Cloud" /\ turn.seen = life
      /\ turn.requested = s.turn.requested /\ turn.admitted = s.turn.admitted
  BY ZenonT(30) DEF RuntimeStates, TurnRecords, Shown, Projections
<1>5. PICK p : p = Applied(s, life, completed)
  BY Zenon
<1>6. /\ p.session = StateFor(life) /\ p.work \in {s.work, NoWork} /\ p.turn = turn
      /\ p.shutdown = s.shutdown /\ p.stopped = s.stopped /\ p.told = s.told /\ p.left = s.left
      /\ life.phase # "Pending" => p.work = NoWork
  BY <1>5, Zenon DEF Applied, RuntimeStates
<1>7. p \in RuntimeStates
  BY <1>1, <1>2, <1>4, <1>5, ZenonT(30) DEF Applied, RuntimeStates
<1> HIDE DEF turn
<1> QED
  BY <1>4, <1>5, <1>6, <1>7, Zenon DEF SameFlags

LEMMA AppliedMarks ==
  ASSUME NEW s \in RuntimeStates, NEW life \in Lives, NEW completed \in BOOLEAN
  PROVE  /\ Applied(s, life, completed).turn.cancelling = s.turn.cancelling
         /\ Applied(s, life, completed).turn.cancelled <=> s.turn.cancelled \/ completed
<1> DEFINE turn == [s.turn EXCEPT !.proj = "Cloud", !.seen = life, !.cancelled = @ \/ completed]
<1>1. turn.cancelling = s.turn.cancelling /\ (turn.cancelled <=> s.turn.cancelled \/ completed)
  BY ZenonT(30) DEF RuntimeStates, TurnRecords
<1>2. Applied(s, life, completed).turn = turn
  BY Zenon DEF Applied, RuntimeStates
<1> HIDE DEF turn
<1> QED
  BY <1>1, <1>2, Zenon

LEMMA FinishedFacts ==
  ASSUME NEW turn \in TurnRecords, NEW proj \in Projections
  PROVE  /\ Finished(turn, proj) \in TurnRecords
         /\ Finished(turn, proj).id = turn.id /\ Finished(turn, proj).proj = proj
         /\ Finished(turn, proj).seen = NoCloud /\ ~Finished(turn, proj).requested
         /\ Finished(turn, proj).admitted = turn.admitted
         /\ Finished(turn, proj).cancelling = turn.cancelling
         /\ Finished(turn, proj).cancelled = turn.cancelled
BY ZenonT(30) DEF Finished, TurnRecords, Shown

\* stop_worker halts a running state; a turn that was not admitted becomes one that was
\* stopped before its start.
LEMMA StopWorkerFacts ==
  ASSUME NEW s \in RuntimeStates, NEW reason \in {"Shutdown", "LowerFailure"}
  PROVE  LET p == StopWorker(s, reason)
         IN  /\ p \in RuntimeStates /\ p.told = s.told /\ p.shutdown = s.shutdown /\ p.stopped
             /\ s.stopped => p = s
             /\ ~s.stopped =>
                  /\ p.work = NoWork /\ p.session = "Stopped"
                  /\ \/ p.turn = s.turn
                     \/ /\ reason = "Shutdown" /\ s.turn.proj \in {"Queued", "Starting"}
                        /\ ~s.turn.admitted
                        /\ p.turn = Finished(s.turn, "StoppedBeforeCloudStart")
<1>1. CASE s.stopped
  BY <1>1, Zenon DEF StopWorker
<1>2. CASE ~s.stopped
  <2>1. PICK unstarted \in BOOLEAN :
          unstarted = (/\ reason = "Shutdown"
                       /\ s.turn.proj \in {"Queued", "Starting"} /\ ~s.turn.admitted)
    BY ZenonT(30) DEF RuntimeStates, TurnRecords
  <2>2. PICK turn : turn = IF unstarted THEN Finished(s.turn, "StoppedBeforeCloudStart") ELSE s.turn
    BY Zenon
  <2>3. turn \in TurnRecords
    BY <2>2, FinishedFacts, Zenon DEF RuntimeStates, Projections
  <2>4. PICK h : h = [s EXCEPT !.turn = turn, !.work = NoWork, !.session = "Stopped", !.stopped = TRUE]
    BY Zenon
  <2>5. /\ h \in RuntimeStates /\ h.turn = turn /\ h.work = NoWork /\ h.session = "Stopped"
        /\ h.stopped /\ h.told = s.told /\ h.shutdown = s.shutdown /\ h.left = s.left
    BY <2>3, <2>4, ZenonT(30) DEF RuntimeStates, NoWork, Sessions
  <2>6. StopWorker(s, reason) = IF CanPublish(s, 1) THEN Published(h, 1) ELSE h
    BY <1>2, <2>1, <2>2, <2>4, Zenon DEF StopWorker
  <2>7. CanPublish(s, 1) => /\ Published(h, 1) \in RuntimeStates
                            /\ SameButEvents(Published(h, 1), h) /\ Published(h, 1).told = h.told
    BY <2>5, PublishedFacts, Zenon DEF CanPublish
  <2> QED
    BY <1>2, <2>1, <2>2, <2>5, <2>6, <2>7, ZenonT(30) DEF SameButEvents
<1> QED
  BY <1>1, <1>2, Zenon

\* stop_after_lower_failure gives the turn up, if it is still the current one.
LEMMA StopAfterLowerFailureFacts ==
  ASSUME NEW s \in RuntimeStates, NEW t \in Turns \cup {NoTurn}
  PROVE  LET p == StopAfterLowerFailure(s, t)
         IN  /\ p \in RuntimeStates /\ p.told = s.told /\ p.shutdown = s.shutdown /\ p.stopped
             /\ ~s.stopped => p.work = NoWork /\ p.session = "Stopped"
             /\ s.turn.id # t => p.turn = s.turn /\ (s.stopped => p = s)
             /\ s.turn.id = t => p.turn = Finished(s.turn, "StoppedAfterLowerFailure")
<1>1. PICK q : q = IF s.turn.id = t
                   THEN [s EXCEPT !.turn = Finished(@, "StoppedAfterLowerFailure")] ELSE s
  BY ZenonT(30)
<1>2. Finished(s.turn, "StoppedAfterLowerFailure") \in TurnRecords
  BY FinishedFacts, Zenon DEF RuntimeStates, Projections
<1>3. /\ q \in RuntimeStates /\ SameFlags(q, s)
      /\ s.turn.id = t => q.turn = Finished(s.turn, "StoppedAfterLowerFailure")
      /\ s.turn.id # t => q = s
  BY <1>1, <1>2, Zenon DEF RuntimeStates, SameFlags
<1>4. StopAfterLowerFailure(s, t) = StopWorker(q, "LowerFailure")
  BY <1>1, Zenon DEF StopAfterLowerFailure
<1>5. PICK p : p = StopWorker(q, "LowerFailure")
  BY Zenon
<1>6. /\ p \in RuntimeStates /\ p.told = q.told /\ p.shutdown = q.shutdown /\ p.stopped
      /\ q.stopped => p = q
      /\ ~q.stopped => p.work = NoWork /\ p.session = "Stopped" /\ p.turn = q.turn
  BY <1>3, <1>5, StopWorkerFacts, Zenon
<1> QED
  BY <1>3, <1>4, <1>5, <1>6, Zenon DEF SameFlags

\* A commit shows the lifecycle for the turn of s, and publishes what `told' says.
Showing(p, s, life, told) ==
  /\ p \in RuntimeStates
  /\ p.turn.id = s.turn.id /\ p.turn.proj = "Cloud" /\ p.turn.seen = life
  /\ p.turn.admitted = s.turn.admitted /\ p.turn.requested = s.turn.requested
  /\ p.session = StateFor(life)
  /\ p.work \in {s.work, NoWork} /\ (life.phase # "Pending" => p.work = NoWork)
  /\ p.shutdown = s.shutdown /\ p.stopped = s.stopped /\ p.told = told

LEMMA TellFacts ==
  ASSUME NEW s \in RuntimeStates, NEW life \in Lives, NEW p, Showing(p, s, life, s.told),
         CanPublish(p, 1), s.turn.id \in Turns
  PROVE  /\ Showing(PublishedLife(p, s.turn.id, life), s, life, [s.told EXCEPT ![s.turn.id] = life])
         /\ \A m \in {1, 2} : p.left >= 1 + m => CanPublish(PublishedLife(p, s.turn.id, life), m)
<1>1. PICK q : q = PublishedLife(p, s.turn.id, life)
  BY Zenon
<1>2. /\ q \in RuntimeStates /\ q.told = [p.told EXCEPT ![s.turn.id] = life] /\ SameButEvents(q, p)
      /\ \A m \in {1, 2} : p.left >= 1 + m => CanPublish(q, m)
  BY <1>1, PublishedLifeFacts DEF Showing
<1> QED
  BY <1>1, <1>2, Zenon DEF Showing, SameButEvents

\* The commits of cancel_turn, resolve_unknown and the worker.
LEMMA CommitFacts ==
  ASSUME NEW s \in RuntimeStates, NEW life \in Lives, NEW completed \in BOOLEAN, s.turn.id \in Turns
  PROVE  LET shown == Applied(s, life, completed)
             done  == [shown EXCEPT !.turn.cancelling = FALSE]
             t     == s.turn.id
             told  == [s.told EXCEPT ![t] = life]
         IN  /\ Showing(shown, s, life, s.told) /\ Showing(done, s, life, s.told)
             /\ CanPublish(s, 1) =>
                  /\ Showing(PublishedLife(shown, t, life), s, life, told)
                  /\ Showing(PublishedLife(done, t, life), s, life, told)
             /\ CanPublish(s, 2) =>
                  /\ Showing(PublishedLife(Published(shown, 1), t, life), s, life, told)
                  /\ CanPublish(PublishedLife(shown, t, life), 1)
<1>1. PICK shown : shown = Applied(s, life, completed)
  BY Zenon
<1>2. Showing(shown, s, life, s.told) /\ shown.left = s.left
  <2>1. shown \in RuntimeStates /\ SameFlags(shown, s) /\ shown.left = s.left
    BY <1>1, AppliedFacts, ZenonT(30)
  <2>2. shown.session = StateFor(life) /\ shown.work \in {s.work, NoWork}
    BY <1>1, AppliedFacts, ZenonT(30)
  <2>3. shown.turn.id = s.turn.id /\ shown.turn.proj = "Cloud" /\ shown.turn.seen = life
    BY <1>1, AppliedFacts, ZenonT(30)
  <2>4. shown.turn.requested = s.turn.requested /\ shown.turn.admitted = s.turn.admitted
    BY <1>1, AppliedFacts, ZenonT(30)
  <2>5. life.phase # "Pending" => shown.work = NoWork
    BY <1>1, AppliedFacts, ZenonT(30)
  <2> QED
    BY <2>1, <2>2, <2>3, <2>4, <2>5, Zenon DEF Showing, SameFlags
<1>3. PICK done : done = [shown EXCEPT !.turn.cancelling = FALSE]
  BY ZenonT(30)
<1>4. Showing(done, s, life, s.told) /\ done.left = s.left
  BY <1>2, <1>3, ZenonT(30) DEF Showing, RuntimeStates, TurnRecords
<1>5. s.left \in 0 .. Plenty
  BY Zenon DEF RuntimeStates
<1>6. CanPublish(s, 1) =>
        /\ Showing(PublishedLife(shown, s.turn.id, life), s, life, [s.told EXCEPT ![s.turn.id] = life])
        /\ Showing(PublishedLife(done, s.turn.id, life), s, life, [s.told EXCEPT ![s.turn.id] = life])
  BY <1>2, <1>4, TellFacts, Zenon DEF CanPublish
<1>7. ASSUME CanPublish(s, 2)
      PROVE  /\ Showing(PublishedLife(Published(shown, 1), s.turn.id, life), s, life,
                         [s.told EXCEPT ![s.turn.id] = life])
             /\ CanPublish(PublishedLife(shown, s.turn.id, life), 1)
  <2>1. CanPublish(shown, 1) /\ shown.left >= 1 + 1
    BY <1>2, <1>5, <1>7 DEF CanPublish, Plenty
  <2>2. PICK next : next = Published(shown, 1)
    BY Zenon
  <2>3. next \in RuntimeStates /\ SameButEvents(next, shown) /\ next.told = shown.told /\ CanPublish(next, 1)
    BY <1>2, <2>1, <2>2, PublishedFacts, Zenon DEF Showing
  <2>4. Showing(next, s, life, s.told)
    BY <1>2, <2>3, Zenon DEF Showing, SameButEvents
  <2> QED
    BY <1>2, <2>1, <2>2, <2>3, <2>4, TellFacts, Zenon
<1> QED
  BY <1>1, <1>2, <1>3, <1>4, <1>6, <1>7, Zenon

----------------------------------------------------------------------------
LEMMA ResultFacts ==
  /\ Nothing \in CallResults /\ Err("Other") \in CallResults
  /\ \A r \in CallResults : r.kind = "ok" => r.life \in Lives
BY DEF Nothing, CallResults, Err

\* The calls of the lower orchestrator keep its types, and it stays alive.
CloudTypes ==
  /\ cloud \in Shown /\ call \in {"idle", "running", "cancelling"} /\ drawn \subseteq Ops /\ alive = TRUE

\* A lifecycle, once there, is never forgotten.
CloudStep == CloudTypes' /\ (cloud # NoCloud => cloud' # NoCloud)

LEMMA LifeType ==
  ASSUME NEW o \in Ops, NEW p \in Phases
  PROVE  Life(o, p) \in Lives /\ Life(o, p) # NoCloud
BY ContractAssumption DEF Life, Lives

LEMMA CurrentLife ==
  ASSUME CloudTypes, NEW ps, InPhase(ps)
  PROVE  cloud \in Lives /\ cloud.op \in Ops
BY Zenon DEF CloudTypes, Shown, InPhase, Lives

LEMMA CloudCallTypes ==
  ASSUME CloudTypes
  PROVE  /\ \A o \in Ops : StartEnters(o) \/ StartRefused(o) => CloudStep
         /\ CancelSignals => CloudStep
         /\ \A r \in CallResults :
              \/ CancelReturns(r) \/ InspectReturns(r) \/ ReconcileReturns(r)
              \/ \E o : ResolveReturns(o, r)
              => CloudStep
<1>1. {"Submitting", "CanceledWithTask", "AbandonedUnknown"} \cup Statuses \subseteq Phases
  BY Zenon DEF Phases, Terminal, Statuses
<1>2. ASSUME NEW o \in Ops, StartEnters(o) \/ StartRefused(o)
      PROVE  CloudStep
  <2>1. Life(o, "Submitting") \in Lives /\ Life(o, "Submitting") # NoCloud
    BY <1>1, LifeType, Zenon
  <2> QED
    BY <1>2, <2>1, ZenonT(30) DEF StartEnters, StartRefused, CloudTypes, CloudStep, Shown
<1>3. ASSUME CancelSignals
      PROVE  CloudStep
  BY <1>3, Zenon DEF CancelSignals, CloudTypes, CloudStep
<1>4. ASSUME NEW r \in CallResults, CancelReturns(r)
      PROVE  CloudStep
  <2>1. cloud' = cloud \/ (InPhase({"Pending"}) /\ cloud' = Life(cloud.op, "CanceledWithTask"))
    BY <1>4, Zenon DEF CancelReturns
  <2>2. cloud' \in Shown /\ (cloud # NoCloud => cloud' # NoCloud)
    BY <1>1, <2>1, CurrentLife, LifeType, Zenon DEF CloudTypes, Shown
  <2> QED
    BY <1>4, <2>2, Zenon DEF CancelReturns, CloudTypes, CloudStep
<1>5. ASSUME NEW r \in CallResults, InspectReturns(r)
      PROVE  CloudStep
  <2>1. cloud' = cloud \/ (InPhase({"Pending"}) /\ \E p \in Statuses : cloud' = Life(cloud.op, p))
    BY <1>5, Zenon DEF InspectReturns
  <2>2. cloud' \in Shown /\ (cloud # NoCloud => cloud' # NoCloud)
    BY <1>1, <2>1, CurrentLife, LifeType, Zenon DEF CloudTypes, Shown
  <2> QED
    BY <1>5, <2>2, Zenon DEF InspectReturns, CloudTypes, CloudStep
<1>6. ASSUME NEW r \in CallResults, ReconcileReturns(r)
      PROVE  CloudStep
  BY <1>6, Zenon DEF ReconcileReturns, cloudVars, CloudTypes, CloudStep
<1>7. ASSUME NEW r \in CallResults, NEW o, ResolveReturns(o, r)
      PROVE  CloudStep
  <2>1. \/ cloud' = cloud
        \/ /\ InPhase({"OutcomeUnknown"}) /\ cloud.op = o
           /\ \E p \in Statuses \cup {"AbandonedUnknown"} : cloud' = Life(o, p)
    BY <1>7, Zenon DEF ResolveReturns
  <2>2. cloud' \in Shown /\ (cloud # NoCloud => cloud' # NoCloud)
    BY <1>1, <2>1, CurrentLife, LifeType, ZenonT(30) DEF CloudTypes, Shown
  <2> QED
    BY <1>7, <2>2, Zenon DEF ResolveReturns, CloudTypes, CloudStep
<1> QED
  BY <1>2, <1>3, <1>4, <1>5, <1>6, <1>7, Zenon

\* start() returns: it needs a lifecycle to settle, which there is while the call runs.
LEMMA StartReturnTypes ==
  ASSUME CloudTypes, cloud # NoCloud, NEW r \in CallResults, StartReturns(r)
  PROVE  CloudStep
<1>1. cloud \in Lives /\ cloud.op \in Ops
  BY Zenon DEF CloudTypes, Shown, Lives
<1>2. cloud' = cloud \/ \E p \in Phases : cloud' = Life(cloud.op, p)
  BY Zenon DEF StartReturns, Phases, Terminal
<1>3. cloud' \in Shown /\ cloud' # NoCloud
  BY <1>1, <1>2, LifeType, Zenon DEF CloudTypes, Shown
<1> QED
  BY <1>3, Zenon DEF StartReturns, CloudTypes, CloudStep

----------------------------------------------------------------------------
(***************************************************************************)
(* A quiet step leaves what is shown of the turn alone, a show step        *)
(* commits a lifecycle or its degradation, a stop step halts the runtime.  *)
(***************************************************************************)
\* A thread that is in a call stays with its turn, or returns.
CallersGoOn ==
  \A c \in Callers :
    \/ caller'[c] = caller[c]
    \/ caller'[c].pc = "idle" /\ caller'[c].turn = NoTurn
    \/ /\ caller[c].pc # "idle" /\ caller'[c].turn = caller[c].turn
       /\ caller'[c].pc \in {"cancel", "canceled"} => caller[c].pc \in {"cancel", "canceled"}

\* The worker stays with its turn, up to a lower call that returned, or has done with it.
WorkerDone == worker'.pc \in {"next", "exited"} /\ worker'.turn = NoTurn
WorkerGoesOn ==
  \/ worker' = worker
  \/ WorkerDone
  \/ /\ Engaged /\ worker'.turn = worker.turn
     /\ worker'.pc \in {"started", "canceled", "canceledStart", "inspected"}

LowerGoesOn == cloud # NoCloud => cloud' # NoCloud

\* The runtime knows of this lifecycle: it is shown, published, or a result in hand.
Knows(life) ==
  \/ life \in {NoCloud, rt.turn.seen, worker.res.life}
  \/ \E t \in Turns : life = rt.told[t]
  \/ \E c \in Callers : life = caller[c].res.life

\* A step shows and publishes what the runtime knew of, and nothing else.
ToldKnown == Knows(rt'.turn.seen) /\ \A t \in Turns : Knows(rt'.told[t])

QuietStep ==
  /\ rt'.turn.id = rt.turn.id /\ rt'.turn.proj = rt.turn.proj /\ rt'.turn.seen = rt.turn.seen
  /\ rt'.turn.requested = rt.turn.requested /\ rt'.turn.admitted = rt.turn.admitted
  /\ rt'.work \in {rt.work, NoWork} /\ rt'.told = rt.told /\ rt'.session = rt.session
  /\ rt'.stopped = rt.stopped /\ rt'.shutdown = rt.shutdown
  /\ WorkerGoesOn /\ CallersGoOn /\ LowerGoesOn /\ UNCHANGED <<minted, entered>>

ShowStep ==
  /\ rt.turn.id \in minted /\ rt.turn.proj # "Queued" /\ ~rt.stopped
  /\ Engaged => worker.turn = rt.turn.id
  /\ rt'.turn.id = rt.turn.id /\ rt'.turn.proj \in {"Cloud", "MonitoringDegraded"}
  /\ rt'.turn.admitted = rt.turn.admitted /\ Knows(rt'.turn.seen)
  /\ \/ rt'.turn.seen = rt.turn.seen /\ rt'.told = rt.told
     \/ rt'.told = [rt.told EXCEPT ![rt.turn.id] = rt'.turn.seen]
  /\ rt'.work \in {rt.work, NoWork, Work("monitor", rt.turn.id)}
  /\ rt'.shutdown = rt.shutdown /\ (rt'.stopped => rt.shutdown /\ WorkerDone)
  /\ \/ worker' = worker
     \/ WorkerDone
     \/ Engaged /\ worker'.turn = worker.turn /\ worker'.pc = "cancelStart"
  /\ CallersGoOn /\ LowerGoesOn /\ UNCHANGED <<minted, entered>>

StopStep ==
  /\ rt'.stopped /\ rt'.shutdown = rt.shutdown /\ rt'.told = rt.told /\ WorkerDone
  /\ rt'.session \notin {"Running", "MonitoringDegraded"}
  /\ rt'.work = NoWork \/ (rt.stopped /\ rt'.work = rt.work /\ rt'.turn = rt.turn)
  /\ \/ rt'.turn = rt.turn /\ (rt.shutdown \/ rt.turn.proj \in Unstarted)
     \/ rt'.turn = Finished(rt.turn, "StoppedAfterLowerFailure") /\ rt.turn.id \in minted
     \/ /\ rt'.turn = Finished(rt.turn, "StoppedBeforeCloudStart")
        /\ rt.turn.proj \in {"Queued", "Starting"} /\ ~rt.turn.admitted
  /\ CallersGoOn /\ LowerGoesOn /\ UNCHANGED <<minted, entered>>

LEMMA ToldFrame ==
  ASSUME rt'.told = rt.told, rt'.turn.seen \in {rt.turn.seen, NoCloud}
  PROVE  ToldKnown
BY ZenonT(30) DEF ToldKnown, Knows

LEMMA QuietStepKeeps ==
  ASSUME TypeOK, TurnInv, TypeOK', QuietStep
  PROVE  TurnInv' /\ ToldKnown
<1>1. /\ minted' = minted /\ entered' = entered
      /\ rt'.work.kind # "none" => rt'.work = rt.work
      /\ NoTurn \notin Turns
  BY RuntimeAssumption DEF QuietStep, NoWork
<1>2. \A c \in Callers : caller'[c].turn # NoTurn => caller'[c].turn = caller[c].turn
  BY Zenon DEF QuietStep, CallersGoOn
<1>3. \A c \in Callers :
        /\ caller'[c].pc \in {"cancel", "canceled"} =>
             caller[c].pc \in {"cancel", "canceled"} /\ caller'[c].turn = caller[c].turn
        /\ caller'[c].turn \in minted \/ (caller'[c].turn = NoTurn /\ caller'[c].pc = "idle")
  BY ZenonT(30) DEF QuietStep, CallersGoOn, TurnInv, HoldersInv, ProjectionInv
<1>4. ToldKnown
  BY ToldFrame, Zenon DEF QuietStep
<1> QED
  BY <1>1, <1>2, <1>3, <1>4, SMTT(30)
  DEF QuietStep, WorkerGoesOn, WorkerDone, LowerGoesOn, Engaged, Unstarted, TurnInv, HoldersInv, ProjectionInv, TypeOK

LEMMA ShowStepKeeps ==
  ASSUME TypeOK, TurnInv, TypeOK', ShowStep
  PROVE  TurnInv' /\ ToldKnown
<1>1. /\ minted' = minted /\ entered' = entered
      /\ rt'.work.kind # "none" => rt'.work = rt.work \/ rt'.work = Work("monitor", rt.turn.id)
      /\ NoTurn \notin Turns
  BY RuntimeAssumption DEF ShowStep, NoWork
<1>2. /\ Work("monitor", rt.turn.id).kind = "monitor" /\ Work("monitor", rt.turn.id).turn = rt.turn.id
      /\ rt.turn.id \in Turns
  BY Zenon DEF Work, ShowStep, TypeOK
<1>3. rt'.turn.seen # NoCloud =>
        \/ rt'.told[rt.turn.id] = rt'.turn.seen
        \/ /\ rt'.told = rt.told /\ rt'.turn.seen = rt.turn.seen
           /\ rt.told[rt.turn.id] = NoCloud /\ entered[rt.turn.id] = {}
  BY <1>2, ZenonT(30) DEF ShowStep, TurnInv, HoldersInv, ProjectionInv, TypeOK, RuntimeStates
<1>4. worker.pc \in {"admit", "start"} /\ worker.turn = rt.turn.id /\ rt'.turn.seen # NoCloud
        => rt'.told[rt.turn.id] = rt'.turn.seen
  BY <1>2, <1>3, ZenonT(30) DEF ShowStep, TurnInv, HoldersInv, ProjectionInv, TypeOK, RuntimeStates
<1>5. \A c \in Callers : caller'[c].turn \in minted \/ (caller'[c].turn = NoTurn /\ caller'[c].pc = "idle")
  BY SMTT(30) DEF ShowStep, CallersGoOn, TurnInv, HoldersInv, ProjectionInv
<1>6. rt'.work.kind # "start"
  BY <1>1, <1>2, Zenon DEF ShowStep, TurnInv, HoldersInv, ProjectionInv
<1>7. ToldKnown
  <2>1. \A t \in Turns : rt'.told[t] \in {rt.told[t], rt'.turn.seen}
    BY <1>2, ZenonT(30) DEF ShowStep, TypeOK, RuntimeStates
  <2> QED
    BY <2>1, ZenonT(30) DEF ShowStep, ToldKnown, Knows
<1> QED
  BY <1>1, <1>2, <1>3, <1>4, <1>5, <1>6, <1>7, SMTT(30)
  DEF ShowStep, WorkerDone, LowerGoesOn, Engaged, Unstarted, TurnInv, HoldersInv, ProjectionInv, TypeOK

LEMMA StopStepKeeps ==
  ASSUME TypeOK, TurnInv, TypeOK', StopStep
  PROVE  TurnInv' /\ ToldKnown
<1>1. /\ minted' = minted /\ entered' = entered
      /\ rt'.work.kind # "none" => rt'.work = rt.work /\ rt.stopped /\ rt'.turn = rt.turn
      /\ NoTurn \notin Turns
  BY RuntimeAssumption, SMTT(30) DEF StopStep, NoWork
<1>2. \/ rt'.turn = rt.turn /\ (rt.shutdown \/ rt.turn.proj \in Unstarted)
      \/ /\ rt'.turn.proj \in {"StoppedAfterLowerFailure", "StoppedBeforeCloudStart"}
         /\ rt'.turn.id = rt.turn.id /\ rt'.turn.seen = NoCloud /\ ~rt'.turn.requested
         /\ rt.turn.id \in minted
         /\ rt'.turn.proj \in Unstarted =>
              rt.turn.proj \in {"Queued", "Starting"} /\ ~rt.turn.admitted
  BY FinishedFacts, SMTT(30) DEF StopStep, TurnInv, HoldersInv, ProjectionInv, TypeOK, RuntimeStates, Projections, Unstarted
<1>3. \A c \in Callers :
        /\ caller'[c].turn # NoTurn => caller'[c].turn = caller[c].turn
        /\ caller'[c].turn \in minted \/ (caller'[c].turn = NoTurn /\ caller'[c].pc = "idle")
  BY ZenonT(30) DEF StopStep, CallersGoOn, TurnInv, HoldersInv, ProjectionInv
<1>4. rt.turn.id \in minted => rt.turn.id # NoTurn
  BY <1>1, Zenon DEF TypeOK
<1>5. /\ ~Engaged' /\ worker'.pc \in {"next", "exited"} /\ worker'.turn = NoTurn
      /\ rt'.stopped /\ rt'.shutdown = rt.shutdown /\ rt'.told = rt.told
      /\ rt'.session \notin {"Running", "MonitoringDegraded"}
  BY Zenon DEF StopStep, WorkerDone, Engaged
<1>6. ToldKnown
  BY <1>2, <1>5, ToldFrame, Zenon
<1> QED
  BY <1>1, <1>2, <1>3, <1>4, <1>5, <1>6, SMTT(30)
  DEF Engaged, Unstarted, TurnInv, HoldersInv, ProjectionInv, TypeOK, RuntimeStates

----------------------------------------------------------------------------
\* How the threads move.
LEMMA CallerMoves ==
  ASSUME TypeOK, NEW c \in Callers
  PROVE  /\ Leave(c) => caller' \in [Callers -> CallerStates] /\ CallersGoOn
         /\ \A pc \in CallerPcs, r \in CallResults :
              /\ caller[c].pc # "idle"
              /\ pc \in {"cancel", "canceled"} => caller[c].pc \in {"cancel", "canceled"}
              /\ Hold(c, pc, r) \/ Go(c, pc)
              => caller' \in [Callers -> CallerStates] /\ CallersGoOn
         /\ UNCHANGED caller => caller' \in [Callers -> CallerStates] /\ CallersGoOn
<1>1. Idle \in CallerStates /\ Idle.pc = "idle" /\ Idle.turn = NoTurn
  BY ResultFacts, Zenon DEF Idle, CallerStates, CallerPcs
<1>2. ASSUME NEW pc \in CallerPcs, NEW r \in CallResults,
             caller[c].pc # "idle", pc \in {"cancel", "canceled"} => caller[c].pc \in {"cancel", "canceled"},
             Hold(c, pc, r) \/ Go(c, pc)
      PROVE  caller' \in [Callers -> CallerStates] /\ CallersGoOn
  <2>1. PICK k : k = caller'[c]
    BY Zenon
  <2>2. k \in CallerStates /\ k.turn = caller[c].turn /\ k.pc = pc
    BY <1>2, <2>1 DEF Hold, Go, TypeOK, CallerStates
  <2>3. caller' = [caller EXCEPT ![c] = k]
    BY <1>2, <2>1, Zenon DEF Hold, Go, TypeOK
  <2> QED
    BY <1>2, <2>2, <2>3, Zenon DEF CallersGoOn, TypeOK
<1>3. UNCHANGED caller => caller' \in [Callers -> CallerStates] /\ CallersGoOn
  BY Zenon DEF CallersGoOn, TypeOK
<1>4. Leave(c) => caller' \in [Callers -> CallerStates] /\ CallersGoOn
  BY <1>1, Zenon DEF Leave, CallersGoOn, TypeOK
<1> QED
  BY <1>2, <1>3, <1>4, Zenon

LEMMA WorkerMoves ==
  ASSUME TypeOK, NEW pc \in WorkerPcs
  PROVE  /\ \A t \in Turns \cup {NoTurn} :
              Take(pc, t) => worker' \in WorkerStates /\ worker'.pc = pc /\ worker'.turn = t
         /\ \A r \in CallResults :
              Keep(pc, r) => worker' \in WorkerStates /\ worker'.pc = pc /\ worker'.turn = worker.turn
         /\ Loop => worker' \in WorkerStates /\ WorkerDone
<1>1. "next" \in WorkerPcs /\ worker \in WorkerStates
  BY Zenon DEF WorkerPcs, TypeOK
<1>2. ASSUME NEW p \in WorkerPcs, NEW t \in Turns \cup {NoTurn}, Take(p, t)
      PROVE  worker' \in WorkerStates /\ worker'.pc = p /\ worker'.turn = t
  BY <1>2, ResultFacts, Zenon DEF Take, WorkerStates
<1>3. ASSUME NEW r \in CallResults, Keep(pc, r)
      PROVE  worker' \in WorkerStates /\ worker'.pc = pc /\ worker'.turn = worker.turn
  BY <1>1, <1>3, ZenonT(30) DEF Keep, WorkerStates
<1>4. Loop => worker' \in WorkerStates /\ WorkerDone
  BY <1>1, <1>2, Zenon DEF Loop, WorkerDone
<1> QED
  BY <1>2, <1>3, <1>4, Zenon

----------------------------------------------------------------------------
\* The lower calls are made without the mutex.
LEMMA LowerCallsKeep ==
  ASSUME TypeOK, TurnInv
  PROVE  /\ \A c \in Callers : CallCancel(c) \/ CallReconcile(c) \/ CallResolve(c) => TypeOK' /\ TurnInv' /\ ToldKnown
         /\ CallStartReturns \/ WorkerCallsCancel \/ CallInspect => TypeOK' /\ TurnInv' /\ ToldKnown
<1>1. CloudTypes
  BY Zenon DEF TypeOK, CloudTypes
<1>2. ASSUME NEW c \in Callers, CallCancel(c) \/ CallReconcile(c) \/ CallResolve(c)
      PROVE  TypeOK' /\ TurnInv' /\ ToldKnown
  <2>1. UNCHANGED <<rt, worker, minted, entered>>
    BY <1>2, Zenon DEF CallCancel, CallReconcile, CallResolve
  <2>2. CloudStep
    BY <1>1, <1>2, CloudCallTypes, Zenon DEF CallCancel, CallReconcile, CallResolve
  <2>3. caller' \in [Callers -> CallerStates] /\ CallersGoOn
    BY <1>2, CallerMoves, Zenon DEF CallCancel, CallReconcile, CallResolve, CallerPcs
  <2>4. TypeOK'
    BY <2>1, <2>2, <2>3, Zenon DEF TypeOK, CloudStep, CloudTypes
  <2>5. QuietStep
    BY <2>1, <2>2, <2>3, Zenon DEF QuietStep, WorkerGoesOn, CloudStep, LowerGoesOn
  <2> QED
    BY <2>4, <2>5, QuietStepKeeps, Zenon
<1>3. ASSUME CallStartReturns \/ WorkerCallsCancel \/ CallInspect
      PROVE  TypeOK' /\ TurnInv' /\ ToldKnown
  <2>1. UNCHANGED <<rt, caller, minted, entered>>
    BY <1>3, Zenon DEF CallStartReturns, WorkerCallsCancel, CallInspect
  <2>2. CloudStep
    <3>1. CASE CallStartReturns
      BY <1>1, <3>1, StartReturnTypes, Zenon DEF CallStartReturns, At, TurnInv, HoldersInv, ProjectionInv
    <3>2. CASE WorkerCallsCancel
      BY <1>1, <3>2, CloudCallTypes, Zenon DEF WorkerCallsCancel
    <3>3. CASE CallInspect
      BY <1>1, <3>3, CloudCallTypes, Zenon DEF CallInspect
    <3> QED
      BY <1>3, <3>1, <3>2, <3>3, Zenon
  <2>3. /\ Engaged
        /\ \/ worker' = worker
           \/ \E pc \in {"started", "canceled", "canceledStart", "inspected"}, r \in CallResults : Keep(pc, r)
    BY <1>3, Zenon DEF CallStartReturns, WorkerCallsCancel, CallInspect, At, Engaged
  <2>4. worker' \in WorkerStates /\ WorkerGoesOn
    <3>1. {"started", "canceled", "canceledStart", "inspected"} \subseteq WorkerPcs
      BY Zenon DEF WorkerPcs
    <3> QED
      BY <2>3, <3>1, WorkerMoves, Zenon DEF WorkerGoesOn, TypeOK
  <2>5. TypeOK'
    BY <2>1, <2>2, <2>4, Zenon DEF TypeOK, CloudStep, CloudTypes
  <2>6. QuietStep
    BY <2>1, <2>2, <2>4, Zenon DEF QuietStep, CallersGoOn, CloudStep, LowerGoesOn
  <2> QED
    BY <2>5, <2>6, QuietStepKeeps, Zenon
<1> QED
  BY <1>2, <1>3, Zenon

LEMMA TypeFrame ==
  ASSUME TypeOK, rt' \in RuntimeStates, worker' \in WorkerStates, caller' \in [Callers -> CallerStates],
         minted' \subseteq Turns, UNCHANGED <<entered, cloudVars>>
  PROVE  TypeOK' /\ LowerGoesOn
BY Zenon DEF TypeOK, LowerGoesOn, cloudVars

\* start() is entered, for a turn it was not called for, or is refused.
LEMMA CallStartKeeps ==
  ASSUME TypeOK, TurnInv, NEW o \in Ops, CallStart(o)
  PROVE  TypeOK' /\ TurnInv' /\ ToldKnown
<1>h. HoldersInv
  BY Zenon DEF TurnInv
<1>p. ProjectionInv
  BY Zenon DEF TurnInv
<1>1. CloudStep
  BY CloudCallTypes, Zenon DEF CallStart, TypeOK, CloudTypes
<1>2. /\ worker.pc = "start" /\ worker.turn \in minted /\ worker.turn \in Turns
      /\ UNCHANGED <<rt, caller, minted>> /\ entered[worker.turn] = {}
  BY Zenon DEF CallStart, At, Engaged, TurnInv, HoldersInv, ProjectionInv, TypeOK
<1>3. CASE StartEnters(o) /\ Keep("starting", Nothing) /\ entered' = [entered EXCEPT ![worker.turn] = @ \cup {o}]
  <2>1. worker' \in WorkerStates /\ worker'.pc = "starting" /\ worker'.turn = worker.turn
    BY <1>3, WorkerMoves, ResultFacts, Zenon DEF WorkerPcs
  <2>2. entered' \in [Turns -> SUBSET Ops] /\ entered'[worker.turn] = {o}
    BY <1>2, <1>3, Zenon DEF TypeOK
  <2>3. \A t \in Turns \ {worker.turn} : entered'[t] = entered[t]
    BY <1>2, <1>3, Zenon DEF TypeOK
  <2>4. TypeOK'
    BY <1>1, <1>2, <2>1, <2>2, Zenon DEF TypeOK, CloudStep, CloudTypes
  <2>5. cloud' # NoCloud
    BY <1>3, LifeType, Zenon DEF StartEnters, Phases
  <2>6. rt.turn.id \in minted => rt.turn.id \in Turns
    BY Zenon DEF TypeOK
  <2>7. /\ \A t \in Turns \ minted : entered'[t] = {}
        /\ \A t \in Turns : entered'[t] = {} \/ \E p \in Ops : entered'[t] = {p}
    BY <1>2, <2>2, <2>3, <1>h, <1>p, SMTT(30) DEF HoldersInv, ProjectionInv
  <2>8. rt.turn.id # worker.turn /\ rt.turn.id \in minted => entered'[rt.turn.id] = entered[rt.turn.id]
    BY <2>3, <2>6, Zenon
  <2>9. UNCHANGED <<rt, caller, minted>> /\ worker.pc = "start"
    BY <1>2, Zenon
  <2>10. HoldersInv'
    BY <2>1, <2>5, <2>7, <2>8, <2>9, <1>h, Zenon DEF HoldersInv, Engaged
  <2>11. ProjectionInv'
    BY <2>1, <2>5, <2>7, <2>8, <2>9, <1>h, <1>p, ZenonT(30) DEF HoldersInv, ProjectionInv, Engaged, Unstarted
  <2>12. ToldKnown
    BY <2>9, ToldFrame, Zenon
  <2> QED
    BY <2>4, <2>10, <2>11, <2>12, Zenon DEF TurnInv
<1>4. CASE StartRefused(o) /\ Keep("started", Err("Other")) /\ UNCHANGED entered
  <2>1. worker' \in WorkerStates /\ worker'.pc = "started" /\ worker'.turn = worker.turn
    BY <1>4, WorkerMoves, ResultFacts, Zenon DEF WorkerPcs
  <2>2. TypeOK'
    BY <1>1, <1>2, <1>4, <2>1, Zenon DEF TypeOK, CloudStep, CloudTypes
  <2>3. QuietStep
    BY <1>1, <1>2, <1>4, <2>1, Zenon DEF QuietStep, WorkerGoesOn, CallersGoOn, CloudStep, LowerGoesOn, Engaged
  <2> QED
    BY <2>2, <2>3, QuietStepKeeps, Zenon
<1> QED
  BY <1>3, <1>4, Zenon DEF CallStart

\* What changes neither the turn, as far as it is shown, nor the work.
LEMMA QuietActionsKeep ==
  ASSUME TypeOK, TurnInv
  PROVE  /\ \A c \in Callers : CancelAgain(c) \/ CancelGivesUp(c) \/ CommitReconcile(c) => TypeOK' /\ TurnInv' /\ ToldKnown
         /\ SequenceNearsEnd \/ UNCHANGED vars => TypeOK' /\ TurnInv' /\ ToldKnown
<1>1. ASSUME NEW c \in Callers, CancelAgain(c) \/ CancelGivesUp(c) \/ CommitReconcile(c)
      PROVE  TypeOK' /\ TurnInv' /\ ToldKnown
  <2>1. UNCHANGED <<worker, minted, entered, cloudVars>>
    BY <1>1, Zenon DEF CancelAgain, CancelGivesUp, CommitReconcile
  <2>2. caller' \in [Callers -> CallerStates] /\ CallersGoOn
    <3>1. Leave(c) \/ (Go(c, "cancel") /\ caller[c].pc = "canceled")
      BY <1>1, Zenon DEF CancelAgain, TooEarly, CancelGivesUp, CommitReconcile
    <3> QED
      BY <3>1, CallerMoves, ResultFacts, Zenon DEF CallerPcs
  <2>3. \/ rt' = rt \/ rt' = [rt EXCEPT !.turn.cancelling = FALSE]
        \/ CanPublish(rt, 1) /\ rt' = Published(rt, 1)
    BY <1>1, Zenon DEF CancelAgain, CancelGivesUp, CommitReconcile
  <2>4. rt \in RuntimeStates
    BY Zenon DEF TypeOK
  <2>5. rt' \in RuntimeStates /\ (WorkerGoesOn /\ CallersGoOn /\ LowerGoesOn /\ UNCHANGED <<minted, entered>> => QuietStep)
    <3>1. CASE rt' = rt
      BY <2>4, <3>1, Zenon DEF QuietStep
    <3>2. CASE rt' = [rt EXCEPT !.turn.cancelling = FALSE]
      BY <2>4, <3>2, ZenonT(30) DEF QuietStep, RuntimeStates, TurnRecords
    <3>3. CASE CanPublish(rt, 1) /\ rt' = Published(rt, 1)
      BY <2>4, <3>3, PublishedFacts, Zenon DEF QuietStep, SameButEvents
    <3> QED
      BY <2>3, <3>1, <3>2, <3>3, Zenon
  <2>6. TypeOK' /\ LowerGoesOn
    BY <2>1, <2>2, <2>5, TypeFrame, ZenonT(30) DEF TypeOK
  <2>7. QuietStep
    BY <2>1, <2>2, <2>5, <2>6, Zenon DEF WorkerGoesOn
  <2> QED
    BY <2>6, <2>7, QuietStepKeeps, Zenon
<1>2. ASSUME SequenceNearsEnd \/ UNCHANGED vars
      PROVE  TypeOK' /\ TurnInv' /\ ToldKnown
  <2>1. UNCHANGED <<worker, caller, minted, entered, cloudVars>>
    BY <1>2, Zenon DEF SequenceNearsEnd, vars
  <2>2. rt' = rt \/ \E n \in 0 .. 2 : rt' = [rt EXCEPT !.left = n]
    BY <1>2, Zenon DEF SequenceNearsEnd, vars
  <2>3. rt' \in RuntimeStates /\ (WorkerGoesOn /\ CallersGoOn /\ LowerGoesOn /\ UNCHANGED <<minted, entered>> => QuietStep)
    BY <2>2 DEF TypeOK, RuntimeStates, Plenty, QuietStep
  <2>4. TypeOK' /\ LowerGoesOn
    BY <2>1, <2>3, TypeFrame, ZenonT(30) DEF TypeOK
  <2>5. QuietStep
    BY <2>1, <2>3, <2>4, Zenon DEF WorkerGoesOn, CallersGoOn
  <2> QED
    BY <2>4, <2>5, QuietStepKeeps, Zenon
<1> QED
  BY <1>1, <1>2, Zenon

----------------------------------------------------------------------------
\* A lower result is committed for the current turn only, and while somebody acts for it
\* the worker acts for no other turn.
LEMMA CommitCancelResultKeeps ==
  ASSUME TypeOK, TurnInv, NEW c \in Callers, CommitCancelResult(c)
  PROVE  TypeOK' /\ TurnInv' /\ ToldKnown
<1>h. HoldersInv
  BY Zenon DEF TurnInv
<1>p. ProjectionInv
  BY Zenon DEF TurnInv
<1>1. PICK life : life = caller[c].res.life
  BY Zenon
<1>2. /\ life \in Lives /\ caller[c].pc = "canceled" /\ Leave(c)
      /\ UNCHANGED <<worker, minted, entered, cloudVars>> /\ rt \in RuntimeStates
  BY <1>1, ResultFacts, Zenon DEF CommitCancelResult, TypeOK, CallerStates
<1>3. caller' \in [Callers -> CallerStates] /\ CallersGoOn
  BY <1>2, CallerMoves, Zenon
<1>4. CASE rt' = rt
  <2>1. TypeOK' /\ LowerGoesOn
    BY <1>2, <1>3, <1>4, TypeFrame, ZenonT(30) DEF TypeOK
  <2> QED
    BY <1>2, <1>3, <1>4, <2>1, QuietStepKeeps, Zenon DEF QuietStep, WorkerGoesOn
<1>5. CASE rt' # rt
  <2>1. PICK done : done = [Applied(rt, life, TRUE) EXCEPT !.turn.cancelling = FALSE]
    BY ZenonT(30)
  <2>2. /\ ~rt.stopped /\ rt.turn.id = caller[c].turn
        /\ \/ rt.turn.seen # life /\ CanPublish(rt, 1) /\ rt' = PublishedLife(done, caller[c].turn, life)
           \/ rt.turn.seen = life /\ rt' = done
    BY <1>1, <1>5, <2>1, ZenonT(30) DEF CommitCancelResult, CanApply
  <2>3. /\ rt.turn.id \in minted /\ rt.turn.id \in Turns /\ rt.turn.proj # "Queued"
        /\ Engaged => worker.turn = rt.turn.id
    BY <1>2, <2>2, <1>h, <1>p, ZenonT(30) DEF HoldersInv, ProjectionInv, TypeOK
  <2>4. /\ Showing(done, rt, life, rt.told)
        /\ CanPublish(rt, 1) =>
             Showing(PublishedLife(done, rt.turn.id, life), rt, life, [rt.told EXCEPT ![rt.turn.id] = life])
    BY <1>2, <2>1, <2>3, CommitFacts, ZenonT(30)
  <2>5. \/ Showing(rt', rt, life, rt.told) /\ rt.turn.seen = life
        \/ Showing(rt', rt, life, [rt.told EXCEPT ![rt.turn.id] = life])
    BY <2>2, <2>4, Zenon
  <2>6. TypeOK' /\ LowerGoesOn
    BY <1>2, <1>3, <2>5, TypeFrame, ZenonT(30) DEF TypeOK, Showing
  <2>7. Knows(rt'.turn.seen)
    BY <1>1, <2>5, Zenon DEF Knows, Showing
  <2>8. ShowStep
    BY <1>2, <1>3, <2>2, <2>3, <2>5, <2>6, <2>7, ZenonT(30) DEF ShowStep, Showing
  <2> QED
    BY <2>6, <2>8, ShowStepKeeps, Zenon
<1> QED
  BY <1>4, <1>5, Zenon

LEMMA CommitResolveKeeps ==
  ASSUME TypeOK, TurnInv, NEW c \in Callers, CommitResolve(c)
  PROVE  TypeOK' /\ TurnInv' /\ ToldKnown
<1>h. HoldersInv
  BY Zenon DEF TurnInv
<1>p. ProjectionInv
  BY Zenon DEF TurnInv
<1>1. PICK r : r = caller[c].res
  BY Zenon
<1>2. /\ r.kind = "ok" => r.life \in Lives
      /\ Leave(c) /\ UNCHANGED <<worker, minted, entered, cloudVars>> /\ rt \in RuntimeStates
  BY <1>1, ResultFacts, Zenon DEF CommitResolve, TypeOK, CallerStates
<1>3. caller' \in [Callers -> CallerStates] /\ CallersGoOn
  BY <1>2, CallerMoves, Zenon
<1>4. CASE rt' = rt
  <2>1. TypeOK' /\ LowerGoesOn
    BY <1>2, <1>3, <1>4, TypeFrame, ZenonT(30) DEF TypeOK
  <2> QED
    BY <1>2, <1>3, <1>4, <2>1, QuietStepKeeps, Zenon DEF QuietStep, WorkerGoesOn
<1>5. CASE rt' # rt
  <2>1. PICK told : told = PublishedLife(Published(Applied(rt, r.life, FALSE), 1), rt.turn.id, r.life)
    BY ZenonT(30)
  <2>2. /\ r.kind = "ok" /\ Running(rt) /\ CanPublish(rt, 2) /\ rt.turn.seen # NoCloud
        /\ rt' = told \/ rt' = [told EXCEPT !.work = Work("monitor", rt.turn.id)]
    BY <1>1, <1>5, <2>1, ZenonT(30) DEF CommitResolve, CurrentOperationIs
  <2>3. /\ rt.turn.id \in minted /\ rt.turn.id \in Turns /\ rt.turn.proj # "Queued"
        /\ Engaged => worker.turn = rt.turn.id
    BY <2>2, <1>h, <1>p, Zenon DEF HoldersInv, ProjectionInv, TypeOK
  <2>4. Showing(told, rt, r.life, [rt.told EXCEPT ![rt.turn.id] = r.life])
    BY <1>2, <2>1, <2>2, <2>3, CommitFacts, ZenonT(30)
  <2>5. /\ rt' \in RuntimeStates /\ rt'.turn = told.turn /\ rt'.told = told.told
        /\ rt'.work \in {told.work, Work("monitor", rt.turn.id)}
        /\ rt'.shutdown = told.shutdown /\ rt'.stopped = told.stopped
    BY <2>2, <2>3, <2>4 DEF Showing, RuntimeStates, Work
  <2>6. TypeOK' /\ LowerGoesOn
    BY <1>2, <1>3, <2>5, TypeFrame, ZenonT(30) DEF TypeOK
  <2>7. Knows(rt'.turn.seen)
    BY <1>1, <2>4, <2>5, ZenonT(30) DEF Knows, Showing
  <2>8. ShowStep
    BY <1>2, <1>3, <2>2, <2>3, <2>4, <2>5, <2>6, <2>7, ZenonT(90) DEF ShowStep, Showing, Running
  <2> QED
    BY <2>6, <2>8, ShowStepKeeps, Zenon
<1> QED
  BY <1>4, <1>5, Zenon

----------------------------------------------------------------------------
(***************************************************************************)
(* The lower orchestrator moves a lifecycle along Later, or draws a new    *)
(* operation: so what it committed once stays committed.                   *)
(***************************************************************************)
\* The phases that follow a phase, at once and in the end.
NextPhases(p) ==
  {p} \cup CASE p = "Submitting" -> {"FailedBeforeSubmit", "OutcomeUnknown", "Pending", "CanceledNoTask"}
             [] p = "OutcomeUnknown" -> Statuses \cup {"AbandonedUnknown"}
             [] p = "Pending" -> Statuses \cup {"CanceledWithTask"}
             [] OTHER -> {}

PhasesAfter(p) ==
  CASE p = "Submitting" -> Phases
    [] p = "OutcomeUnknown" -> Statuses \cup {"OutcomeUnknown", "AbandonedUnknown", "CanceledWithTask"}
    [] p = "Pending" -> Statuses \cup {"CanceledWithTask"}
    [] OTHER -> {p}

LEMMA PhaseFacts ==
  /\ \A p \in Phases : p \in PhasesAfter(p) /\ PhasesAfter(p) \subseteq Phases /\ NextPhases(p) \subseteq Phases
  /\ \A p \in Phases : \A q \in PhasesAfter(p) : NextPhases(q) \subseteq PhasesAfter(p)
  /\ \A p \in Phases : \A q \in PhasesAfter(p) :
       \E a \in NextPhases(p) : \E b \in NextPhases(a) : q \in NextPhases(b)
<1>1. \A p \in Phases : p \in PhasesAfter(p) /\ PhasesAfter(p) \subseteq Phases /\ NextPhases(p) \subseteq Phases
  BY DEF Phases, Terminal, Statuses, PhasesAfter, NextPhases
<1>2. \A p \in Phases : \A q \in PhasesAfter(p) : NextPhases(q) \subseteq PhasesAfter(p)
  BY SMTT(30) DEF Phases, Terminal, Statuses, PhasesAfter, NextPhases
<1>3. ASSUME NEW p \in Phases, NEW q \in PhasesAfter(p)
      PROVE  \E a \in NextPhases(p) : \E b \in NextPhases(a) : q \in NextPhases(b)
  <2>1. p \in NextPhases(p)
    BY Zenon DEF NextPhases
  <2>2. CASE p # "Submitting" \/ q \in NextPhases("Submitting")
    <3>1. q \in NextPhases(p) \/ (q \in NextPhases("Pending") /\ "Pending" \in NextPhases(p))
      BY <1>3, <2>2, SMTT(30) DEF Phases, Terminal, Statuses, PhasesAfter, NextPhases
    <3> QED
      BY <2>1, <3>1, Zenon
  <2>3. CASE p = "Submitting" /\ q \notin NextPhases("Submitting")
    <3>1. /\ "OutcomeUnknown" \in NextPhases("Submitting") /\ "Pending" \in NextPhases("OutcomeUnknown")
          /\ "OutcomeUnknown" \in NextPhases("OutcomeUnknown")
          /\ q \in NextPhases("Pending") \/ q \in NextPhases("OutcomeUnknown")
      BY <1>3, <2>3, Zenon DEF Phases, Terminal, Statuses, PhasesAfter, NextPhases
    <3> QED
      BY <2>3, <3>1, Zenon
  <2> QED
    BY <2>2, <2>3, Zenon
<1> QED
  BY <1>1, <1>2, <1>3, ZenonT(30)

LEMMA LaterPhases ==
  ASSUME NEW l \in Lives
  PROVE  /\ \A m : m \in Later(l) <=> m \in Lives /\ m.op = l.op /\ m.phase \in NextPhases(l.phase)
         /\ \A p \in NextPhases(l.phase) : Life(l.op, p) \in Later(l)
<1>1. l.op \in Ops /\ l.phase \in Phases /\ l = [op |-> l.op, phase |-> l.phase]
  BY Zenon DEF Lives
<1>2. NextPhases(l.phase) \subseteq Phases
  BY <1>1, PhaseFacts, Zenon
<1>3. Later(l) = {Life(l.op, p) : p \in NextPhases(l.phase)}
  <2>1. CASE l.phase = "Submitting"
    BY <1>1, <2>1, Zenon DEF Later, NextPhases, Life
  <2>2. CASE l.phase = "OutcomeUnknown"
    BY <1>1, <2>2, Zenon DEF Later, NextPhases, Life
  <2>3. CASE l.phase = "Pending"
    BY <1>1, <2>3, Zenon DEF Later, NextPhases, Life
  <2>4. CASE l.phase \notin {"Submitting", "OutcomeUnknown", "Pending"}
    BY <1>1, <2>4, Zenon DEF Later, NextPhases, Life
  <2> QED
    BY <2>1, <2>2, <2>3, <2>4, Zenon
<1>4. \A p \in NextPhases(l.phase) :
        Life(l.op, p) \in Lives /\ Life(l.op, p).op = l.op /\ Life(l.op, p).phase = p
  BY <1>1, <1>2, LifeType, Zenon DEF Life
<1>5. ASSUME NEW m \in Lives, m.op = l.op, m.phase \in NextPhases(l.phase)
      PROVE  m = Life(l.op, m.phase)
  BY <1>5, Zenon DEF Lives, Life
<1> QED
  BY <1>3, <1>4, <1>5

LEMMA ReachesPhases ==
  ASSUME NEW l \in Lives, NEW m \in Lives
  PROVE  Reaches(l, m) <=> m.op = l.op /\ m.phase \in PhasesAfter(l.phase)
<1>1. l.op \in Ops /\ l.phase \in Phases /\ m.phase \in Phases
  BY Zenon DEF Lives
<1>2. ASSUME Reaches(l, m)
      PROVE  m.op = l.op /\ m.phase \in PhasesAfter(l.phase)
  <2>1. PICK a \in Later(l) : \E b \in Later(a) : m \in Later(b)
    BY <1>2, Zenon DEF Reaches
  <2>2. PICK b \in Later(a) : m \in Later(b)
    BY <2>1, Zenon
  <2>3. a \in Lives /\ a.op = l.op /\ a.phase \in NextPhases(l.phase)
    BY <2>1, LaterPhases, Zenon
  <2>4. b \in Lives /\ b.op = a.op /\ b.phase \in NextPhases(a.phase)
    BY <2>2, <2>3, LaterPhases, Zenon
  <2>5. m.op = b.op /\ m.phase \in NextPhases(b.phase)
    BY <2>2, <2>4, LaterPhases, Zenon
  <2> QED
    BY <1>1, <2>3, <2>4, <2>5, PhaseFacts, ZenonT(30)
<1>3. ASSUME m.op = l.op, m.phase \in PhasesAfter(l.phase)
      PROVE  Reaches(l, m)
  <2>1. PICK p \in NextPhases(l.phase) : \E q \in NextPhases(p) : m.phase \in NextPhases(q)
    BY <1>1, <1>3, PhaseFacts, ZenonT(30)
  <2>2. PICK q \in NextPhases(p) : m.phase \in NextPhases(q)
    BY <2>1, Zenon
  <2>3. p \in Phases /\ q \in Phases
    BY <1>1, <2>1, <2>2, PhaseFacts, ZenonT(30)
  <2>4. PICK a : a = Life(l.op, p)
    BY Zenon
  <2>5. a \in Lives /\ a.op = l.op /\ a.phase = p
    BY <1>1, <2>3, <2>4, LifeType, Zenon DEF Life
  <2>6. PICK b : b = Life(l.op, q)
    BY Zenon
  <2>7. b \in Lives /\ b.op = l.op /\ b.phase = q
    BY <1>1, <2>3, <2>6, LifeType, Zenon DEF Life
  <2>8. a \in Later(l) /\ b \in Later(a) /\ m \in Later(b)
    BY <1>3, <2>1, <2>2, <2>5, <2>7, LaterPhases, Zenon
  <2> QED
    BY <2>8, Zenon DEF Reaches
<1> QED
  BY <1>2, <1>3, Zenon

LowerStep ==
  /\ drawn \subseteq drawn'
  /\ \/ cloud' = cloud
     \/ cloud # NoCloud /\ cloud' \in Later(cloud)
     \/ \E o \in Ops \ drawn : cloud' = Life(o, "Submitting") /\ o \in drawn'

OpIsDrawn == cloud # NoCloud => cloud.op \in drawn

LEMMA ReachesItself ==
  ASSUME NEW l \in Lives
  PROVE  Reaches(l, l)
<1>1. l.phase \in Phases
  BY Zenon DEF Lives
<1> QED
  BY <1>1, ReachesPhases, PhaseFacts, Zenon

LEMMA CommittedStays ==
  ASSUME cloud \in Shown, LowerStep, OpIsDrawn, NEW life \in Shown, Committed(life)
  PROVE  Committed(life)' /\ OpIsDrawn'
<1>1. CASE cloud' = cloud
  BY <1>1, Zenon DEF LowerStep, Committed, OpIsDrawn
<1>2. CASE cloud # NoCloud /\ cloud' \in Later(cloud)
  <2>1. cloud \in Lives
    BY <1>2, Zenon DEF Shown
  <2>2. /\ cloud' \in Lives /\ cloud'.op = cloud.op /\ cloud'.phase \in NextPhases(cloud.phase)
        /\ cloud' # NoCloud
    BY <1>2, <2>1, LaterPhases, ContractAssumption, Zenon
  <2>3. ASSUME life \in Lives, Reaches(life, cloud)
        PROVE  Reaches(life, cloud')
    <3>1. cloud.op = life.op /\ cloud.phase \in PhasesAfter(life.phase) /\ life.phase \in Phases
      BY <2>1, <2>3, ReachesPhases, Zenon DEF Lives
    <3>2. cloud'.op = life.op /\ cloud'.phase \in PhasesAfter(life.phase)
      BY <2>2, <3>1, PhaseFacts, Zenon
    <3> QED
      BY <2>2, <2>3, <3>2, ReachesPhases, Zenon
  <2>4. OpIsDrawn'
    BY <1>2, <2>2, Zenon DEF LowerStep, OpIsDrawn
  <2>5. life # NoCloud => life \in Lives
    BY Zenon DEF Shown
  <2> QED
    BY <1>2, <2>2, <2>3, <2>4, <2>5, Zenon DEF LowerStep, Committed, Reaches
<1>3. CASE \E o \in Ops \ drawn : cloud' = Life(o, "Submitting") /\ o \in drawn'
  <2>1. PICK o \in Ops \ drawn : cloud' = Life(o, "Submitting") /\ o \in drawn'
    BY <1>3, Zenon
  <2>2. cloud' # NoCloud /\ cloud'.op = o
    BY <2>1, LifeType, Zenon DEF Life, Phases
  <2> QED
    BY <2>1, <2>2, Zenon DEF LowerStep, Committed, OpIsDrawn
<1> QED
  BY <1>1, <1>2, <1>3, Zenon DEF LowerStep

----------------------------------------------------------------------------
\* A submit runs exactly while the worker is in start().
SubmitIsWorkers == IF worker.pc = "starting" THEN InPhase({"Submitting"}) ELSE call = "idle"

\* A thread holds on to its result, drops it, or is given the current lifecycle.
HandsStep ==
  /\ worker'.res.life \in {worker.res.life, NoCloud, cloud'}
  /\ \A c \in Callers : caller'[c].res.life \in {caller[c].res.life, NoCloud, cloud'}

LEMMA CallerHands ==
  ASSUME TypeOK, NEW c \in Callers
  PROVE  /\ Leave(c) \/ (\E pc, o : Enter(c, pc, o)) \/ (\E pc : Go(c, pc)) \/ UNCHANGED caller =>
              \A d \in Callers : caller'[d].res.life \in {caller[d].res.life, NoCloud}
         /\ \A pc, r : Hold(c, pc, r) /\ r.life \in {NoCloud, cloud'} =>
              \A d \in Callers : caller'[d].res.life \in {caller[d].res.life, NoCloud, cloud'}
<1>1. caller \in [Callers -> CallerStates] /\ Nothing.life = NoCloud /\ Idle.res = Nothing
  BY Zenon DEF TypeOK, Nothing, Err, Idle
<1>2. ASSUME NEW k, caller' = [caller EXCEPT ![c] = k]
      PROVE  caller'[c] = k /\ \A d \in Callers \ {c} : caller'[d] = caller[d]
  BY <1>1, <1>2, Zenon
<1>3. Leave(c) => \A d \in Callers : caller'[d].res.life \in {caller[d].res.life, NoCloud}
  BY <1>1, <1>2, Zenon DEF Leave
<1>4. ASSUME NEW pc, NEW o, Enter(c, pc, o)
      PROVE  \A d \in Callers : caller'[d].res.life \in {caller[d].res.life, NoCloud}
  <2>1. PICK k : k = [pc |-> pc, turn |-> rt.turn.id, early |-> rt.turn.proj = "Starting", op |-> o, res |-> Nothing]
    BY ZenonT(30)
  <2>2. k.res = Nothing /\ caller' = [caller EXCEPT ![c] = k]
    BY <1>4, <2>1, Zenon DEF Enter
  <2> QED
    BY <1>1, <1>2, <2>2, Zenon
<1>5. ASSUME NEW pc, Go(c, pc)
      PROVE  \A d \in Callers : caller'[d].res.life \in {caller[d].res.life, NoCloud}
  BY <1>1, <1>5, ZenonT(30) DEF Go, CallerStates
<1>6. ASSUME NEW pc, NEW r, Hold(c, pc, r)
      PROVE  \A d \in Callers : caller'[d].res.life \in {caller[d].res.life, r.life}
  BY <1>1, <1>6, ZenonT(30) DEF Hold, CallerStates
<1> QED
  BY <1>3, <1>4, <1>5, <1>6, Zenon

LEMMA WorkerHands ==
  ASSUME TypeOK
  PROVE  /\ \A pc, t : Take(pc, t) => worker'.pc = pc /\ worker'.res.life = NoCloud
         /\ Loop => worker'.pc = "next" /\ worker'.res.life = NoCloud
         /\ \A pc, r : Keep(pc, r) => worker'.pc = pc /\ worker'.res.life = r.life
         /\ Nothing.life = NoCloud /\ Err("Other").life = NoCloud
<1>1. Nothing.life = NoCloud /\ Err("Other").life = NoCloud
  BY Zenon DEF Nothing, Err
<1>2. ASSUME NEW pc, NEW t, Take(pc, t)
      PROVE  worker'.pc = pc /\ worker'.res.life = NoCloud
  BY <1>1, <1>2, Zenon DEF Take
<1>3. ASSUME NEW pc, NEW r, Keep(pc, r)
      PROVE  worker'.pc = pc /\ worker'.res.life = r.life
  BY <1>3, ZenonT(30) DEF TypeOK, WorkerStates, Keep
<1> QED
  BY <1>1, <1>2, <1>3, Zenon DEF Loop

\* What every step does to the lower orchestrator and to the results in hand.
LowerNext == LowerStep /\ HandsStep /\ SubmitIsWorkers'

\* A call that returns the current lifecycle, or an error, and leaves a submit alone.
LowerReturn(r) == LowerStep /\ r.life \in {NoCloud, cloud'}

LEMMA LowerReturns ==
  ASSUME CloudTypes, NEW r \in CallResults
  PROVE  /\ CancelReturns(r) \/ InspectReturns(r) \/ ReconcileReturns(r) \/ (\E o : ResolveReturns(o, r)) =>
              LowerReturn(r) /\ call' = call /\ (InPhase({"Submitting"}) => cloud' = cloud)
         /\ StartReturns(r) /\ InPhase({"Submitting"}) => LowerReturn(r) /\ call' = "idle"
<1>1. Err("Other").life = NoCloud /\ Err("ProviderRead").life = NoCloud /\ Err("NoCurrentOperation").life = NoCloud
  BY Zenon DEF Err
<1>2. \A l : Ok(l).life = l
  BY Zenon DEF Ok
<1>3. ASSUME NEW p \in Phases, InPhase({"Submitting", "OutcomeUnknown", "Pending"}),
             p \in NextPhases(cloud.phase), cloud' = Life(cloud.op, p)
      PROVE  cloud # NoCloud /\ cloud' \in Later(cloud)
  BY <1>3, LaterPhases, Zenon DEF InPhase, CloudTypes, Shown
<1>4. /\ Statuses \cup {"Pending", "FailedBeforeSubmit", "OutcomeUnknown", "CanceledNoTask", "CanceledWithTask",
                        "AbandonedUnknown"} \subseteq Phases
      /\ NextPhases("Submitting") = {"Submitting", "FailedBeforeSubmit", "OutcomeUnknown", "Pending", "CanceledNoTask"}
      /\ NextPhases("OutcomeUnknown") = {"OutcomeUnknown", "AbandonedUnknown"} \cup Statuses
      /\ NextPhases("Pending") = {"CanceledWithTask"} \cup Statuses
  BY Zenon DEF Phases, Terminal, Statuses, NextPhases
<1>5. ASSUME CancelReturns(r)
      PROVE  LowerReturn(r) /\ call' = call /\ (InPhase({"Submitting"}) => cloud' = cloud)
  <2>1. \/ cloud' = cloud
        \/ InPhase({"Pending"}) /\ cloud' = Life(cloud.op, "CanceledWithTask")
    BY <1>5, Zenon DEF CancelReturns
  <2>2. r.life \in {NoCloud, cloud'} /\ drawn' = drawn /\ call' = call
    BY <1>1, <1>2, <1>5, Zenon DEF CancelReturns
  <2>3. cloud' = cloud \/ (cloud # NoCloud /\ cloud' \in Later(cloud))
    BY <1>3, <1>4, <2>1, Zenon DEF InPhase
  <2> QED
    BY <2>1, <2>2, <2>3, Zenon DEF LowerReturn, LowerStep, InPhase
<1>6. ASSUME InspectReturns(r)
      PROVE  LowerReturn(r) /\ call' = call /\ (InPhase({"Submitting"}) => cloud' = cloud)
  <2>1. \/ cloud' = cloud
        \/ InPhase({"Pending"}) /\ \E p \in Statuses : cloud' = Life(cloud.op, p)
    BY <1>6, Zenon DEF InspectReturns
  <2>2. r.life \in {NoCloud, cloud'} /\ drawn' = drawn /\ call' = call
    BY <1>1, <1>2, <1>6, Zenon DEF InspectReturns
  <2>3. cloud' = cloud \/ (cloud # NoCloud /\ cloud' \in Later(cloud))
    BY <1>3, <1>4, <2>1, Zenon DEF InPhase
  <2> QED
    BY <2>1, <2>2, <2>3, Zenon DEF LowerReturn, LowerStep, InPhase
<1>7. ASSUME ReconcileReturns(r)
      PROVE  LowerReturn(r) /\ call' = call /\ (InPhase({"Submitting"}) => cloud' = cloud)
  BY <1>1, <1>2, <1>7, Zenon DEF ReconcileReturns, cloudVars, LowerReturn, LowerStep
<1>8. ASSUME NEW o, ResolveReturns(o, r)
      PROVE  LowerReturn(r) /\ call' = call /\ (InPhase({"Submitting"}) => cloud' = cloud)
  <2>1. \/ cloud' = cloud
        \/ /\ InPhase({"OutcomeUnknown"})
           /\ \E p \in Statuses \cup {"AbandonedUnknown"} : cloud' = Life(cloud.op, p)
    BY <1>8, Zenon DEF ResolveReturns
  <2>2. r.life \in {NoCloud, cloud'} /\ drawn' = drawn /\ call' = call
    BY <1>1, <1>2, <1>8, Zenon DEF ResolveReturns
  <2>3. cloud' = cloud \/ (cloud # NoCloud /\ cloud' \in Later(cloud))
    BY <1>3, <1>4, <2>1, Zenon DEF InPhase
  <2> QED
    BY <2>1, <2>2, <2>3, Zenon DEF LowerReturn, LowerStep, InPhase
<1>9. ASSUME StartReturns(r), InPhase({"Submitting"})
      PROVE  LowerReturn(r) /\ call' = "idle"
  <2>1. cloud' = cloud \/ \E p \in {"FailedBeforeSubmit", "OutcomeUnknown", "Pending", "CanceledNoTask"} :
                            cloud' = Life(cloud.op, p)
    BY <1>9, Zenon DEF StartReturns
  <2>2. r.life \in {NoCloud, cloud'} /\ drawn' = drawn /\ call' = "idle"
    BY <1>1, <1>2, <1>9, Zenon DEF StartReturns
  <2>3. cloud.phase = "Submitting" /\ InPhase({"Submitting", "OutcomeUnknown", "Pending"})
    BY <1>9, Zenon DEF InPhase
  <2>4. cloud' = cloud \/ (cloud # NoCloud /\ cloud' \in Later(cloud))
    BY <1>3, <1>4, <2>1, <2>3, Zenon
  <2> QED
    BY <2>2, <2>4, Zenon DEF LowerReturn, LowerStep
<1> QED
  BY <1>5, <1>6, <1>7, <1>8, <1>9, Zenon

\* The steps under the mutex.
LEMMA MutexLowerNext ==
  ASSUME TypeOK, SubmitIsWorkers, UNCHANGED cloudVars,
         \/ UNCHANGED worker
         \/ worker.pc # "starting" /\ worker'.pc # "starting" /\ worker'.res.life = NoCloud,
         \A d \in Callers : caller'[d].res.life \in {caller[d].res.life, NoCloud}
  PROVE  LowerNext
BY Zenon DEF LowerNext, LowerStep, HandsStep, SubmitIsWorkers, InPhase, cloudVars

LEMMA NextLowerNext ==
  ASSUME TypeOK, SubmitIsWorkers, [Next]_vars
  PROVE  LowerNext
<1>1. CloudTypes
  BY Zenon DEF TypeOK, CloudTypes
<1>2. ASSUME NEW c \in Callers,
             \/ CancelTurn(c) \/ RecoverUnknown(c, "reconcile") \/ RecoverUnknown(c, "resolve")
             \/ CancelAgain(c) \/ CancelGivesUp(c) \/ CommitCancelResult(c) \/ CommitReconcile(c) \/ CommitResolve(c)
      PROVE  LowerNext
  <2>1. /\ UNCHANGED <<worker, cloudVars>>
        /\ Leave(c) \/ (\E pc, o : Enter(c, pc, o)) \/ (\E pc : Go(c, pc)) \/ UNCHANGED caller
    BY <1>2, ZenonT(30) DEF CancelTurn, RecoverUnknown, CancelAgain, CancelGivesUp, CommitCancelResult,
       CommitReconcile, CommitResolve
  <2> QED
    BY <2>1, CallerHands, MutexLowerNext, Zenon
<1>3. ASSUME NEW c \in Callers, CallCancel(c) \/ CallReconcile(c) \/ CallResolve(c)
      PROVE  LowerNext
  <2>1. UNCHANGED worker
    BY <1>3, Zenon DEF CallCancel, CallReconcile, CallResolve
  <2>2. CASE CancelSignals /\ UNCHANGED caller
    BY <1>3, <2>1, <2>2, Zenon DEF CancelSignals, LowerNext, LowerStep, HandsStep, SubmitIsWorkers, InPhase
  <2>3. CASE \E r \in CallResults, pc \in CallerPcs :
               /\ CancelReturns(r) \/ ReconcileReturns(r) \/ \E o : ResolveReturns(o, r)
               /\ Hold(c, pc, r)
    <3>1. PICK r \in CallResults, pc \in CallerPcs :
               /\ CancelReturns(r) \/ ReconcileReturns(r) \/ \E o : ResolveReturns(o, r)
               /\ Hold(c, pc, r)
      BY <2>3, Zenon
    <3>2. LowerReturn(r) /\ call' = call /\ (InPhase({"Submitting"}) => cloud' = cloud)
      BY <1>1, <3>1, LowerReturns, Zenon
    <3>3. HandsStep
      BY <2>1, <3>1, <3>2, CallerHands, Zenon DEF LowerReturn, HandsStep
    <3>4. SubmitIsWorkers'
      BY <2>1, <3>2, Zenon DEF SubmitIsWorkers, InPhase
    <3> QED
      BY <3>2, <3>3, <3>4, Zenon DEF LowerReturn, LowerNext
  <2> QED
    BY <1>3, <2>2, <2>3, ZenonT(30) DEF CallCancel, CallReconcile, CallResolve, CallerPcs
<1>4. ASSUME WorkerStops \/ WorkerTakesCancel \/ WorkerTakesStart \/ WorkerTakesMonitor
             \/ AdmitStart \/ HandleStartResult \/ CommitWorkerCancel \/ HandleMonitorResult
      PROVE  LowerNext
  <2>1. /\ UNCHANGED <<caller, cloudVars>> /\ worker.pc # "starting"
        /\ \/ \E t : \/ Take("exited", t) \/ Take("cancel", t) \/ Take("admit", t)
                     \/ Take("inspect", t) \/ Take("cancelStart", t)
           \/ Loop \/ Keep("start", Nothing)
    <3>1. CASE WorkerStops \/ WorkerTakesCancel \/ WorkerTakesStart \/ WorkerTakesMonitor
      BY <3>1, ZenonT(30) DEF WorkerStops, WorkerTakesCancel, WorkerTakesStart, WorkerTakesMonitor, At
    <3>2. CASE AdmitStart
      BY <3>2, ZenonT(30) DEF AdmitStart, At
    <3>3. CASE HandleStartResult
      BY <3>3, ZenonT(30) DEF HandleStartResult, At
    <3>4. CASE CommitWorkerCancel
      BY <3>4, ZenonT(30) DEF CommitWorkerCancel
    <3>5. CASE HandleMonitorResult
      BY <3>5, ZenonT(30) DEF HandleMonitorResult, At
    <3> QED
      BY <1>4, <3>1, <3>2, <3>3, <3>4, <3>5, Zenon
  <2>2. worker'.pc # "starting" /\ worker'.res.life = NoCloud
    BY <2>1, WorkerHands
  <2> QED
    BY <2>1, <2>2, MutexLowerNext, Zenon
<1>5. ASSUME NEW o \in Ops, CallStart(o)
      PROVE  LowerNext
  <2>1. worker.pc = "start" /\ UNCHANGED caller /\ call = "idle"
    BY <1>5, Zenon DEF CallStart, At, SubmitIsWorkers
  <2>2. CASE StartEnters(o) /\ Keep("starting", Nothing)
    <3>1. worker'.pc = "starting" /\ worker'.res.life = NoCloud
      BY <2>2, WorkerHands, Zenon
    <3>2. cloud' = Life(o, "Submitting") /\ cloud' # NoCloud /\ cloud'.phase = "Submitting"
      BY <2>2, LifeType, Zenon DEF StartEnters, Life, Phases
    <3>3. LowerStep
      BY <2>2, Zenon DEF StartEnters, LowerStep
    <3> QED
      BY <2>1, <3>1, <3>2, <3>3, Zenon DEF LowerNext, HandsStep, SubmitIsWorkers, InPhase
  <2>3. CASE StartRefused(o) /\ Keep("started", Err("Other"))
    <3>1. worker'.pc = "started" /\ worker'.res.life = NoCloud
      BY <2>3, WorkerHands, Zenon
    <3> QED
      BY <2>1, <2>3, <3>1, Zenon DEF StartRefused, LowerNext, LowerStep, HandsStep, SubmitIsWorkers
  <2> QED
    BY <1>5, <2>2, <2>3, Zenon DEF CallStart
<1>6. ASSUME CallStartReturns
      PROVE  LowerNext
  <2>1. PICK r \in CallResults : StartReturns(r) /\ Keep("started", r)
    BY <1>6, Zenon DEF CallStartReturns
  <2>2. LowerReturn(r) /\ call' = "idle"
    BY <1>1, <1>6, <2>1, LowerReturns, Zenon DEF CallStartReturns, At, SubmitIsWorkers
  <2>3. worker'.pc = "started" /\ worker'.res.life = r.life /\ UNCHANGED caller
    BY <1>6, <2>1, WorkerHands, Zenon DEF CallStartReturns
  <2> QED
    BY <2>2, <2>3, Zenon DEF LowerReturn, LowerNext, HandsStep, SubmitIsWorkers
<1>7. ASSUME WorkerCallsCancel \/ CallInspect
      PROVE  LowerNext
  <2>1. worker.pc # "starting" /\ call = "idle" /\ UNCHANGED caller
    BY <1>7, Zenon DEF WorkerCallsCancel, CallInspect, At, SubmitIsWorkers
  <2>2. PICK r \in CallResults, pc \in {"canceled", "canceledStart", "inspected"} :
          (CancelReturns(r) \/ InspectReturns(r)) /\ Keep(pc, r)
    BY <1>7, <2>1, Zenon DEF WorkerCallsCancel, CallInspect, CancelSignals
  <2>3. LowerReturn(r) /\ call' = call
    BY <1>1, <2>2, LowerReturns, Zenon
  <2>4. worker'.pc # "starting" /\ worker'.res.life = r.life
    BY <2>2, WorkerHands, Zenon
  <2> QED
    BY <2>1, <2>3, <2>4, Zenon DEF LowerReturn, LowerNext, HandsStep, SubmitIsWorkers
<1>8. ASSUME Shutdown \/ CancelQueued \/ (\E t \in Turns : StartTurn(t)) \/ SequenceNearsEnd \/ Joined \/ UNCHANGED vars
      PROVE  LowerNext
  <2>1. UNCHANGED <<worker, caller, cloudVars>>
    BY <1>8, ZenonT(30) DEF Shutdown, CancelQueued, StartTurn, SequenceNearsEnd, Joined, vars
  <2> QED
    BY <2>1, MutexLowerNext, Zenon
<1> QED
  BY <1>2, <1>3, <1>4, <1>5, <1>6, <1>7, <1>8, ZenonT(30) DEF Next, CallerStep, WorkerStep

\* Whatever the runtime knows of was committed by the lower orchestrator.
AllCommitted == OpIsDrawn /\ \A life \in Shown : Knows(life) => Committed(life)

LEMMA KnownStaysCommitted ==
  ASSUME TypeOK, TypeOK', AllCommitted, LowerNext, ToldKnown
  PROVE  AllCommitted'
<1>1. cloud \in Shown /\ cloud' \in Shown /\ NoCloud \in Shown
  BY Zenon DEF TypeOK, Shown
<1>2. OpIsDrawn' /\ \A life \in Shown : Committed(life) => Committed(life)'
  <2>1. Committed(NoCloud)
    BY Zenon DEF Committed
  <2> QED
    BY <1>1, <2>1, CommittedStays, Zenon DEF LowerNext, AllCommitted
<1>3. ASSUME NEW life \in Shown, Knows(life)'
      PROVE  Knows(life) \/ life = cloud'
  BY <1>3, ZenonT(30) DEF LowerNext, HandsStep, ToldKnown, Knows
<1>4. Committed(cloud)'
  BY <1>1, <1>2, ReachesItself, Zenon DEF Committed, OpIsDrawn, Reaches, Shown
<1> QED
  BY <1>2, <1>3, <1>4, Zenon DEF AllCommitted

----------------------------------------------------------------------------
\* The turn the worker acts for, when it is still the current one.
LEMMA EngagedTurn ==
  ASSUME TypeOK, TurnInv, Engaged, rt.turn.id = worker.turn \/ rt.turn.seen # NoCloud
  PROVE  rt.turn.id = worker.turn /\ rt.turn.id \in Turns /\ ~rt.stopped
<1>h. HoldersInv
  BY Zenon DEF TurnInv
<1>p. ProjectionInv
  BY Zenon DEF TurnInv
<1>1. rt.turn.id = worker.turn /\ ~rt.stopped
  BY Zenon, <1>p DEF ProjectionInv
<1>2. worker.turn \in minted
  BY <1>h, Zenon DEF HoldersInv
<1> QED
  BY <1>1, <1>2, Zenon DEF TypeOK

LEMMA StartTurnKeeps ==
  ASSUME TypeOK, TurnInv, NEW t \in Turns, StartTurn(t)
  PROVE  TypeOK' /\ TurnInv' /\ ToldKnown
<1>h. HoldersInv
  BY Zenon DEF TurnInv
<1>p. ProjectionInv
  BY Zenon DEF TurnInv
<1>1. PICK p : p = [rt EXCEPT !.session = "Running", !.turn = NewTurn(t, "Queued", NoCloud),
                              !.work = Work("start", t)]
  BY Zenon
<1>2. NewTurn(t, "Queued", NoCloud) \in TurnRecords
  BY Zenon DEF NewTurn, TurnRecords, Projections, Shown
<1>3. /\ p \in RuntimeStates /\ p.turn = NewTurn(t, "Queued", NoCloud) /\ p.work = Work("start", t)
      /\ p.stopped = rt.stopped /\ p.told = rt.told /\ p.session = "Running" /\ p.left = rt.left
  BY <1>1, <1>2, ZenonT(30) DEF TypeOK, RuntimeStates, Work, Sessions
<1>4. /\ Running(rt) /\ CanPublish(p, 1) /\ rt' = Published(p, 1) /\ t \notin minted
      /\ minted' = minted \cup {t} /\ UNCHANGED <<worker, caller, entered, cloudVars>>
  BY <1>1, <1>3, Zenon DEF StartTurn, CanPublish
<1>5. rt' \in RuntimeStates /\ SameButEvents(rt', p) /\ rt'.told = p.told
  BY <1>3, <1>4, PublishedFacts, Zenon
<1>6. /\ ~rt'.stopped /\ rt'.session = "Running" /\ rt'.work.kind = "start" /\ rt'.work.turn = t
      /\ rt'.turn.id = t /\ rt'.turn.proj = "Queued" /\ rt'.turn.seen = NoCloud
  BY <1>3, <1>4, <1>5, SMTT(30) DEF SameButEvents, Running, Work, NewTurn
<1>7. /\ entered[t] = {} /\ worker.turn # t /\ \A c \in Callers : caller[c].turn # t
  BY <1>4, RuntimeAssumption, <1>h, ZenonT(30) DEF HoldersInv
<1>8. TypeOK'
  BY <1>4, <1>5, TypeFrame, ZenonT(30) DEF TypeOK
<1>9. HoldersInv'
  BY <1>4, <1>6, <1>7, <1>h, Zenon DEF HoldersInv, Engaged, cloudVars
<1>10. ProjectionInv'
  BY <1>4, <1>6, <1>7, <1>p, ZenonT(30) DEF ProjectionInv, Engaged, Unstarted, cloudVars
<1>11. ToldKnown
  BY <1>3, <1>5, <1>6, ToldFrame, Zenon
<1> QED
  BY <1>8, <1>9, <1>10, <1>11, Zenon DEF TurnInv

\* The two ways in which a turn that is still queued is given up.
LEMMA CancelQueuedKeeps ==
  ASSUME TypeOK, TurnInv, CancelQueued
  PROVE  TypeOK' /\ TurnInv' /\ ToldKnown
<1>h. HoldersInv
  BY Zenon DEF TurnInv
<1>p. ProjectionInv
  BY Zenon DEF TurnInv
<1>1. PICK turn : turn = [Finished(rt.turn, "CanceledBeforeCloudStart") EXCEPT !.cancelled = TRUE]
  BY ZenonT(30)
<1>2. /\ turn \in TurnRecords /\ turn.id = rt.turn.id /\ turn.proj = "CanceledBeforeCloudStart"
      /\ turn.seen = NoCloud /\ ~turn.requested
  BY <1>1, ZenonT(30) DEF TypeOK, RuntimeStates, TurnRecords, Finished, Projections, Shown
<1>3. PICK p : p = [rt EXCEPT !.session = "Ready", !.work = NoWork, !.turn = turn]
  BY Zenon
<1>4. /\ p \in RuntimeStates /\ p.turn = turn /\ p.work = NoWork /\ p.session = "Ready"
      /\ p.stopped = rt.stopped /\ p.shutdown = rt.shutdown /\ p.told = rt.told /\ p.left = rt.left
  BY <1>2, <1>3, ZenonT(30) DEF TypeOK, RuntimeStates, NoWork, Sessions
<1>5. /\ Running(rt) /\ rt.turn.proj = "Queued" /\ CanPublish(p, 1) /\ rt' = Published(p, 1)
      /\ UNCHANGED <<worker, caller, minted, entered, cloudVars>>
  BY <1>1, <1>3, <1>4, Zenon DEF CancelQueued, Cancellable, CanPublish, TypeOK
<1>6. rt' \in RuntimeStates /\ SameButEvents(rt', p) /\ rt'.told = p.told
  BY <1>4, <1>5, PublishedFacts, ZenonT(30)
<1>7. /\ ~rt'.stopped /\ rt'.session = "Ready" /\ rt'.work.kind = "none"
      /\ rt'.turn.id = rt.turn.id /\ rt'.turn.proj = "CanceledBeforeCloudStart" /\ rt'.turn.seen = NoCloud
  BY <1>2, <1>4, <1>5, <1>6, SMTT(30) DEF SameButEvents, Running, NoWork
<1>8. TypeOK'
  BY <1>5, <1>6, TypeFrame, ZenonT(30) DEF TypeOK
<1>9. HoldersInv'
  BY <1>5, <1>7, <1>h, Zenon DEF HoldersInv, Engaged, cloudVars
<1>10. ProjectionInv'
  BY <1>5, <1>7, <1>p, ZenonT(30) DEF ProjectionInv, Engaged, Unstarted, cloudVars
<1>11. ToldKnown
  BY <1>4, <1>6, <1>7, ToldFrame, Zenon
<1> QED
  BY <1>8, <1>9, <1>10, <1>11, Zenon DEF TurnInv

LEMMA ShutdownKeeps ==
  ASSUME TypeOK, TurnInv, Shutdown
  PROVE  TypeOK' /\ TurnInv' /\ ToldKnown
<1>h. HoldersInv
  BY Zenon DEF TurnInv
<1>p. ProjectionInv
  BY Zenon DEF TurnInv
<1>1. UNCHANGED <<worker, caller, minted, entered, cloudVars>> /\ rt \in RuntimeStates
  BY Zenon DEF Shutdown, TypeOK
<1>2. CASE rt' = [rt EXCEPT !.shutdown = TRUE]
  <2>1. /\ rt' \in RuntimeStates /\ rt'.shutdown /\ rt'.turn = rt.turn /\ rt'.work = rt.work
        /\ rt'.told = rt.told /\ rt'.session = rt.session /\ rt'.stopped = rt.stopped
    BY <1>1, <1>2, ZenonT(30) DEF RuntimeStates
  <2>2. TypeOK'
    BY <1>1, <2>1, TypeFrame, ZenonT(30) DEF TypeOK
  <2>3. HoldersInv'
    BY <1>1, <2>1, <1>h, ZenonT(30) DEF HoldersInv, Engaged, cloudVars
  <2>4. ProjectionInv'
    BY <1>1, <2>1, <1>p, SMTT(30) DEF ProjectionInv, Engaged, Unstarted, cloudVars
  <2>5. ToldKnown
    BY <2>1, ToldFrame, Zenon
  <2> QED
    BY <2>2, <2>3, <2>4, <2>5, Zenon DEF TurnInv
<1>3. CASE rt' # [rt EXCEPT !.shutdown = TRUE]
  <2>1. PICK turn : turn = Finished(rt.turn, "StoppedBeforeCloudStart")
    BY Zenon
  <2>2. /\ turn \in TurnRecords /\ turn.id = rt.turn.id /\ turn.proj = "StoppedBeforeCloudStart"
        /\ turn.seen = NoCloud
    BY <1>1, <2>1, FinishedFacts, Zenon DEF RuntimeStates, Projections
  <2>3. PICK p : p = [rt EXCEPT !.shutdown = TRUE, !.work = NoWork, !.session = "Stopped",
                                !.stopped = TRUE, !.turn = turn]
    BY Zenon
  <2>4. /\ p \in RuntimeStates /\ p.turn = turn /\ p.work = NoWork /\ p.session = "Stopped"
        /\ p.shutdown /\ p.told = rt.told /\ p.left = rt.left
    BY <1>1, <2>2, <2>3, ZenonT(30) DEF RuntimeStates, NoWork, Sessions
  <2>5. rt.turn.proj = "Queued" /\ CanPublish(p, 1) /\ rt' = Published(p, 1)
    BY <1>1, <1>3, <2>1, <2>3, <2>4, Zenon DEF Shutdown, CanPublish
  <2>6. rt' \in RuntimeStates /\ SameButEvents(rt', p) /\ rt'.told = p.told
    BY <2>4, <2>5, PublishedFacts, Zenon
  <2>7. /\ rt'.shutdown /\ rt'.session = "Stopped" /\ rt'.work.kind = "none"
        /\ rt'.turn.id = rt.turn.id /\ rt'.turn.proj = "StoppedBeforeCloudStart" /\ rt'.turn.seen = NoCloud
    BY <2>2, <2>4, <2>6 DEF SameButEvents, NoWork
  <2>8. TypeOK'
    BY <1>1, <2>6, TypeFrame, ZenonT(30) DEF TypeOK
  <2>9. HoldersInv'
    BY <1>1, <2>5, <2>7, <1>h, Zenon DEF HoldersInv, Engaged, cloudVars
  <2>10. ProjectionInv'
    BY <1>1, <2>5, <2>7, <1>p, ZenonT(30) DEF ProjectionInv, Engaged, Unstarted, cloudVars
  <2>11. ToldKnown
    BY <2>4, <2>6, <2>7, ToldFrame, Zenon
  <2> QED
    BY <2>8, <2>9, <2>10, <2>11, Zenon DEF TurnInv
<1> QED
  BY <1>2, <1>3, Zenon

\* A thread enters cancel_turn or a recovery call, for a turn that is not queued.
EnterStep(c, pc, o) ==
  /\ Enter(c, pc, o) /\ UNCHANGED <<worker, minted, entered, cloudVars>>
  /\ ~rt.stopped /\ rt.turn.id \in minted /\ rt.turn.proj # "Queued"
  /\ pc # "canceled" /\ (pc = "cancel" => (Engaged => worker.turn = rt.turn.id))
  /\ rt' \in RuntimeStates
  /\ rt'.turn.id = rt.turn.id /\ rt'.turn.proj = rt.turn.proj /\ rt'.turn.seen = rt.turn.seen
  /\ rt'.turn.admitted = rt.turn.admitted /\ rt'.work \in {rt.work, NoWork} /\ rt'.told = rt.told
  /\ rt'.session = rt.session /\ rt'.stopped = rt.stopped

LEMMA EnterKeeps ==
  ASSUME TypeOK, TurnInv, NEW c \in Callers, NEW pc \in CallerPcs, NEW o \in Ops \cup {NoCloud},
         EnterStep(c, pc, o)
  PROVE  TypeOK' /\ TurnInv' /\ ToldKnown
<1>h. HoldersInv
  BY Zenon DEF TurnInv
<1>p. ProjectionInv
  BY Zenon DEF TurnInv
<1>1. PICK k : k = [pc |-> pc, turn |-> rt.turn.id, early |-> rt.turn.proj = "Starting", op |-> o,
                    res |-> Nothing]
  BY ZenonT(30)
<1>2. k \in CallerStates /\ k.pc = pc /\ k.turn = rt.turn.id
  <2>1. (rt.turn.proj = "Starting") \in BOOLEAN
    BY Zenon
  <2>2. rt.turn.id \in Turns
    BY Zenon DEF EnterStep, TypeOK
  <2> QED
    BY <1>1, <2>1, <2>2, ResultFacts, Zenon DEF CallerStates
<1>3. caller' \in [Callers -> CallerStates] /\ caller'[c] = k /\ \A d \in Callers \ {c} : caller'[d] = caller[d]
  BY <1>1, <1>2, ZenonT(30) DEF EnterStep, Enter, TypeOK
<1>4. TypeOK'
  BY <1>3, TypeFrame, ZenonT(30) DEF EnterStep, TypeOK
<1>5. \A d \in Callers : caller'[d].turn = rt.turn.id \/ caller'[d] = caller[d]
  BY <1>2, <1>3, Zenon
<1>6. \A d \in Callers : caller'[d].pc \in {"cancel", "canceled"} => caller'[d] = caller[d] \/ pc = "cancel"
  BY <1>2, <1>3, ZenonT(30) DEF EnterStep
<1>7. rt'.work.kind # "none" => rt'.work = rt.work
  BY DEF EnterStep, NoWork
<1>8. HoldersInv'
  BY <1>5, <1>6, <1>7, <1>h, SMTT(30) DEF HoldersInv, EnterStep, Engaged, cloudVars
<1>9. ProjectionInv'
  BY <1>5, <1>6, <1>7, <1>p, SMTT(30) DEF ProjectionInv, EnterStep, Engaged, Unstarted, cloudVars
<1>10. ToldKnown
  BY ToldFrame, Zenon DEF EnterStep
<1> QED
  BY <1>4, <1>8, <1>9, <1>10, Zenon DEF TurnInv

LEMMA RecoverUnknownKeeps ==
  ASSUME TypeOK, TurnInv, NEW c \in Callers, NEW pc \in {"reconcile", "resolve"}, RecoverUnknown(c, pc)
  PROVE  TypeOK' /\ TurnInv' /\ ToldKnown
<1>h. HoldersInv
  BY Zenon DEF TurnInv
<1>p. ProjectionInv
  BY Zenon DEF TurnInv
<1>1. /\ ~rt.stopped /\ rt.turn.seen # NoCloud /\ Enter(c, pc, rt.turn.seen.op)
      /\ UNCHANGED <<rt, worker, minted, entered, cloudVars>>
  BY Zenon DEF RecoverUnknown, Running
<1>2. rt.turn.seen.op \in Ops /\ rt \in RuntimeStates
  BY <1>1, Zenon DEF TypeOK, RuntimeStates, TurnRecords, Shown, Lives
<1>3. rt.turn.id \in minted /\ rt.turn.proj # "Queued"
  BY <1>1, <1>h, <1>p, ZenonT(30) DEF HoldersInv, ProjectionInv
<1>4. pc \in CallerPcs /\ pc \notin {"cancel", "canceled"}
  BY Zenon DEF CallerPcs
<1>5. EnterStep(c, pc, rt.turn.seen.op)
  BY <1>1, <1>2, <1>3, <1>4, ZenonT(30) DEF EnterStep
<1> QED
  BY <1>2, <1>4, <1>5, EnterKeeps, Zenon

\* A cancel finds the worker acting for the current turn, if for any.
LEMMA CancelTurnKeeps ==
  ASSUME TypeOK, TurnInv, NEW c \in Callers, CancelTurn(c)
  PROVE  TypeOK' /\ TurnInv' /\ ToldKnown
<1>h. HoldersInv
  BY Zenon DEF TurnInv
<1>p. ProjectionInv
  BY Zenon DEF TurnInv
<1>1. /\ ~rt.stopped /\ rt.session \in {"Running", "MonitoringDegraded"} /\ rt.turn.id # NoTurn
      /\ rt.turn.proj # "Queued" /\ UNCHANGED <<worker, minted, entered, cloudVars>>
      /\ rt \in RuntimeStates
  BY Zenon DEF CancelTurn, Cancellable, Running, TypeOK
<1>2. rt.turn.id \in minted /\ (Engaged => worker.turn = rt.turn.id)
  BY <1>1, <1>h, <1>p, Zenon DEF HoldersInv, ProjectionInv, Unstarted
<1> DEFINE req == rt.turn.proj \in {"Starting", "Cloud", "MonitoringDegraded"}
<1>3. req \in BOOLEAN
  OBVIOUS
<1>4. PICK asked : asked = IF rt.turn.requested THEN rt
                           ELSE Published([rt EXCEPT !.turn.requested = req], 1)
  BY Zenon
<1>5. /\ asked \in RuntimeStates /\ asked.turn.id = rt.turn.id /\ asked.turn.proj = rt.turn.proj
      /\ asked.turn.seen = rt.turn.seen /\ asked.turn.admitted = rt.turn.admitted
      /\ asked.work = rt.work /\ asked.told = rt.told /\ asked.session = rt.session
      /\ asked.stopped = rt.stopped /\ asked.shutdown = rt.shutdown
  <2>1. CASE rt.turn.requested
    BY <1>1, <1>4, <2>1, Zenon
  <2>2. CASE ~rt.turn.requested
    <3>1. PICK p : p = [rt EXCEPT !.turn.requested = req]
      BY ZenonT(30)
    <3>2. /\ p \in RuntimeStates /\ p.turn.id = rt.turn.id /\ p.turn.proj = rt.turn.proj
          /\ p.turn.seen = rt.turn.seen /\ p.turn.admitted = rt.turn.admitted
          /\ p.work = rt.work /\ p.told = rt.told /\ p.session = rt.session
          /\ p.stopped = rt.stopped /\ p.shutdown = rt.shutdown /\ p.left = rt.left
      BY <1>1, <1>3, <3>1, ZenonT(30) DEF RuntimeStates, TurnRecords
    <3>3. CanPublish(p, 1) /\ asked = Published(p, 1)
      BY <1>4, <2>2, <3>1, <3>2, Zenon DEF CancelTurn, CanPublish
    <3> QED
      BY <3>2, <3>3, PublishedFacts, Zenon DEF SameButEvents
  <2> QED
    BY <2>1, <2>2, Zenon
<1>6. CASE rt' = asked /\ UNCHANGED caller
  <2>1. TypeOK'
    BY <1>1, <1>5, <1>6, TypeFrame, ZenonT(30) DEF TypeOK
  <2>2. HoldersInv'
    BY <1>1, <1>2, <1>5, <1>6, <1>h, Zenon DEF HoldersInv, Engaged, cloudVars
  <2>3. ProjectionInv'
    BY <1>1, <1>2, <1>5, <1>6, <1>p, ZenonT(30) DEF ProjectionInv, Engaged, Unstarted, cloudVars
  <2>4. ToldKnown
    BY <1>5, <1>6, ToldFrame, Zenon
  <2> QED
    BY <2>1, <2>2, <2>3, <2>4, Zenon DEF TurnInv
<1>7. CASE /\ rt' = [asked EXCEPT !.turn.cancelling = TRUE,
                                  !.work = IF rt.turn.proj = "Starting" THEN @ ELSE NoWork]
           /\ Enter(c, "cancel", NoCloud)
  <2>1. PICK work : work = IF rt.turn.proj = "Starting" THEN asked.work ELSE NoWork
    BY Zenon
  <2>2. work \in {rt.work, NoWork} /\ NoWork \in [kind : {"none", "start", "monitor"}, turn : Turns \cup {NoTurn}]
    BY <1>5, <2>1, ZenonT(30) DEF NoWork
  <2>3. rt' = [asked EXCEPT !.turn.cancelling = TRUE, !.work = work]
    BY <1>7, <2>1, Zenon
  <2>4. /\ rt' \in RuntimeStates /\ rt'.turn.id = rt.turn.id /\ rt'.turn.proj = rt.turn.proj
        /\ rt'.turn.seen = rt.turn.seen /\ rt'.turn.admitted = rt.turn.admitted
        /\ rt'.work \in {rt.work, NoWork} /\ rt'.told = rt.told /\ rt'.session = rt.session
        /\ rt'.stopped = rt.stopped
    BY <1>1, <1>5, <2>2, <2>3, ZenonT(30) DEF RuntimeStates, TurnRecords
  <2>5. "cancel" \in CallerPcs
    BY Zenon DEF CallerPcs
  <2>6. EnterStep(c, "cancel", NoCloud)
    BY <1>1, <1>2, <1>7, <2>4, Zenon DEF EnterStep
  <2> QED
    BY <2>5, <2>6, EnterKeeps, Zenon
<1> QED
  BY <1>4, <1>6, <1>7, Zenon DEF CancelTurn

----------------------------------------------------------------------------
\* The worker, between two turns.
LEMMA StopsForShutdown ==
  ASSUME TypeOK, TurnInv, rt.shutdown, rt' = StopWorker(rt, "Shutdown"),
         worker' \in WorkerStates, WorkerDone, UNCHANGED <<caller, minted, entered, cloudVars>>
  PROVE  TypeOK' /\ TurnInv' /\ ToldKnown
<1>1. PICK p : p = StopWorker(rt, "Shutdown")
  BY Zenon
<1>2. rt \in RuntimeStates
  BY Zenon DEF TypeOK
<1>3. /\ p \in RuntimeStates /\ p.told = rt.told /\ p.shutdown = rt.shutdown /\ p.stopped
      /\ rt.stopped => p = rt
      /\ ~rt.stopped =>
           /\ p.work = NoWork /\ p.session = "Stopped"
           /\ \/ p.turn = rt.turn
              \/ /\ rt.turn.proj \in {"Queued", "Starting"} /\ ~rt.turn.admitted
                 /\ p.turn = Finished(rt.turn, "StoppedBeforeCloudStart")
  BY <1>1, <1>2, StopWorkerFacts, ZenonT(30)
<1>4. TypeOK' /\ LowerGoesOn
  BY <1>1, <1>3, TypeFrame, ZenonT(30) DEF TypeOK
<1>5. CASE rt.stopped
  BY <1>1, <1>3, <1>4, <1>5, QuietStepKeeps, ZenonT(30) DEF QuietStep, WorkerGoesOn, CallersGoOn
<1>6. CASE ~rt.stopped
  <2>1. StopStep
    BY <1>1, <1>3, <1>4, <1>6, ZenonT(30) DEF StopStep, CallersGoOn
  <2> QED
    BY <1>4, <2>1, StopStepKeeps, Zenon
<1> QED
  BY <1>5, <1>6, Zenon

LEMMA WorkerStopsKeeps ==
  ASSUME TypeOK, TurnInv, WorkerStops
  PROVE  TypeOK' /\ TurnInv' /\ ToldKnown
<1>1. worker' \in WorkerStates /\ WorkerDone
  BY WorkerMoves, Zenon DEF WorkerStops, WorkerPcs, WorkerDone
<1> QED
  BY <1>1, StopsForShutdown, Zenon DEF WorkerStops

\* The worker gives its turn up, or finds that it is not the current one any more.
LEMMA GivesUp ==
  ASSUME TypeOK, TurnInv, Engaged, NEW s,
         s = rt \/ s = [rt EXCEPT !.session = "RecoveryRequired"],
         rt' = StopAfterLowerFailure(s, worker.turn), Loop, UNCHANGED <<caller, minted, entered, cloudVars>>
  PROVE  TypeOK' /\ TurnInv' /\ ToldKnown
<1>h. HoldersInv
  BY Zenon DEF TurnInv
<1>p. ProjectionInv
  BY Zenon DEF TurnInv
<1>1. /\ s \in RuntimeStates /\ s.turn = rt.turn /\ s.work = rt.work /\ s.told = rt.told
      /\ s.stopped = rt.stopped /\ s.shutdown = rt.shutdown
      /\ s = rt \/ s.session = "RecoveryRequired"
  BY Zenon DEF TypeOK, RuntimeStates, Sessions
<1>2. PICK p : p = StopAfterLowerFailure(s, worker.turn)
  BY Zenon
<1>3. worker.turn \in minted /\ worker.turn \in Turns
  BY <1>h, Zenon DEF HoldersInv, TypeOK
<1>4. /\ p \in RuntimeStates /\ p.told = s.told /\ p.shutdown = s.shutdown /\ p.stopped
      /\ ~s.stopped => p.work = NoWork /\ p.session = "Stopped"
      /\ s.turn.id # worker.turn => p.turn = s.turn /\ (s.stopped => p = s)
      /\ s.turn.id = worker.turn => p.turn = Finished(s.turn, "StoppedAfterLowerFailure")
  BY <1>1, <1>2, <1>3, StopAfterLowerFailureFacts, SMTT(30)
<1>5. worker' \in WorkerStates /\ WorkerDone
  BY WorkerMoves, Zenon DEF WorkerPcs
<1>6. TypeOK' /\ LowerGoesOn
  BY <1>2, <1>4, <1>5, TypeFrame, ZenonT(30) DEF TypeOK
<1>7. rt' = p
  BY <1>2, Zenon
<1>8. CASE rt' = rt
  BY <1>5, <1>6, <1>8, QuietStepKeeps, Zenon DEF QuietStep, WorkerGoesOn, CallersGoOn
<1>9. CASE rt' # rt
  <2>1. rt.turn.id = worker.turn => ~rt.stopped
    BY Zenon, <1>p DEF ProjectionInv
  <2>2. rt.turn.id # worker.turn => rt.turn.proj \in Unstarted
    BY <1>p, Zenon DEF ProjectionInv
  <2>3. StopStep
    BY <1>1, <1>3, <1>4, <1>5, <1>6, <1>7, <1>9, <2>1, <2>2, Zenon DEF StopStep, CallersGoOn
  <2> QED
    BY <1>6, <2>3, StopStepKeeps, Zenon
<1> QED
  BY <1>8, <1>9, Zenon

\* The worker claims the current turn, of which it finds queued work or a cancel request.
LEMMA WorkerTakesKeeps ==
  ASSUME TypeOK, TurnInv, WorkerTakesCancel \/ WorkerTakesStart \/ WorkerTakesMonitor
  PROVE  TypeOK' /\ TurnInv' /\ ToldKnown
<1>h. HoldersInv
  BY Zenon DEF TurnInv
<1>p. ProjectionInv
  BY Zenon DEF TurnInv
<1>1. /\ UNCHANGED <<caller, minted, entered, cloudVars>> /\ rt \in RuntimeStates
      /\ worker.pc = "next" /\ ~rt.shutdown /\ NoTurn \notin Turns
      /\ NoWork \in [kind : {"none", "start", "monitor"}, turn : Turns \cup {NoTurn}] /\ NoWork.kind = "none"
  BY RuntimeAssumption, Zenon DEF WorkerTakesCancel, WorkerTakesStart, WorkerTakesMonitor, At, TypeOK, NoWork
<1>2. ASSUME NEW pc \in {"cancel", "admit", "inspect"}, Take(pc, rt.turn.id), rt.turn.id \in minted
      PROVE  /\ worker' \in WorkerStates /\ worker'.pc = pc /\ worker'.turn = rt.turn.id
             /\ rt.turn.id \in Turns
  BY <1>2, WorkerMoves, Zenon DEF WorkerPcs, TypeOK
<1>3. CASE WorkerTakesCancel
  <2>1. /\ rt' = [rt EXCEPT !.turn.cancelling = TRUE, !.work = NoWork] /\ Take("cancel", rt.turn.id)
        /\ rt.turn.requested /\ rt.turn.proj \in {"Cloud", "MonitoringDegraded"}
    BY <1>3, Zenon DEF WorkerTakesCancel, CancelIsDue
  <2>2. /\ rt' \in RuntimeStates /\ rt'.turn.id = rt.turn.id /\ rt'.turn.proj = rt.turn.proj
        /\ rt'.turn.seen = rt.turn.seen /\ rt'.work = NoWork /\ rt'.told = rt.told
        /\ rt'.stopped = rt.stopped
    BY <1>1, <2>1, ZenonT(30) DEF RuntimeStates, TurnRecords
  <2>3. rt.turn.id \in minted /\ ~rt.stopped
    BY <1>1, <2>1, <1>h, <1>p, Zenon DEF HoldersInv, ProjectionInv, Unstarted
  <2>4. worker' \in WorkerStates /\ worker'.pc = "cancel" /\ worker'.turn = rt.turn.id
    BY <1>2, <2>1, <2>3, Zenon
  <2>5. TypeOK'
    BY <1>1, <2>2, <2>4, TypeFrame, ZenonT(30) DEF TypeOK
  <2>6. rt'.work.kind = "none" /\ ~rt'.stopped /\ rt'.turn.proj \in {"Cloud", "MonitoringDegraded"}
    BY <1>1, <2>1, <2>2, <2>3, Zenon
  <2>7. UNCHANGED <<caller, minted, entered>>
    BY <1>1, Zenon
  <2>8. HoldersInv'
    BY <2>2, <2>3, <2>4, <2>6, <2>7, <1>h, Zenon DEF HoldersInv, Engaged
  <2>9. rt.turn.seen # NoCloud =>
          rt.told[rt.turn.id] = rt.turn.seen \/ (rt.told[rt.turn.id] = NoCloud /\ entered[rt.turn.id] = {})
    BY Zenon, <1>p DEF ProjectionInv
  <2>10. ProjectionInv'
    BY <2>2, <2>4, <2>6, <2>7, <2>9, Zenon DEF ProjectionInv, Unstarted
  <2>11. ToldKnown
    BY <2>2, ToldFrame, ZenonT(30)
  <2> QED
    BY <2>5, <2>8, <2>10, <2>11, Zenon DEF TurnInv
<1>4. CASE WorkerTakesStart
  <2>1. rt.work.kind = "start" /\ rt.turn.id = rt.work.turn /\ rt.turn.id \in minted
        /\ rt.turn.proj = "Queued" /\ ~rt.stopped
    BY <1>1, <1>4, ZenonT(30) DEF WorkerTakesStart, TurnInv, HoldersInv, ProjectionInv
  <2>2. /\ rt' = [rt EXCEPT !.work = NoWork, !.turn.proj = "Starting", !.turn.admitted = FALSE]
        /\ Take("admit", rt.turn.id)
    BY <1>4, <2>1, ZenonT(30) DEF WorkerTakesStart
  <2>3. /\ rt' \in RuntimeStates /\ rt'.turn.id = rt.turn.id /\ rt'.turn.proj = "Starting"
        /\ rt'.turn.seen = rt.turn.seen /\ rt'.work = NoWork /\ rt'.told = rt.told
        /\ rt'.stopped = rt.stopped
    BY <1>1, <2>2, ZenonT(30) DEF RuntimeStates, TurnRecords, Projections
  <2>4. worker' \in WorkerStates /\ worker'.pc = "admit" /\ worker'.turn = rt.turn.id
    BY <1>2, <2>1, <2>2, Zenon
  <2>5. TypeOK'
    BY <1>1, <2>3, <2>4, TypeFrame, ZenonT(30) DEF TypeOK
  <2>6. HoldersInv'
    BY <1>1, <2>1, <2>3, <2>4, <1>h, Zenon DEF HoldersInv, Engaged, cloudVars
  <2>7. rt.turn.seen = NoCloud /\ entered[rt.turn.id] = {}
    BY <2>1, <1>p, ZenonT(30) DEF ProjectionInv, Unstarted
  <2>8. rt'.work.kind = "none" /\ ~rt'.stopped /\ UNCHANGED <<caller, minted, entered>>
    BY <1>1, <2>1, <2>3, Zenon DEF NoWork
  <2>9. ProjectionInv'
    BY <2>3, <2>4, <2>7, <2>8, Zenon DEF ProjectionInv, Unstarted
  <2>10. ToldKnown
    BY <2>3, ToldFrame, ZenonT(30)
  <2> QED
    BY <2>5, <2>6, <2>9, <2>10, Zenon DEF TurnInv
<1>5. CASE WorkerTakesMonitor
  <2>1. /\ rt.work.kind = "monitor" /\ rt.turn.id = rt.work.turn /\ rt.turn.id \in minted /\ ~rt.stopped
        /\ rt' = [rt EXCEPT !.work = NoWork] /\ Take("inspect", rt.turn.id)
    BY <1>1, <1>5, ZenonT(30) DEF WorkerTakesMonitor, TurnInv, HoldersInv, ProjectionInv
  <2>2. /\ rt' \in RuntimeStates /\ rt'.turn = rt.turn /\ rt'.work = NoWork /\ rt'.told = rt.told
        /\ rt'.stopped = rt.stopped /\ rt'.session = rt.session
    BY <1>1, <2>1, ZenonT(30) DEF RuntimeStates
  <2>3. worker' \in WorkerStates /\ worker'.pc = "inspect" /\ worker'.turn = rt.turn.id
    BY <1>2, <2>1, Zenon
  <2>4. TypeOK'
    BY <1>1, <2>2, <2>3, TypeFrame, ZenonT(30) DEF TypeOK
  <2>5. HoldersInv'
    BY <1>1, <2>1, <2>2, <2>3, <1>h, SMTT(30) DEF HoldersInv, Engaged, cloudVars
  <2>6. /\ rt.turn.proj # "Queued"
        /\ rt.turn.proj \in Unstarted => entered[rt.turn.id] = {}
        /\ rt.turn.proj \in Unstarted \ {"Queued"} => rt.session \notin {"Running", "MonitoringDegraded"}
        /\ rt.turn.proj = "Starting" /\ ~rt.turn.admitted => entered[rt.turn.id] = {}
        /\ rt.turn.seen # NoCloud =>
             rt.told[rt.turn.id] = rt.turn.seen \/ (rt.told[rt.turn.id] = NoCloud /\ entered[rt.turn.id] = {})
    BY <2>1, <1>p, Zenon DEF ProjectionInv
  <2>7. rt'.work.kind = "none" /\ ~rt'.stopped /\ UNCHANGED <<caller, minted, entered>>
    BY <1>1, <2>1, <2>2, Zenon DEF NoWork
  <2>8. ProjectionInv'
    BY <2>2, <2>3, <2>6, <2>7, Zenon DEF ProjectionInv
  <2>9. ToldKnown
    BY <2>2, ToldFrame, Zenon
  <2> QED
    BY <2>4, <2>5, <2>8, <2>9, Zenon DEF TurnInv
<1> QED
  BY <1>3, <1>4, <1>5, Zenon

\* admit_start
LEMMA AdmitStartKeeps ==
  ASSUME TypeOK, TurnInv, AdmitStart
  PROVE  TypeOK' /\ TurnInv' /\ ToldKnown
<1>h. HoldersInv
  BY Zenon DEF TurnInv
<1>p. ProjectionInv
  BY Zenon DEF TurnInv
<1>1. /\ worker.pc = "admit" /\ Engaged /\ UNCHANGED <<caller, minted, entered, cloudVars>>
      /\ entered[worker.turn] = {} /\ worker.turn \in minted /\ rt \in RuntimeStates
  BY Zenon DEF AdmitStart, At, Engaged, TurnInv, HoldersInv, ProjectionInv, TypeOK
<1>2. Loop => worker' \in WorkerStates /\ WorkerDone
  BY WorkerMoves, Zenon DEF WorkerPcs
<1>3. CASE rt.shutdown /\ rt' = StopWorker(rt, "Shutdown") /\ Loop
  BY <1>1, <1>2, <1>3, StopsForShutdown, Zenon
<1>4. CASE rt' = StopAfterLowerFailure(rt, worker.turn) /\ Loop
  BY <1>1, <1>4, GivesUp, Zenon
<1>5. CASE /\ rt.turn.id = worker.turn /\ CanPublish(rt, 1) /\ Loop
           /\ rt' = Published([rt EXCEPT !.session = "Ready",
                      !.turn = [Finished(@, "CanceledBeforeCloudStart")
                                  EXCEPT !.cancelling = FALSE, !.cancelled = TRUE]], 1)
  <2>1. /\ rt' \in RuntimeStates /\ rt'.session = "Ready" /\ rt'.work = rt.work /\ ~rt'.stopped
        /\ rt'.turn.id = rt.turn.id /\ rt'.turn.proj = "CanceledBeforeCloudStart" /\ rt'.turn.seen = NoCloud
        /\ rt'.told = rt.told
    <3>1. PICK turn : turn = [Finished(rt.turn, "CanceledBeforeCloudStart")
                                EXCEPT !.cancelling = FALSE, !.cancelled = TRUE]
      BY Zenon
    <3>2. /\ turn \in TurnRecords /\ turn.id = rt.turn.id /\ turn.proj = "CanceledBeforeCloudStart"
          /\ turn.seen = NoCloud /\ ~turn.requested
      BY <1>1, <3>1, ZenonT(30) DEF RuntimeStates, TurnRecords, Finished, Projections, Shown
    <3>3. PICK p : p = [rt EXCEPT !.session = "Ready", !.turn = turn]
      BY Zenon
    <3>4. /\ p \in RuntimeStates /\ p.turn = turn /\ p.work = rt.work /\ p.session = "Ready"
          /\ p.stopped = rt.stopped /\ p.shutdown = rt.shutdown /\ p.told = rt.told /\ p.left = rt.left
      BY <1>1, <3>2, <3>3, ZenonT(30) DEF RuntimeStates, Sessions
    <3>5. CanPublish(p, 1) /\ rt' = Published(p, 1)
      BY <1>5, <3>1, <3>3, <3>4, Zenon DEF CanPublish
    <3>6. rt' \in RuntimeStates /\ SameButEvents(rt', p) /\ rt'.told = p.told
      BY <3>4, <3>5, PublishedFacts, Zenon
    <3>7. ~rt.stopped
      BY <1>1, <1>5, <1>p, Zenon DEF ProjectionInv
    <3> QED
      BY <3>2, <3>4, <3>6, <3>7, Zenon DEF SameButEvents
  <2>2. worker' \in WorkerStates /\ ~Engaged' /\ worker'.turn = NoTurn /\ worker'.pc \in {"next", "exited"}
    BY <1>2, <1>5, Zenon DEF WorkerDone, Engaged
  <2>3. TypeOK'
    BY <1>1, <2>1, <2>2, TypeFrame, ZenonT(30) DEF TypeOK
  <2>4. rt.work.kind # "start" /\ rt.turn.id \in minted /\ entered[rt.turn.id] = {} /\ rt.turn.id # NoTurn
    BY <1>1, <1>5, RuntimeAssumption, <1>p, Zenon DEF ProjectionInv, Unstarted, TypeOK
  <2>5. UNCHANGED <<caller, minted, entered>> /\ rt'.work.kind # "start"
    BY <1>1, <2>1, <2>4, Zenon
  <2>6. HoldersInv'
    BY <2>1, <2>2, <2>4, <2>5, <1>h, Zenon DEF HoldersInv
  <2>7. ProjectionInv'
    BY <2>1, <2>2, <2>4, <2>5, Zenon DEF ProjectionInv, Unstarted
  <2>8. ToldKnown
    BY <2>1, ToldFrame, Zenon
  <2> QED
    BY <2>3, <2>6, <2>7, <2>8, Zenon DEF TurnInv
<1>6. CASE rt.turn.id = worker.turn /\ rt' = [rt EXCEPT !.turn.admitted = TRUE] /\ Keep("start", Nothing)
  <2>1. worker' \in WorkerStates /\ worker'.pc = "start" /\ worker'.turn = worker.turn
    BY <1>6, WorkerMoves, ResultFacts, Zenon DEF WorkerPcs
  <2>2. /\ rt' \in RuntimeStates /\ rt'.turn.id = rt.turn.id /\ rt'.turn.proj = rt.turn.proj
        /\ rt'.turn.seen = rt.turn.seen /\ rt'.turn.admitted /\ rt'.turn.requested = rt.turn.requested
        /\ rt'.work = rt.work /\ rt'.told = rt.told /\ rt'.session = rt.session
        /\ rt'.stopped = rt.stopped /\ rt'.shutdown = rt.shutdown
    BY <1>1, <1>6, ZenonT(30) DEF RuntimeStates, TurnRecords
  <2>3. TypeOK'
    BY <1>1, <2>1, <2>2, TypeFrame, ZenonT(30) DEF TypeOK
  <2>4. HoldersInv'
    BY <1>1, <1>6, <2>1, <2>2, <1>h, SMTT(30) DEF HoldersInv, Engaged
  <2>5. /\ rt.turn.proj \notin Unstarted /\ ~rt.stopped /\ rt.work.kind # "start"
        /\ rt.turn.seen # NoCloud => rt.told[rt.turn.id] = rt.turn.seen
    BY <1>1, <1>6, <1>p, Zenon DEF ProjectionInv, Unstarted
  <2>6. entered'[rt.turn.id] = {} /\ worker'.turn = rt.turn.id /\ ~rt'.stopped /\ rt'.work.kind # "start"
    BY <1>1, <1>6, <2>1, <2>2, <2>5, Zenon
  <2>7. rt'.turn.proj \notin Unstarted /\ (rt'.turn.seen # NoCloud => rt'.told[rt'.turn.id] = rt'.turn.seen)
    BY <2>2, <2>5, Zenon
  <2>8. ProjectionInv'
    BY <2>1, <2>2, <2>6, <2>7, Zenon DEF ProjectionInv, Unstarted
  <2>9. ToldKnown
    BY <2>2, ToldFrame, Zenon
  <2> QED
    BY <2>3, <2>4, <2>8, <2>9, Zenon DEF TurnInv
<1> QED
  BY <1>3, <1>4, <1>5, <1>6, Zenon DEF AdmitStart

\* The worker commits what it has in hand for the current turn, or loops with nothing done.
LEMMA WorkerShows ==
  ASSUME TypeOK, TurnInv, Engaged, rt.turn.id = worker.turn, rt' \in RuntimeStates,
         rt'.turn.id = rt.turn.id, rt'.turn.proj \in {"Cloud", "MonitoringDegraded"},
         rt'.turn.admitted = rt.turn.admitted, rt'.turn.seen \in {rt.turn.seen, worker.res.life},
         \/ rt'.turn.seen = rt.turn.seen /\ rt'.told = rt.told
         \/ rt'.told = [rt.told EXCEPT ![rt.turn.id] = rt'.turn.seen],
         rt'.work \in {rt.work, NoWork, Work("monitor", rt.turn.id)},
         rt'.shutdown = rt.shutdown, rt'.stopped => rt.shutdown /\ Loop,
         Loop \/ Take("cancelStart", worker.turn), UNCHANGED <<caller, minted, entered, cloudVars>>
  PROVE  TypeOK' /\ TurnInv' /\ ToldKnown
<1>h. HoldersInv
  BY Zenon DEF TurnInv
<1>p. ProjectionInv
  BY Zenon DEF TurnInv
<1>1. worker.turn \in minted /\ worker.turn \in Turns /\ ~rt.stopped /\ rt.turn.proj # "Queued"
  BY ZenonT(30), <1>h, <1>p DEF HoldersInv, ProjectionInv, TypeOK
<1>2. /\ worker' \in WorkerStates /\ (Loop => WorkerDone)
      /\ WorkerDone \/ (worker'.turn = worker.turn /\ worker'.pc = "cancelStart")
  BY <1>1, WorkerMoves, ZenonT(30) DEF WorkerPcs
<1>3. TypeOK' /\ LowerGoesOn
  BY <1>2, TypeFrame, ZenonT(30) DEF TypeOK
<1>4. Knows(rt'.turn.seen)
  BY ZenonT(30) DEF Knows
<1>5. ShowStep
  BY <1>1, <1>2, <1>3, <1>4, Zenon DEF ShowStep, CallersGoOn
<1> QED
  BY <1>3, <1>5, ShowStepKeeps, Zenon

LEMMA WorkerLoops ==
  ASSUME TypeOK, TurnInv, rt' \in RuntimeStates, SameFlags(rt', rt), rt'.turn = rt.turn,
         rt'.session = rt.session, rt'.work \in {rt.work, NoWork}, Loop,
         UNCHANGED <<caller, minted, entered, cloudVars>>
  PROVE  TypeOK' /\ TurnInv' /\ ToldKnown
<1>1. worker' \in WorkerStates /\ WorkerDone
  BY WorkerMoves, ZenonT(30) DEF WorkerPcs
<1>2. TypeOK' /\ LowerGoesOn
  BY <1>1, TypeFrame, ZenonT(30) DEF TypeOK
<1>3. QuietStep
  BY <1>1, <1>2, Zenon DEF QuietStep, SameFlags, WorkerGoesOn, CallersGoOn
<1> QED
  BY <1>2, <1>3, QuietStepKeeps, Zenon

LEMMA CommitWorkerCancelKeeps ==
  ASSUME TypeOK, TurnInv, CommitWorkerCancel
  PROVE  TypeOK' /\ TurnInv' /\ ToldKnown
<1>1. PICK r : r = worker.res
  BY Zenon
<1>2. /\ Engaged /\ UNCHANGED <<caller, minted, entered, cloudVars>> /\ Loop /\ rt \in RuntimeStates
      /\ r.kind = "ok" => r.life \in Lives
  BY <1>1, ResultFacts, Zenon DEF CommitWorkerCancel, Engaged, TypeOK, WorkerStates
<1>3. CASE rt' = rt
  BY <1>2, <1>3, WorkerLoops, Zenon DEF SameFlags
<1>4. CASE rt' = StopAfterLowerFailure(rt, worker.turn)
  BY <1>2, <1>4, GivesUp, Zenon
<1>5. CASE /\ r.kind = "ok" /\ CanPublish(rt, 1) /\ rt.turn.id = worker.turn
           /\ rt' = PublishedLife([Applied(rt, r.life, TRUE) EXCEPT !.turn.cancelling = FALSE],
                                  worker.turn, r.life)
  <2>1. rt.turn.id \in Turns
    BY <1>2, <1>5, EngagedTurn, ZenonT(30)
  <2>2. Showing(rt', rt, r.life, [rt.told EXCEPT ![rt.turn.id] = r.life])
    BY <1>2, <1>5, <2>1, CommitFacts, ZenonT(30)
  <2> QED
    BY <1>1, <1>2, <1>5, <2>2, WorkerShows, ZenonT(90) DEF Showing, TurnInv, ProjectionInv
<1> QED
  BY <1>1, <1>3, <1>4, <1>5, Zenon DEF CommitWorkerCancel, CanApply

LEMMA HandleStartResultKeeps ==
  ASSUME TypeOK, TurnInv, HandleStartResult
  PROVE  TypeOK' /\ TurnInv' /\ ToldKnown
<1>1. PICK r : r = worker.res
  BY Zenon
<1>2. PICK s : s = IF r.kind = "ok" /\ r.life.phase = "OutcomeUnknown"
                   THEN [rt EXCEPT !.session = "RecoveryRequired"] ELSE rt
  BY ZenonT(30)
<1>3. /\ Engaged /\ UNCHANGED <<caller, minted, entered, cloudVars>> /\ rt \in RuntimeStates
      /\ r.kind = "ok" => r.life \in Lives
  BY <1>1, ResultFacts, ZenonT(30) DEF HandleStartResult, At, Engaged, TypeOK, WorkerStates
<1>4. CASE rt' = StopAfterLowerFailure(s, worker.turn) /\ Loop
  BY <1>2, <1>3, <1>4, GivesUp, Zenon
<1>5. ASSUME r.kind = "ok", CanPublish(rt, IF rt.shutdown THEN 2 ELSE 1), CanApply(rt, worker.turn, r.life)
      PROVE  TypeOK' /\ TurnInv' /\ ToldKnown
  <2>1. PICK life : life = r.life
    BY Zenon
  <2>2. /\ life \in Lives /\ rt.turn.id = worker.turn /\ rt.turn.id \in Turns /\ ~rt.stopped
        /\ life = worker.res.life
    BY <1>1, <1>3, <1>5, <2>1, EngagedTurn, Zenon DEF CanApply
  <2>3. PICK told : told = PublishedLife(Applied(s, life, FALSE), rt.turn.id, life)
    BY ZenonT(30)
  <2>4. Applied(s, life, FALSE) = Applied(rt, life, FALSE)
    BY <1>2, <1>3, ZenonT(30) DEF Applied, RuntimeStates
  <2>5. CanPublish(rt, 1) /\ (rt.shutdown => CanPublish(rt, 2))
    BY <1>3, <1>5 DEF CanPublish, RuntimeStates
  <2>6. /\ Showing(told, rt, life, [rt.told EXCEPT ![rt.turn.id] = life])
        /\ CanPublish(rt, 2) => CanPublish(told, 1)
    BY <1>3, <2>2, <2>3, <2>4, <2>5, CommitFacts, ZenonT(30)
  <2>7. CASE rt.shutdown /\ rt' = Published([told EXCEPT !.session = "Stopped", !.stopped = TRUE], 1) /\ Loop
    <3>1. PICK p : p = [told EXCEPT !.session = "Stopped", !.stopped = TRUE]
      BY Zenon
    <3>2. /\ p \in RuntimeStates /\ p.turn = told.turn /\ p.told = told.told /\ p.work = told.work
          /\ p.shutdown = told.shutdown /\ CanPublish(p, 1)
      BY <2>5, <2>6, <2>7, <3>1, ZenonT(30) DEF Showing, RuntimeStates, Sessions, CanPublish
    <3>3. rt' \in RuntimeStates /\ SameButEvents(rt', p) /\ rt'.told = p.told
      BY <2>7, <3>1, <3>2, PublishedFacts, ZenonT(30)
    <3>4. /\ rt'.turn = told.turn /\ rt'.told = told.told /\ rt'.work = told.work
          /\ rt'.shutdown = told.shutdown
      BY <3>2, <3>3, Zenon DEF SameButEvents
    <3> QED
      BY <1>3, <2>2, <2>6, <2>7, <3>3, <3>4, WorkerShows, ZenonT(90) DEF Showing
  <2>8. CASE rt' = [told EXCEPT !.turn.cancelling = TRUE] /\ Take("cancelStart", worker.turn)
    <3>1. Showing(rt', rt, life, [rt.told EXCEPT ![rt.turn.id] = life])
      BY <2>6, <2>8, ZenonT(30) DEF Showing, RuntimeStates, TurnRecords
    <3> QED
      BY <1>3, <2>2, <2>8, <3>1, WorkerShows, ZenonT(30) DEF Showing
  <2>9. CASE rt' = [told EXCEPT !.work = Work("monitor", worker.turn)] /\ Loop
    <3>1. /\ rt' \in RuntimeStates /\ rt'.turn = told.turn /\ rt'.told = told.told
          /\ rt'.work = Work("monitor", rt.turn.id)
          /\ rt'.shutdown = told.shutdown /\ rt'.stopped = told.stopped
      BY <2>2, <2>6, <2>9, Zenon DEF Showing, RuntimeStates, Work
    <3> QED
      BY <1>3, <2>2, <2>6, <2>9, <3>1, WorkerShows, ZenonT(30) DEF Showing
  <2>10. CASE rt' = told /\ Loop
    BY <1>3, <2>2, <2>6, <2>10, WorkerShows, Zenon DEF Showing
  <2> QED
    BY <1>1, <1>2, <1>5, <2>1, <2>2, <2>3, <2>7, <2>8, <2>9, <2>10, ZenonT(30) DEF HandleStartResult
<1> QED
  BY <1>1, <1>2, <1>4, <1>5, ZenonT(30) DEF HandleStartResult

LEMMA HandleMonitorResultKeeps ==
  ASSUME TypeOK, TurnInv, HandleMonitorResult
  PROVE  TypeOK' /\ TurnInv' /\ ToldKnown
<1>1. PICK r : r = worker.res
  BY Zenon
<1>2. /\ Engaged /\ UNCHANGED <<caller, minted, entered, cloudVars>> /\ Loop /\ rt \in RuntimeStates
      /\ r.kind = "ok" => r.life \in Lives
      /\ worker' \in WorkerStates /\ WorkerDone
  BY <1>1, ResultFacts, WorkerMoves, Zenon DEF HandleMonitorResult, At, Engaged, TypeOK, WorkerStates, WorkerPcs
<1>3. CASE rt' = [rt EXCEPT !.work = NoWork]
  <2>1. /\ rt' \in RuntimeStates /\ SameFlags(rt', rt) /\ rt'.turn = rt.turn
        /\ rt'.session = rt.session /\ rt'.work = NoWork
    BY <1>2, <1>3, Zenon DEF RuntimeStates, NoWork, SameFlags
  <2> QED
    BY <1>2, <2>1, WorkerLoops, Zenon
<1>4. CASE rt' = StopAfterLowerFailure(rt, worker.turn)
  BY <1>2, <1>4, GivesUp, Zenon
<1>5. CASE rt.shutdown /\ rt' = StopWorker(rt, "Shutdown")
  BY <1>2, <1>5, StopsForShutdown, Zenon
<1>6. ASSUME r.kind = "ok", CanApply(rt, worker.turn, r.life)
      PROVE  LET shown == Applied(rt, r.life, FALSE)
                 told  == PublishedLife(shown, worker.turn, r.life)
             IN  /\ Showing(shown, rt, r.life, rt.told)
                 /\ CanPublish(rt, 1) => Showing(told, rt, r.life, [rt.told EXCEPT ![rt.turn.id] = r.life])
                 /\ rt.turn.id = worker.turn /\ rt.turn.id \in Turns /\ ~rt.stopped
  <2>1. rt.turn.id = worker.turn /\ rt.turn.id \in Turns /\ ~rt.stopped
    BY <1>2, <1>6, EngagedTurn, Zenon DEF CanApply
  <2> QED
    BY <1>2, <1>6, <2>1, CommitFacts, ZenonT(30)
<1>7. CASE /\ rt.shutdown /\ r.kind = "ok" /\ CanPublish(rt, 2) /\ CanApply(rt, worker.turn, r.life)
           /\ rt' = StopWorker(PublishedLife(Applied(rt, r.life, FALSE), worker.turn, r.life), "Shutdown")
  <2>1. PICK told : told = PublishedLife(Applied(rt, r.life, FALSE), worker.turn, r.life)
    BY ZenonT(30)
  <2>2. CanPublish(rt, 1)
    BY <1>2, <1>7 DEF CanPublish, RuntimeStates
  <2>3. /\ Showing(told, rt, r.life, [rt.told EXCEPT ![rt.turn.id] = r.life])
        /\ rt.turn.id = worker.turn /\ ~rt.stopped /\ rt.shutdown
    BY <1>6, <1>7, <2>1, <2>2, ZenonT(30)
  <2>4. told \in RuntimeStates /\ ~told.stopped /\ told.turn.proj = "Cloud"
    BY <2>3, Zenon DEF Showing
  <2>5. PICK p : p = StopWorker(told, "Shutdown")
    BY Zenon
  <2>6. /\ p \in RuntimeStates /\ p.told = told.told /\ p.shutdown = told.shutdown
        /\ p.work = NoWork /\ p.turn = told.turn
    BY <2>4, <2>5, StopWorkerFacts, Zenon
  <2>7. /\ rt' \in RuntimeStates /\ rt'.turn = told.turn /\ rt'.told = told.told /\ rt'.work = NoWork
        /\ rt'.shutdown = told.shutdown
    BY <1>7, <2>1, <2>5, <2>6, ZenonT(30)
  <2>8. /\ rt'.turn.id = rt.turn.id /\ rt'.turn.proj = "Cloud" /\ rt'.turn.admitted = rt.turn.admitted
        /\ rt'.turn.seen = r.life
        /\ rt'.told = [rt.told EXCEPT ![rt.turn.id] = rt'.turn.seen] /\ rt'.shutdown = rt.shutdown
    <3>1. /\ told.turn.id = rt.turn.id /\ told.turn.proj = "Cloud" /\ told.turn.admitted = rt.turn.admitted
          /\ told.turn.seen = r.life /\ told.told = [rt.told EXCEPT ![rt.turn.id] = r.life]
          /\ told.shutdown = rt.shutdown
      BY <2>3, ZenonT(30) DEF Showing
    <3> QED
      BY <2>7, <3>1, ZenonT(30)
  <2> QED
    BY <1>1, <1>2, <2>3, <2>7, <2>8, WorkerShows, Zenon
<1>8. CASE r.kind = "ok" /\ rt' = MonitorOk(worker.turn, r.life)
  <2>1. CASE ~CanApply(rt, worker.turn, r.life) \/ (rt.turn.seen # r.life /\ ~CanPublish(rt, 1))
    BY <1>4, <1>8, <2>1, ZenonT(30) DEF MonitorOk
  <2>2. CASE CanApply(rt, worker.turn, r.life) /\ (rt.turn.seen # r.life => CanPublish(rt, 1))
    <3>1. PICK done : done = IF rt.turn.seen # r.life
                             THEN PublishedLife(Applied(rt, r.life, FALSE), worker.turn, r.life)
                             ELSE Applied(rt, r.life, FALSE)
      BY ZenonT(30)
    <3>2. /\ rt.turn.id = worker.turn /\ rt.turn.id \in Turns /\ ~rt.stopped
          /\ \/ Showing(done, rt, r.life, rt.told) /\ rt.turn.seen = r.life
             \/ Showing(done, rt, r.life, [rt.told EXCEPT ![rt.turn.id] = r.life])
      BY <1>6, <1>8, <2>2, <3>1, ZenonT(30)
    <3>3. rt' = done \/ rt' = [done EXCEPT !.work = Work("monitor", rt.turn.id)]
      BY <1>8, <2>2, <3>1, <3>2, ZenonT(30) DEF MonitorOk
    <3>4. /\ rt' \in RuntimeStates /\ rt'.turn = done.turn /\ rt'.told = done.told
          /\ rt'.work \in {done.work, Work("monitor", rt.turn.id)}
          /\ rt'.shutdown = done.shutdown /\ rt'.stopped = done.stopped
      BY <3>2, <3>3 DEF Showing, RuntimeStates, Work
    <3> QED
      BY <1>1, <1>2, <3>2, <3>4, WorkerShows, ZenonT(30) DEF Showing
  <2> QED
    BY <2>1, <2>2, Zenon
<1>9. CASE rt' = MonitorFailed(worker.turn)
  <2>1. PICK done : done = [rt EXCEPT !.session = "MonitoringDegraded", !.turn.proj = "MonitoringDegraded",
                                      !.work = Work("monitor", worker.turn)]
    BY Zenon
  <2>2. \/ rt' = StopAfterLowerFailure(rt, worker.turn)
        \/ rt.turn.seen # NoCloud /\ rt' = done
        \/ rt.turn.seen # NoCloud /\ CanPublish(rt, 1) /\ rt' = Published(done, 1)
    BY <1>9, <2>1, Zenon DEF MonitorFailed
  <2>3. CASE rt.turn.seen # NoCloud /\ (rt' = done \/ (CanPublish(rt, 1) /\ rt' = Published(done, 1)))
    <3>1. rt.turn.id = worker.turn /\ rt.turn.id \in Turns /\ ~rt.stopped
      BY <1>2, <2>3, EngagedTurn, Zenon
    <3>2. /\ done \in RuntimeStates /\ done.turn.id = rt.turn.id /\ done.turn.proj = "MonitoringDegraded"
          /\ done.turn.seen = rt.turn.seen /\ done.turn.admitted = rt.turn.admitted
          /\ done.work = Work("monitor", rt.turn.id) /\ done.told = rt.told /\ done.left = rt.left
          /\ done.shutdown = rt.shutdown /\ done.stopped = rt.stopped
      BY <1>2, <2>1, <3>1, ZenonT(30) DEF RuntimeStates, TurnRecords, Work, Sessions, Projections
    <3>3. rt' \in RuntimeStates /\ SameButEvents(rt', done) /\ rt'.told = done.told
      BY <2>3, <3>2, PublishedFacts DEF SameButEvents, CanPublish
    <3> QED
      BY <1>2, <3>1, <3>2, <3>3, WorkerShows, Zenon DEF SameButEvents
  <2> QED
    BY <1>4, <2>2, <2>3, Zenon
<1> QED
  BY <1>1, <1>3, <1>4, <1>5, <1>7, <1>8, <1>9, ZenonT(30) DEF HandleMonitorResult

----------------------------------------------------------------------------
LEMMA InitEstablishes ==
  ASSUME Init
  PROVE  TypeOK /\ TurnInv
<1>1. PICK t \in Turns :
        /\ minted = IF cloud = NoCloud THEN {} ELSE {t}
        /\ rt = [session  |-> IF cloud = NoCloud THEN "Ready" ELSE StateFor(cloud),
                 turn     |-> IF cloud = NoCloud THEN NewTurn(NoTurn, "none", NoCloud)
                                                 ELSE NewTurn(t, "Cloud", cloud),
                 work     |-> IF InPhase({"Pending"}) THEN Work("monitor", t) ELSE NoWork,
                 shutdown |-> FALSE, stopped |-> FALSE,
                 told     |-> [u \in Turns |-> NoCloud], left |-> Plenty]
  BY ZenonT(30) DEF Init
<1>2. /\ cloud \in Shown /\ drawn \subseteq Ops /\ call = "idle" /\ alive = TRUE /\ minted \subseteq Turns
      /\ entered = [u \in Turns |-> {}] /\ entered \in [Turns -> SUBSET Ops]
  BY <1>1, Zenon DEF Init, Shown, Lives, Phases
<1>3. /\ worker.pc = "next" /\ worker.turn = NoTurn /\ worker \in WorkerStates
  BY ResultFacts, Zenon DEF Init, WorkerStates, WorkerPcs
<1>4. /\ caller \in [Callers -> CallerStates]
      /\ \A c \in Callers : caller[c].pc = "idle" /\ caller[c].turn = NoTurn
  BY ResultFacts, ZenonT(30) DEF Init, Idle, CallerStates, CallerPcs
<1>5. PICK turn : turn = IF cloud = NoCloud THEN NewTurn(NoTurn, "none", NoCloud) ELSE NewTurn(t, "Cloud", cloud)
  BY Zenon
<1>6. /\ turn \in TurnRecords /\ turn.seen = cloud
      /\ cloud = NoCloud => turn.id = NoTurn /\ turn.proj = "none"
      /\ cloud # NoCloud => turn.id = t /\ turn.proj = "Cloud"
  BY <1>2, <1>5, Zenon DEF NewTurn, TurnRecords, Projections
<1>7. PICK work : work = IF InPhase({"Pending"}) THEN Work("monitor", t) ELSE NoWork
  BY Zenon
<1>8. /\ work \in [kind : {"none", "start", "monitor"}, turn : Turns \cup {NoTurn}]
      /\ work.kind # "none" => cloud # NoCloud /\ work.kind = "monitor" /\ work.turn = t
  BY <1>7, Zenon DEF Work, NoWork, InPhase
<1>9. /\ rt \in RuntimeStates /\ rt.turn = turn /\ rt.work = work /\ ~rt.stopped
      /\ \A u \in Turns : rt.told[u] = NoCloud
  <2>1. (IF cloud = NoCloud THEN "Ready" ELSE StateFor(cloud)) \in Sessions
    BY Zenon DEF StateFor, Sessions
  <2>2. [u \in Turns |-> NoCloud] \in [Turns -> Shown] /\ Plenty \in 0 .. Plenty
    BY SMTT(30) DEF Shown, Plenty
  <2> QED
    BY <1>1, <1>5, <1>6, <1>7, <1>8, <2>1, <2>2, Zenon DEF RuntimeStates
<1>10. TypeOK
  BY <1>2, <1>3, <1>4, <1>9, Zenon DEF TypeOK
<1>11. /\ \A u \in Turns : entered[u] = {}
       /\ cloud # NoCloud => minted = {t}
  BY <1>1, <1>2, Zenon
<1>12. \/ /\ rt.turn.id = NoTurn /\ rt.turn.proj = "none" /\ rt.turn.seen = NoCloud
          /\ rt.work.kind = "none"
       \/ /\ rt.turn.id = t /\ t \in minted /\ rt.turn.proj = "Cloud" /\ rt.work.kind # "start"
          /\ rt.work.kind # "none" => rt.work.turn = t
  BY <1>6, <1>8, <1>9, <1>11, Zenon
<1>13. HoldersInv
  BY <1>3, <1>4, <1>9, <1>11, <1>12, RuntimeAssumption, Zenon DEF HoldersInv, Engaged
<1>14. ProjectionInv
  BY <1>3, <1>4, <1>9, <1>11, <1>12, RuntimeAssumption, Zenon DEF ProjectionInv, Engaged, Unstarted
<1> QED
  BY <1>10, <1>13, <1>14, Zenon DEF TurnInv

LEMMA NextKeeps ==
  ASSUME TypeOK, TurnInv, [Next]_vars
  PROVE  TypeOK' /\ TurnInv' /\ ToldKnown
<1>1. ASSUME NEW c \in Callers,
             CancelTurn(c) \/ RecoverUnknown(c, "reconcile") \/ RecoverUnknown(c, "resolve") \/ CallerStep(c)
      PROVE  TypeOK' /\ TurnInv' /\ ToldKnown
  BY <1>1, CancelTurnKeeps, RecoverUnknownKeeps, LowerCallsKeep, QuietActionsKeep,
     CommitCancelResultKeeps, CommitResolveKeeps, Zenon DEF CallerStep
<1>2. ASSUME WorkerStep
      PROVE  TypeOK' /\ TurnInv' /\ ToldKnown
  BY <1>2, WorkerStopsKeeps, WorkerTakesKeeps, AdmitStartKeeps, CallStartKeeps, LowerCallsKeep,
     HandleStartResultKeeps, CommitWorkerCancelKeeps, HandleMonitorResultKeeps, Zenon DEF WorkerStep
<1> QED
  BY <1>1, <1>2, StartTurnKeeps, CancelQueuedKeeps, ShutdownKeeps, QuietActionsKeep, Zenon DEF Next, Joined

LEMMA InitCommitted ==
  ASSUME Init, TypeOK
  PROVE  AllCommitted /\ SubmitIsWorkers
<1>1. /\ call = "idle" /\ worker.pc = "next" /\ worker.res.life = NoCloud /\ OpIsDrawn /\ cloud \in Shown
      /\ \A c \in Callers : caller[c].res.life = NoCloud
  BY Zenon DEF Init, OpIsDrawn, Nothing, Err, Idle, TypeOK
<1>2. /\ rt.turn.seen = cloud
      /\ \A t \in Turns : rt.told[t] = NoCloud
  BY DEF Init, NewTurn
<1>3. \A life : Knows(life) => life \in {NoCloud, cloud}
  BY <1>1, <1>2, Zenon DEF Knows
<1>4. Committed(NoCloud) /\ Committed(cloud)
  BY <1>1, ReachesItself, Zenon DEF Committed, OpIsDrawn, Shown
<1> QED
  BY <1>1, <1>3, <1>4, Zenon DEF AllCommitted, SubmitIsWorkers

\* The properties name the lifecycles one by one.
LEMMA CommittedInHand ==
  ASSUME TypeOK, AllCommitted, SubmitIsWorkers
  PROVE  LowerInv /\ ShownIsCommitted
<1>1. /\ rt.turn.seen \in Shown /\ \A t \in Turns : rt.told[t] \in Shown
      /\ worker.res.life \in Shown /\ \A c \in Callers : caller[c].res.life \in Shown
  <2>1. \A r \in CallResults : r.life \in Shown
    BY DEF CallResults, Err, Shown
  <2>2. worker.res \in CallResults /\ \A c \in Callers : caller[c].res \in CallResults
    BY Zenon DEF TypeOK, WorkerStates, CallerStates
  <2>3. rt.turn.seen \in Shown /\ \A t \in Turns : rt.told[t] \in Shown
    BY ZenonT(30) DEF TypeOK, RuntimeStates, TurnRecords
  <2> QED
    BY <2>1, <2>2, <2>3, Zenon
<1>2. /\ Knows(rt.turn.seen) /\ \A t \in Turns : Knows(rt.told[t])
      /\ Knows(worker.res.life) /\ \A c \in Callers : Knows(caller[c].res.life)
  BY Zenon DEF Knows
<1> QED
  BY <1>1, <1>2, Zenon DEF AllCommitted, OpIsDrawn, SubmitIsWorkers, LowerInv, ShownIsCommitted

\* The mutex, the worker and the callers keep their types, TurnInv and LowerInv: whatever the
\* lower calls return, and in whatever order their results are committed.  With them, whatever
\* is shown or published stays committed.
LEMMA CommittedInvariant == Spec => [](RuntimeInv /\ ShownIsCommitted)
<1> DEFINE Inv == TypeOK /\ TurnInv /\ AllCommitted /\ SubmitIsWorkers
<1>1. Init => Inv
  BY InitEstablishes, InitCommitted, Zenon
<1>2. Inv /\ [Next]_vars => Inv'
  <2> SUFFICES ASSUME Inv, [Next]_vars
               PROVE  Inv'
    BY Zenon
  <2>1. TypeOK' /\ TurnInv' /\ ToldKnown
    BY NextKeeps, Zenon
  <2>2. LowerNext
    BY NextLowerNext, Zenon
  <2>3. AllCommitted'
    BY <2>1, <2>2, KnownStaysCommitted, Zenon
  <2> QED
    BY <2>1, <2>2, <2>3, Zenon DEF LowerNext
<1>3. Inv => RuntimeInv /\ ShownIsCommitted
  BY CommittedInHand, Zenon DEF RuntimeInv
<1> QED
  BY <1>1, <1>2, <1>3, PTL DEF Spec

\* RuntimeInv holds throughout: start_turn, cancel_turn, the recovery calls and shutdown may
\* interleave with the worker in any order.
LEMMA RuntimeInvariant == Spec => []RuntimeInv
BY CommittedInvariant, PTL

\* Nothing is shown or published that the lower orchestrator has not committed: what the
\* runtime tells lags behind the current lifecycle of an operation, and never runs ahead of it.
THEOREM ShownWasCommitted == Spec => []ShownIsCommitted
BY CommittedInvariant, PTL

\* A turn is started at most once, and never once it is shown as not started: neither a retry
\* of the worker nor a cancel or shutdown that races its claim makes a second task.
THEOREM StartedAtMostOnce == Spec => []OneStartPerTurn
<1>1. TypeOK /\ TurnInv => OneStartPerTurn
  <2> SUFFICES ASSUME TypeOK, TurnInv PROVE OneStartPerTurn
    BY Zenon
  <2>1. \A t \in Turns : \A o, p \in entered[t] : o = p
    BY Zenon DEF TurnInv, HoldersInv
  <2>2. rt.turn.proj \in Unstarted =>
          entered[rt.turn.id] = {} /\ ~(worker.turn = rt.turn.id /\ worker.pc \in {"start", "starting"})
    BY ZenonT(30) DEF TurnInv, ProjectionInv
  <2> QED
    BY <2>1, <2>2, Zenon DEF OneStartPerTurn, Unstarted
<1> QED
  BY <1>1, RuntimeInvariant, PTL DEF RuntimeInv

\* What a snapshot shows of the turn is what was last published for it.
THEOREM SnapshotIsPublished == Spec => []SnapshotMatchesEvents
<1>1. TypeOK /\ TurnInv => SnapshotMatchesEvents
  BY Zenon DEF TurnInv, ProjectionInv, SnapshotMatchesEvents
<1> QED
  BY <1>1, RuntimeInvariant, PTL DEF RuntimeInv

----------------------------------------------------------------------------
\* What StoppedIsFrozen says of a step.
Kept == rt'.told = rt.told /\ rt'.turn.proj = rt.turn.proj /\ rt'.turn.seen = rt.turn.seen

LEMMA StoppedCallers ==
  ASSUME TypeOK, rt.stopped, NEW c \in Callers, CallerStep(c)
  PROVE  Kept
<1>1. rt \in RuntimeStates
  BY Zenon DEF TypeOK
<1>2. CASE CallCancel(c) \/ CancelAgain(c) \/ CallReconcile(c) \/ CallResolve(c)
  BY <1>2, ZenonT(30) DEF CallCancel, CancelAgain, CallReconcile, CallResolve, Kept
<1>3. CASE CancelGivesUp(c)
  BY <1>1, <1>3, Zenon DEF CancelGivesUp, RuntimeStates, TurnRecords, Kept
<1>4. CASE CommitReconcile(c)
  <2>1. rt' = rt \/ (CanPublish(rt, 1) /\ rt' = Published(rt, 1))
    BY <1>4, ZenonT(30) DEF CommitReconcile
  <2> QED
    BY <1>1, <2>1, PublishedFacts, ZenonT(30) DEF SameButEvents, Kept
<1>5. CASE CommitCancelResult(c) \/ CommitResolve(c)
  <2>1. rt' = rt
    BY <1>5, Zenon DEF CommitCancelResult, CommitResolve, Running
  <2> QED
    BY <2>1, Zenon DEF Kept
<1> QED
  BY <1>2, <1>3, <1>4, <1>5, Zenon DEF CallerStep

\* The worker of a stopped runtime does not act for its turn, nor does it find any work.
LEMMA StoppedWorker ==
  ASSUME TypeOK, TurnInv, rt.stopped, WorkerStep
  PROVE  Kept
<1>1. /\ rt \in RuntimeStates /\ StopWorker(rt, "Shutdown") = rt
      /\ Engaged => rt.turn.id # worker.turn /\ rt.turn.seen = NoCloud /\ worker.turn \in Turns
  BY ZenonT(30) DEF TypeOK, TurnInv, HoldersInv, ProjectionInv, StopWorker
<1>2. ASSUME NEW s, s = rt \/ s = [rt EXCEPT !.session = "RecoveryRequired"],
             rt' = StopAfterLowerFailure(s, worker.turn), Engaged
      PROVE  Kept
  <2>1. s \in RuntimeStates /\ s.turn = rt.turn /\ s.told = rt.told
    BY <1>1, <1>2, Zenon DEF RuntimeStates, Sessions
  <2>2. rt'.told = s.told /\ rt'.turn = s.turn
    BY <1>1, <1>2, <2>1, StopAfterLowerFailureFacts, SMTT(30)
  <2> QED
    BY <2>1, <2>2, Zenon DEF Kept
<1>3. CASE WorkerStops \/ CallStartReturns \/ WorkerCallsCancel \/ CallInspect \/ \E o \in Ops : CallStart(o)
  BY <1>1, <1>3, Zenon DEF WorkerStops, CallStartReturns, WorkerCallsCancel, CallInspect, CallStart, Kept
<1>4. ~(WorkerTakesCancel \/ WorkerTakesStart \/ WorkerTakesMonitor)
  BY Zenon DEF WorkerTakesCancel, WorkerTakesStart, WorkerTakesMonitor, CancelIsDue, TurnInv, ProjectionInv, Unstarted
<1>5. CASE AdmitStart
  <2>1. Engaged
    BY <1>5, Zenon DEF AdmitStart, At, Engaged
  <2>2. rt' = rt \/ rt' = StopAfterLowerFailure(rt, worker.turn)
    BY <1>1, <1>5, <2>1, Zenon DEF AdmitStart
  <2> QED
    BY <1>2, <2>1, <2>2, Zenon DEF Kept
<1>6. CASE HandleStartResult
  <2>1. Engaged
    BY <1>6, ZenonT(30) DEF HandleStartResult, At, Engaged
  <2>2. \A life : ~CanApply(rt, worker.turn, life)
    BY <1>1, <2>1, Zenon DEF CanApply
  <2>3. \/ rt' = StopAfterLowerFailure(rt, worker.turn)
        \/ rt' = StopAfterLowerFailure([rt EXCEPT !.session = "RecoveryRequired"], worker.turn)
    BY <1>6, <2>2, ZenonT(30) DEF HandleStartResult
  <2> QED
    BY <1>2, <2>1, <2>3, Zenon
<1>7. CASE CommitWorkerCancel
  <2>1. Engaged
    BY <1>7, Zenon DEF CommitWorkerCancel, Engaged
  <2>2. rt' = rt \/ rt' = StopAfterLowerFailure(rt, worker.turn)
    BY <1>1, <1>7, <2>1, Zenon DEF CommitWorkerCancel, CanApply
  <2> QED
    BY <1>2, <2>1, <2>2, Zenon DEF Kept
<1>8. CASE HandleMonitorResult
  <2>1. Engaged
    BY <1>8, Zenon DEF HandleMonitorResult, At, Engaged
  <2>2. \/ rt' = rt \/ rt' = StopAfterLowerFailure(rt, worker.turn)
    BY <1>1, <1>8, <2>1, ZenonT(30) DEF HandleMonitorResult, MonitorOk, MonitorFailed, CanApply
  <2> QED
    BY <1>2, <2>1, <2>2, Zenon DEF Kept
<1> QED
  BY <1>3, <1>4, <1>5, <1>6, <1>7, <1>8, Zenon DEF WorkerStep

\* What a stopped runtime tells of its turn is final: no result that was under way when it
\* stopped is committed, nor does the worker find anything to do.
THEOREM StoppedStaysFrozen == Spec => StoppedIsFrozen
<1>1. TypeOK /\ TurnInv /\ [Next]_vars => (rt.stopped /\ rt'.shutdown = rt.shutdown => Kept)
  <2> SUFFICES ASSUME TypeOK, TurnInv, [Next]_vars, rt.stopped, rt'.shutdown = rt.shutdown
               PROVE  Kept
    BY Zenon
  <2>1. CASE WorkerStep
    BY <2>1, StoppedWorker, Zenon
  <2>2. CASE \E c \in Callers : CallerStep(c)
    BY <2>2, StoppedCallers, Zenon
  <2>3. CASE \E c \in Callers : RecoverUnknown(c, "reconcile") \/ RecoverUnknown(c, "resolve") \/ CancelTurn(c)
    BY <2>3, Zenon DEF RecoverUnknown, CancelTurn, Cancellable, Running
  <2>4. CASE CancelQueued \/ \E t \in Turns : StartTurn(t)
    BY <2>4, Zenon DEF CancelQueued, StartTurn, Cancellable, Running
  <2>5. CASE Shutdown
    <3>1. rt \in RuntimeStates /\ ~rt.shutdown
      BY <2>5, Zenon DEF Shutdown, TypeOK
    <3>2. rt'.shutdown
      BY <2>5, <3>1, ZenonT(30) DEF Shutdown, RuntimeStates, Published
    <3> QED
      BY <3>1, <3>2, Zenon
  <2>6. CASE SequenceNearsEnd \/ Joined \/ UNCHANGED vars
    BY <2>6, Zenon DEF SequenceNearsEnd, Joined, vars, Kept
  <2> QED
    BY <2>1, <2>2, <2>3, <2>4, <2>5, <2>6, Zenon DEF Next
<1> QED
  BY <1>1, RuntimeInvariant, PTL DEF Spec, RuntimeInv, StoppedIsFrozen, Kept

----------------------------------------------------------------------------
(***************************************************************************)
(* AttendedInv: an active turn is attended, and the first terminal         *)
(* lifecycle published is the last one.  First the steps that change       *)
(* little: they leave the state behind the mutex alone, or stop it.        *)
(***************************************************************************)
Sound == SessionInv /\ ShownIsCommitted

\* What TerminalPublishedOnce says of a step.
TerminalKept ==
  \A t \in Turns : rt.told[t] # NoCloud /\ rt.told[t].phase \in Terminal => rt'.told[t] = rt.told[t]

\* No caller begins a cancel, and one that goes on has no result in hand.
CallersKept ==
  \A c \in Callers :
    \/ caller'[c] = caller[c]
    \/ /\ caller'[c].res.kind # "ok"
       /\ caller'[c].pc \in {"cancel", "canceled"} =>
            /\ caller[c].pc \in {"cancel", "canceled"}
            /\ caller'[c].turn = caller[c].turn /\ caller'[c].early = caller[c].early

StillStep ==
  /\ rt'.turn = rt.turn /\ rt'.session = rt.session /\ rt'.work = rt.work /\ rt'.told = rt.told
  /\ rt'.stopped = rt.stopped /\ worker' = worker /\ CallersKept /\ UNCHANGED <<minted, cloudVars>>

LEMMA StillKeeps ==
  ASSUME Sound, StillStep
  PROVE  ShownInv' /\ ToldInv' /\ CancelInv' /\ ResultInv' /\ TerminalKept
<1>1. /\ ShownInv /\ ToldInv /\ CancelInv /\ ResultInv /\ cloud' = cloud /\ minted' = minted
      /\ rt'.turn = rt.turn /\ rt'.session = rt.session /\ rt'.work = rt.work /\ rt'.told = rt.told
      /\ rt'.stopped = rt.stopped /\ worker' = worker
  BY Zenon DEF Sound, SessionInv, AttendedInv, StillStep, cloudVars
<1>2. \A c \in Callers :
        /\ Cancels(c)' => Cancels(c) /\ caller'[c].early = caller[c].early
        /\ caller'[c].res.kind = "ok" => caller'[c] = caller[c]
  BY Zenon DEF StillStep, CallersKept, Cancels
<1>3. ShownInv' /\ TerminalKept
  BY <1>1, Zenon DEF ShownInv, TerminalKept, Active, Open
<1>4. ToldInv'
  BY <1>1, <1>2, ZenonT(30) DEF ToldInv, Acts, Engaged
<1>5. CancelInv'
  BY <1>1, <1>2, Zenon DEF CancelInv, Acts
<1>6. ResultInv'
  <2>1. HandsInv' /\ OpenInv'
    BY <1>1, <1>2, Zenon DEF ResultInv, HandsInv, OpenInv, Open, Settled, At
  <2>2. CommitInv'
    BY <1>1, <1>2, ZenonT(30) DEF ResultInv, CommitInv, Acts, Open
  <2>3. EarlyInv'
    BY <1>1, <1>2, Zenon DEF ResultInv, EarlyInv, Acts
  <2> QED
    BY <2>1, <2>2, <2>3, Zenon DEF ResultInv
<1> QED
  BY <1>3, <1>4, <1>5, <1>6, Zenon

LEMMA StillAttends ==
  ASSUME Sound, StillStep, CanPublish(rt', 1) => CanPublish(rt, 1),
         \A c \in Callers : Cancels(c) /\ ~caller[c].early => Cancels(c)' /\ ~caller'[c].early
  PROVE  AttendedInv' /\ TerminalKept
<1>1. AttendInv'
  BY Zenon DEF Sound, SessionInv, AttendedInv, StillStep, AttendInv, Active, CancelIsDue
<1> QED
  BY <1>1, StillKeeps, Zenon DEF AttendedInv

\* A stop: whatever is left to do for the turn, the runtime is not going to do it.
HaltStep ==
  /\ rt'.stopped /\ rt'.session \notin {"Running", "MonitoringDegraded"} /\ rt'.told = rt.told
  /\ \/ /\ rt'.turn = rt.turn /\ rt'.work \in {rt.work, NoWork}
        /\ rt'.session = "Ready" => rt.session = "Ready"
     \/ /\ rt'.turn.id = rt.turn.id /\ rt'.turn.seen = NoCloud /\ rt'.work = NoWork
        /\ rt'.turn.proj \in {"StoppedAfterLowerFailure", "StoppedBeforeCloudStart"}
        /\ rt'.turn.cancelling = rt.turn.cancelling /\ rt'.turn.cancelled = rt.turn.cancelled
  /\ ~Engaged' /\ worker'.res.kind # "ok" /\ UNCHANGED <<caller, minted, cloudVars>>

LEMMA HaltKeeps ==
  ASSUME Sound, HaltStep
  PROVE  AttendedInv' /\ TerminalKept
<1>1. /\ ShownInv /\ ToldInv /\ CancelInv /\ ResultInv /\ cloud' = cloud /\ minted' = minted
      /\ rt'.stopped /\ rt'.told = rt.told /\ caller' = caller /\ worker'.res.kind # "ok" /\ ~Active'
      /\ worker'.pc \notin StartPcs \cup CancelPcs
  BY Zenon DEF Sound, SessionInv, AttendedInv, HaltStep, cloudVars, Active, Engaged, StartPcs, CancelPcs
<1>2. \/ /\ rt'.turn = rt.turn /\ rt'.work \in {rt.work, NoWork}
         /\ rt'.session = "Ready" => rt.session = "Ready"
      \/ /\ rt'.turn.id = rt.turn.id /\ rt'.turn.seen = NoCloud /\ rt'.work = NoWork
         /\ rt'.turn.proj \in {"StoppedAfterLowerFailure", "StoppedBeforeCloudStart"}
         /\ rt'.turn.cancelling = rt.turn.cancelling /\ rt'.turn.cancelled = rt.turn.cancelled
  BY Zenon DEF HaltStep
<1>3. \A c \in Callers : Cancels(c)' <=> Cancels(c)
  BY <1>1, <1>2, Zenon DEF Cancels
<1>4. ShownInv' /\ TerminalKept /\ AttendInv'
  <2>1. NoWork.kind = "none"
    BY Zenon DEF NoWork
  <2>2. rt'.work.kind = "monitor" => rt.work.kind = "monitor" /\ rt'.turn = rt.turn
    BY <1>2, <2>1, Zenon
  <2>3. TerminalKept /\ AttendInv'
    BY <1>1, Zenon DEF TerminalKept, AttendInv
  <2>4. CASE rt'.turn = rt.turn
    BY <1>1, <1>2, <2>2, <2>3, <2>4, Zenon DEF ShownInv, Open
  <2>5. CASE rt'.turn # rt.turn
    BY <1>1, <1>2, <2>2, <2>3, <2>5, Zenon DEF ShownInv, Open
  <2> QED
    BY <2>4, <2>5, Zenon
<1>5. ToldInv'
  BY <1>1, <1>2, <1>3, ZenonT(30) DEF ToldInv, Acts, HaltStep
<1>6. CancelInv'
  BY <1>1, <1>2, <1>3, Zenon DEF CancelInv, Acts
<1>7. ResultInv'
  BY <1>1, <1>2, <1>3, ZenonT(30) DEF ResultInv, HandsInv, OpenInv, CommitInv, EarlyInv, Acts, Open, StartPcs
<1> QED
  BY <1>4, <1>5, <1>6, <1>7, Zenon DEF AttendedInv

----------------------------------------------------------------------------
(***************************************************************************)
(* The lower calls: the state behind the mutex stays as it is, and so does *)
(* who acts for the turn.                                                  *)
(***************************************************************************)
SceneStep ==
  /\ UNCHANGED <<rt, minted>> /\ worker'.turn = worker.turn
  /\ Engaged' = Engaged
  /\ worker'.pc \in StartPcs <=> worker.pc \in StartPcs
  /\ worker'.pc \in CancelPcs <=> worker.pc \in CancelPcs
  /\ worker'.pc # "started" => worker.pc # "started"
  /\ \A c \in Callers : (Cancels(c)' <=> Cancels(c)) /\ caller'[c].early = caller[c].early

LEMMA SceneKeeps ==
  ASSUME Sound, SceneStep
  PROVE  ShownInv' /\ ToldInv' /\ CancelInv' /\ AttendInv' /\ TerminalKept
<1>1. /\ ShownInv /\ ToldInv /\ CancelInv /\ AttendInv /\ rt' = rt /\ minted' = minted
      /\ worker'.turn = worker.turn /\ (Engaged' <=> Engaged)
      /\ worker'.pc \in StartPcs <=> worker.pc \in StartPcs
      /\ worker'.pc \in CancelPcs <=> worker.pc \in CancelPcs
      /\ worker'.pc # "started" => worker.pc # "started"
      /\ \A c \in Callers : (Cancels(c)' <=> Cancels(c)) /\ caller'[c].early = caller[c].early
  BY Zenon DEF Sound, SessionInv, AttendedInv, SceneStep
<1>2. ShownInv' /\ TerminalKept /\ AttendInv'
  BY <1>1, ZenonT(30) DEF ShownInv, TerminalKept, Active, Open, AttendInv, CancelIsDue
<1>3. ToldInv'
  BY <1>1, ZenonT(30) DEF ToldInv, Acts
<1>4. CancelInv'
  BY <1>1, ZenonT(30) DEF CancelInv, Acts
<1> QED
  BY <1>2, <1>3, <1>4, Zenon

\* An open lifecycle may go on; a terminal one stays.
LowerMoves ==
  cloud' = cloud \/ (Open(cloud) /\ cloud' # NoCloud /\ cloud'.op = cloud.op)

\* What a call returns, if it is not an error, is the current lifecycle.
Returns(r) ==
  r.kind = "ok" => r.life = cloud' /\ cloud' \in Lives /\ cloud' # NoCloud /\ r.life.phase # "Submitting"

LEMMA ReturnFacts ==
  ASSUME CloudTypes, NEW r \in CallResults
  PROVE  /\ CancelReturns(r) =>
              /\ LowerMoves /\ Returns(r)
              /\ r.kind = "ok" => r.life.phase \in Terminal \cup {"OutcomeUnknown"} /\ ~InPhase({"Submitting"})
              /\ r.kind = "ok" /\ Settled => r.life.phase \in Terminal
         /\ InspectReturns(r) \/ ReconcileReturns(r) \/ (\E o : ResolveReturns(o, r)) => LowerMoves /\ Returns(r)
         /\ StartReturns(r) /\ InPhase({"Submitting"}) => LowerMoves /\ Returns(r)
<1>1. /\ Err("Other").kind # "ok" /\ Err("ProviderRead").kind # "ok" /\ Err("NoCurrentOperation").kind # "ok"
      /\ \A l : Ok(l).life = l
  BY Zenon DEF Err, Ok
<1>2. \A o, p : Life(o, p).op = o /\ Life(o, p).phase = p
  BY Zenon DEF Life
<1>3. /\ cloud # NoCloud => cloud \in Lives /\ cloud.op \in Ops
      /\ Statuses \cup {"CanceledWithTask", "CanceledNoTask", "AbandonedUnknown", "FailedBeforeSubmit", "OutcomeUnknown"}
           \subseteq Phases
      /\ {"Submitting", "Pending", "OutcomeUnknown"} \cap Terminal = {} /\ "CanceledWithTask" \in Terminal
      /\ "Submitting" \notin Statuses
  BY Zenon DEF CloudTypes, Shown, Lives, Phases, Terminal, Statuses
<1>m. ASSUME NEW p \in Phases, p # "Submitting", Open(cloud), cloud' = Life(cloud.op, p), r = Ok(cloud')
      PROVE  LowerMoves /\ Returns(r) /\ r.life.phase = p
  <2>1. cloud' \in Lives /\ cloud' # NoCloud /\ cloud'.op = cloud.op /\ cloud'.phase = p
    BY <1>2, <1>3, <1>m, LifeType, Zenon DEF Open
  <2> QED
    BY <1>1, <1>m, <2>1, Zenon DEF LowerMoves, Returns
<1>s. ASSUME cloud' = cloud, cloud # NoCloud, cloud.phase # "Submitting", r = Ok(cloud)
      PROVE  LowerMoves /\ Returns(r)
  BY <1>1, <1>3, <1>s, Zenon DEF LowerMoves, Returns
<1>f. ASSUME cloud' = cloud, r.kind # "ok"
      PROVE  LowerMoves /\ Returns(r)
  BY <1>f, Zenon DEF LowerMoves, Returns
<1>4. ASSUME CancelReturns(r)
      PROVE  /\ LowerMoves /\ Returns(r)
             /\ r.kind = "ok" => r.life.phase \in Terminal \cup {"OutcomeUnknown"} /\ ~InPhase({"Submitting"})
             /\ r.kind = "ok" /\ Settled => r.life.phase \in Terminal
  <2>1. \/ cloud' = cloud /\ r.kind # "ok"
        \/ InPhase({"Pending"}) /\ cloud' = Life(cloud.op, "CanceledWithTask") /\ r = Ok(cloud')
        \/ InPhase(Terminal \cup {"OutcomeUnknown"}) /\ r = Ok(cloud) /\ cloud' = cloud
    BY <1>1, <1>4, ZenonT(30) DEF CancelReturns
  <2>2. CASE cloud' = cloud /\ r.kind # "ok"
    BY <2>2, Zenon DEF LowerMoves, Returns
  <2>3. CASE InPhase({"Pending"}) /\ cloud' = Life(cloud.op, "CanceledWithTask") /\ r = Ok(cloud')
    BY <1>3, <1>m, <2>3, Zenon DEF InPhase, Open
  <2>4. CASE InPhase(Terminal \cup {"OutcomeUnknown"}) /\ r = Ok(cloud) /\ cloud' = cloud
    BY <1>1, <1>3, <2>4, Zenon DEF LowerMoves, Returns, InPhase, Settled
  <2> QED
    BY <2>1, <2>2, <2>3, <2>4, Zenon
<1>5. ASSUME InspectReturns(r)
      PROVE  LowerMoves /\ Returns(r)
  <2>1. \/ cloud' = cloud /\ r.kind # "ok"
        \/ InPhase({"Pending"}) /\ r = Ok(cloud') /\ \E p \in Statuses : cloud' = Life(cloud.op, p)
        \/ InPhase(Terminal) /\ r = Ok(cloud) /\ cloud' = cloud
    BY <1>1, <1>5, ZenonT(30) DEF InspectReturns
  <2> QED
    BY <1>3, <1>m, <1>s, <1>f, <2>1, ZenonT(30) DEF InPhase, Open
<1>6. ASSUME ReconcileReturns(r)
      PROVE  LowerMoves /\ Returns(r)
  BY <1>1, <1>3, <1>6, ZenonT(30) DEF ReconcileReturns, LowerMoves, Returns, InPhase, cloudVars
<1>7. ASSUME NEW o, ResolveReturns(o, r)
      PROVE  LowerMoves /\ Returns(r)
  <2>1. \/ cloud' = cloud /\ r.kind # "ok"
        \/ /\ InPhase({"OutcomeUnknown"}) /\ r = Ok(cloud')
           /\ \E p \in Statuses \cup {"AbandonedUnknown"} : cloud' = Life(cloud.op, p)
        \/ InPhase(Statuses \cup {"AbandonedUnknown"}) /\ r = Ok(cloud) /\ cloud' = cloud
    BY <1>1, <1>7, ZenonT(30) DEF ResolveReturns
  <2> QED
    BY <1>3, <1>m, <1>s, <1>f, <2>1, ZenonT(30) DEF InPhase, Open
<1>8. ASSUME StartReturns(r), InPhase({"Submitting"})
      PROVE  LowerMoves /\ Returns(r)
  <2>1. \/ cloud' = cloud /\ r.kind # "ok"
        \/ /\ r = Ok(cloud')
           /\ \E p \in {"FailedBeforeSubmit", "OutcomeUnknown", "Pending", "CanceledNoTask"} :
                cloud' = Life(cloud.op, p)
    BY <1>1, <1>8, ZenonT(30) DEF StartReturns
  <2> QED
    BY <1>3, <1>m, <1>f, <1>8, <2>1, ZenonT(30) DEF InPhase, Open, Statuses
<1> QED
  BY <1>4, <1>5, <1>6, <1>7, <1>8, Zenon

\* A lifecycle that is shown as pending has gone on to what follows Pending, at most; a
\* terminal one is the end.
LEMMA ReachesFromShown ==
  ASSUME NEW life \in Lives, NEW now \in Lives, Reaches(life, now)
  PROVE  /\ life.phase \in AfterPending /\ Open(life) => now.phase \in AfterPending
         /\ life.phase \in Terminal => now.phase = life.phase
<1>1. now.phase \in PhasesAfter(life.phase)
  BY ReachesPhases, Zenon
<1>2. life.phase \in AfterPending /\ Open(life) => life.phase = "Pending"
  BY Zenon DEF AfterPending, Open, Statuses, Terminal
<1>3. PhasesAfter("Pending") = AfterPending
  BY Zenon DEF PhasesAfter, AfterPending
<1>4. life.phase \in Terminal => PhasesAfter(life.phase) = {life.phase}
  BY Zenon DEF PhasesAfter, Terminal
<1> QED
  BY <1>1, <1>2, <1>3, <1>4, Zenon

\* A lower call that returns a lifecycle while the turn is shown as pending returns what the
\* lifecycle shown has become.
LEMMA ReturnsWhatIsShown ==
  ASSUME Sound, ShownIsCommitted', rt' = rt, NEW r, LowerMoves, Returns(r), r.kind = "ok",
         Open(rt.turn.seen), rt.turn.seen.phase \in AfterPending
  PROVE  r.life.op = rt.turn.seen.op /\ r.life.phase \in AfterPending
<1>1. rt.turn.seen \in Lives /\ cloud # NoCloud /\ cloud.op = rt.turn.seen.op
  BY Zenon DEF Sound, SessionInv, RuntimeInv, TypeOK, RuntimeStates, TurnRecords, Shown, Open, AttendedInv, ResultInv, OpenInv
<1>2. r.life = cloud' /\ cloud' \in Lives /\ cloud' # NoCloud /\ cloud'.op = rt.turn.seen.op
  BY <1>1, Zenon DEF LowerMoves, Returns
<1>3. Committed(rt.turn.seen)'
  BY Zenon DEF ShownIsCommitted
<1>4. Reaches(rt.turn.seen, cloud')
  BY <1>2, <1>3, Zenon DEF Committed, Reaches, Open
<1> QED
  BY <1>1, <1>2, <1>4, ReachesFromShown, Zenon

\* cancel() signals a submit that is running.
LEMMA SignalKeeps ==
  ASSUME Sound, CancelSignals, UNCHANGED <<rt, worker, caller, minted>>
  PROVE  AttendedInv' /\ TerminalKept
<1>1. ResultInv /\ cloud' = cloud /\ UNCHANGED <<rt, worker, caller, minted>>
  BY Zenon DEF Sound, SessionInv, AttendedInv, CancelSignals
<1>2. SceneStep
  BY <1>1, Zenon DEF SceneStep, Cancels, Engaged
<1>3. ResultInv'
  <2>1. HandsInv' /\ OpenInv'
    BY <1>1, Zenon DEF ResultInv, HandsInv, OpenInv, Open, Settled, At
  <2>2. CommitInv'
    BY <1>1, Zenon DEF ResultInv, CommitInv, Acts, Open, Cancels
  <2>3. EarlyInv'
    BY <1>1, Zenon DEF ResultInv, EarlyInv, Acts, Cancels
  <2> QED
    BY <2>1, <2>2, <2>3, Zenon DEF ResultInv
<1> QED
  BY <1>2, <1>3, SceneKeeps, Zenon DEF AttendedInv

\* A caller calls the lower orchestrator for the current turn.
LEMMA CallerCallsKeep ==
  ASSUME Sound, RuntimeInv', ShownIsCommitted', NEW c \in Callers, CallCancel(c) \/ CallReconcile(c) \/ CallResolve(c)
  PROVE  AttendedInv' /\ TerminalKept
<1>1. /\ CloudTypes /\ UNCHANGED <<rt, worker, minted>> /\ caller \in [Callers -> CallerStates]
      /\ ShownInv /\ ToldInv /\ CancelInv /\ ResultInv
  BY Zenon DEF CallCancel, CallReconcile, CallResolve, Sound, SessionInv, RuntimeInv, AttendedInv, TypeOK, CloudTypes
<1>2. CASE CancelSignals /\ UNCHANGED caller
  BY <1>1, <1>2, SignalKeeps, Zenon
<1>3. CASE \E r \in CallResults :
             \/ caller[c].pc = "cancel" /\ CancelReturns(r) /\ Hold(c, "canceled", r)
             \/ caller[c].pc = "reconcile" /\ ReconcileReturns(r) /\ Hold(c, "reconciled", r)
             \/ caller[c].pc = "resolve" /\ (\E o : ResolveReturns(o, r)) /\ Hold(c, "resolved", r)
  <2>1. PICK r \in CallResults :
             \/ caller[c].pc = "cancel" /\ CancelReturns(r) /\ Hold(c, "canceled", r)
             \/ caller[c].pc = "reconcile" /\ ReconcileReturns(r) /\ Hold(c, "reconciled", r)
             \/ caller[c].pc = "resolve" /\ (\E o : ResolveReturns(o, r)) /\ Hold(c, "resolved", r)
    BY <1>3, Zenon
  <2>2. LowerMoves /\ Returns(r)
    BY <1>1, <2>1, ReturnFacts, Zenon
  <2>3. /\ \A d \in Callers \ {c} : caller'[d] = caller[d]
        /\ caller'[c].turn = caller[c].turn /\ caller'[c].early = caller[c].early /\ caller'[c].res = r
        /\ caller'[c].pc \in {"cancel", "canceled"} <=> caller[c].pc \in {"cancel", "canceled"}
        /\ caller'[c].pc = "canceled" => CancelReturns(r)
        /\ caller'[c].pc # "cancel"
    BY <1>1, <2>1, ZenonT(90) DEF Hold, CallerStates
  <2>4. \A d \in Callers : (Cancels(d)' <=> Cancels(d)) /\ caller'[d].early = caller[d].early
    BY <1>1, <2>3, Zenon DEF Cancels
  <2>5. SceneStep
    BY <1>1, <2>4, Zenon DEF SceneStep, Engaged
  <2>6. /\ cloud # NoCloud => cloud' # NoCloud /\ cloud'.op = cloud.op
        /\ Settled => Settled'
    BY <2>2, Zenon DEF LowerMoves, Open, Settled
  <2>7. /\ HandsInv /\ OpenInv /\ CommitInv /\ EarlyInv /\ rt' = rt /\ worker' = worker
        /\ \A d \in Callers : caller'[d].res.kind = "ok" => caller'[d] = caller[d] \/ (d = c /\ r.kind = "ok")
    BY <1>1, <2>3, Zenon DEF ResultInv
  <2>8. HandsInv'
    <3>1. caller'[c].pc = "canceled" /\ r.kind = "ok" => r.life.phase # "Pending"
      BY <1>1, <2>3, ReturnFacts, Zenon DEF Terminal
    <3> QED
      BY <2>2, <2>3, <2>6, <2>7, <3>1, Zenon DEF HandsInv, Returns, At
  <2>9. OpenInv'
    BY <2>6, <2>7, Zenon DEF OpenInv
  <2>10. CommitInv'
    <3>1. ASSUME Cancels(c), ~caller[c].early, r.kind = "ok", Open(rt.turn.seen)
          PROVE  r.life.op = rt.turn.seen.op /\ r.life.phase \in AfterPending
      <4>1. rt.turn.seen # NoCloud /\ rt.turn.seen.phase \in AfterPending
        BY <2>7, <3>1, Zenon DEF CommitInv, Open
      <4> QED
        BY <2>2, <2>7, <3>1, <4>1, ReturnsWhatIsShown, Zenon
    <3> QED
      BY <2>3, <2>4, <2>7, <3>1, ZenonT(30) DEF CommitInv, Acts, Open
  <2>11. EarlyInv'
    <3>1. ASSUME caller'[c].pc = "canceled", r.kind = "ok", r.life.phase \notin Terminal
          PROVE  ~Acts({"admit", "start", "starting"})
      <4>1. CancelReturns(r) /\ ~InPhase({"Submitting"}) /\ ~Settled
        BY <1>1, <2>3, <3>1, ReturnFacts, Zenon
      <4>2. worker.pc # "starting"
        BY <4>1, Zenon DEF Sound, SessionInv, RuntimeInv, LowerInv
      <4>3. Acts({"admit", "start", "starting"}) => ~rt.stopped /\ ~Open(rt.turn.seen)
        BY <1>1, ZenonT(30) DEF Acts, CancelInv, Open, StartPcs, Sound, SessionInv, RuntimeInv, TurnInv, ProjectionInv, Engaged
      <4> QED
        BY <2>7, <4>1, <4>2, <4>3, Zenon DEF OpenInv, Acts
    <3>2. Cancels(c)' /\ r.kind = "ok" => caller'[c].pc = "canceled"
      BY <2>3, Zenon DEF Cancels
    <3> QED
      BY <2>2, <2>3, <2>4, <2>6, <2>7, <3>1, <3>2, ZenonT(30) DEF EarlyInv, Acts, Returns
  <2>12. ResultInv'
    BY <2>8, <2>9, <2>10, <2>11, Zenon DEF ResultInv
  <2> QED
    BY <2>5, <2>12, SceneKeeps, Zenon DEF AttendedInv
<1> QED
  BY <1>2, <1>3, ZenonT(30) DEF CallCancel, CallReconcile, CallResolve

\* What a lower call returned to the worker.
WorkerHolds(pc, r) ==
  /\ Keep(pc, r) /\ LowerMoves /\ Returns(r) /\ UNCHANGED <<rt, caller, minted>>
  /\ \/ worker.pc = "starting" /\ pc = "started"
     \/ worker.pc = "cancel" /\ pc = "canceled" /\ CancelReturns(r)
     \/ worker.pc = "cancelStart" /\ pc = "canceledStart" /\ CancelReturns(r)
     \/ worker.pc = "inspect" /\ pc = "inspected"

LEMMA WorkerHoldsKeeps ==
  ASSUME Sound, ShownIsCommitted', NEW r \in CallResults, NEW pc \in WorkerPcs, WorkerHolds(pc, r)
  PROVE  AttendedInv' /\ TerminalKept
<1>1. /\ TypeOK /\ CloudTypes /\ HandsInv /\ OpenInv /\ CommitInv /\ EarlyInv
      /\ rt' = rt /\ caller' = caller /\ minted' = minted /\ LowerMoves /\ Returns(r)
  BY Zenon DEF Sound, SessionInv, RuntimeInv, AttendedInv, ResultInv, TypeOK, CloudTypes, WorkerHolds
<1>2. worker'.pc = pc /\ worker'.turn = worker.turn /\ worker'.res = r
  BY <1>1, Zenon DEF WorkerHolds, Keep, TypeOK, WorkerStates
<1>3. \/ worker.pc = "starting" /\ pc = "started"
      \/ worker.pc = "cancel" /\ pc = "canceled" /\ CancelReturns(r)
      \/ worker.pc = "cancelStart" /\ pc = "canceledStart" /\ CancelReturns(r)
      \/ worker.pc = "inspect" /\ pc = "inspected"
  BY Zenon DEF WorkerHolds
<1>4. /\ Engaged /\ Engaged' /\ (pc \in StartPcs <=> worker.pc \in StartPcs)
      /\ pc \in CancelPcs <=> worker.pc \in CancelPcs
      /\ worker.pc # "started" /\ pc \notin {"admit", "start", "starting"}
      /\ pc \in CancelPcs => CancelReturns(r)
      /\ pc \notin {"starting", "started"} => worker.pc \notin {"starting", "started"}
  BY <1>2, <1>3, ZenonT(30) DEF Engaged, StartPcs, CancelPcs
<1>5. \A c \in Callers : (Cancels(c)' <=> Cancels(c)) /\ caller'[c].early = caller[c].early
  BY <1>1, Zenon DEF Cancels
<1>6. SceneStep
  BY <1>1, <1>2, <1>4, <1>5, Zenon DEF SceneStep
<1>7. /\ cloud # NoCloud => cloud' # NoCloud /\ cloud'.op = cloud.op
      /\ Settled => Settled'
  BY <1>1, Zenon DEF LowerMoves, Open, Settled
<1>8. HandsInv'
  <2>1. pc \in CancelPcs /\ r.kind = "ok" => r.life.phase # "Pending"
    BY <1>1, <1>4, ReturnFacts, Zenon DEF Terminal
  <2> QED
    BY <1>1, <1>2, <2>1, Zenon DEF HandsInv, Returns, At
<1>9. OpenInv'
  BY <1>1, <1>2, <1>4, <1>7, Zenon DEF OpenInv
<1>10. CommitInv'
  BY <1>1, <1>2, <1>4, <1>5, ReturnsWhatIsShown, Zenon DEF CommitInv, Acts
<1>11. EarlyInv'
  BY <1>1, <1>2, <1>4, <1>5, <1>7, Zenon DEF EarlyInv, Acts
<1> QED
  BY <1>6, <1>8, <1>9, <1>10, <1>11, SceneKeeps, Zenon DEF AttendedInv, ResultInv

\* start() is called for the turn that was admitted: nothing is open when it is let in.
LEMMA CallStartAttended ==
  ASSUME Sound, NEW o \in Ops, CallStart(o)
  PROVE  AttendedInv' /\ TerminalKept
<1>1. /\ TypeOK /\ ProjectionInv /\ CancelInv /\ HandsInv /\ OpenInv /\ CommitInv /\ EarlyInv
      /\ rt' = rt /\ caller' = caller /\ minted' = minted /\ worker.pc = "start"
  BY Zenon DEF Sound, SessionInv, RuntimeInv, TurnInv, AttendedInv, ResultInv, CallStart, At
<1>2. /\ \/ worker'.pc = "starting" /\ StartEnters(o)
         \/ worker'.pc = "started" /\ cloud' = cloud
      /\ worker'.turn = worker.turn /\ worker'.res.kind # "ok"
  <2>1. Nothing.kind # "ok" /\ Err("Other").kind # "ok" /\ worker \in WorkerStates
    BY <1>1, Zenon DEF Nothing, Err, TypeOK
  <2>2. \A pc, r : Keep(pc, r) => worker'.pc = pc /\ worker'.turn = worker.turn /\ worker'.res = r
    BY <2>1, Zenon DEF Keep, WorkerStates
  <2>3. \/ StartEnters(o) /\ Keep("starting", Nothing)
        \/ StartRefused(o) /\ Keep("started", Err("Other"))
    BY Zenon DEF CallStart
  <2> QED
    BY <2>1, <2>2, <2>3, Zenon DEF StartRefused
<1>3. \A c \in Callers : (Cancels(c)' <=> Cancels(c)) /\ caller'[c].early = caller[c].early
  BY <1>1, Zenon DEF Cancels
<1>4. SceneStep
  BY <1>1, <1>2, <1>3, Zenon DEF SceneStep, Engaged, StartPcs, CancelPcs
<1>5. /\ ~Open(rt.turn.seen)
      /\ \A c \in Callers : Cancels(c) /\ caller[c].res.kind = "ok" => caller[c].res.life.phase \in Terminal
  <2>1. CASE worker.turn = rt.turn.id
    BY <1>1, <2>1, Zenon DEF CancelInv, EarlyInv, Acts, Open, StartPcs
  <2>2. CASE worker.turn # rt.turn.id
    BY <1>1, <2>2, Zenon DEF ProjectionInv, Engaged, Open, Cancels
  <2> QED
    BY <2>1, <2>2, Zenon
<1>6. HandsInv' /\ OpenInv'
  BY <1>1, <1>2, <1>5, Zenon DEF HandsInv, OpenInv
<1>7. CommitInv'
  BY <1>1, <1>2, <1>3, Zenon DEF CommitInv, Acts, CancelPcs
<1>8. EarlyInv'
  BY <1>1, <1>3, <1>5, Zenon DEF EarlyInv
<1> QED
  BY <1>4, <1>6, <1>7, <1>8, SceneKeeps, Zenon DEF AttendedInv, ResultInv

\* The lower calls of the worker.
LEMMA WorkerCallsKeep ==
  ASSUME Sound, RuntimeInv', ShownIsCommitted',
         (\E o \in Ops : CallStart(o)) \/ CallStartReturns \/ WorkerCallsCancel \/ CallInspect
  PROVE  AttendedInv' /\ TerminalKept
<1>1. CloudTypes /\ LowerInv /\ {"started", "canceled", "canceledStart", "inspected"} \subseteq WorkerPcs
  BY Zenon DEF Sound, SessionInv, RuntimeInv, TypeOK, CloudTypes, WorkerPcs
<1>2. CASE \E o \in Ops : CallStart(o)
  BY <1>2, CallStartAttended, Zenon
<1>3. CASE CallStartReturns
  <2>1. PICK r \in CallResults : StartReturns(r) /\ Keep("started", r)
    BY <1>3, Zenon DEF CallStartReturns
  <2>2. InPhase({"Submitting"}) /\ worker.pc = "starting" /\ UNCHANGED <<rt, caller, minted>>
    BY <1>1, <1>3, Zenon DEF CallStartReturns, At, LowerInv
  <2> QED
    BY <1>1, <2>1, <2>2, ReturnFacts, WorkerHoldsKeeps, Zenon DEF WorkerHolds
<1>4. CASE WorkerCallsCancel
  <2>1. CASE CancelSignals /\ UNCHANGED worker
    BY <1>4, <2>1, SignalKeeps, Zenon DEF WorkerCallsCancel
  <2>2. CASE \E r \in CallResults : CancelReturns(r) /\ Keep(IF At("cancel") THEN "canceled" ELSE "canceledStart", r)
    <3>1. PICK r \in CallResults : CancelReturns(r) /\ Keep(IF At("cancel") THEN "canceled" ELSE "canceledStart", r)
      BY <2>2, Zenon
    <3>2. PICK pc : pc = IF At("cancel") THEN "canceled" ELSE "canceledStart"
      BY Zenon
    <3>3. /\ \/ worker.pc = "cancel" /\ pc = "canceled"
             \/ worker.pc = "cancelStart" /\ pc = "canceledStart"
          /\ Keep(pc, r) /\ UNCHANGED <<rt, caller, minted>>
      BY <1>4, <3>1, <3>2, Zenon DEF WorkerCallsCancel, At
    <3> QED
      BY <1>1, <3>1, <3>3, ReturnFacts, WorkerHoldsKeeps, Zenon DEF WorkerHolds
  <2> QED
    BY <1>4, <2>1, <2>2, Zenon DEF WorkerCallsCancel
<1>5. CASE CallInspect
  <2>1. PICK r \in CallResults : InspectReturns(r) /\ Keep("inspected", r)
    BY <1>5, Zenon DEF CallInspect
  <2>2. worker.pc = "inspect" /\ UNCHANGED <<rt, caller, minted>>
    BY <1>5, Zenon DEF CallInspect, At
  <2> QED
    BY <1>1, <2>1, <2>2, ReturnFacts, WorkerHoldsKeeps, Zenon DEF WorkerHolds
<1> QED
  BY <1>2, <1>3, <1>4, <1>5, Zenon

----------------------------------------------------------------------------
(***************************************************************************)
(* A lifecycle is shown: what cancel_turn, resolve_unknown and the worker  *)
(* commit.                                                                 *)
(***************************************************************************)
ApplyStep(life) ==
  /\ life \in Lives /\ life.phase # "Submitting" /\ Committed(life)
  /\ rt.turn.id \in minted /\ CanApply(rt, rt.turn.id, life)
  /\ rt'.turn.id = rt.turn.id /\ rt'.turn.proj = "Cloud" /\ rt'.turn.seen = life
  /\ rt'.session = StateFor(life) \/ (rt'.session = "Stopped" /\ rt'.stopped)
  /\ rt.stopped => rt'.stopped
  /\ rt'.work.kind = "monitor" => life.phase = "Pending"
  /\ life.phase = "Pending" => rt'.stopped \/ rt'.work.kind # "none" \/ worker'.turn = rt.turn.id
  /\ rt'.told \in {rt.told, [rt.told EXCEPT ![rt.turn.id] = life]}
  /\ rt.turn.seen = NoCloud =>
       /\ rt.told[rt.turn.id] = NoCloud
       /\ Open(life) => cloud # NoCloud /\ cloud.op = life.op
  /\ \/ worker' = worker
     \/ /\ worker'.pc \in {"next", "exited", "cancelStart"} /\ worker'.res.kind # "ok"
        /\ worker.pc # "starting"
        /\ worker.pc = "started" => cloud # NoCloud /\ cloud.op = life.op
  /\ CallersKept /\ UNCHANGED <<minted, cloudVars>>

\* transition_allowed leaves a terminal lifecycle as it is.
LEMMA ApplyFacts ==
  ASSUME Sound, NEW life, ApplyStep(life)
  PROVE  /\ life # NoCloud /\ rt.turn.id \in Turns
         /\ rt.turn.seen # NoCloud =>
              /\ life.op = rt.turn.seen.op
              /\ rt.turn.seen.phase \in Terminal => life = rt.turn.seen
              /\ rt.turn.seen.phase \in AfterPending => life.phase \in AfterPending
              /\ Open(life) => Open(rt.turn.seen)
<1>1. /\ life \in Lives /\ rt.turn.id \in minted /\ CanApply(rt, rt.turn.id, life) /\ minted \subseteq Turns
      /\ rt.turn.seen # NoCloud => rt.turn.seen \in Lives
  BY Zenon DEF ApplyStep, Sound, SessionInv, RuntimeInv, TypeOK, RuntimeStates, TurnRecords, Shown
<1>2. life # NoCloud
  BY <1>1, ContractAssumption, Zenon DEF Lives
<1>3. ASSUME NEW from, NEW to, TransitionAllowed(from, to)
      PROVE  /\ from \in Terminal => to = from
             /\ from \in AfterPending => to \in AfterPending
  BY <1>3, ZenonT(30) DEF TransitionAllowed, Terminal, AfterPending, Statuses
<1>4. \A l, m \in Lives : l.op = m.op /\ l.phase = m.phase => l = m
  BY SMTT(30) DEF Lives
<1>5. ASSUME rt.turn.seen # NoCloud
      PROVE  life.op = rt.turn.seen.op /\ TransitionAllowed(rt.turn.seen.phase, life.phase)
  BY <1>1, <1>5, Zenon DEF CanApply
<1>6. rt.turn.seen # NoCloud =>
        /\ rt.turn.seen.phase \in Terminal => life.phase = rt.turn.seen.phase
        /\ rt.turn.seen.phase \in AfterPending => life.phase \in AfterPending
  BY <1>3, <1>5, Zenon
<1>7. rt.turn.seen # NoCloud /\ rt.turn.seen.phase \in Terminal => life = rt.turn.seen
  BY <1>1, <1>4, <1>5, <1>6, Zenon
<1>8. rt.turn.seen # NoCloud /\ Open(life) => Open(rt.turn.seen)
  BY <1>6, Zenon DEF Open
<1>9. rt.turn.id \in Turns
  BY <1>1, Zenon
<1> QED
  BY <1>2, <1>5, <1>6, <1>7, <1>8, <1>9, ZenonT(30)

LEMMA ApplyKeeps ==
  ASSUME Sound, NEW life, ApplyStep(life)
  PROVE  TerminalKept /\ ShownInv' /\ ToldInv' /\ AttendInv' /\ HandsInv' /\ OpenInv' /\ EarlyInv'
<1>1. /\ TypeOK /\ HoldersInv /\ ProjectionInv /\ ShownInv /\ ToldInv /\ HandsInv /\ OpenInv /\ EarlyInv
      /\ cloud' = cloud /\ minted' = minted
  BY Zenon DEF Sound, SessionInv, RuntimeInv, TurnInv, AttendedInv, ResultInv, ApplyStep, cloudVars
<1>2. /\ life \in Lives /\ life.phase # "Submitting" /\ rt.turn.id \in minted
      /\ rt'.turn.id = rt.turn.id /\ rt'.turn.proj = "Cloud" /\ rt'.turn.seen = life
      /\ rt'.session = StateFor(life) \/ (rt'.session = "Stopped" /\ rt'.stopped)
      /\ rt'.work.kind = "monitor" => life.phase = "Pending"
      /\ life.phase = "Pending" => rt'.stopped \/ rt'.work.kind # "none" \/ worker'.turn = rt.turn.id
      /\ rt.stopped => rt'.stopped
  BY Zenon DEF ApplyStep
<1>3. /\ life # NoCloud /\ rt.turn.id \in Turns
      /\ rt.turn.seen # NoCloud =>
           /\ life.op = rt.turn.seen.op
           /\ rt.turn.seen.phase \in Terminal => life = rt.turn.seen
           /\ Open(life) => Open(rt.turn.seen)
  BY ApplyFacts, Zenon
<1>4. \A t \in Turns : rt'.told[t] = rt.told[t] \/ (t = rt.turn.id /\ rt'.told[t] = life)
  BY <1>1, <1>3, Zenon DEF ApplyStep, TypeOK, RuntimeStates
<1>5. \A c \in Callers :
        /\ Cancels(c)' => Cancels(c) /\ caller'[c].early = caller[c].early
        /\ caller'[c].res.kind = "ok" => caller'[c] = caller[c]
  BY <1>2, Zenon DEF ApplyStep, CallersKept, Cancels
<1>6. \/ worker' = worker
      \/ /\ worker'.pc \in {"next", "exited", "cancelStart"} /\ worker'.res.kind # "ok"
         /\ worker.pc # "starting"
         /\ worker.pc = "started" => cloud # NoCloud /\ cloud.op = life.op
  BY Zenon DEF ApplyStep
<1>7. TerminalKept
  <2>1. rt.turn.seen = NoCloud => rt.told[rt.turn.id] = NoCloud
    BY Zenon DEF ApplyStep
  <2>2. rt.turn.seen # NoCloud => rt.told[rt.turn.id] \in {rt.turn.seen, NoCloud}
    BY <1>1, Zenon DEF ProjectionInv
  <2> QED
    BY <1>3, <1>4, <2>1, <2>2, Zenon DEF TerminalKept
<1>8. ShownInv'
  <2>1. /\ StateFor(life) \in {"Running", "MonitoringDegraded"} => life.phase = "Pending"
        /\ StateFor(life) = "Ready" => life.phase \in Terminal
    BY <1>2, SMTT(30) DEF StateFor, Lives, Phases, Terminal, Statuses
  <2> QED
    BY <1>2, <1>3, <2>1, Zenon DEF ShownInv, Active, Open
<1>9. ToldInv'
  BY <1>1, <1>2, <1>3, <1>4, ZenonT(30) DEF ToldInv
<1>10. AttendInv'
  <2>1. Active' => rt'.turn.seen.phase = "Pending"
    BY <1>2, <1>8, Zenon DEF ShownInv, Active
  <2> QED
    BY <1>2, <2>1, Zenon DEF AttendInv
<1>11. HandsInv'
  BY <1>1, <1>5, <1>6, Zenon DEF HandsInv, At
<1>12. OpenInv'
  <2>1. Open(life) => cloud # NoCloud /\ cloud.op = life.op
    BY <1>1, <1>3, Zenon DEF OpenInv, ApplyStep
  <2>2. ASSUME ~rt'.stopped, ~Open(life), worker'.pc \notin {"starting", "started"}
        PROVE  Settled
    <3>1. CASE cloud # NoCloud /\ cloud.op = life.op
      <4>1. Reaches(life, cloud) /\ cloud \in Lives
        BY <1>1, <1>3, <3>1, Zenon DEF ApplyStep, Committed, TypeOK, Shown
      <4> QED
        BY <1>2, <1>3, <2>2, <4>1, ReachesFromShown, ZenonT(30) DEF Open, Settled
    <3>2. CASE ~(cloud # NoCloud /\ cloud.op = life.op)
      <4>1. worker.pc \notin {"starting", "started"}
        BY <1>6, <2>2, <3>2, Zenon
      <4>2. ~Open(rt.turn.seen)
        BY <1>1, <1>3, <3>2, Zenon DEF OpenInv, Open
      <4> QED
        BY <1>1, <1>2, <2>2, <4>1, <4>2, Zenon DEF OpenInv
    <3> QED
      BY <3>1, <3>2, Zenon
  <2> QED
    BY <1>1, <1>2, <2>1, <2>2, Zenon DEF OpenInv, Settled
<1>13. EarlyInv'
  <2>1. Acts({"admit", "start", "starting"})' => Acts({"admit", "start", "starting"})
    BY <1>2, <1>6, Zenon DEF Acts
  <2> QED
    BY <1>1, <1>2, <1>5, <2>1, Zenon DEF EarlyInv
<1> QED
  BY <1>7, <1>8, <1>9, <1>10, <1>11, <1>12, <1>13, ZenonT(30)

\* The lifecycle is the one that a cancel found.
LEMMA ApplyCancelled ==
  ASSUME Sound, NEW life, ApplyStep(life), rt'.turn.cancelled,
         \A c \in Callers : ~Cancels(c)', ~Acts(CancelPcs)',
         Acts({"admit", "start", "starting"})' => life.phase \in Terminal
  PROVE  AttendedInv' /\ TerminalKept
<1>1. rt'.turn.seen = life
  BY Zenon DEF ApplyStep
<1>2. CancelInv'
  BY <1>1, Zenon DEF CancelInv, Acts, StartPcs
<1>3. CommitInv'
  BY Zenon DEF CommitInv
<1> QED
  BY <1>2, <1>3, ApplyKeeps, Zenon DEF AttendedInv, ResultInv

\* The lifecycle is one that a start, a read or a decision found: a cancel that is going on
\* goes on.
LEMMA ApplyGoesOn ==
  ASSUME Sound, NEW life, ApplyStep(life),
         rt.turn.seen # NoCloud \/ rt.turn.proj = "Starting",
         rt'.turn.requested = rt.turn.requested, rt'.turn.cancelled <=> rt.turn.cancelled,
         rt.turn.cancelling => rt'.turn.cancelling,
         \/ worker' = worker /\ rt.turn.seen # NoCloud
         \/ worker'.pc \in {"next", "exited"}
         \/ /\ worker'.pc = "cancelStart" /\ worker'.res.kind # "ok" /\ life.phase = "Pending"
            /\ ~rt.turn.cancelling /\ ~rt.turn.cancelled /\ rt'.turn.cancelling
  PROVE  AttendedInv' /\ TerminalKept
<1>1. /\ ShownInv /\ CancelInv /\ CommitInv /\ rt'.turn.id = rt.turn.id
      /\ rt'.turn.proj = "Cloud" /\ rt'.turn.seen = life /\ life # NoCloud
  <2>1. ShownInv /\ CancelInv /\ CommitInv
    BY Zenon DEF Sound, SessionInv, AttendedInv, ResultInv
  <2>2. life # NoCloud
    BY ApplyFacts, Zenon
  <2> QED
    BY <2>1, <2>2, Zenon DEF ApplyStep
<1>2. \A c \in Callers :
        /\ Cancels(c)' => Cancels(c) /\ caller'[c].early = caller[c].early
        /\ caller'[c].res.kind = "ok" => caller'[c] = caller[c]
  BY <1>1, Zenon DEF ApplyStep, CallersKept, Cancels
<1>3. /\ rt.turn.proj \in {"Starting", "Cloud", "MonitoringDegraded"}
      /\ rt.turn.proj # "Starting" => rt.turn.seen # NoCloud
  BY <1>1, Zenon DEF ShownInv
<1>4. \A c \in Callers : Cancels(c) => /\ rt.turn.cancelling /\ ~rt.turn.cancelled /\ rt.turn.requested
                                       /\ ~caller[c].early => rt.turn.seen # NoCloud
  BY <1>1, <1>3, Zenon DEF CancelInv, CommitInv
<1>5. /\ Acts(CancelPcs)' =>
           \/ Acts(CancelPcs) /\ worker' = worker /\ rt.turn.seen # NoCloud
           \/ /\ worker'.res.kind # "ok" /\ life.phase = "Pending"
              /\ ~rt.turn.cancelling /\ ~rt.turn.cancelled /\ rt'.turn.cancelling
      /\ Acts(StartPcs)' => Acts(StartPcs) /\ worker' = worker /\ rt.turn.seen # NoCloud
  BY <1>1, Zenon DEF Acts, StartPcs, CancelPcs
<1>6. rt.turn.seen # NoCloud =>
           /\ life.op = rt.turn.seen.op
           /\ rt.turn.seen.phase \in Terminal => life = rt.turn.seen
           /\ rt.turn.seen.phase \in AfterPending => life.phase \in AfterPending
           /\ Open(life) => Open(rt.turn.seen)
  BY ApplyFacts, Zenon
<1>7. CancelInv'
  <2>1. \A c \in Callers : Cancels(c)' => rt'.turn.cancelling /\ ~rt'.turn.cancelled /\ rt'.turn.requested
    BY <1>2, <1>4, Zenon
  <2>2. \A c, d \in Callers : Cancels(c)' /\ Cancels(d)' => c = d
    BY <1>1, <1>2, Zenon DEF CancelInv
  <2>3. Acts(CancelPcs)' => (rt'.turn.cancelling \/ rt'.turn.cancelled) /\ \A c \in Callers : ~Cancels(c)'
    BY <1>1, <1>2, <1>4, <1>5, Zenon DEF CancelInv
  <2>4. Acts(StartPcs)' =>
          /\ rt'.turn.cancelled /\ \A c \in Callers : ~Cancels(c)'
          /\ worker'.pc # "started" => life.phase \in Terminal
    BY <1>1, <1>2, <1>5, <1>6, Zenon DEF CancelInv
  <2> QED
    BY <1>1, <2>1, <2>2, <2>3, <2>4, ZenonT(30) DEF CancelInv
<1>8. CommitInv'
  <2>1. "Pending" \in AfterPending
    BY Zenon DEF AfterPending, Statuses
  <2>2. Acts(CancelPcs)' =>
          /\ life.phase \in AfterPending
          /\ worker'.res.kind = "ok" /\ Open(life) =>
               worker'.res.life.op = life.op /\ worker'.res.life.phase \in AfterPending
    BY <1>1, <1>5, <1>6, <2>1, Zenon DEF CommitInv, Open
  <2>3. ASSUME NEW c \in Callers, Cancels(c)', ~caller'[c].early
        PROVE  /\ life.phase \in AfterPending
               /\ caller'[c].res.kind = "ok" /\ Open(life) =>
                    caller'[c].res.life.op = life.op /\ caller'[c].res.life.phase \in AfterPending
    BY <1>1, <1>2, <1>4, <1>6, <2>3, ZenonT(30) DEF CommitInv
  <2> QED
    BY <1>1, <2>2, <2>3, Zenon DEF CommitInv
<1> QED
  BY <1>7, <1>8, ApplyKeeps, Zenon DEF AttendedInv, ResultInv

\* What becomes of the marks of the turn.
LEMMA CommitMarks ==
  ASSUME NEW s \in RuntimeStates, NEW life \in Lives, NEW completed \in BOOLEAN, s.turn.id \in Turns
  PROVE  LET shown == Applied(s, life, completed)
             done  == [shown EXCEPT !.turn.cancelling = FALSE]
             t     == s.turn.id
         IN  /\ shown.turn.cancelling = s.turn.cancelling
             /\ shown.turn.cancelled <=> s.turn.cancelled \/ completed
             /\ done.turn.cancelled <=> s.turn.cancelled \/ completed
             /\ CanPublish(s, 1) =>
                  /\ PublishedLife(shown, t, life).turn = shown.turn
                  /\ PublishedLife(done, t, life).turn = done.turn
             /\ CanPublish(s, 2) => PublishedLife(Published(shown, 1), t, life).turn = shown.turn
<1>1. PICK shown : shown = Applied(s, life, completed)
  BY Zenon
<1>2. /\ shown \in RuntimeStates /\ shown.left = s.left /\ shown.turn.cancelling = s.turn.cancelling
      /\ shown.turn.cancelled <=> s.turn.cancelled \/ completed
  <2>1. shown \in RuntimeStates /\ shown.left = s.left
    BY <1>1, AppliedFacts, ZenonT(30)
  <2>2. /\ shown.turn.cancelling = s.turn.cancelling
        /\ shown.turn.cancelled <=> s.turn.cancelled \/ completed
    BY <1>1, AppliedMarks, ZenonT(30)
  <2> QED
    BY <2>1, <2>2, Zenon
<1>3. PICK done : done = [shown EXCEPT !.turn.cancelling = FALSE]
  BY Zenon
<1>4. /\ done \in RuntimeStates /\ done.left = s.left
      /\ done.turn.cancelled <=> s.turn.cancelled \/ completed
  BY <1>2, <1>3, ZenonT(30) DEF RuntimeStates, TurnRecords
<1>5. ASSUME CanPublish(s, 1)
      PROVE  /\ PublishedLife(shown, s.turn.id, life).turn = shown.turn
             /\ PublishedLife(done, s.turn.id, life).turn = done.turn
  <2>1. CanPublish(shown, 1) /\ CanPublish(done, 1)
    BY <1>2, <1>4, <1>5, Zenon DEF CanPublish
  <2>2. /\ SameButEvents(PublishedLife(shown, s.turn.id, life), shown)
        /\ SameButEvents(PublishedLife(done, s.turn.id, life), done)
    BY <1>2, <1>4, <2>1, PublishedLifeFacts, Zenon
  <2> QED
    BY <2>2, Zenon DEF SameButEvents
<1>6. ASSUME CanPublish(s, 2)
      PROVE  PublishedLife(Published(shown, 1), s.turn.id, life).turn = shown.turn
  <2>1. CanPublish(shown, 1) /\ shown.left >= 1 + 1
    BY <1>2, <1>6 DEF CanPublish, RuntimeStates, Plenty
  <2>2. PICK next : next = Published(shown, 1)
    BY Zenon
  <2>3. next \in RuntimeStates /\ SameButEvents(next, shown) /\ CanPublish(next, 1)
    BY <1>2, <2>1, <2>2, PublishedFacts, Zenon
  <2> QED
    BY <2>2, <2>3, PublishedLifeFacts, ZenonT(30) DEF SameButEvents
<1> QED
  BY <1>1, <1>2, <1>3, <1>4, <1>5, <1>6, ZenonT(30)

\* The caller is not in a call any more.
LEMMA LeaveKeeps ==
  ASSUME TypeOK, NEW c \in Callers, Leave(c)
  PROVE  /\ CallersKept /\ caller'[c].pc = "idle" /\ caller'[c].turn = NoTurn
         /\ \A d \in Callers \ {c} : caller'[d] = caller[d]
<1>1. Idle.pc = "idle" /\ Idle.turn = NoTurn /\ Idle.res.kind # "ok"
  BY Zenon DEF Idle, Nothing, Err
<1>2. caller'[c] = Idle /\ \A d \in Callers \ {c} : caller'[d] = caller[d]
  BY Zenon DEF Leave, TypeOK
<1> QED
  BY <1>1, <1>2, Zenon DEF CallersKept

\* commit_cancel_result, whether it commits or not: a result that a cancel of a pending turn
\* has in hand is committed unless the sequence numbers are used up.
LEMMA CommitCancelResultAttended ==
  ASSUME Sound, NEW c \in Callers, CommitCancelResult(c)
  PROVE  AttendedInv' /\ TerminalKept
<1>1. PICK life : life = caller[c].res.life
  BY Zenon
<1>2. /\ TypeOK /\ HoldersInv /\ LowerInv /\ ShownInv /\ ToldInv /\ CancelInv /\ HandsInv /\ CommitInv
      /\ EarlyInv /\ AttendInv
  BY Zenon DEF Sound, SessionInv, RuntimeInv, TurnInv, AttendedInv, ResultInv
<1>3. /\ life \in Lives /\ caller[c].pc = "canceled" /\ caller[c].res.kind = "ok" /\ Leave(c)
      /\ UNCHANGED <<worker, minted, cloudVars>> /\ rt \in RuntimeStates
      /\ life.phase \notin {"Submitting", "Pending"} /\ Committed(life)
  BY <1>1, <1>2, ResultFacts, ZenonT(30) DEF CommitCancelResult, TypeOK, CallerStates, HandsInv, LowerInv
<1>4. /\ CallersKept /\ caller'[c].pc = "idle" /\ \A d \in Callers \ {c} : caller'[d] = caller[d]
  BY <1>2, <1>3, LeaveKeeps, Zenon
<1>5. PICK commits \in BOOLEAN : commits = (/\ ~rt.stopped /\ CanApply(rt, caller[c].turn, life)
                                            /\ rt.turn.seen # life => CanPublish(rt, 1))
  BY Zenon
<1>6. CASE ~commits
  <2>1. rt' = rt
    BY <1>1, <1>5, <1>6, ZenonT(30) DEF CommitCancelResult
  <2>2. StillStep
    BY <1>3, <1>4, <2>1, Zenon DEF StillStep
  <2>3. AttendInv'
    <3> SUFFICES ASSUME ~rt.stopped, CanPublish(rt, 1), Active, ~AttendInv'
                 PROVE  FALSE
      BY <2>1, Zenon DEF AttendInv, Active
    <3>1. Cancels(c) /\ ~caller[c].early
      BY <1>2, <1>3, <1>4, <2>1, Zenon DEF AttendInv, Active, Cancels, CancelIsDue
    <3>2. rt.turn.seen # NoCloud /\ rt.turn.seen.phase = "Pending" /\ Open(rt.turn.seen)
      BY <1>2, <3>1, Zenon DEF CommitInv, ShownInv, Open, Terminal
    <3>3. life.op = rt.turn.seen.op /\ life.phase \in AfterPending
      BY <1>1, <1>2, <1>3, <3>1, <3>2, ZenonT(30) DEF CommitInv
    <3>4. CanApply(rt, caller[c].turn, life)
      BY <3>1, <3>2, <3>3, Zenon DEF CanApply, TransitionAllowed, AfterPending, Cancels
    <3> QED
      BY <1>5, <1>6, <3>4, Zenon
  <2> QED
    BY <2>2, <2>3, StillKeeps, Zenon DEF AttendedInv
<1>7. CASE commits
  <2>1. PICK done : done = [Applied(rt, life, TRUE) EXCEPT !.turn.cancelling = FALSE]
    BY Zenon
  <2>2. /\ ~rt.stopped /\ rt.turn.id = caller[c].turn /\ CanApply(rt, rt.turn.id, life) /\ Cancels(c)
        /\ \/ CanPublish(rt, 1) /\ rt' = PublishedLife(done, rt.turn.id, life)
           \/ rt' = done
    BY <1>1, <1>3, <1>5, <1>7, <2>1, ZenonT(30) DEF CommitCancelResult, CanApply, Cancels
  <2>3. rt.turn.id \in minted /\ rt.turn.id \in Turns /\ rt.turn.id # NoTurn
    BY <1>2, <1>3, <2>2, RuntimeAssumption, ZenonT(30) DEF HoldersInv, TypeOK
  <2>4. /\ Showing(rt', rt, life, rt.told) \/ Showing(rt', rt, life, [rt.told EXCEPT ![rt.turn.id] = life])
        /\ rt'.turn.cancelled
    <3>1. /\ Showing(done, rt, life, rt.told)
          /\ CanPublish(rt, 1) =>
               Showing(PublishedLife(done, rt.turn.id, life), rt, life, [rt.told EXCEPT ![rt.turn.id] = life])
      BY <1>3, <2>1, <2>3, CommitFacts, ZenonT(30)
    <3>2. /\ done.turn.cancelled
          /\ CanPublish(rt, 1) => PublishedLife(done, rt.turn.id, life).turn = done.turn
      BY <1>3, <2>1, <2>3, CommitMarks, ZenonT(30)
    <3> QED
      BY <2>2, <3>1, <3>2, Zenon
  <2>5. /\ rt.turn.seen = NoCloud =>
             /\ rt.told[rt.turn.id] = NoCloud
             /\ Open(life) => cloud # NoCloud /\ cloud.op = life.op
        /\ \A d \in Callers : ~Cancels(d)'
        /\ ~Acts(CancelPcs)
        /\ Acts({"admit", "start", "starting"}) => life.phase \in Terminal
    <3>1. rt.turn.seen = NoCloud => rt.told[rt.turn.id] = NoCloud
      BY <1>2, <2>2, <2>3, Zenon DEF ToldInv
    <3>2. life.phase \notin Terminal => /\ cloud # NoCloud /\ cloud.op = life.op
                                        /\ ~Acts({"admit", "start", "starting"})
      BY <1>1, <1>2, <1>3, <2>2, Zenon DEF EarlyInv
    <3>3. ~Acts(CancelPcs)
      BY <1>2, <2>2, Zenon DEF CancelInv
    <3>4. rt'.turn.id = rt.turn.id
      BY <2>4, Zenon DEF Showing
    <3>5. \A d \in Callers : ~Cancels(d)'
      BY <1>2, <1>4, <2>2, <3>4, ZenonT(30) DEF CancelInv, Cancels
    <3> QED
      BY <3>1, <3>2, <3>3, <3>5, Zenon DEF Open
  <2>6. ApplyStep(life)
    <3>1. life.phase # "Pending" /\ NoWork.kind # "monitor"
      BY <1>3, Zenon DEF NoWork
    <3> QED
      BY <1>3, <1>4, <2>2, <2>3, <2>4, <2>5, <3>1, ZenonT(30) DEF ApplyStep, Showing
  <2>7. ~Acts(CancelPcs)' /\ (Acts({"admit", "start", "starting"})' => life.phase \in Terminal)
    BY <1>3, <2>5, <2>6, Zenon DEF Acts, ApplyStep
  <2> QED
    BY <2>4, <2>5, <2>6, <2>7, ApplyCancelled, Zenon
<1> QED
  BY <1>6, <1>7, Zenon

\* RecoveryResolved: the decision is shown, and a cancel that is going on goes on.
LEMMA CommitResolveAttended ==
  ASSUME Sound, NEW c \in Callers, CommitResolve(c)
  PROVE  AttendedInv' /\ TerminalKept
<1>1. PICK r : r = caller[c].res
  BY Zenon
<1>2. TypeOK /\ HoldersInv /\ LowerInv /\ HandsInv
  BY Zenon DEF Sound, SessionInv, RuntimeInv, TurnInv, AttendedInv, ResultInv
<1>3. /\ r.kind = "ok" => r.life \in Lives /\ r.life.phase # "Submitting" /\ Committed(r.life)
      /\ Leave(c) /\ UNCHANGED <<worker, minted, cloudVars>> /\ rt \in RuntimeStates /\ caller[c].pc = "resolved"
  BY <1>1, <1>2, ResultFacts, ZenonT(30) DEF CommitResolve, TypeOK, CallerStates, HandsInv, LowerInv
<1>4. CallersKept /\ \A d \in Callers \ {c} : caller'[d] = caller[d]
  BY <1>2, <1>3, LeaveKeeps, Zenon
<1>5. CASE rt' = rt
  <2>1. StillStep
    BY <1>3, <1>4, <1>5, Zenon DEF StillStep
  <2>2. \A d \in Callers : Cancels(d) /\ ~caller[d].early => Cancels(d)' /\ ~caller'[d].early
    BY <1>3, <1>4, <1>5, Zenon DEF Cancels
  <2> QED
    BY <1>5, <2>1, <2>2, StillAttends, Zenon
<1>6. CASE rt' # rt
  <2>1. PICK life : life = r.life
    BY Zenon
  <2>2. PICK shown : shown = Applied(rt, life, FALSE)
    BY Zenon
  <2>3. PICK told : told = PublishedLife(Published(shown, 1), rt.turn.id, life)
    BY Zenon
  <2>4. /\ r.kind = "ok" /\ CanPublish(rt, 2) /\ rt.turn.seen # NoCloud /\ CanApply(rt, rt.turn.id, life)
        /\ \/ life.phase = "Pending" /\ rt' = [told EXCEPT !.work = Work("monitor", rt.turn.id)]
           \/ life.phase # "Pending" /\ rt' = told
    BY <1>1, <1>6, <2>1, <2>2, <2>3, ZenonT(30) DEF CommitResolve, CurrentOperationIs
  <2>5. life \in Lives /\ rt.turn.id \in minted /\ rt.turn.id \in Turns
    BY <1>2, <1>3, <2>1, <2>4, ZenonT(30) DEF HoldersInv, TypeOK
  <2>6. Showing(told, rt, life, [rt.told EXCEPT ![rt.turn.id] = life])
    BY <1>3, <2>2, <2>3, <2>4, <2>5, CommitFacts, ZenonT(30)
  <2>7. told.turn.cancelling = rt.turn.cancelling /\ (told.turn.cancelled <=> rt.turn.cancelled)
    <3>1. /\ shown.turn.cancelling = rt.turn.cancelling /\ (shown.turn.cancelled <=> rt.turn.cancelled \/ FALSE)
          /\ CanPublish(rt, 2) => PublishedLife(Published(shown, 1), rt.turn.id, life).turn = shown.turn
      BY <1>3, <2>2, <2>5, CommitMarks, ZenonT(30)
    <3> QED
      BY <2>3, <2>4, <3>1, Zenon
  <2>8. /\ rt'.turn = told.turn /\ rt'.told = told.told /\ rt'.session = told.session /\ rt'.stopped = told.stopped
        /\ IF life.phase = "Pending" THEN rt'.work.kind = "monitor" ELSE rt'.work = told.work
    <3>1. told \in RuntimeStates /\ Work("monitor", rt.turn.id).kind = "monitor"
      BY <2>6, Zenon DEF Showing, Work
    <3>2. CASE life.phase = "Pending" /\ rt' = [told EXCEPT !.work = Work("monitor", rt.turn.id)]
      BY <3>1, <3>2, Zenon DEF RuntimeStates
    <3>3. CASE life.phase # "Pending" /\ rt' = told
      BY <3>3, Zenon
    <3> QED
      BY <2>4, <3>2, <3>3, Zenon
  <2>9. ApplyStep(life)
    <3>1. NoWork.kind # "monitor" /\ (life.phase # "Pending" => told.work = NoWork)
      BY <2>6, Zenon DEF NoWork, Showing
    <3>2. /\ rt'.work.kind = "monitor" => life.phase = "Pending"
          /\ life.phase = "Pending" => rt'.work.kind # "none"
      BY <2>8, <3>1, Zenon
    <3> QED
      BY <1>3, <1>4, <2>1, <2>4, <2>5, <2>6, <2>8, <3>2, ZenonT(30) DEF ApplyStep, Showing
  <2> QED
    BY <1>3, <2>4, <2>6, <2>7, <2>8, <2>9, ApplyGoesOn, ZenonT(30) DEF Showing
<1> QED
  BY <1>5, <1>6, Zenon

----------------------------------------------------------------------------
(***************************************************************************)
(* The worker is done with its turn.                                       *)
(***************************************************************************)
WorkerLeft == worker'.pc \in {"next", "exited"} /\ worker'.turn = NoTurn /\ worker'.res.kind # "ok"

LEMMA WorkerLeaves ==
  /\ Loop => WorkerLeft
  /\ Take("exited", NoTurn) => WorkerLeft
<1>1. ASSUME NEW pc, NEW t, Take(pc, t)
      PROVE  worker'.pc = pc /\ worker'.turn = t /\ worker'.res = Nothing
  BY <1>1, Zenon DEF Take
<1>2. Nothing.kind # "ok"
  BY Zenon DEF Nothing, Err
<1> QED
  BY <1>1, <1>2, Zenon DEF Loop, WorkerLeft

LEMMA WorkerLeftKeeps ==
  ASSUME Sound, WorkerLeft, UNCHANGED <<caller, minted, cloudVars>>,
         rt'.turn = rt.turn, rt'.told = rt.told, rt'.stopped = rt.stopped, rt'.work \in {rt.work, NoWork},
         rt'.session \in {rt.session, "RecoveryRequired"}, rt.stopped \/ worker.pc \notin StartPcs,
         \/ rt.stopped \/ ~CanPublish(rt', 1) \/ ~Active
         \/ CanPublish(rt, 1) /\ worker.turn # rt.turn.id /\ rt'.work = rt.work
  PROVE  AttendedInv' /\ TerminalKept
<1>1. /\ ShownInv /\ ToldInv /\ CancelInv /\ HandsInv /\ OpenInv /\ CommitInv /\ EarlyInv /\ AttendInv
      /\ caller' = caller /\ minted' = minted /\ cloud' = cloud
      /\ worker'.pc \in {"next", "exited"} /\ worker'.res.kind # "ok"
  BY Zenon DEF Sound, SessionInv, AttendedInv, ResultInv, cloudVars, WorkerLeft
<1>2. ~Engaged' /\ ~Acts(StartPcs)' /\ ~Acts(CancelPcs)' /\ ~Acts({"admit", "start", "starting"})'
  BY <1>1, Zenon DEF Engaged, Acts, StartPcs, CancelPcs
<1>3. \A c \in Callers : Cancels(c)' <=> Cancels(c)
  BY <1>1, Zenon DEF Cancels
<1>4. ShownInv' /\ TerminalKept
  <2>1. NoWork.kind # "monitor"
    BY Zenon DEF NoWork
  <2> QED
    BY <1>1, <2>1, Zenon DEF ShownInv, TerminalKept, Active, Open
<1>5. ToldInv'
  BY <1>1, <1>2, <1>3, Zenon DEF ToldInv, Acts
<1>6. CancelInv'
  BY <1>1, <1>2, <1>3, Zenon DEF CancelInv
<1>7. HandsInv' /\ OpenInv'
  BY <1>1, Zenon DEF HandsInv, OpenInv, Open, Settled, StartPcs
<1>8. CommitInv' /\ EarlyInv'
  BY <1>1, <1>2, <1>3, ZenonT(30) DEF CommitInv, EarlyInv, Open
<1>9. AttendInv'
  BY <1>1, <1>3, Zenon DEF AttendInv, Active, CancelIsDue
<1> QED
  BY <1>4, <1>5, <1>6, <1>7, <1>8, <1>9, ZenonT(30) DEF AttendedInv, ResultInv

\* The worker gives its turn up, or finds that it is not the current one any more.
LEMMA GivesUpAttended ==
  ASSUME Sound, Engaged, NEW s, s = rt \/ s = [rt EXCEPT !.session = "RecoveryRequired"],
         rt' = StopAfterLowerFailure(s, worker.turn), Loop, UNCHANGED <<caller, minted, cloudVars>>
  PROVE  AttendedInv' /\ TerminalKept
<1>1. /\ rt \in RuntimeStates /\ worker.turn \in Turns
      /\ rt.turn.id = worker.turn => ~rt.stopped
  BY ZenonT(30) DEF Sound, SessionInv, RuntimeInv, TypeOK, TurnInv, HoldersInv, ProjectionInv
<1>2. /\ s \in RuntimeStates /\ s.turn = rt.turn /\ s.work = rt.work /\ s.told = rt.told
      /\ s.stopped = rt.stopped /\ s.session \in {rt.session, "RecoveryRequired"}
  BY <1>1, Zenon DEF RuntimeStates, Sessions
<1>3. PICK p : p = StopAfterLowerFailure(s, worker.turn)
  BY Zenon
<1>4. /\ p.told = s.told /\ p.stopped
      /\ ~s.stopped => p.work = NoWork /\ p.session = "Stopped"
      /\ s.turn.id # worker.turn => p.turn = s.turn /\ (s.stopped => p = s)
      /\ s.turn.id = worker.turn => p.turn = Finished(s.turn, "StoppedAfterLowerFailure")
  BY <1>1, <1>2, <1>3, StopAfterLowerFailureFacts, SMTT(30)
<1>5. WorkerLeft
  BY WorkerLeaves, Zenon
<1>6. CASE rt.stopped
  <2>1. rt' = s
    BY <1>1, <1>2, <1>3, <1>4, <1>6, Zenon
  <2> QED
    BY <1>2, <1>5, <1>6, <2>1, WorkerLeftKeeps, Zenon
<1>7. CASE ~rt.stopped
  <2>1. Finished(rt.turn, "StoppedAfterLowerFailure").proj = "StoppedAfterLowerFailure"
        /\ Finished(rt.turn, "StoppedAfterLowerFailure").id = rt.turn.id
        /\ Finished(rt.turn, "StoppedAfterLowerFailure").seen = NoCloud
        /\ Finished(rt.turn, "StoppedAfterLowerFailure").cancelling = rt.turn.cancelling
        /\ Finished(rt.turn, "StoppedAfterLowerFailure").cancelled = rt.turn.cancelled
    BY <1>1, FinishedFacts, Zenon DEF RuntimeStates, Projections
  <2>2. HaltStep
    <3>1. rt'.stopped /\ rt'.told = rt.told /\ rt'.session = "Stopped" /\ rt'.work = NoWork
      BY <1>2, <1>3, <1>4, <1>7, Zenon
    <3>2. rt'.turn = rt.turn \/ rt'.turn = Finished(rt.turn, "StoppedAfterLowerFailure")
      BY <1>2, <1>3, <1>4, Zenon
    <3>3. ~Engaged' /\ worker'.res.kind # "ok"
      BY <1>5, Zenon DEF WorkerLeft, Engaged
    <3> QED
      BY <2>1, <3>1, <3>2, <3>3, Zenon DEF HaltStep
  <2> QED
    BY <2>2, HaltKeeps, Zenon
<1> QED
  BY <1>6, <1>7, ZenonT(30)

\* The worker stops for a shutdown.
LEMMA StopsAttended ==
  ASSUME Sound, rt' = StopWorker(rt, "Shutdown"), WorkerLeft, UNCHANGED <<caller, minted, cloudVars>>
  PROVE  AttendedInv' /\ TerminalKept
<1>1. rt \in RuntimeStates
  BY Zenon DEF Sound, SessionInv, RuntimeInv, TypeOK
<1>2. PICK p : p = StopWorker(rt, "Shutdown")
  BY Zenon
<1>3. /\ p.told = rt.told /\ p.stopped /\ (rt.stopped => p = rt)
      /\ ~rt.stopped =>
           /\ p.work = NoWork /\ p.session = "Stopped"
           /\ p.turn = rt.turn \/ p.turn = Finished(rt.turn, "StoppedBeforeCloudStart")
  BY <1>1, <1>2, StopWorkerFacts, ZenonT(30)
<1>4. CASE rt.stopped
  BY <1>2, <1>3, <1>4, WorkerLeftKeeps, Zenon
<1>5. CASE ~rt.stopped
  <2>1. Finished(rt.turn, "StoppedBeforeCloudStart").proj = "StoppedBeforeCloudStart"
        /\ Finished(rt.turn, "StoppedBeforeCloudStart").id = rt.turn.id
        /\ Finished(rt.turn, "StoppedBeforeCloudStart").seen = NoCloud
        /\ Finished(rt.turn, "StoppedBeforeCloudStart").cancelling = rt.turn.cancelling
        /\ Finished(rt.turn, "StoppedBeforeCloudStart").cancelled = rt.turn.cancelled
    BY <1>1, FinishedFacts, Zenon DEF RuntimeStates, Projections
  <2>2. HaltStep
    BY <1>2, <1>3, <1>5, <2>1, Zenon DEF HaltStep, WorkerLeft, Engaged
  <2> QED
    BY <2>2, HaltKeeps, Zenon
<1> QED
  BY <1>4, <1>5, Zenon

\* commit_worker_cancel: the worker commits what its cancel of a pending turn found.
LEMMA CommitWorkerCancelAttended ==
  ASSUME Sound, CommitWorkerCancel
  PROVE  AttendedInv' /\ TerminalKept
<1>1. PICK r : r = worker.res
  BY Zenon
<1>2. /\ TypeOK /\ TurnInv /\ HoldersInv /\ LowerInv /\ ShownInv /\ CancelInv /\ HandsInv /\ CommitInv
  BY Zenon DEF Sound, SessionInv, RuntimeInv, TurnInv, AttendedInv, ResultInv
<1>3. /\ Engaged /\ UNCHANGED <<caller, minted, cloudVars>> /\ Loop /\ rt \in RuntimeStates
      /\ worker.pc \in CancelPcs /\ worker.pc \notin StartPcs
      /\ r.kind = "ok" => r.life \in Lives /\ Committed(r.life) /\ r.life.phase \notin {"Submitting", "Pending"}
  <2>1. r \in CallResults /\ worker.pc \in {"canceled", "canceledStart"}
    BY <1>1, <1>2, Zenon DEF CommitWorkerCancel, TypeOK, WorkerStates
  <2>2. worker.pc \in CancelPcs /\ worker.pc \notin StartPcs /\ Engaged
    BY <2>1, Zenon DEF CancelPcs, StartPcs, Engaged
  <2> QED
    BY <1>1, <1>2, <2>1, <2>2, ResultFacts, ZenonT(30) DEF CommitWorkerCancel, TypeOK, LowerInv, HandsInv
<1>4. WorkerLeft
  BY <1>3, WorkerLeaves, Zenon
<1>5. CASE rt' = StopAfterLowerFailure(rt, worker.turn)
  BY <1>3, <1>5, GivesUpAttended, Zenon
<1>6. CASE rt' = rt /\ r.kind = "ok" /\ ~(CanPublish(rt, 1) /\ CanApply(rt, worker.turn, r.life))
  <2>1. ASSUME CanPublish(rt, 1), Active, worker.turn = rt.turn.id
        PROVE  FALSE
    <3>1. rt.turn.seen # NoCloud /\ rt.turn.seen.phase = "Pending" /\ Open(rt.turn.seen)
      BY <1>2, <1>3, <2>1, Zenon DEF CommitInv, ShownInv, Open, Acts, Terminal
    <3>2. r.life.op = rt.turn.seen.op /\ r.life.phase \in AfterPending
      BY <1>1, <1>2, <1>3, <1>6, <2>1, <3>1, Zenon DEF CommitInv, Acts
    <3> QED
      BY <1>6, <2>1, <3>1, <3>2, Zenon DEF CanApply, TransitionAllowed, AfterPending
  <2> QED
    BY <1>3, <1>4, <1>6, <2>1, WorkerLeftKeeps, Zenon
<1>7. CASE /\ r.kind = "ok" /\ CanPublish(rt, 1) /\ CanApply(rt, worker.turn, r.life)
           /\ rt' = PublishedLife([Applied(rt, r.life, TRUE) EXCEPT !.turn.cancelling = FALSE],
                                  worker.turn, r.life)
  <2>1. PICK life : life = r.life
    BY Zenon
  <2>2. PICK done : done = [Applied(rt, life, TRUE) EXCEPT !.turn.cancelling = FALSE]
    BY Zenon
  <2>3. /\ rt.turn.id = worker.turn /\ rt.turn.id \in Turns /\ rt.turn.id \in minted
        /\ rt' = PublishedLife(done, rt.turn.id, life) /\ CanApply(rt, rt.turn.id, life)
    BY <1>2, <1>3, <1>7, <2>1, <2>2, EngagedTurn, Zenon DEF CanApply, HoldersInv
  <2>4. Showing(rt', rt, life, [rt.told EXCEPT ![rt.turn.id] = life])
    BY <1>3, <1>7, <2>1, <2>2, <2>3, CommitFacts, ZenonT(30)
  <2>5. rt'.turn.cancelled
    <3>1. done.turn.cancelled /\ (CanPublish(rt, 1) => PublishedLife(done, rt.turn.id, life).turn = done.turn)
      <4>1. rt \in RuntimeStates /\ life \in Lives /\ rt.turn.id \in Turns
        BY <1>3, <1>7, <2>1, <2>3, Zenon
      <4> QED
        BY <2>2, <4>1, CommitMarks, ZenonT(30)
    <3> QED
      BY <1>7, <2>3, <3>1, Zenon
  <2>6. rt.turn.seen # NoCloud /\ \A c \in Callers : ~Cancels(c)
    BY <1>2, <1>3, <2>3, Zenon DEF CommitInv, CancelInv, Acts
  <2>7. ApplyStep(life)
    <3>1. /\ life \in Lives /\ life.phase \notin {"Submitting", "Pending"} /\ Committed(life)
          /\ NoWork.kind # "monitor" /\ rt'.work = NoWork
      BY <1>3, <1>7, <2>1, <2>4, Zenon DEF NoWork, Showing
    <3>2. CallersKept /\ worker.pc \notin {"starting", "started"}
      BY <1>3, Zenon DEF CallersKept, StartPcs
    <3> QED
      BY <1>3, <1>4, <2>3, <2>4, <2>6, <3>1, <3>2, Zenon DEF ApplyStep, Showing, WorkerLeft
  <2>8. /\ \A c \in Callers : ~Cancels(c)'
        /\ ~Acts(CancelPcs)' /\ ~Acts({"admit", "start", "starting"})'
    BY <1>3, <1>4, <2>4, <2>6, Zenon DEF Cancels, Acts, WorkerLeft, CancelPcs, Showing
  <2> QED
    BY <2>5, <2>7, <2>8, ApplyCancelled, Zenon
<1> QED
  BY <1>1, <1>5, <1>6, <1>7, ZenonT(30) DEF CommitWorkerCancel

\* handle_start_result: the worker shows what its start returned.
LEMMA HandleStartResultAttended ==
  ASSUME Sound, HandleStartResult
  PROVE  AttendedInv' /\ TerminalKept
<1>1. PICK r : r = worker.res
  BY Zenon
<1>2. PICK s : s = IF r.kind = "ok" /\ r.life.phase = "OutcomeUnknown"
                   THEN [rt EXCEPT !.session = "RecoveryRequired"] ELSE rt
  BY Zenon
<1>3. TypeOK /\ TurnInv /\ HoldersInv /\ LowerInv /\ ShownInv /\ ToldInv /\ HandsInv
  BY Zenon DEF Sound, SessionInv, RuntimeInv, TurnInv, AttendedInv, ResultInv
<1>4. /\ Engaged /\ UNCHANGED <<caller, minted, cloudVars>> /\ rt \in RuntimeStates /\ worker.pc = "started"
      /\ r.kind = "ok" =>
           /\ r.life \in Lives /\ Committed(r.life) /\ r.life.phase # "Submitting"
           /\ cloud # NoCloud /\ cloud.op = r.life.op
  <2>1. r \in CallResults /\ worker.pc = "started"
    BY <1>1, <1>3, Zenon DEF HandleStartResult, At, TypeOK, WorkerStates
  <2> QED
    BY <1>1, <1>3, <2>1, ResultFacts, ZenonT(30) DEF HandleStartResult, TypeOK, LowerInv, HandsInv, At, Engaged
<1>5. CASE rt' = StopAfterLowerFailure(s, worker.turn) /\ Loop
  BY <1>2, <1>4, <1>5, GivesUpAttended, Zenon
<1>6. ASSUME r.kind = "ok", CanPublish(rt, IF rt.shutdown THEN 2 ELSE 1), CanApply(rt, worker.turn, r.life)
      PROVE  AttendedInv' /\ TerminalKept
  <2>1. PICK life : life = r.life
    BY Zenon
  <2>2. /\ life \in Lives /\ rt.turn.id = worker.turn /\ rt.turn.id \in Turns /\ ~rt.stopped
        /\ rt.turn.id \in minted /\ CanApply(rt, rt.turn.id, life)
        /\ Committed(life) /\ life.phase # "Submitting" /\ cloud # NoCloud /\ cloud.op = life.op
    BY <1>3, <1>4, <1>6, <2>1, EngagedTurn, Zenon DEF CanApply, HoldersInv
  <2>3. PICK shown : shown = Applied(rt, life, FALSE)
    BY Zenon
  <2>4. PICK told : told = PublishedLife(shown, rt.turn.id, life)
    BY Zenon
  <2>5. Applied(s, life, FALSE) = shown
    BY <1>2, <1>4, <2>3, ZenonT(30) DEF Applied, RuntimeStates
  <2>6. CanPublish(rt, 1) /\ (rt.shutdown => CanPublish(rt, 2))
    BY <1>4, <1>6 DEF CanPublish, RuntimeStates
  <2>7. /\ Showing(told, rt, life, [rt.told EXCEPT ![rt.turn.id] = life])
        /\ CanPublish(rt, 2) => CanPublish(told, 1)
    BY <1>4, <2>2, <2>3, <2>4, <2>6, CommitFacts, ZenonT(30)
  <2>8. told.turn.cancelling = rt.turn.cancelling /\ (told.turn.cancelled <=> rt.turn.cancelled)
    <3>1. /\ shown.turn.cancelling = rt.turn.cancelling /\ (shown.turn.cancelled <=> rt.turn.cancelled \/ FALSE)
          /\ CanPublish(rt, 1) => PublishedLife(shown, rt.turn.id, life).turn = shown.turn
      BY <1>4, <2>2, <2>3, CommitMarks, ZenonT(30)
    <3> QED
      BY <2>4, <2>6, <3>1, Zenon
  <2>9. /\ rt.turn.seen = NoCloud => rt.told[rt.turn.id] = NoCloud
        /\ rt.turn.seen # NoCloud \/ rt.turn.proj = "Starting"
    BY <1>3, <1>4, <2>2, Zenon DEF ToldInv
  <2>10. ASSUME rt'.turn.id = told.turn.id, rt'.turn.proj = told.turn.proj, rt'.turn.seen = told.turn.seen,
                rt'.turn.requested = told.turn.requested, rt'.turn.cancelled = told.turn.cancelled,
                told.turn.cancelling => rt'.turn.cancelling, rt'.told = told.told,
                rt'.session = StateFor(life) \/ (rt'.session = "Stopped" /\ rt'.stopped),
                life.phase = "Pending" => rt'.stopped \/ rt'.work.kind # "none" \/ worker'.turn = rt.turn.id,
                rt'.work.kind = "monitor" => life.phase = "Pending",
                \/ WorkerLeft
                \/ /\ worker'.pc = "cancelStart" /\ worker'.res.kind # "ok" /\ life.phase = "Pending"
                   /\ ~told.turn.cancelling /\ ~told.turn.cancelled /\ rt'.turn.cancelling
         PROVE  AttendedInv' /\ TerminalKept
    <3>1. CallersKept
      BY <1>4, Zenon DEF CallersKept
    <3>2. /\ told.turn.id = rt.turn.id /\ told.turn.proj = "Cloud" /\ told.turn.seen = life
          /\ told.turn.requested = rt.turn.requested /\ told.told = [rt.told EXCEPT ![rt.turn.id] = life]
      BY <2>7, Zenon DEF Showing
    <3>3. worker'.pc \in {"next", "exited", "cancelStart"} /\ worker'.res.kind # "ok"
      BY <2>10, Zenon DEF WorkerLeft
    <3>4. ApplyStep(life)
      BY <1>4, <2>2, <2>9, <2>10, <3>1, <3>2, <3>3, ZenonT(30) DEF ApplyStep
    <3>5. \/ worker'.pc \in {"next", "exited"}
          \/ /\ worker'.pc = "cancelStart" /\ worker'.res.kind # "ok" /\ life.phase = "Pending"
             /\ ~rt.turn.cancelling /\ ~rt.turn.cancelled /\ rt'.turn.cancelling
      BY <2>8, <2>10, Zenon DEF WorkerLeft
    <3> QED
      BY <2>8, <2>9, <2>10, <3>2, <3>4, <3>5, ApplyGoesOn, ZenonT(30)
  <2>11. /\ told \in RuntimeStates /\ told.session = StateFor(life) /\ NoWork.kind # "monitor"
         /\ life.phase # "Pending" => told.work = NoWork
    BY <2>7, Zenon DEF Showing, NoWork
  <2>12. CASE rt.shutdown /\ rt' = Published([told EXCEPT !.session = "Stopped", !.stopped = TRUE], 1) /\ Loop
    <3>1. PICK p : p = [told EXCEPT !.session = "Stopped", !.stopped = TRUE]
      BY Zenon
    <3>2. /\ p \in RuntimeStates /\ p.turn = told.turn /\ p.told = told.told /\ p.work = told.work
          /\ p.session = "Stopped" /\ p.stopped /\ CanPublish(p, 1)
      BY <2>6, <2>7, <2>11, <2>12, <3>1, ZenonT(30) DEF RuntimeStates, Sessions, CanPublish
    <3>3. SameButEvents(rt', p) /\ rt'.told = p.told
      BY <2>12, <3>1, <3>2, PublishedFacts, ZenonT(30)
    <3> QED
      BY <2>10, <2>11, <2>12, <3>2, <3>3, WorkerLeaves, Zenon DEF SameButEvents
  <2>13. CASE CancelIsDue(told) /\ rt' = [told EXCEPT !.turn.cancelling = TRUE] /\ Take("cancelStart", worker.turn) /\ life.phase = "Pending"
    <3>1. /\ rt'.turn.id = told.turn.id /\ rt'.turn.proj = told.turn.proj /\ rt'.turn.seen = told.turn.seen
          /\ rt'.turn.requested = told.turn.requested /\ rt'.turn.cancelled = told.turn.cancelled
          /\ rt'.turn.cancelling /\ rt'.told = told.told /\ rt'.session = told.session
      BY <2>11, <2>13, ZenonT(30) DEF RuntimeStates, TurnRecords
    <3>2. worker'.pc = "cancelStart" /\ worker'.turn = rt.turn.id /\ worker'.res.kind # "ok"
      BY <2>2, <2>13, Zenon DEF Take, Nothing, Err
    <3> QED
      BY <2>10, <2>11, <2>13, <3>1, <3>2, ZenonT(30) DEF CancelIsDue
  <2>14. CASE rt' = [told EXCEPT !.work = Work("monitor", worker.turn)] /\ Loop /\ life.phase = "Pending"
    <3>1. rt'.turn = told.turn /\ rt'.told = told.told /\ rt'.session = told.session /\ rt'.work.kind = "monitor"
      BY <2>11, <2>14, Zenon DEF RuntimeStates, Work
    <3> QED
      BY <2>10, <2>11, <2>14, <3>1, WorkerLeaves, Zenon
  <2>15. CASE rt' = told /\ Loop /\ life.phase # "Pending"
    BY <2>10, <2>11, <2>15, WorkerLeaves, ZenonT(30)
  <2> QED
    BY <1>1, <1>2, <1>6, <2>1, <2>2, <2>4, <2>5, <2>12, <2>13, <2>14, <2>15, ZenonT(30) DEF HandleStartResult
<1> QED
  BY <1>1, <1>2, <1>5, <1>6, ZenonT(30) DEF HandleStartResult

\* A monitoring read that failed leaves the lifecycle that is shown, and is tried again.
LEMMA DegradeKeeps ==
  ASSUME Sound, worker.turn = rt.turn.id, worker.pc \notin StartPcs, WorkerLeft,
         UNCHANGED <<caller, minted, cloudVars>>,
         rt'.turn.id = rt.turn.id, rt'.turn.seen = rt.turn.seen, rt.turn.seen # NoCloud,
         rt.turn.seen.phase = "Pending", rt'.turn.proj = "MonitoringDegraded",
         rt'.turn.requested = rt.turn.requested, rt'.turn.cancelling = rt.turn.cancelling,
         rt'.turn.cancelled = rt.turn.cancelled, rt'.told = rt.told, rt'.stopped = rt.stopped,
         rt'.session = "MonitoringDegraded", rt'.work.kind = "monitor"
  PROVE  AttendedInv' /\ TerminalKept
<1>1. /\ ShownInv /\ ToldInv /\ CancelInv /\ HandsInv /\ OpenInv /\ CommitInv /\ EarlyInv
      /\ caller' = caller /\ minted' = minted /\ cloud' = cloud
      /\ worker'.pc \in {"next", "exited"} /\ worker'.res.kind # "ok" /\ Open(rt.turn.seen)
  BY Zenon DEF Sound, SessionInv, AttendedInv, ResultInv, cloudVars, WorkerLeft, Open, Terminal
<1>2. ~Engaged' /\ ~Acts(StartPcs)' /\ ~Acts(CancelPcs)' /\ ~Acts({"admit", "start", "starting"})'
  BY <1>1, Zenon DEF Engaged, Acts, StartPcs, CancelPcs
<1>3. \A c \in Callers : Cancels(c)' <=> Cancels(c)
  BY <1>1, Zenon DEF Cancels
<1>4. ShownInv' /\ TerminalKept /\ AttendInv'
  BY <1>1, Zenon DEF ShownInv, TerminalKept, Active, AttendInv
<1>5. ToldInv'
  BY <1>1, Zenon DEF ToldInv
<1>6. CancelInv'
  BY <1>1, <1>2, <1>3, Zenon DEF CancelInv, ShownInv
<1>7. HandsInv' /\ OpenInv'
  BY <1>1, Zenon DEF HandsInv, OpenInv, Open
<1>8. CommitInv' /\ EarlyInv'
  BY <1>1, <1>2, <1>3, ZenonT(30) DEF CommitInv, EarlyInv, Open
<1> QED
  BY <1>4, <1>5, <1>6, <1>7, <1>8, ZenonT(30) DEF AttendedInv, ResultInv

\* handle_monitor_result: the worker shows what its read found.
LEMMA HandleMonitorResultAttended ==
  ASSUME Sound, HandleMonitorResult
  PROVE  AttendedInv' /\ TerminalKept
<1>1. PICK r : r = worker.res
  BY Zenon
<1>2. TypeOK /\ TurnInv /\ HoldersInv /\ LowerInv /\ ShownInv /\ ToldInv /\ HandsInv
  BY Zenon DEF Sound, SessionInv, RuntimeInv, TurnInv, AttendedInv, ResultInv
<1>3. /\ Engaged /\ UNCHANGED <<caller, minted, cloudVars>> /\ Loop /\ rt \in RuntimeStates
      /\ worker.pc \notin StartPcs
      /\ r.kind = "ok" => r.life \in Lives /\ Committed(r.life) /\ r.life.phase # "Submitting"
  <2>1. r \in CallResults /\ worker.pc = "inspected"
    BY <1>1, <1>2, Zenon DEF HandleMonitorResult, At, TypeOK, WorkerStates
  <2>2. worker.pc \notin StartPcs /\ Engaged
    BY <2>1, Zenon DEF StartPcs, Engaged
  <2> QED
    BY <1>1, <1>2, <2>1, <2>2, ResultFacts, ZenonT(30) DEF HandleMonitorResult, TypeOK, LowerInv, HandsInv
<1>4. WorkerLeft
  BY <1>3, WorkerLeaves, Zenon
<1>5. CASE rt.turn.seen # NoCloud /\ rt.turn.seen.phase \in Terminal /\ rt' = [rt EXCEPT !.work = NoWork]
  <2>1. /\ rt'.turn = rt.turn /\ rt'.told = rt.told /\ rt'.stopped = rt.stopped /\ rt'.session = rt.session
        /\ rt'.work = NoWork
    BY <1>3, <1>5, Zenon DEF RuntimeStates
  <2>2. ~Active
    BY <1>2, <1>5, Zenon DEF ShownInv, Terminal
  <2> QED
    BY <1>3, <1>4, <2>1, <2>2, WorkerLeftKeeps, ZenonT(30)
<1>6. CASE rt' = StopAfterLowerFailure(rt, worker.turn)
  BY <1>3, <1>6, GivesUpAttended, Zenon
<1>7. CASE rt' = StopWorker(rt, "Shutdown")
  BY <1>3, <1>4, <1>7, StopsAttended, Zenon
<1>8. ASSUME r.kind = "ok", CanApply(rt, worker.turn, r.life), NEW done,
             \/ done = Applied(rt, r.life, FALSE)
             \/ CanPublish(rt, 1) /\ done = PublishedLife(Applied(rt, r.life, FALSE), worker.turn, r.life),
             rt'.turn = done.turn, rt'.told = done.told, rt.stopped => rt'.stopped,
             \/ rt'.session = "Stopped" /\ rt'.stopped /\ rt'.work = NoWork
             \/ /\ rt'.session = done.session
                /\ IF r.life.phase = "Pending" THEN rt'.work.kind = "monitor" ELSE rt'.work = done.work
      PROVE  AttendedInv' /\ TerminalKept
  <2>1. PICK life : life = r.life
    BY Zenon
  <2>2. PICK shown : shown = Applied(rt, life, FALSE)
    BY Zenon
  <2>3. /\ life \in Lives /\ rt.turn.id = worker.turn /\ rt.turn.id \in Turns
        /\ rt.turn.id \in minted /\ CanApply(rt, rt.turn.id, life)
        /\ Committed(life) /\ life.phase # "Submitting"
        /\ done = shown \/ (CanPublish(rt, 1) /\ done = PublishedLife(shown, rt.turn.id, life))
    <3>1. rt.turn.id = worker.turn
      BY <1>8, Zenon DEF CanApply
    <3>2. rt.turn.id \in Turns /\ rt.turn.id \in minted
      BY <1>2, <1>3, <3>1, EngagedTurn, Zenon DEF HoldersInv
    <3> QED
      BY <1>3, <1>8, <2>1, <2>2, <3>1, <3>2, Zenon
  <2>4. /\ Showing(done, rt, life, rt.told) \/ Showing(done, rt, life, [rt.told EXCEPT ![rt.turn.id] = life])
        /\ done.turn.cancelling = rt.turn.cancelling /\ (done.turn.cancelled <=> rt.turn.cancelled)
    <3>1. /\ Showing(shown, rt, life, rt.told)
          /\ CanPublish(rt, 1) =>
               Showing(PublishedLife(shown, rt.turn.id, life), rt, life, [rt.told EXCEPT ![rt.turn.id] = life])
      BY <1>3, <2>2, <2>3, CommitFacts, ZenonT(30)
    <3>2. /\ shown.turn.cancelling = rt.turn.cancelling /\ (shown.turn.cancelled <=> rt.turn.cancelled \/ FALSE)
          /\ CanPublish(rt, 1) => PublishedLife(shown, rt.turn.id, life).turn = shown.turn
      BY <1>3, <2>2, <2>3, CommitMarks, ZenonT(30)
    <3> QED
      BY <2>3, <3>1, <3>2, Zenon
  <2>5. rt.turn.seen # NoCloud /\ CallersKept /\ NoWork.kind # "monitor"
    BY <1>2, <1>3, <2>3, Zenon DEF ToldInv, CallersKept, NoWork
  <2>6. /\ done.turn.id = rt.turn.id /\ done.turn.proj = "Cloud" /\ done.turn.seen = life
        /\ done.turn.requested = rt.turn.requested /\ done.session = StateFor(life)
        /\ life.phase # "Pending" => done.work = NoWork
        /\ done.told \in {rt.told, [rt.told EXCEPT ![rt.turn.id] = life]}
    BY <2>4, Zenon DEF Showing
  <2>7. /\ rt'.session = StateFor(life) \/ (rt'.session = "Stopped" /\ rt'.stopped)
        /\ rt'.work.kind = "monitor" => life.phase = "Pending"
        /\ life.phase = "Pending" => rt'.stopped \/ rt'.work.kind # "none"
    <3>1. CASE rt'.session = "Stopped" /\ rt'.stopped /\ rt'.work = NoWork
      BY <2>5, <3>1, Zenon
    <3>2. CASE /\ rt'.session = done.session
               /\ IF r.life.phase = "Pending" THEN rt'.work.kind = "monitor" ELSE rt'.work = done.work
      BY <2>1, <2>5, <2>6, <3>2, ZenonT(30)
    <3> QED
      BY <1>8, <3>1, <3>2, Zenon
  <2>8. ApplyStep(life)
    BY <1>3, <1>4, <1>8, <2>3, <2>5, <2>6, <2>7, ZenonT(30) DEF ApplyStep, WorkerLeft, StartPcs
  <2> QED
    BY <1>4, <1>8, <2>4, <2>5, <2>6, <2>8, ApplyGoesOn, ZenonT(30) DEF WorkerLeft
<1>9. CASE /\ r.kind = "ok" /\ CanPublish(rt, 2) /\ CanApply(rt, worker.turn, r.life)
           /\ rt' = StopWorker(PublishedLife(Applied(rt, r.life, FALSE), worker.turn, r.life), "Shutdown")
  <2>1. PICK told : told = PublishedLife(Applied(rt, r.life, FALSE), worker.turn, r.life)
    BY Zenon
  <2>2. rt.turn.id = worker.turn /\ rt.turn.id \in Turns /\ ~rt.stopped
    BY <1>2, <1>3, <1>9, EngagedTurn, ZenonT(30) DEF CanApply
  <2>3. CanPublish(rt, 1)
    BY <1>3, <1>9 DEF CanPublish, RuntimeStates
  <2>4. told \in RuntimeStates /\ ~told.stopped /\ told.turn.proj = "Cloud"
    <3>1. Showing(told, rt, r.life, [rt.told EXCEPT ![rt.turn.id] = r.life])
      BY <1>3, <1>9, <2>1, <2>2, <2>3, CommitFacts, ZenonT(30)
    <3> QED
      BY <2>2, <3>1, Zenon DEF Showing
  <2>5. PICK p : p = StopWorker(told, "Shutdown")
    BY Zenon
  <2>6. p.told = told.told /\ p.work = NoWork /\ p.turn = told.turn /\ p.session = "Stopped" /\ p.stopped
    BY <2>4, <2>5, StopWorkerFacts, Zenon
  <2>7. rt' = p
    BY <1>9, <2>1, <2>5, Zenon
  <2> QED
    BY <1>8, <1>9, <2>1, <2>3, <2>6, <2>7, ZenonT(30)
<1>10. CASE r.kind = "ok" /\ rt' = MonitorOk(worker.turn, r.life)
  <2>1. CASE ~CanApply(rt, worker.turn, r.life) \/ (rt.turn.seen # r.life /\ ~CanPublish(rt, 1))
    BY <1>6, <1>10, <2>1, Zenon DEF MonitorOk
  <2>2. CASE CanApply(rt, worker.turn, r.life) /\ (rt.turn.seen # r.life => CanPublish(rt, 1))
    <3>1. PICK done : done = IF rt.turn.seen # r.life
                             THEN PublishedLife(Applied(rt, r.life, FALSE), worker.turn, r.life)
                             ELSE Applied(rt, r.life, FALSE)
      BY Zenon
    <3>2. /\ \/ done = Applied(rt, r.life, FALSE)
             \/ CanPublish(rt, 1) /\ done = PublishedLife(Applied(rt, r.life, FALSE), worker.turn, r.life)
          /\ rt' = IF r.life.phase = "Pending" THEN [done EXCEPT !.work = Work("monitor", worker.turn)] ELSE done
      BY <1>10, <2>2, <3>1, Zenon DEF MonitorOk
    <3>3. done \in RuntimeStates /\ done.stopped = rt.stopped
      <4>1. rt.turn.id = worker.turn /\ rt.turn.id \in Turns
        BY <1>2, <1>3, <2>2, EngagedTurn, ZenonT(30) DEF CanApply
      <4>2. \/ Showing(done, rt, r.life, rt.told)
            \/ Showing(done, rt, r.life, [rt.told EXCEPT ![rt.turn.id] = r.life])
        BY <1>3, <1>10, <3>2, <4>1, CommitFacts, ZenonT(30)
      <4> QED
        BY <4>2, Zenon DEF Showing
    <3>4. /\ rt'.turn = done.turn /\ rt'.told = done.told /\ rt'.session = done.session /\ rt'.stopped = rt.stopped
          /\ IF r.life.phase = "Pending" THEN rt'.work.kind = "monitor" ELSE rt'.work = done.work
      <4>1. CASE r.life.phase = "Pending"
        <5>1. rt' = [done EXCEPT !.work = Work("monitor", worker.turn)] /\ Work("monitor", worker.turn).kind = "monitor"
          BY <3>2, <4>1, Zenon DEF Work
        <5> QED
          BY <3>3, <4>1, <5>1, ZenonT(30) DEF RuntimeStates
      <4>2. CASE r.life.phase # "Pending"
        BY <3>2, <3>3, <4>2, Zenon
      <4> QED
        BY <4>1, <4>2, Zenon
    <3> QED
      BY <1>8, <1>10, <2>2, <3>2, <3>4, ZenonT(30)
  <2> QED
    BY <2>1, <2>2, Zenon
<1>11. CASE rt' = MonitorFailed(worker.turn)
  <2>1. PICK done : done = [rt EXCEPT !.session = "MonitoringDegraded", !.turn.proj = "MonitoringDegraded",
                                      !.work = Work("monitor", worker.turn)]
    BY Zenon
  <2>2. \/ rt' = StopAfterLowerFailure(rt, worker.turn)
        \/ /\ rt.turn.seen # NoCloud /\ rt.turn.seen.phase = "Pending"
           /\ rt' = done \/ (CanPublish(rt, 1) /\ rt' = Published(done, 1))
    BY <1>11, <2>1, Zenon DEF MonitorFailed
  <2>3. CASE /\ rt.turn.seen # NoCloud /\ rt.turn.seen.phase = "Pending"
             /\ rt' = done \/ (CanPublish(rt, 1) /\ rt' = Published(done, 1))
    <3>1. rt.turn.id = worker.turn /\ rt.turn.id \in Turns
      BY <1>2, <1>3, <2>3, EngagedTurn, ZenonT(30)
    <3>2. /\ done \in RuntimeStates /\ done.turn.id = rt.turn.id /\ done.turn.proj = "MonitoringDegraded"
          /\ done.turn.seen = rt.turn.seen /\ done.turn.requested = rt.turn.requested
          /\ done.turn.cancelling = rt.turn.cancelling /\ done.turn.cancelled = rt.turn.cancelled
          /\ done.work = Work("monitor", rt.turn.id) /\ done.told = rt.told /\ done.left = rt.left
          /\ done.session = "MonitoringDegraded" /\ done.stopped = rt.stopped
      BY <1>3, <2>1, <3>1, ZenonT(30) DEF RuntimeStates, TurnRecords, Work, Sessions, Projections
    <3>3. SameButEvents(rt', done) /\ rt'.told = done.told
      <4>1. CASE rt' = done
        BY <4>1, Zenon DEF SameButEvents
      <4>2. CASE CanPublish(rt, 1) /\ rt' = Published(done, 1)
        <5>1. CanPublish(done, 1)
          BY <3>2, <4>2, Zenon DEF CanPublish
        <5>2. SameButEvents(Published(done, 1), done) /\ Published(done, 1).told = done.told
          BY <3>2, <5>1, PublishedFacts, Zenon
        <5> QED
          BY <4>2, <5>2, Zenon
      <4> QED
        BY <2>3, <4>1, <4>2, Zenon
    <3>4. Work("monitor", rt.turn.id).kind = "monitor"
      BY Zenon DEF Work
    <3> QED
      BY <1>3, <1>4, <2>3, <3>1, <3>2, <3>3, <3>4, DegradeKeeps, ZenonT(30) DEF SameButEvents
  <2> QED
    BY <1>6, <2>2, <2>3, Zenon
<1> QED
  BY <1>1, <1>5, <1>6, <1>7, <1>9, <1>10, <1>11, ZenonT(30) DEF HandleMonitorResult

----------------------------------------------------------------------------
(***************************************************************************)
(* The worker takes up something for the current turn.                     *)
(***************************************************************************)
\* WorkerStops
LEMMA WorkerStopsAttended ==
  ASSUME Sound, WorkerStops
  PROVE  AttendedInv' /\ TerminalKept
<1>1. rt' = StopWorker(rt, "Shutdown") /\ Take("exited", NoTurn) /\ UNCHANGED <<caller, minted, cloudVars>>
  BY Zenon DEF WorkerStops
<1> QED
  BY <1>1, WorkerLeaves, StopsAttended, Zenon

TakeStep ==
  /\ At("next") /\ worker'.turn = rt.turn.id /\ worker'.res.kind # "ok"
  /\ worker'.pc \in {"cancel", "admit", "inspect", "start"}
  /\ rt'.turn.id = rt.turn.id /\ rt'.turn.seen = rt.turn.seen /\ rt'.told = rt.told
  /\ rt'.turn.requested = rt.turn.requested /\ rt'.turn.cancelled = rt.turn.cancelled
  /\ rt'.stopped = rt.stopped /\ rt'.session = rt.session /\ rt'.work.kind # "monitor"
  /\ caller' = caller /\ minted' = minted /\ cloud' = cloud

LEMMA TakeKeeps ==
  ASSUME Sound, TakeStep
  PROVE  /\ TerminalKept /\ AttendInv' /\ HandsInv' /\ OpenInv'
         /\ \A c \in Callers : (Cancels(c)' <=> Cancels(c)) /\ caller'[c].early = caller[c].early
         /\ \A t \in Turns \ minted' : rt'.told[t] = NoCloud
         /\ worker'.pc = "inspect" \/ (\A c \in Callers : ~Cancels(c)) => EarlyInv'
<1>1. HandsInv /\ OpenInv /\ EarlyInv /\ ToldInv
  BY Zenon DEF Sound, SessionInv, AttendedInv, ResultInv
<1>2. TerminalKept /\ AttendInv'
  BY Zenon DEF TerminalKept, AttendInv, TakeStep
<1>3. HandsInv' /\ OpenInv'
  BY <1>1, Zenon DEF HandsInv, OpenInv, TakeStep, Open, Settled, At
<1>4. /\ \A c \in Callers : (Cancels(c)' <=> Cancels(c)) /\ caller'[c].early = caller[c].early
      /\ \A t \in Turns \ minted' : rt'.told[t] = NoCloud
  BY <1>1, Zenon DEF Cancels, TakeStep, ToldInv
<1>5. worker'.pc = "inspect" \/ (\A c \in Callers : ~Cancels(c)) => EarlyInv'
  BY <1>1, <1>4, Zenon DEF EarlyInv, TakeStep, Acts
<1> QED
  BY <1>2, <1>3, <1>4, <1>5, ZenonT(30)

\* A cancel that nobody is carrying out.
LEMMA WorkerTakesCancelAttended ==
  ASSUME Sound, WorkerTakesCancel
  PROVE  AttendedInv' /\ TerminalKept
<1>1. /\ ShownInv /\ ToldInv /\ CancelInv /\ CommitInv /\ rt \in RuntimeStates
      /\ At("next") /\ CancelIsDue(rt) /\ UNCHANGED <<caller, minted, cloudVars>>
      /\ rt' = [rt EXCEPT !.turn.cancelling = TRUE, !.work = NoWork] /\ Take("cancel", rt.turn.id)
  BY Zenon DEF Sound, SessionInv, RuntimeInv, TypeOK, AttendedInv, ResultInv, WorkerTakesCancel
<1>2. /\ rt'.turn.id = rt.turn.id /\ rt'.turn.seen = rt.turn.seen /\ rt'.turn.proj = rt.turn.proj
      /\ rt'.turn.requested = rt.turn.requested /\ rt'.turn.cancelled = rt.turn.cancelled
      /\ rt'.turn.cancelling = TRUE /\ rt'.told = rt.told /\ rt'.stopped = rt.stopped
      /\ rt'.session = rt.session /\ rt'.work = NoWork
  BY <1>1, ZenonT(30) DEF RuntimeStates, TurnRecords
<1>3. worker'.pc = "cancel" /\ worker'.turn = rt.turn.id /\ worker'.res.kind # "ok" /\ NoWork.kind = "none"
  BY <1>1, Zenon DEF Take, Nothing, Err, NoWork
<1>4. TakeStep
  BY <1>1, <1>2, <1>3, Zenon DEF TakeStep, cloudVars
<1>5. /\ rt.turn.seen # NoCloud /\ rt.turn.seen.phase = "Pending" /\ rt.turn.proj \in {"Cloud", "MonitoringDegraded"}
      /\ \A c \in Callers : ~Cancels(c)
  BY <1>1, Zenon DEF ShownInv, CancelInv, CancelIsDue
<1>6. \A c \in Callers : ~Cancels(c)'
  BY <1>4, <1>5, TakeKeeps, Zenon
<1>7. ShownInv'
  BY <1>1, <1>2, <1>3, Zenon DEF ShownInv, Active, Open
<1>8. ToldInv'
  BY <1>2, <1>4, <1>5, TakeKeeps, ZenonT(30) DEF ToldInv
<1>9. CancelInv'
  BY <1>2, <1>3, <1>6, Zenon DEF CancelInv, Acts, StartPcs
<1>10. CommitInv'
  BY <1>2, <1>3, <1>5, <1>6, ZenonT(30) DEF CommitInv, AfterPending, Statuses
<1> QED
  BY <1>4, <1>5, <1>7, <1>8, <1>9, <1>10, TakeKeeps, ZenonT(30) DEF AttendedInv, ResultInv

\* The start of the queued turn.
LEMMA WorkerTakesStartAttended ==
  ASSUME Sound, WorkerTakesStart
  PROVE  AttendedInv' /\ TerminalKept
<1>1. /\ ShownInv /\ ToldInv /\ HoldersInv /\ ProjectionInv /\ rt \in RuntimeStates
      /\ At("next") /\ rt.work.kind = "start" /\ UNCHANGED <<caller, minted, cloudVars>>
      /\ IF rt.turn.id = rt.work.turn
         THEN /\ rt' = [rt EXCEPT !.work = NoWork, !.turn.proj = "Starting", !.turn.admitted = FALSE]
              /\ Take("admit", rt.work.turn)
         ELSE /\ rt' = StopWorker([rt EXCEPT !.work = NoWork], "LowerFailure")
              /\ Take("exited", NoTurn)
  BY Zenon DEF Sound, SessionInv, RuntimeInv, TurnInv, TypeOK, AttendedInv, ResultInv, WorkerTakesStart
<1>2. rt.work.turn = rt.turn.id /\ rt.turn.proj = "Queued"
  BY <1>1, Zenon DEF HoldersInv, ProjectionInv
<1>3. /\ rt' = [rt EXCEPT !.work = NoWork, !.turn.proj = "Starting", !.turn.admitted = FALSE]
      /\ Take("admit", rt.turn.id)
  BY <1>1, <1>2, Zenon
<1>4. /\ rt'.turn.id = rt.turn.id /\ rt'.turn.seen = rt.turn.seen /\ rt'.turn.proj = "Starting"
      /\ rt'.turn.requested = rt.turn.requested /\ rt'.turn.cancelled = rt.turn.cancelled
      /\ rt'.told = rt.told /\ rt'.stopped = rt.stopped
      /\ rt'.session = rt.session /\ rt'.work = NoWork
  BY <1>1, <1>3, ZenonT(30) DEF RuntimeStates, TurnRecords
<1>5. worker'.pc = "admit" /\ worker'.turn = rt.turn.id /\ worker'.res.kind # "ok" /\ NoWork.kind = "none"
  BY <1>3, Zenon DEF Take, Nothing, Err, NoWork
<1>6. TakeStep
  BY <1>1, <1>4, <1>5, Zenon DEF TakeStep, cloudVars
<1>7. rt.turn.seen = NoCloud /\ rt.told[rt.turn.id] = NoCloud /\ \A c \in Callers : ~Cancels(c)
  BY <1>1, <1>2, Zenon DEF ProjectionInv, ToldInv, Cancels
<1>8. \A c \in Callers : ~Cancels(c)'
  BY <1>6, <1>7, TakeKeeps, Zenon
<1>9. ShownInv'
  BY <1>4, <1>5, <1>7, Zenon DEF ShownInv, Active, Open
<1>10. ToldInv'
  BY <1>4, <1>5, <1>6, <1>7, TakeKeeps, ZenonT(30) DEF ToldInv, Acts, StartPcs
<1>11. CancelInv' /\ CommitInv'
  BY <1>4, <1>5, <1>7, <1>8, ZenonT(30) DEF CancelInv, CommitInv, Acts, CancelPcs
<1> QED
  BY <1>6, <1>7, <1>9, <1>10, <1>11, TakeKeeps, ZenonT(30) DEF AttendedInv, ResultInv

\* The monitoring of the turn that is pending.
LEMMA WorkerTakesMonitorAttended ==
  ASSUME Sound, WorkerTakesMonitor
  PROVE  AttendedInv' /\ TerminalKept
<1>1. /\ ShownInv /\ ToldInv /\ CancelInv /\ CommitInv /\ HoldersInv /\ rt \in RuntimeStates
      /\ At("next") /\ rt.work.kind = "monitor" /\ UNCHANGED <<caller, minted, cloudVars>>
      /\ rt' = [rt EXCEPT !.work = NoWork] /\ Take("inspect", rt.work.turn)
  BY Zenon DEF Sound, SessionInv, RuntimeInv, TurnInv, TypeOK, AttendedInv, ResultInv, WorkerTakesMonitor
<1>2. /\ rt'.turn = rt.turn /\ rt'.told = rt.told /\ rt'.stopped = rt.stopped
      /\ rt'.session = rt.session /\ rt'.work = NoWork
  BY <1>1, Zenon DEF RuntimeStates
<1>3. worker'.pc = "inspect" /\ worker'.turn = rt.turn.id /\ worker'.res.kind # "ok" /\ NoWork.kind = "none"
  BY <1>1, Zenon DEF Take, Nothing, Err, NoWork, HoldersInv
<1>4. TakeStep
  BY <1>1, <1>2, <1>3, Zenon DEF TakeStep, cloudVars
<1>5. rt.turn.seen # NoCloud /\ rt.turn.proj \in {"Cloud", "MonitoringDegraded"}
  BY <1>1, Zenon DEF ShownInv
<1>6. /\ \A c \in Callers : (Cancels(c)' <=> Cancels(c)) /\ caller'[c].early = caller[c].early
      /\ caller' = caller
  BY <1>4, TakeKeeps, Zenon DEF TakeStep
<1>7. ShownInv'
  BY <1>1, <1>2, <1>3, Zenon DEF ShownInv, Active, Open
<1>8. ToldInv'
  BY <1>2, <1>4, <1>5, TakeKeeps, ZenonT(30) DEF ToldInv
<1>9. CancelInv' /\ CommitInv'
  BY <1>1, <1>2, <1>3, <1>6, ZenonT(30) DEF CancelInv, CommitInv, Acts, CancelPcs, StartPcs
<1> QED
  BY <1>3, <1>4, <1>7, <1>8, <1>9, TakeKeeps, ZenonT(30) DEF AttendedInv, ResultInv

\* admit_start: a cancel that came before the start ends the turn; otherwise the start may go on.
LEMMA AdmitCanceledAttended ==
  ASSUME Sound, At("admit"), worker.turn = rt.turn.id, CanPublish(rt, 1), Loop,
         UNCHANGED <<caller, minted, cloudVars>>,
         rt' = Published([rt EXCEPT !.session = "Ready",
                            !.turn = [Finished(@, "CanceledBeforeCloudStart")
                                        EXCEPT !.cancelling = FALSE, !.cancelled = TRUE]], 1)
  PROVE  AttendedInv' /\ TerminalKept
<1>1. /\ ShownInv /\ ToldInv /\ CancelInv /\ HandsInv /\ OpenInv /\ EarlyInv
      /\ rt \in RuntimeStates /\ ProjectionInv
      /\ caller' = caller /\ minted' = minted /\ cloud' = cloud
  BY Zenon DEF Sound, SessionInv, RuntimeInv, TurnInv, TypeOK, AttendedInv, ResultInv, cloudVars
<1>2. PICK done : done = [rt EXCEPT !.session = "Ready",
                            !.turn = [Finished(@, "CanceledBeforeCloudStart")
                                        EXCEPT !.cancelling = FALSE, !.cancelled = TRUE]]
  BY Zenon
<1>3. PICK turn : turn = [Finished(rt.turn, "CanceledBeforeCloudStart")
                            EXCEPT !.cancelling = FALSE, !.cancelled = TRUE]
  BY Zenon
<1>4. /\ turn \in TurnRecords /\ turn.id = rt.turn.id /\ turn.seen = NoCloud
      /\ turn.proj = "CanceledBeforeCloudStart" /\ turn.cancelled = TRUE /\ turn.requested = FALSE
  BY <1>1, <1>3, ZenonT(30) DEF RuntimeStates, TurnRecords, Finished, Projections, Shown
<1>5. /\ done \in RuntimeStates /\ done.turn = turn /\ done.session = "Ready" /\ done.work = rt.work
      /\ done.told = rt.told /\ done.stopped = rt.stopped /\ CanPublish(done, 1)
  BY <1>1, <1>2, <1>3, <1>4, ZenonT(30) DEF RuntimeStates, Sessions, CanPublish
<1>6. SameButEvents(Published(done, 1), done) /\ Published(done, 1).told = done.told
  BY <1>5, PublishedFacts, Zenon
<1>7. /\ rt'.turn = turn /\ rt'.session = "Ready" /\ rt'.work = rt.work /\ rt'.told = rt.told
      /\ rt'.stopped = rt.stopped
  BY <1>2, <1>5, <1>6, Zenon DEF SameButEvents
<1>8. /\ worker'.pc = "next" /\ worker'.turn = NoTurn /\ worker'.res.kind # "ok"
      /\ ~Acts(StartPcs)' /\ ~Acts(CancelPcs)' /\ ~Acts({"admit", "start", "starting"})'
      /\ Engaged /\ Acts(StartPcs) /\ ~Engaged'
  BY Zenon DEF Loop, Take, Nothing, Err, Acts, StartPcs, CancelPcs, Engaged, At
<1>9. /\ \A c \in Callers : Cancels(c)' <=> Cancels(c)
      /\ ~rt.stopped /\ ~Open(rt.turn.seen)
      /\ rt.told[rt.turn.id] # NoCloud => \A c \in Callers : ~Cancels(c)
  <2>1. ~rt.stopped /\ ~Open(rt.turn.seen)
    BY <1>1, <1>8, Zenon DEF ProjectionInv, CancelInv, Open, At
  <2>2. rt.told[rt.turn.id] # NoCloud => \A c \in Callers : ~Cancels(c)
    BY <1>1, <1>8, Zenon DEF ToldInv, CancelInv
  <2>3. \A c \in Callers : Cancels(c)' <=> Cancels(c)
    BY <1>1, <1>4, <1>7, Zenon DEF Cancels
  <2> QED
    BY <2>1, <2>2, <2>3, Zenon
<1>10. ShownInv' /\ TerminalKept /\ AttendInv'
  <2>1. rt.work.kind # "monitor"
    BY <1>1, <1>9, Zenon DEF ShownInv, Open, Terminal
  <2> QED
    BY <1>4, <1>7, <2>1, Zenon DEF ShownInv, TerminalKept, AttendInv, Active, Open
<1>11. ToldInv'
  BY <1>1, <1>4, <1>7, <1>8, <1>9, ZenonT(90) DEF ToldInv
<1>12. CancelInv' /\ CommitInv'
  BY <1>1, <1>4, <1>7, <1>8, <1>9, Zenon DEF CancelInv, CommitInv, Open
<1>13. HandsInv' /\ EarlyInv'
  BY <1>1, <1>7, <1>8, <1>9, Zenon DEF HandsInv, EarlyInv
<1>14. OpenInv'
  <2>1. Settled
    BY <1>1, <1>9, Zenon DEF OpenInv, At
  <2> QED
    BY <1>1, <1>4, <1>7, <2>1, Zenon DEF OpenInv, Open, Settled
<1> QED
  BY <1>10, <1>11, <1>12, <1>13, <1>14, Zenon DEF AttendedInv, ResultInv

LEMMA AdmitStartAttended ==
  ASSUME Sound, AdmitStart
  PROVE  AttendedInv' /\ TerminalKept
<1>1. At("admit") /\ Engaged /\ UNCHANGED <<caller, minted, cloudVars>>
  BY Zenon DEF AdmitStart, Engaged, At
<1>2. CASE rt' = StopWorker(rt, "Shutdown") /\ Loop
  BY <1>1, <1>2, WorkerLeaves, StopsAttended, Zenon
<1>3. CASE rt' = StopAfterLowerFailure(rt, worker.turn) /\ Loop
  BY <1>1, <1>3, GivesUpAttended, Zenon
<1>4. CASE /\ rt.turn.id = worker.turn /\ CanPublish(rt, 1) /\ Loop
           /\ rt' = Published([rt EXCEPT !.session = "Ready",
                                 !.turn = [Finished(@, "CanceledBeforeCloudStart")
                                             EXCEPT !.cancelling = FALSE, !.cancelled = TRUE]], 1)
  BY <1>1, <1>4, AdmitCanceledAttended, Zenon
<1>5. CASE rt.turn.id = worker.turn /\ rt' = [rt EXCEPT !.turn.admitted = TRUE] /\ Keep("start", Nothing)
  <2>1. /\ ShownInv /\ ToldInv /\ CancelInv /\ HandsInv /\ OpenInv /\ CommitInv /\ EarlyInv /\ AttendInv
        /\ rt \in RuntimeStates /\ worker \in WorkerStates
        /\ caller' = caller /\ minted' = minted /\ cloud' = cloud
    BY <1>1, Zenon DEF Sound, SessionInv, RuntimeInv, TypeOK, AttendedInv, ResultInv, cloudVars
  <2>2. /\ rt'.turn.id = rt.turn.id /\ rt'.turn.seen = rt.turn.seen /\ rt'.turn.proj = rt.turn.proj
        /\ rt'.turn.requested = rt.turn.requested /\ rt'.turn.cancelled = rt.turn.cancelled
        /\ rt'.turn.cancelling = rt.turn.cancelling /\ rt'.told = rt.told /\ rt'.stopped = rt.stopped
        /\ rt'.session = rt.session /\ rt'.work = rt.work
    BY <1>5, <2>1, ZenonT(30) DEF RuntimeStates, TurnRecords
  <2>3. worker'.pc = "start" /\ worker'.turn = worker.turn /\ worker'.res.kind # "ok" /\ worker.pc = "admit"
    BY <1>1, <1>5, <2>1, ZenonT(30) DEF Keep, Nothing, Err, WorkerStates, At
  <2>4. /\ Acts(StartPcs) /\ Acts(StartPcs)' /\ ~Acts(CancelPcs)'
        /\ Acts({"admit", "start", "starting"}) /\ Engaged
    BY <1>1, <1>5, <2>2, <2>3, Zenon DEF Acts, StartPcs, CancelPcs
  <2>5. \A c \in Callers : Cancels(c)' <=> Cancels(c)
    BY <2>1, <2>2, Zenon DEF Cancels
  <2>6. ShownInv' /\ TerminalKept /\ AttendInv'
    BY <1>5, <2>1, <2>2, <2>3, ZenonT(30) DEF ShownInv, TerminalKept, AttendInv, Active, Open
  <2>7. ToldInv'
    BY <1>5, <2>1, <2>2, <2>3, <2>4, <2>5, ZenonT(30) DEF ToldInv, StartPcs
  <2>8. CancelInv'
    BY <2>1, <2>2, <2>3, <2>4, <2>5, ZenonT(30) DEF CancelInv
  <2>9. HandsInv' /\ OpenInv'
    BY <2>1, <2>2, <2>3, Zenon DEF HandsInv, OpenInv, Open, Settled
  <2>10. CommitInv' /\ EarlyInv'
    BY <2>1, <2>2, <2>4, <2>5, Zenon DEF CommitInv, EarlyInv, Open
  <2> QED
    BY <2>6, <2>7, <2>8, <2>9, <2>10, ZenonT(30) DEF AttendedInv, ResultInv
<1> QED
  BY <1>2, <1>3, <1>4, <1>5, ZenonT(30) DEF AdmitStart

----------------------------------------------------------------------------
(***************************************************************************)
(* What the callers do under the mutex.                                    *)
(***************************************************************************)
\* start_turn: nobody acts for a turn that is new.
LEMMA StartTurnAttended ==
  ASSUME Sound, NEW t \in Turns, StartTurn(t)
  PROVE  AttendedInv' /\ TerminalKept
<1>1. /\ ShownInv /\ ToldInv /\ HandsInv /\ OpenInv /\ HoldersInv /\ rt \in RuntimeStates
      /\ rt.session = "Ready" /\ ~rt.stopped /\ CanPublish(rt, 1) /\ t \notin minted /\ minted' = minted \cup {t}
      /\ caller' = caller /\ worker' = worker /\ cloud' = cloud
  BY Zenon DEF Sound, SessionInv, RuntimeInv, TurnInv, TypeOK, AttendedInv, ResultInv, cloudVars, StartTurn, Running
<1>2. PICK done : done = [rt EXCEPT !.session = "Running", !.turn = NewTurn(t, "Queued", NoCloud),
                                    !.work = Work("start", t)]
  BY Zenon
<1>3. /\ NewTurn(t, "Queued", NoCloud) \in TurnRecords /\ Work("start", t).kind = "start"
      /\ Work("start", t) \in [kind : {"none", "start", "monitor"}, turn : Turns \cup {NoTurn}]
      /\ NewTurn(t, "Queued", NoCloud).id = t /\ NewTurn(t, "Queued", NoCloud).proj = "Queued"
      /\ NewTurn(t, "Queued", NoCloud).seen = NoCloud
  BY ZenonT(30) DEF NewTurn, TurnRecords, Work, Projections, Shown
<1>4. /\ done \in RuntimeStates /\ done.turn = NewTurn(t, "Queued", NoCloud) /\ done.session = "Running"
      /\ done.work = Work("start", t) /\ done.told = rt.told /\ done.stopped = rt.stopped /\ CanPublish(done, 1)
  BY <1>1, <1>2, <1>3, ZenonT(30) DEF RuntimeStates, Sessions, CanPublish
<1>5. SameButEvents(Published(done, 1), done) /\ Published(done, 1).told = done.told /\ rt' = Published(done, 1)
  BY <1>2, <1>4, PublishedFacts, Zenon DEF StartTurn
<1>6. /\ rt'.turn.id = t /\ rt'.turn.proj = "Queued" /\ rt'.turn.seen = NoCloud /\ rt'.work.kind = "start"
      /\ rt'.session = "Running" /\ rt'.told = rt.told /\ rt'.stopped = rt.stopped
  BY <1>3, <1>4, <1>5, Zenon DEF SameButEvents
<1>7. worker'.turn # rt'.turn.id /\ \A c \in Callers : ~Cancels(c)'
  <2>1. worker.turn # t
    BY <1>1, RuntimeAssumption, Zenon DEF HoldersInv
  <2>2. \A c \in Callers : caller[c].turn # t
    BY <1>1, RuntimeAssumption, Zenon DEF HoldersInv
  <2> QED
    BY <1>1, <1>6, <2>1, <2>2, ZenonT(30) DEF Cancels
<1>8. ShownInv' /\ TerminalKept /\ AttendInv'
  BY <1>6, Zenon DEF ShownInv, TerminalKept, AttendInv, Open
<1>9. ToldInv'
  <2>1. rt.told[t] = NoCloud /\ \A u \in Turns \ minted' : rt.told[u] = NoCloud
    BY <1>1, Zenon DEF ToldInv
  <2> QED
    BY <1>6, <1>7, <2>1, Zenon DEF ToldInv
<1>10. CancelInv' /\ CommitInv' /\ EarlyInv'
  BY <1>7, Zenon DEF CancelInv, CommitInv, EarlyInv, Acts
<1>11. HandsInv' /\ OpenInv'
  <2>1. ~Open(rt.turn.seen)
    BY <1>1, Zenon DEF ShownInv
  <2> QED
    BY <1>1, <1>6, <2>1, Zenon DEF HandsInv, OpenInv, Open, Settled, At
<1> QED
  BY <1>8, <1>9, <1>10, <1>11, Zenon DEF AttendedInv, ResultInv

\* A queued turn that is cancelled, or stopped, before anybody acts for it.
LEMMA QueuedEnds ==
  ASSUME Sound, rt.turn.proj = "Queued", UNCHANGED <<worker, caller, minted, cloudVars>>,
         rt'.turn.id = rt.turn.id, rt'.turn.seen = NoCloud, rt'.told = rt.told, rt'.work = NoWork,
         rt'.turn.proj \in {"CanceledBeforeCloudStart", "StoppedBeforeCloudStart"},
         rt'.session \in {"Ready", "Stopped"}, rt.stopped => rt'.stopped
  PROVE  AttendedInv' /\ TerminalKept
<1>1. /\ ShownInv /\ ToldInv /\ HandsInv /\ OpenInv /\ ProjectionInv
      /\ caller' = caller /\ minted' = minted /\ cloud' = cloud /\ worker' = worker
  BY Zenon DEF Sound, SessionInv, RuntimeInv, TurnInv, AttendedInv, ResultInv, cloudVars
<1>2. /\ rt.turn.seen = NoCloud /\ rt.told[rt.turn.id] = NoCloud /\ worker.turn # rt.turn.id
      /\ \A c \in Callers : ~Cancels(c)'
  BY <1>1, ZenonT(30) DEF ProjectionInv, ToldInv, Cancels
<1>3. ShownInv' /\ TerminalKept /\ AttendInv' /\ ToldInv'
  <2>1. NoWork.kind = "none"
    BY Zenon DEF NoWork
  <2>2. TerminalKept /\ ~Active'
    BY Zenon DEF TerminalKept, Active
  <2>3. ShownInv' /\ AttendInv'
    BY <2>1, <2>2, Zenon DEF ShownInv, AttendInv, Open
  <2>4. ToldInv'
    BY <1>1, <1>2, Zenon DEF ToldInv
  <2> QED
    BY <2>2, <2>3, <2>4, Zenon
<1>4. CancelInv' /\ CommitInv' /\ EarlyInv'
  BY <1>1, <1>2, Zenon DEF CancelInv, CommitInv, EarlyInv, Acts
<1>5. HandsInv' /\ OpenInv'
  BY <1>1, <1>2, Zenon DEF HandsInv, OpenInv, Open, Settled, At
<1> QED
  BY <1>3, <1>4, <1>5, Zenon DEF AttendedInv, ResultInv

\* cancel_turn of a turn the worker has not claimed.
LEMMA CancelQueuedAttended ==
  ASSUME Sound, CancelQueued
  PROVE  AttendedInv' /\ TerminalKept
<1>1. rt \in RuntimeStates /\ CanPublish(rt, 1) /\ rt.turn.proj = "Queued"
  BY Zenon DEF Sound, SessionInv, RuntimeInv, TypeOK, CancelQueued
<1>2. PICK turn : turn = [Finished(rt.turn, "CanceledBeforeCloudStart") EXCEPT !.cancelled = TRUE]
  BY Zenon
<1>3. /\ turn \in TurnRecords /\ turn.id = rt.turn.id /\ turn.seen = NoCloud
      /\ turn.proj = "CanceledBeforeCloudStart"
  BY <1>1, <1>2, ZenonT(30) DEF RuntimeStates, TurnRecords, Finished, Projections, Shown
<1>4. PICK done : done = [rt EXCEPT !.session = "Ready", !.work = NoWork,
                                    !.turn = [Finished(@, "CanceledBeforeCloudStart") EXCEPT !.cancelled = TRUE]]
  BY Zenon
<1>5. /\ done \in RuntimeStates /\ done.turn = turn /\ done.session = "Ready" /\ done.work = NoWork
      /\ done.told = rt.told /\ done.stopped = rt.stopped /\ CanPublish(done, 1)
  BY <1>1, <1>2, <1>3, <1>4, ZenonT(30) DEF RuntimeStates, Sessions, CanPublish, NoWork
<1>6. SameButEvents(Published(done, 1), done) /\ Published(done, 1).told = done.told /\ rt' = Published(done, 1)
  BY <1>4, <1>5, PublishedFacts, Zenon DEF CancelQueued
<1>7. /\ rt'.turn = turn /\ rt'.session = "Ready" /\ rt'.work = NoWork /\ rt'.told = rt.told
      /\ rt'.stopped = rt.stopped
  BY <1>5, <1>6, Zenon DEF SameButEvents
<1> QED
  BY <1>1, <1>3, <1>7, QueuedEnds, ZenonT(30) DEF CancelQueued

\* shutdown: a queued turn is marked as not started; otherwise the worker will see to it.
LEMMA ShutdownAttended ==
  ASSUME Sound, Shutdown
  PROVE  AttendedInv' /\ TerminalKept
<1>1. rt \in RuntimeStates /\ UNCHANGED <<worker, caller, minted, cloudVars>>
  BY Zenon DEF Sound, SessionInv, RuntimeInv, TypeOK, Shutdown
<1>2. CASE rt.turn.proj = "Queued" /\ CanPublish(rt, 1)
  <2>1. PICK turn : turn = Finished(rt.turn, "StoppedBeforeCloudStart")
    BY Zenon
  <2>2. /\ turn \in TurnRecords /\ turn.id = rt.turn.id /\ turn.seen = NoCloud
        /\ turn.proj = "StoppedBeforeCloudStart"
    BY <1>1, <2>1, ZenonT(30) DEF RuntimeStates, TurnRecords, Finished, Projections, Shown
  <2>3. PICK done : done = [rt EXCEPT !.shutdown = TRUE, !.work = NoWork, !.session = "Stopped",
                                      !.stopped = TRUE,
                                      !.turn = Finished(@, "StoppedBeforeCloudStart")]
    BY Zenon
  <2>4. /\ done \in RuntimeStates /\ done.turn = turn /\ done.session = "Stopped" /\ done.work = NoWork
        /\ done.told = rt.told /\ done.stopped = TRUE /\ CanPublish(done, 1)
    BY <1>1, <1>2, <2>1, <2>2, <2>3, ZenonT(30) DEF RuntimeStates, Sessions, CanPublish, NoWork
  <2>5. SameButEvents(Published(done, 1), done) /\ Published(done, 1).told = done.told /\ rt' = Published(done, 1)
    BY <1>2, <2>3, <2>4, PublishedFacts, Zenon DEF Shutdown
  <2>6. /\ rt'.turn = turn /\ rt'.session = "Stopped" /\ rt'.work = NoWork /\ rt'.told = rt.told /\ rt'.stopped
    BY <2>4, <2>5, Zenon DEF SameButEvents
  <2> QED
    BY <1>1, <1>2, <2>2, <2>6, QueuedEnds, ZenonT(30)
<1>3. CASE ~(rt.turn.proj = "Queued" /\ CanPublish(rt, 1))
  <2>1. rt' = [rt EXCEPT !.shutdown = TRUE]
    BY <1>3, Zenon DEF Shutdown
  <2>2. /\ rt'.turn = rt.turn /\ rt'.session = rt.session /\ rt'.work = rt.work /\ rt'.told = rt.told
        /\ rt'.stopped = rt.stopped /\ rt'.left = rt.left
    BY <1>1, <2>1, Zenon DEF RuntimeStates
  <2>3. StillStep
    BY <1>1, <2>2, Zenon DEF StillStep, CallersKept
  <2>4. \A c \in Callers : Cancels(c) /\ ~caller[c].early => Cancels(c)' /\ ~caller'[c].early
    BY <1>1, <2>2, Zenon DEF Cancels
  <2> QED
    BY <2>2, <2>3, <2>4, StillAttends, Zenon DEF CanPublish
<1> QED
  BY <1>2, <1>3, Zenon

\* cancel_turn on a claimed turn: it leaves its request, and goes on to the lower cancel unless
\* somebody else is at it, or was.
LEMMA CancelTurnAttended ==
  ASSUME Sound, NEW c \in Callers, CancelTurn(c)
  PROVE  AttendedInv' /\ TerminalKept
<1>1. /\ ShownInv /\ ToldInv /\ CancelInv /\ HandsInv /\ OpenInv /\ CommitInv /\ EarlyInv /\ AttendInv
      /\ rt \in RuntimeStates /\ caller \in [Callers -> CallerStates]
      /\ minted' = minted /\ cloud' = cloud /\ worker' = worker
      /\ Active /\ ~rt.stopped /\ rt.turn.proj # "Queued" /\ (rt.turn.requested \/ CanPublish(rt, 1))
  BY Zenon DEF Sound, SessionInv, RuntimeInv, TypeOK, AttendedInv, ResultInv, cloudVars, CancelTurn, Cancellable, Running, Active
<1>2. PICK asked : asked = IF rt.turn.requested THEN rt
                           ELSE Published([rt EXCEPT !.turn.requested = rt.turn.proj \in
                                             {"Starting", "Cloud", "MonitoringDegraded"}], 1)
  BY Zenon
<1>3. \/ rt' = asked /\ caller' = caller
      \/ /\ ~rt.turn.cancelled /\ ~rt.turn.cancelling
         /\ rt' = [asked EXCEPT !.turn.cancelling = TRUE,
                                !.work = IF rt.turn.proj = "Starting" THEN @ ELSE NoWork]
         /\ Enter(c, "cancel", NoCloud)
  BY <1>2, Zenon DEF CancelTurn
<1>4. \/ rt.turn.proj = "Starting" /\ rt.turn.seen = NoCloud
      \/ /\ rt.turn.proj \in {"Cloud", "MonitoringDegraded"}
         /\ rt.turn.seen # NoCloud /\ rt.turn.seen.phase = "Pending"
  BY <1>1, Zenon DEF ShownInv
<1>5. /\ asked \in RuntimeStates /\ asked.session = rt.session /\ asked.work = rt.work /\ asked.told = rt.told
      /\ asked.stopped = rt.stopped /\ asked.turn.id = rt.turn.id /\ asked.turn.seen = rt.turn.seen
      /\ asked.turn.proj = rt.turn.proj /\ asked.turn.cancelled = rt.turn.cancelled
      /\ asked.turn.cancelling = rt.turn.cancelling /\ asked.turn.requested
      /\ rt.turn.requested /\ CanPublish(asked, 1) => CanPublish(rt, 1)
  <2>1. CASE rt.turn.requested
    BY <1>1, <1>2, <2>1, Zenon
  <2>2. CASE ~rt.turn.requested
    <3>1. PICK done : done = [rt EXCEPT !.turn.requested = rt.turn.proj \in {"Starting", "Cloud", "MonitoringDegraded"}]
      BY Zenon
    <3>2. PICK b : b = (rt.turn.proj \in {"Starting", "Cloud", "MonitoringDegraded"})
      BY Zenon
    <3>3. b \in BOOLEAN /\ b /\ done = [rt EXCEPT !.turn.requested = b]
      BY <1>4, <3>1, <3>2, Zenon
    <3>4. /\ done \in RuntimeStates /\ done.session = rt.session /\ done.work = rt.work /\ done.told = rt.told
          /\ done.stopped = rt.stopped /\ done.turn.id = rt.turn.id /\ done.turn.seen = rt.turn.seen
          /\ done.turn.proj = rt.turn.proj /\ done.turn.cancelled = rt.turn.cancelled
          /\ done.turn.cancelling = rt.turn.cancelling /\ done.turn.requested = b /\ done.left = rt.left
      BY <1>1, <3>3, ZenonT(30) DEF RuntimeStates, TurnRecords
    <3>5. CanPublish(done, 1) /\ asked = Published(done, 1)
      BY <1>1, <1>2, <2>2, <3>1, <3>4, ZenonT(30) DEF CanPublish
    <3>6. /\ Published(done, 1) \in RuntimeStates /\ Published(done, 1).told = done.told
          /\ SameButEvents(Published(done, 1), done)
      BY <3>4, <3>5, PublishedFacts, Zenon
    <3> QED
      BY <2>2, <3>3, <3>4, <3>5, <3>6, ZenonT(30) DEF SameButEvents
  <2> QED
    BY <2>1, <2>2, Zenon
<1>6. CASE rt' = asked /\ caller' = caller
  <2>1. \A d \in Callers : Cancels(d)' <=> Cancels(d)
    BY <1>5, <1>6, Zenon DEF Cancels
  <2>2. ShownInv' /\ TerminalKept
    BY <1>1, <1>5, <1>6, Zenon DEF ShownInv, TerminalKept, Active, Open
  <2>3. ToldInv'
    BY <1>1, <1>5, <1>6, <2>1, Zenon DEF ToldInv, Acts, Engaged
  <2>4. CancelInv'
    BY <1>1, <1>5, <1>6, <2>1, Zenon DEF CancelInv, Acts
  <2>5. HandsInv' /\ OpenInv'
    BY <1>1, <1>5, <1>6, Zenon DEF HandsInv, OpenInv, Open, Settled, At
  <2>6. CommitInv' /\ EarlyInv'
    BY <1>1, <1>5, <1>6, <2>1, Zenon DEF CommitInv, EarlyInv, Open, Acts
  <2>7. AttendInv'
    <3>1. CanPublish(rt, 1) \/ ~CanPublish(rt', 1)
      BY <1>1, <1>5, <1>6, Zenon
    <3>2. CancelIsDue(rt) => CancelIsDue(rt')
      BY <1>5, <1>6, ZenonT(30) DEF CancelIsDue
    <3> QED
      BY <1>1, <1>5, <1>6, <2>1, <3>1, <3>2, Zenon DEF AttendInv
  <2> QED
    BY <2>2, <2>3, <2>4, <2>5, <2>6, <2>7, ZenonT(30) DEF AttendedInv, ResultInv
<1>7. CASE /\ ~rt.turn.cancelled /\ ~rt.turn.cancelling
           /\ rt' = [asked EXCEPT !.turn.cancelling = TRUE,
                                  !.work = IF rt.turn.proj = "Starting" THEN @ ELSE NoWork]
           /\ Enter(c, "cancel", NoCloud)
  <2>1. /\ rt'.session = rt.session /\ rt'.work \in {rt.work, NoWork} /\ rt'.told = rt.told
        /\ rt'.stopped = rt.stopped /\ rt'.turn.id = rt.turn.id /\ rt'.turn.seen = rt.turn.seen
        /\ rt'.turn.proj = rt.turn.proj /\ rt'.turn.cancelled = rt.turn.cancelled
        /\ rt'.turn.cancelling = TRUE /\ rt'.turn.requested
    BY <1>5, <1>7, ZenonT(30) DEF RuntimeStates, TurnRecords
  <2>2. /\ caller'[c].pc = "cancel" /\ caller'[c].turn = rt.turn.id /\ caller'[c].res.kind # "ok"
        /\ caller'[c].early <=> rt.turn.proj = "Starting"
        /\ \A d \in Callers \ {c} : caller'[d] = caller[d]
    BY <1>1, <1>7, ZenonT(30) DEF Enter, Nothing, Err
  <2>3. (\A d \in Callers : ~Cancels(d)) /\ ~Acts(CancelPcs) /\ (Acts(StartPcs) => rt.turn.seen = NoCloud)
    BY <1>1, <1>7, Zenon DEF CancelInv
  <2>4. /\ Cancels(c)' /\ \A d \in Callers : Cancels(d)' => d = c
        /\ ~Acts(CancelPcs)' /\ (Acts(StartPcs)' <=> Acts(StartPcs)) /\ (Engaged' <=> Engaged)
    BY <1>1, <2>1, <2>2, <2>3, ZenonT(30) DEF Cancels, Acts, Engaged
  <2>5. ShownInv' /\ TerminalKept
    <3>1. NoWork.kind = "none"
      BY Zenon DEF NoWork
    <3>2. rt'.work.kind = "monitor" => rt.work.kind = "monitor"
      BY <2>1, <3>1, Zenon
    <3> QED
      BY <1>1, <2>1, <3>2, ZenonT(30) DEF ShownInv, TerminalKept, Active, Open
  <2>6. ToldInv'
    <3>1. ~(rt.turn.id # NoTurn /\ rt.turn.seen = NoCloud /\ rt.told[rt.turn.id] # NoCloud)
      BY <1>1, <1>7, Zenon DEF ToldInv
    <3> QED
      BY <1>1, <2>1, <2>4, <3>1, ZenonT(30) DEF ToldInv
  <2>7. CancelInv'
    BY <1>7, <2>1, <2>3, <2>4, ZenonT(30) DEF CancelInv
  <2>8. HandsInv' /\ OpenInv'
    <3>1. HandsInv'
      BY <1>1, <2>2, ZenonT(30) DEF HandsInv, At
    <3>2. OpenInv'
      BY <1>1, <2>1, Zenon DEF OpenInv, Open, Settled
    <3> QED
      BY <3>1, <3>2, Zenon
  <2>9. CommitInv' /\ EarlyInv'
    BY <1>4, <2>1, <2>2, <2>4, ZenonT(30) DEF CommitInv, EarlyInv, AfterPending, Statuses
  <2>10. AttendInv'
    <3>1. CASE rt.turn.proj = "Starting"
      BY <1>1, <2>1, <3>1, ZenonT(30) DEF ToldInv, Acts, AttendInv
    <3>2. CASE rt.turn.proj # "Starting"
      BY <2>2, <2>4, <3>2, Zenon DEF AttendInv
    <3> QED
      BY <3>1, <3>2, Zenon
  <2> QED
    BY <2>5, <2>6, <2>7, <2>8, <2>9, <2>10, Zenon DEF AttendedInv, ResultInv
<1> QED
  BY <1>3, <1>6, <1>7, Zenon

\* A cancel that came too early looks again, or finds that the turn was cancelled meanwhile.
LEMMA CancelAgainAttended ==
  ASSUME Sound, NEW c \in Callers, CancelAgain(c)
  PROVE  AttendedInv' /\ TerminalKept
<1>1. /\ TypeOK /\ caller \in [Callers -> CallerStates] /\ UNCHANGED <<rt, worker, minted, cloudVars>>
      /\ caller[c].pc = "canceled" /\ caller[c].early /\ caller[c].res.kind # "ok"
      /\ Leave(c) \/ Go(c, "cancel")
  BY Zenon DEF Sound, SessionInv, RuntimeInv, TypeOK, CancelAgain, TooEarly
<1>2. CallersKept /\ \A d \in Callers \ {c} : caller'[d] = caller[d]
  <2>1. CASE Leave(c)
    BY <1>1, <2>1, LeaveKeeps, Zenon
  <2>2. CASE Go(c, "cancel")
    <3>1. /\ \A d \in Callers \ {c} : caller'[d] = caller[d]
          /\ caller'[c].turn = caller[c].turn /\ caller'[c].early = caller[c].early /\ caller'[c].res = caller[c].res
      BY <1>1, <2>2, ZenonT(30) DEF Go, CallerStates
    <3> QED
      BY <1>1, <3>1, Zenon DEF CallersKept
  <2> QED
    BY <1>1, <2>1, <2>2, Zenon
<1>3. StillStep
  BY <1>1, <1>2, Zenon DEF StillStep
<1>4. \A d \in Callers : Cancels(d) /\ ~caller[d].early => Cancels(d)' /\ ~caller'[d].early
  BY <1>1, <1>2, Zenon DEF Cancels
<1> QED
  BY <1>1, <1>3, <1>4, StillAttends, Zenon

\* A cancel that gives up leaves the request to the worker.
LEMMA CancelGivesUpAttended ==
  ASSUME Sound, NEW c \in Callers, CancelGivesUp(c)
  PROVE  AttendedInv' /\ TerminalKept
<1>1. /\ ShownInv /\ ToldInv /\ CancelInv /\ HandsInv /\ OpenInv /\ CommitInv /\ EarlyInv /\ AttendInv
      /\ TypeOK /\ ProjectionInv /\ rt \in RuntimeStates /\ Leave(c) /\ caller[c].pc = "canceled"
      /\ minted' = minted /\ cloud' = cloud /\ worker' = worker
  BY Zenon DEF Sound, SessionInv, RuntimeInv, TurnInv, TypeOK, AttendedInv, ResultInv, cloudVars, CancelGivesUp
<1>2. /\ CallersKept /\ caller'[c].pc = "idle"
      /\ \A d \in Callers \ {c} : caller'[d] = caller[d]
  BY <1>1, LeaveKeeps, Zenon
<1>3. CASE rt.turn.id # caller[c].turn
  <2>1. rt' = rt
    BY <1>3, Zenon DEF CancelGivesUp
  <2>2. StillStep
    BY <1>2, <2>1, Zenon DEF StillStep, CancelGivesUp
  <2>3. \A d \in Callers : Cancels(d) /\ ~caller[d].early => Cancels(d)' /\ ~caller'[d].early
    BY <1>2, <1>3, <2>1, Zenon DEF Cancels
  <2> QED
    BY <2>1, <2>2, <2>3, StillAttends, Zenon
<1>4. CASE rt.turn.id = caller[c].turn
  <2>1. rt' = [rt EXCEPT !.turn.cancelling = FALSE] /\ Cancels(c)
    BY <1>1, <1>4, Zenon DEF CancelGivesUp, Cancels
  <2>2. /\ rt'.session = rt.session /\ rt'.work = rt.work /\ rt'.told = rt.told /\ rt'.left = rt.left
        /\ rt'.stopped = rt.stopped /\ rt'.turn.id = rt.turn.id /\ rt'.turn.seen = rt.turn.seen
        /\ rt'.turn.proj = rt.turn.proj /\ rt'.turn.cancelled = rt.turn.cancelled
        /\ rt'.turn.cancelling = FALSE /\ rt'.turn.requested = rt.turn.requested
    BY <1>1, <2>1, ZenonT(30) DEF RuntimeStates, TurnRecords
  <2>3. \A d \in Callers : ~Cancels(d)'
    <3>1. \A d \in Callers : Cancels(d) => d = c
      BY <1>1, <2>1, Zenon DEF CancelInv
    <3> QED
      BY <1>2, <2>2, <3>1, ZenonT(30) DEF Cancels
  <2>4. /\ ~Acts(CancelPcs)' /\ (Acts(StartPcs)' <=> Acts(StartPcs)) /\ (Engaged' <=> Engaged)
    <3>1. ~Acts(CancelPcs)
      BY <1>1, <2>1, Zenon DEF CancelInv
    <3> QED
      BY <1>1, <2>2, <3>1, Zenon DEF Acts, Engaged
  <2>5. ShownInv' /\ TerminalKept
    BY <1>1, <2>2, Zenon DEF ShownInv, TerminalKept, Active, Open
  <2>6. ToldInv'
    BY <1>1, <2>2, <2>3, <2>4, Zenon DEF ToldInv
  <2>7. CancelInv' /\ CommitInv' /\ EarlyInv'
    BY <1>1, <2>2, <2>3, <2>4, ZenonT(30) DEF CancelInv, CommitInv, EarlyInv
  <2>8. HandsInv' /\ OpenInv'
    <3>1. HandsInv'
      BY <1>1, <1>2, Zenon DEF HandsInv, At, CallersKept
    <3>2. OpenInv'
      BY <1>1, <2>2, Zenon DEF OpenInv, Open, Settled
    <3> QED
      BY <3>1, <3>2, Zenon
  <2>9. AttendInv'
    <3> SUFFICES ASSUME ~rt'.stopped, Active'
                 PROVE  worker'.turn = rt'.turn.id \/ CancelIsDue(rt')
      BY Zenon DEF AttendInv
    <3>1. ~rt.stopped /\ Active /\ rt.turn.proj # "Queued"
      BY <1>1, <1>4, <2>2, Zenon DEF Active, ProjectionInv
    <3>2. CASE rt.turn.proj = "Starting"
      BY <1>1, <2>2, <3>1, <3>2, ZenonT(30) DEF ToldInv, Acts
    <3>3. CASE rt.turn.proj # "Starting"
      <4>1. /\ rt.turn.proj \in {"Cloud", "MonitoringDegraded"}
            /\ rt.turn.seen # NoCloud /\ rt.turn.seen.phase = "Pending"
        BY <1>1, <3>1, <3>3, Zenon DEF ShownInv
      <4>2. rt.turn.requested /\ ~rt.turn.cancelled
        BY <1>1, <2>1, <4>1, Zenon DEF CancelInv
      <4> QED
        BY <2>2, <4>1, <4>2, Zenon DEF CancelIsDue
    <3> QED
      BY <3>2, <3>3, Zenon
  <2> QED
    BY <2>5, <2>6, <2>7, <2>8, <2>9, Zenon DEF AttendedInv, ResultInv
<1> QED
  BY <1>3, <1>4, Zenon

\* reconcile_unknown and resolve_unknown begin, and RecoveryObserved is published.
LEMMA RecoveryAttended ==
  ASSUME Sound, NEW c \in Callers,
         RecoverUnknown(c, "reconcile") \/ RecoverUnknown(c, "resolve") \/ CommitReconcile(c)
  PROVE  AttendedInv' /\ TerminalKept
<1>1. /\ TypeOK /\ rt \in RuntimeStates /\ caller \in [Callers -> CallerStates]
      /\ UNCHANGED <<worker, minted, cloudVars>> /\ caller[c].pc \notin {"cancel", "canceled"}
  BY Zenon DEF Sound, SessionInv, RuntimeInv, TypeOK, RecoverUnknown, CommitReconcile
<1>2. CallersKept /\ \A d \in Callers \ {c} : caller'[d] = caller[d]
  <2>1. ASSUME NEW pc, pc \notin {"cancel", "canceled"}, NEW o, Enter(c, pc, o)
        PROVE  CallersKept /\ \A d \in Callers \ {c} : caller'[d] = caller[d]
    <3>1. caller'[c].pc = pc /\ caller'[c].res.kind # "ok" /\ \A d \in Callers \ {c} : caller'[d] = caller[d]
      BY <1>1, <2>1, ZenonT(30) DEF Enter, Nothing, Err
    <3> QED
      BY <2>1, <3>1, Zenon DEF CallersKept
  <2> QED
    BY <1>1, <2>1, LeaveKeeps, Zenon DEF RecoverUnknown, CommitReconcile
<1>3. rt' = rt \/ (CanPublish(rt, 1) /\ rt' = Published(rt, 1))
  BY Zenon DEF RecoverUnknown, CommitReconcile
<1>4. SameButEvents(rt', rt) /\ rt'.told = rt.told /\ (CanPublish(rt', 1) => CanPublish(rt, 1))
  <2>1. CASE rt' = rt
    BY <2>1, Zenon DEF SameButEvents
  <2>2. CASE CanPublish(rt, 1) /\ rt' = Published(rt, 1)
    <3>1. SameButEvents(Published(rt, 1), rt) /\ Published(rt, 1).told = rt.told
      BY <1>1, <2>2, PublishedFacts, Zenon
    <3> QED
      BY <2>2, <3>1, Zenon
  <2> QED
    BY <1>3, <2>1, <2>2, Zenon
<1>5. StillStep
  BY <1>1, <1>2, <1>4, Zenon DEF StillStep, SameButEvents
<1>6. \A d \in Callers : Cancels(d) /\ ~caller[d].early => Cancels(d)' /\ ~caller'[d].early
  BY <1>1, <1>2, <1>4, Zenon DEF Cancels, SameButEvents
<1> QED
  BY <1>4, <1>5, <1>6, StillAttends, ZenonT(30)

LEMMA IdleStepsAttended ==
  ASSUME Sound, SequenceNearsEnd \/ Joined \/ UNCHANGED vars
  PROVE  AttendedInv' /\ TerminalKept
<1>1. rt \in RuntimeStates /\ UNCHANGED <<worker, caller, minted, cloudVars>>
  BY Zenon DEF Sound, SessionInv, RuntimeInv, TypeOK, SequenceNearsEnd, Joined, vars
<1>2. /\ rt'.turn = rt.turn /\ rt'.session = rt.session /\ rt'.work = rt.work /\ rt'.told = rt.told
      /\ rt'.stopped = rt.stopped
  BY <1>1, Zenon DEF RuntimeStates, SequenceNearsEnd, Joined, vars
<1>3. CanPublish(rt', 1) => CanPublish(rt, 1)
  <2>1. Plenty >= 1
    BY DEF Plenty
  <2> QED
    BY <2>1, Zenon DEF CanPublish, SequenceNearsEnd, Joined, vars
<1>4. StillStep
  BY <1>1, <1>2, Zenon DEF StillStep, CallersKept
<1>5. \A d \in Callers : Cancels(d) /\ ~caller[d].early => Cancels(d)' /\ ~caller'[d].early
  BY <1>1, <1>2, Zenon DEF Cancels
<1> QED
  BY <1>3, <1>4, <1>5, StillAttends, ZenonT(30)

----------------------------------------------------------------------------
\* initial_state: a lifecycle that is found pending is to be monitored.
LEMMA InitAttended ==
  ASSUME Init
  PROVE  AttendedInv
<1>1. PICK t \in Turns :
        rt = [session  |-> IF cloud = NoCloud THEN "Ready" ELSE StateFor(cloud),
              turn     |-> IF cloud = NoCloud THEN NewTurn(NoTurn, "none", NoCloud)
                                              ELSE NewTurn(t, "Cloud", cloud),
              work     |-> IF InPhase({"Pending"}) THEN Work("monitor", t) ELSE NoWork,
              shutdown |-> FALSE, stopped |-> FALSE,
              told     |-> [u \in Turns |-> NoCloud], left |-> Plenty]
  BY ZenonT(30) DEF Init
<1>2. /\ worker.pc = "next" /\ worker.res.kind # "ok"
      /\ \A c \in Callers : caller[c].pc = "idle" /\ caller[c].res.kind # "ok"
      /\ cloud # NoCloud => cloud.phase \in Terminal \cup {"Pending", "OutcomeUnknown"}
  <2>1. worker.pc = "next" /\ worker.res.kind # "ok"
    BY Zenon DEF Init, Nothing, Err
  <2>2. \A c \in Callers : caller[c].pc = "idle" /\ caller[c].res.kind # "ok"
    BY Zenon DEF Init, Idle, Nothing, Err
  <2>3. cloud # NoCloud => cloud.phase \in Terminal \cup {"Pending", "OutcomeUnknown"}
    BY Zenon DEF Init
  <2> QED
    BY <2>1, <2>2, <2>3, Zenon
<1>3. /\ rt.turn.seen = cloud /\ (cloud = NoCloud => rt.turn.proj = "none") /\ (cloud # NoCloud => rt.turn.proj = "Cloud")
  <2>1. /\ NewTurn(NoTurn, "none", NoCloud).seen = NoCloud /\ NewTurn(NoTurn, "none", NoCloud).proj = "none"
        /\ NewTurn(t, "Cloud", cloud).seen = cloud /\ NewTurn(t, "Cloud", cloud).proj = "Cloud"
    BY Zenon DEF NewTurn
  <2>2. rt.turn = IF cloud = NoCloud THEN NewTurn(NoTurn, "none", NoCloud) ELSE NewTurn(t, "Cloud", cloud)
    BY <1>1, Zenon
  <2> QED
    BY <2>1, <2>2, Zenon
<1>4. /\ \A u \in Turns : rt.told[u] = NoCloud
      /\ rt.session = IF cloud = NoCloud THEN "Ready" ELSE StateFor(cloud)
      /\ rt.work.kind = IF InPhase({"Pending"}) THEN "monitor" ELSE "none"
  <2>1. Work("monitor", t).kind = "monitor" /\ NoWork.kind = "none"
    BY Zenon DEF Work, NoWork
  <2> QED
    BY <1>1, <2>1, Zenon
<1>5. ~Engaged /\ ~Acts(StartPcs) /\ ~Acts(CancelPcs) /\ \A c \in Callers : ~Cancels(c)
  BY <1>2, Zenon DEF Engaged, Acts, StartPcs, CancelPcs, Cancels
<1>6. /\ Active => cloud # NoCloud /\ cloud.phase = "Pending"
      /\ rt.session = "Ready" => ~Open(cloud)
  <2>1. cloud # NoCloud => /\ StateFor(cloud) \in {"Running", "MonitoringDegraded"} => cloud.phase = "Pending"
                           /\ StateFor(cloud) = "Ready" => cloud.phase \in Terminal
    BY <1>2, Zenon DEF StateFor, Terminal, Statuses
  <2> QED
    BY <1>4, <2>1, Zenon DEF Active, Open
<1>7. ShownInv /\ AttendInv
  BY <1>3, <1>4, <1>6, ZenonT(30) DEF ShownInv, AttendInv, InPhase
<1>8. ToldInv
  <2>1. rt.turn.id # NoTurn => rt.turn.id \in Turns
    <3>1. NewTurn(NoTurn, "none", NoCloud).id = NoTurn /\ NewTurn(t, "Cloud", cloud).id = t
      BY Zenon DEF NewTurn
    <3>2. rt.turn = IF cloud = NoCloud THEN NewTurn(NoTurn, "none", NoCloud) ELSE NewTurn(t, "Cloud", cloud)
      BY <1>1, Zenon
    <3> QED
      BY <3>1, <3>2, Zenon
  <2> QED
    BY <1>3, <1>4, <1>5, <2>1, Zenon DEF ToldInv
<1>9. CancelInv /\ CommitInv /\ EarlyInv
  BY <1>5, Zenon DEF CancelInv, CommitInv, EarlyInv
<1>10. HandsInv /\ OpenInv
  BY <1>2, <1>3, Zenon DEF HandsInv, OpenInv, Open, Settled
<1> QED
  BY <1>7, <1>8, <1>9, <1>10, ZenonT(30) DEF AttendedInv, ResultInv

LEMMA NextAttended ==
  ASSUME Sound, RuntimeInv', ShownIsCommitted', [Next]_vars
  PROVE  AttendedInv' /\ TerminalKept
<1>1. ASSUME NEW c \in Callers,
             CancelTurn(c) \/ RecoverUnknown(c, "reconcile") \/ RecoverUnknown(c, "resolve") \/ CallerStep(c)
      PROVE  AttendedInv' /\ TerminalKept
  BY <1>1, CancelTurnAttended, RecoveryAttended, CallerCallsKeep, CancelAgainAttended, CancelGivesUpAttended,
     CommitCancelResultAttended, CommitResolveAttended, ZenonT(30) DEF CallerStep
<1>2. ASSUME WorkerStep
      PROVE  AttendedInv' /\ TerminalKept
  BY <1>2, WorkerStopsAttended, WorkerTakesCancelAttended, WorkerTakesStartAttended, WorkerTakesMonitorAttended,
     AdmitStartAttended, WorkerCallsKeep, HandleStartResultAttended, CommitWorkerCancelAttended,
     HandleMonitorResultAttended, ZenonT(30) DEF WorkerStep
<1> QED
  BY <1>1, <1>2, StartTurnAttended, CancelQueuedAttended, ShutdownAttended, IdleStepsAttended, Zenon DEF Next

\* The inductive invariant holds throughout: start_turn, cancel_turn, the recovery calls and
\* shutdown may interleave with the worker in any order, for any number of callers.
THEOREM SessionInvariant == Spec => []SessionInv
<1>1. Init => AttendedInv
  BY InitAttended, Zenon
<1>2. /\ AttendedInv /\ RuntimeInv /\ ShownIsCommitted /\ RuntimeInv' /\ ShownIsCommitted' /\ [Next]_vars
      => AttendedInv'
  BY NextAttended, Zenon DEF Sound, SessionInv
<1> QED
  BY <1>1, <1>2, CommittedInvariant, PTL DEF Spec, SessionInv

\* No interleaving loses an active turn: whoever drops it (a cancel that gives up, a read that
\* failed, a start that was cancelled) leaves work queued for it or a request the worker finds,
\* as long as there is a sequence number left to publish with.
THEOREM ActiveIsAttended == Spec => []ActiveTurnIsAttended
<1>1. SessionInv => ActiveTurnIsAttended
  BY Zenon DEF SessionInv, RuntimeInv, TurnInv, HoldersInv, AttendedInv, AttendInv, ActiveTurnIsAttended, Active, Cancels
<1> QED
  BY <1>1, SessionInvariant, PTL

\* The first terminal lifecycle published for a turn is the last one, for any number of cancels,
\* reads, start results and decisions in hand.
THEOREM TerminalIsPublishedOnce == Spec => TerminalPublishedOnce
<1>1. SessionInv /\ ShownIsCommitted /\ RuntimeInv' /\ ShownIsCommitted' /\ [Next]_vars => TerminalKept
  BY NextAttended, Zenon DEF Sound
<1> QED
  BY <1>1, SessionInvariant, CommittedInvariant, PTL DEF Spec, TerminalPublishedOnce, TerminalKept
====================================================================================
