-------------------------------- MODULE LoginBroker --------------------------------
(***************************************************************************)
(* LoginBroker (codebox-agent-codex/src/broker.rs) with its supervisor     *)
(* thread, its ledger, and the credential-scope lease it shares with the   *)
(* commands of the cloud runner.                                           *)
(*                                                                         *)
(* The broker is driven by one thread at a time (ConcreteLoginPort holds   *)
(* it in a mutex).  `bk.pc' is where that thread is: it waits for an event *)
(* of the supervisor, has a status command to run, or, in "dropping",      *)
(* joins the supervisor thread and then gives the lease back, which is the *)
(* order in which ActiveLogin's fields and the locals of a call are        *)
(* dropped.  While idle with `active', bk.mem is the ledger of the pending *)
(* login.  A call that is refused without touching anything (active, or    *)
(* the lease is taken) is not a step.                                      *)
(***************************************************************************)
EXTENDS LoginSupervisor

VARIABLES
  bk,     \* the broker
  lease   \* holder of the flock: "free", "broker" or "cloud"

vars == <<disk, temps, sup, child, auth, bk, lease>>

\* ev: the event being resolved; wait: reconcile or cancel, which wait out the grace;
\* res: what the ledger said when the last call recorded a verdict
IdleBroker ==
  [pc |-> "idle", active |-> FALSE, mem |-> NoLedger, ev |-> "Started", wait |-> FALSE, res |-> "ok"]

Init ==
  /\ InitLedger /\ InitSupervisor
  /\ bk = IdleBroker /\ lease = "free"

----------------------------------------------------------------------------
\* Mutation: the lease is dropped before the supervisor.
DropLeaseFirst(res) ==
  /\ bk' = [IdleBroker EXCEPT !.pc = "dropping", !.res = res]
  /\ sup' = [sup EXCEPT !.cancel = TRUE] /\ lease' = "free"

\* The call returns: Drop of ProcessSupervisor sends Cancel and joins the thread; the
\* lease goes last.
ReturnAndDrop(res) ==
  /\ bk' = [IdleBroker EXCEPT !.pc = "dropping", !.res = res]
  /\ sup' = [sup EXCEPT !.cancel = TRUE] /\ UNCHANGED lease

Joined ==
  /\ bk.pc = "dropping" /\ sup.st \in {"none", "done"}
  /\ bk' = [bk EXCEPT !.pc = "idle"] /\ sup' = NoSupervisor /\ lease' = "free"
  /\ UNCHANGED <<disk, temps, child, auth>>

\* The broker goes on with ledger l.
Continue(pc, l) ==
  /\ bk' = [bk EXCEPT !.pc = pc, !.mem = l] /\ UNCHANGED <<sup, lease>>

----------------------------------------------------------------------------
StartAcquire ==
  /\ bk.pc = "idle" /\ ~bk.active /\ lease = "free"
  /\ lease' = "broker" /\ bk' = [bk EXCEPT !.pc = "preflight"]
  /\ UNCHANGED <<disk, temps, supVars>>

\* The version or the status command fails, the ledger is uncertain, or the operator is
\* logged in already.
StartRefused ==
  /\ bk.pc = "preflight"
  /\ ReturnAndDrop("ok") /\ UNCHANGED <<disk, temps, child, auth>>

\* Mutation: the preflight does not look at the ledger.
IntentOverUncertain(op) ==
  /\ bk.pc = "preflight" /\ PinnedStatus = "LoggedOut" /\ child[op] = "none" /\ disk.op # op /\ op \notin temps
  /\ \/ /\ PersistLedger(NewLedger(op), TRUE)
        /\ bk' = [bk EXCEPT !.pc = "await_started", !.mem = NewLedger(op)]
        /\ sup' = NewSupervisor(op) /\ UNCHANGED lease
     \/ PersistLedger(NewLedger(op), FALSE) /\ ReturnAndDrop("ok")
  /\ UNCHANGED <<child, auth>>

\* A new operation: the intent is durable before the supervisor thread is started; either
\* may fail.
StartIntent(op) ==
  /\ bk.pc = "preflight" /\ ~IsUncertain(disk) /\ PinnedStatus = "LoggedOut"
  /\ child[op] = "none" /\ disk.op # op /\ op \notin temps
  /\ \/ /\ PersistLedger(NewLedger(op), TRUE)
        /\ bk' = [bk EXCEPT !.pc = "await_started", !.mem = NewLedger(op)]
        /\ sup' = NewSupervisor(op) /\ UNCHANGED lease
     \/ \E ok \in BOOLEAN : PersistLedger(NewLedger(op), ok) /\ ReturnAndDrop("ok")
  /\ UNCHANGED <<child, auth>>

\* receive takes an event from the channel.
Received(event) == sup.events # <<>> /\ Head(sup.events) = event

Taken == [sup EXCEPT !.events = Tail(@)]

\* The supervisor answers the spawn: Started is recorded with the process identity, Failed
\* settles the operation.
ReceiveStarted ==
  /\ bk.pc = "await_started" /\ Received("Started")
  /\ LET l == RecordStarted(bk.mem)
     IN \/ /\ PersistLedger(l, TRUE) /\ sup' = Taken
           /\ bk' = [bk EXCEPT !.pc = "await_instructions", !.mem = l] /\ UNCHANGED lease
        \/ PersistLedger(l, FALSE) /\ ReturnAndDrop("ok")
  /\ UNCHANGED <<child, auth>>

ReceiveFailed ==
  /\ bk.pc = "await_started" /\ Received("Failed")
  /\ \E ok \in BOOLEAN : PersistLedger(Appended(bk.mem, "Failed"), ok)
  /\ ReturnAndDrop("ok") /\ UNCHANGED <<child, auth>>

ReceiveInstructions ==
  /\ bk.pc = "await_instructions" /\ Received("Instructions")
  /\ LET l == Appended(bk.mem, "DeviceInstructions")
     IN \/ /\ PersistLedger(l, TRUE) /\ sup' = Taken
           /\ bk' = [bk EXCEPT !.pc = "idle", !.active = TRUE, !.mem = l] /\ UNCHANGED lease
        \/ PersistLedger(l, FALSE) /\ ReturnAndDrop("ok")
  /\ UNCHANGED <<child, auth>>

\* Any other event ends the login and is resolved.
TakeTerminal ==
  /\ sup.events # <<>> /\ Head(sup.events) \in Finishing \ {"Failed"}
  /\ bk' = [bk EXCEPT !.pc = "resolve", !.active = FALSE, !.ev = Head(sup.events)]
  /\ sup' = Taken /\ UNCHANGED <<disk, temps, child, auth, lease>>

ReceiveTerminal ==
  bk.pc \in {"await_started", "await_instructions", "cancel_wait"} /\ TakeTerminal

\* status of a pending login; as long as the channel is empty it stays pending
Status == bk.pc = "idle" /\ bk.active /\ TakeTerminal

\* receive waits 5 s for Started and 31 s for the instructions in vain.
ReceiveTimeout ==
  /\ bk.pc \in {"await_started", "await_instructions"} /\ sup.events = <<>>
  /\ \E l \in Ledgers, ok \in BOOLEAN : MarkUnknown(bk.mem, l, ok)
  /\ ReturnAndDrop("ok") /\ UNCHANGED <<child, auth>>

----------------------------------------------------------------------------
\* resolve_terminal_event
Resolve ==
  /\ bk.pc = "resolve"
  /\ \/ bk.ev = "Exited" /\ Continue("settle", bk.mem) /\ UNCHANGED <<disk, temps>>
     \/ /\ bk.ev # "Exited"
        /\ \E l \in Ledgers, ok \in BOOLEAN :
             /\ MarkUnknown(bk.mem, l, ok)
             /\ \/ ok /\ bk.ev # "ExitedBadly" /\ Continue("settle", l)
                \/ (~ok \/ bk.ev # "Uncertain") /\ ReturnAndDrop("ok")
  /\ UNCHANGED <<child, auth>>

\* reconcile_ledger: the status command answers and its answer is recorded, if the ledger's
\* transitions allow it.
SettleKnown ==
  /\ bk.pc = "settle"
  /\ IF ValidTransition(bk.mem.phase, PinnedStatus)
     THEN \E ok \in BOOLEAN :
            /\ PersistLedger(Appended(bk.mem, PinnedStatus), ok)
            /\ ReturnAndDrop(IF ok THEN "ok" ELSE "ledger_unavailable")
     ELSE ReturnAndDrop("ledger_invalid") /\ UNCHANGED <<disk, temps>>
  /\ UNCHANGED <<child, auth>>

SettleFailed ==
  /\ bk.pc = "settle"
  /\ \E l \in Ledgers, ok \in BOOLEAN : MarkUnknown(bk.mem, l, ok)
  /\ ReturnAndDrop("ok") /\ UNCHANGED <<child, auth>>

\* reconcile_without_active, called by status (wait = FALSE), reconcile and cancel
ReconcileAcquire(wait) ==
  /\ bk.pc = "idle" /\ ~bk.active /\ lease = "free"
  /\ lease' = "broker" /\ bk' = [bk EXCEPT !.pc = "reconcile", !.wait = wait]
  /\ UNCHANGED <<disk, temps, supVars>>

\* Mutation: a recorded process is not looked up.
ReconcileUnderLiveChild ==
  /\ bk.pc = "reconcile"
  /\ \/ ReturnAndDrop("ok")
     \/ /\ IsUncertain(disk)
        /\ (~disk.started /\ bk.wait) => child[disk.op] # "alive"
        /\ Continue("settle", disk)
  /\ UNCHANGED <<disk, temps, child, auth>>

\* A recorded process that is alive leaves the outcome unknown; without a recorded one the
\* two seconds of grace, if waited for, are over when the orphan is dead.  The version
\* command may fail, and nothing is uncertain most of the time.
ReconcileLoad ==
  /\ bk.pc = "reconcile"
  /\ \/ ReturnAndDrop("ok")
     \/ /\ IsUncertain(disk)
        /\ (disk.started \/ bk.wait) => child[disk.op] # "alive"
        /\ Continue("settle", disk)
  /\ UNCHANGED <<disk, temps, child, auth>>

----------------------------------------------------------------------------
\* cancel: the unknown outcome is made durable first; if that fails, or the supervisor
\* thread is gone already, the call returns its error and the login is dropped.
Cancel ==
  /\ bk.pc = "idle" /\ bk.active
  /\ \E l \in Ledgers, ok \in BOOLEAN :
       /\ MarkUnknown(bk.mem, l, ok)
       /\ \/ /\ ok /\ bk' = [bk EXCEPT !.pc = "cancel_wait", !.active = FALSE, !.mem = l]
             /\ sup' = [sup EXCEPT !.cancel = TRUE] /\ UNCHANGED lease
          \/ (~ok \/ sup.st = "done") /\ ReturnAndDrop("ok")
  /\ UNCHANGED <<child, auth>>

\* No finishing event within three seconds
CancelTimeout ==
  /\ bk.pc = "cancel_wait" /\ sup.events = <<>>
  /\ ReturnAndDrop("ok") /\ UNCHANGED <<disk, temps, child, auth>>

\* Drop of LoginBroker at the end of its process; a broker of the next process is idle.
DropBroker ==
  /\ bk.pc = "idle" /\ bk.active
  /\ \E l \in Ledgers, ok \in BOOLEAN : MarkUnknown(bk.mem, l, ok)
  /\ ReturnAndDrop("ok") /\ UNCHANGED <<child, auth>>

\* The process dies: the kernel frees the lock and signals the child.
Crash ==
  /\ bk # IdleBroker
  /\ bk' = IdleBroker /\ sup' = NoSupervisor
  /\ lease' = IF lease = "broker" THEN "free" ELSE lease
  /\ UNCHANGED <<disk, temps, child, auth>>

\* Commands of the cloud runner take the same lease, one command at a time.
CloudAcquire == lease = "free" /\ lease' = "cloud" /\ UNCHANGED <<disk, temps, supVars, bk>>

CloudRelease == lease = "cloud" /\ lease' = "free" /\ UNCHANGED <<disk, temps, supVars, bk>>

----------------------------------------------------------------------------
Calls ==
  \/ StartAcquire \/ \E wait \in BOOLEAN : ReconcileAcquire(wait)
  \/ Status \/ Cancel \/ DropBroker

Steps ==
  \/ StartRefused \/ \E op \in Ops : StartIntent(op)
  \/ ReceiveStarted \/ ReceiveFailed \/ ReceiveInstructions \/ ReceiveTerminal \/ ReceiveTimeout
  \/ Resolve \/ SettleKnown \/ SettleFailed \/ ReconcileLoad \/ CancelTimeout \/ Joined

Next ==
  \/ Calls \/ Steps
  \/ SupervisorNext /\ UNCHANGED <<disk, temps, bk, lease>>
  \/ Crash \/ CloudAcquire \/ CloudRelease

Spec == Init /\ [][Next]_vars

\* The supervisor thread runs and its deadlines pass; an orphan is killed.  Nobody has to
\* call the broker.
FairSpec ==
  /\ Spec
  /\ WF_vars(SupervisorThread /\ UNCHANGED <<disk, temps, bk, lease>>)
  /\ WF_vars(\E o \in Ops : sup.op # o /\ ChildEnds(o) /\ UNCHANGED <<disk, temps, bk, lease>>)
  /\ WF_vars(Steps)

----------------------------------------------------------------------------
Supervisors ==
  [st : {"none", "spawning", "running", "done"}, op : Ops \cup {NoOp}, cancel : BOOLEAN,
   events : Seq(SupervisorEvents), shown : BOOLEAN]

Brokers ==
  [pc : {"idle", "preflight", "await_started", "await_instructions", "resolve", "settle",
         "reconcile", "cancel_wait", "dropping"},
   active : BOOLEAN, mem : Ledgers, ev : SupervisorEvents, wait : BOOLEAN,
   res : {"ok", "ledger_unavailable", "ledger_invalid"}]

\* Type invariant.
TypeOK ==
  /\ disk \in Ledgers /\ temps \subseteq Ops
  /\ child \in [Ops -> {"none", "alive", "dead"}] /\ auth \in BOOLEAN
  /\ sup \in Supervisors /\ bk \in Brokers /\ lease \in {"free", "broker", "cloud"}

\* A supervised login runs only under the lease: from before it is spawned until its thread
\* is joined, no cloud command and no other broker can take the credential scope, whatever
\* call started, canceled, timed out or dropped it.
LoginUnderLease ==
  sup.st # "none" => lease = "broker"

\* No automatic retry while the outcome is unknown: the record of one operation is replaced
\* by that of another only after it was settled, across crashes and failed writes.
NoRetryWhileUnknown ==
  [][disk'.op # disk.op => ~IsUncertain(disk)]_vars

\* A verdict is recorded only for a login that is over: while the process named in the
\* ledger lives, in this broker or as the orphan of a crashed one, its record stays
\* uncertain.
VerdictAfterDeath ==
  [][IsUncertain(disk) /\ ~IsUncertain(disk') /\ disk.started => child[disk.op] = "dead"]_vars

----------------------------------------------------------------------------
\* The broker has a call under way or a login pending.
Busy == bk.pc # "idle" \/ bk.active

\* A supervisor belongs to the broker's login.
Supervising == bk.active \/ bk.pc \in {"await_started", "await_instructions", "cancel_wait"}

\* The broker holds the ledger of an operation in memory.
HoldsLedger == Supervising \/ bk.pc \in {"resolve", "settle"}

Sent(event) == \E i \in 1 .. Len(sup.events) : sup.events[i] = event

\* The lease covers every call and pending login, and with them the
\* supervisor; the ledger in memory is the durable one, of the supervised operation; the
\* events of the supervisor tell the truth about the child; and a process once recorded is
\* gone before its login is judged.
BrokerInv ==
  /\ bk.pc # "idle" => ~bk.active
  /\ Busy => lease = "broker"
  /\ sup.st # "none" => Busy
  /\ bk.pc \in {"preflight", "reconcile"} => sup.st = "none"
  /\ HoldsLedger => bk.mem = disk /\ disk.op \in Ops
  /\ Supervising => sup.st # "none" /\ sup.op = disk.op
  /\ bk.pc = "await_started" => ~disk.started
  /\ sup.st # "none" => sup.op \in Ops
  /\ (\E event \in Finishing : Sent(event)) => sup.st = "done"
  /\ Sent("Started") => sup.st # "none" /\ child[sup.op] # "none"
  /\ sup.st = "spawning" => child[sup.op] = "none"
  /\ sup.st = "done" => child[sup.op] # "alive"
  /\ IsUncertain(disk) => disk.op \in Ops
  /\ disk.started => disk.op \in Ops /\ child[disk.op] # "none"
  /\ bk.pc \in {"resolve", "settle"} =>
       sup.st \in {"none", "done"} /\ (disk.started => child[disk.op] = "dead")

\* The inductive invariant of the broker, its supervisor and the ledger, with the types.
LoginInv == TypeOK /\ BrokerInv

\* Every login process ends, even if nobody ever asks for its status again.
LoginEnds ==
  \A o \in Ops : child[o] = "alive" ~> child[o] = "dead"

\* An uncertain record is settled by a status command that answers: the ledger never
\* refuses the verdict of a reconciliation.
VerdictIsAccepted == bk.res # "ledger_invalid"
====================================================================================
