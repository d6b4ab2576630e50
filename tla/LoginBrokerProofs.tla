------------------------------ MODULE LoginBrokerProofs ------------------------------
(***************************************************************************)
(* Proofs that LoginBroker keeps its safety properties for any set of      *)
(* login operations: BrokerInv is inductive, and with it a login runs only  *)
(* under the lease, no login is started over an open one and none is       *)
(* judged while its process lives.                                         *)
(***************************************************************************)
EXTENDS LoginBroker, TLAPS

\* What may happen to the two files for the invariant to go on.
FilesOk ==
  /\ disk' \in Ledgers /\ temps' \subseteq Ops
  /\ IsUncertain(disk') => disk'.op \in Ops
  /\ disk'.started => disk'.op \in Ops /\ child'[disk'.op] # "none"

----------------------------------------------------------------------------
\* persist_ledger stores the record or leaves the old one.
LEMMA Persisted ==
  ASSUME TypeOK, NEW l \in Ledgers, l.op \in Ops, NEW ok \in BOOLEAN, PersistLedger(l, ok)
  PROVE  disk' \in {disk, l} /\ temps' \subseteq Ops /\ (ok => disk' = l)
BY DEF PersistLedger, TypeOK

\* append changes the phase and nothing else.
LEMMA AppendedFacts ==
  ASSUME NEW l \in Ledgers, NEW phase \in Phases
  PROVE  /\ Appended(l, phase) \in Ledgers
         /\ Appended(l, phase).op = l.op /\ Appended(l, phase).started = l.started
         /\ Appended(l, phase).phase = phase
BY DEF Appended, Ledgers

\* mark_unknown leaves an uncertain record of the same operation.
LEMMA Marked ==
  ASSUME TypeOK, disk.op \in Ops, NEW l \in Ledgers, NEW ok \in BOOLEAN, MarkUnknown(disk, l, ok)
  PROVE  /\ l.op = disk.op /\ l.started = disk.started /\ IsUncertain(l)
         /\ disk' \in {disk, l} /\ temps' \subseteq Ops /\ (ok => disk' = l)
<1>1. disk \in Ledgers /\ "OutcomeUnknown" \in Phases
  BY DEF TypeOK, Phases
<1>2. CASE disk.phase = "OutcomeUnknown"
  BY <1>1, <1>2 DEF MarkUnknown, TypeOK, IsUncertain
<1>3. CASE disk.phase # "OutcomeUnknown"
  <2>1. l = Appended(disk, "OutcomeUnknown") /\ PersistLedger(l, ok)
    BY <1>3 DEF MarkUnknown
  <2>2. l.op = disk.op /\ l.started = disk.started /\ l.phase = "OutcomeUnknown"
    BY <1>1, <2>1, AppendedFacts
  <2> QED
    BY <2>1, <2>2, Persisted DEF IsUncertain
<1> QED
  BY <1>2, <1>3

\* Taking an event from the channel: it was sent, and nothing else appears.
LEMMA EventsTaken ==
  ASSUME TypeOK, sup.events # <<>>
  PROVE  /\ Sent(Head(sup.events)) /\ Head(sup.events) \in SupervisorEvents
         /\ Taken \in Supervisors
         /\ \A e : (\E i \in 1 .. Len(Taken.events) : Taken.events[i] = e) => Sent(e)
<1>1. PICK q \in Seq(SupervisorEvents) : q = sup.events
  BY DEF TypeOK, Supervisors
<1>2. /\ Len(q) \in Nat \ {0} /\ Head(q) = q[1] /\ q[1] \in SupervisorEvents
      /\ Tail(q) \in Seq(SupervisorEvents)
      /\ Len(Tail(q)) = Len(q) - 1 /\ \A i \in 1 .. Len(q) - 1 : Tail(q)[i] = q[i + 1]
  BY <1>1
<1>3. Taken \in Supervisors /\ Taken.events = Tail(q)
  BY <1>1, <1>2 DEF Taken, TypeOK, Supervisors
<1>4. ASSUME NEW e, NEW i \in 1 .. Len(Taken.events), Taken.events[i] = e
      PROVE  Sent(e)
  <2>1. i \in 1 .. Len(q) - 1 /\ q[i + 1] = e
    BY <1>2, <1>3, <1>4
  <2>2. i + 1 \in 1 .. Len(q)
    BY <1>2, <2>1
  <2> QED
    BY <1>1, <2>1, <2>2 DEF Sent
<1>5. 1 \in 1 .. Len(q)
  BY <1>2
<1> QED
  BY <1>1, <1>2, <1>3, <1>4, <1>5 DEF Sent

\* Sending an event adds it and no other.
LEMMA EventsSent ==
  ASSUME TypeOK, NEW event \in SupervisorEvents
  PROVE  /\ Append(sup.events, event) \in Seq(SupervisorEvents)
         /\ \A e : (\E i \in 1 .. Len(Append(sup.events, event)) :
                      Append(sup.events, event)[i] = e) => Sent(e) \/ e = event
<1>1. PICK q \in Seq(SupervisorEvents) : q = sup.events
  BY DEF TypeOK, Supervisors
<1>2. /\ Append(q, event) \in Seq(SupervisorEvents) /\ Len(q) \in Nat
      /\ Len(Append(q, event)) = Len(q) + 1
      /\ \A i \in 1 .. Len(q) : Append(q, event)[i] = q[i]
      /\ Append(q, event)[Len(q) + 1] = event
  BY <1>1
<1>3. ASSUME NEW e, NEW i \in 1 .. Len(Append(q, event)), Append(q, event)[i] = e
      PROVE  Sent(e) \/ e = event
  <2>1. i \in 1 .. Len(q) \/ i = Len(q) + 1
    BY <1>2
  <2> QED
    BY <1>1, <1>2, <1>3, <2>1 DEF Sent
<1> QED
  BY <1>1, <1>2, <1>3

\* A call that returns and drops its login keeps the invariant, whatever it stored.
LEMMA ReturnKeeps ==
  ASSUME LoginInv, Busy, FilesOk, UNCHANGED <<child, auth>>,
         NEW res \in {"ok", "ledger_unavailable", "ledger_invalid"}, ReturnAndDrop(res)
  PROVE  LoginInv'
<1>1. /\ bk' = [pc |-> "dropping", active |-> FALSE, mem |-> NoLedger, ev |-> "Started",
                wait |-> FALSE, res |-> res]
      /\ sup' = [sup EXCEPT !.cancel = TRUE] /\ UNCHANGED lease
  BY ZenonT(30) DEF ReturnAndDrop, IdleBroker
<1>2. sup' \in Supervisors /\ sup'.st = sup.st /\ sup'.op = sup.op /\ sup'.events = sup.events
  BY <1>1, ZenonT(30) DEF LoginInv, TypeOK, Supervisors
<1>3. bk' \in Brokers
  BY <1>1 DEF Brokers, NoLedger, Ledgers, Phases, SupervisorEvents
<1>4. TypeOK'
  BY <1>1, <1>2, <1>3 DEF LoginInv, TypeOK, FilesOk
<1>5. \A e : Sent(e)' <=> Sent(e)
  BY <1>2 DEF Sent
<1>6. BrokerInv'
  BY <1>1, <1>2, <1>5 DEF LoginInv, BrokerInv, Busy, Supervising, HoldsLedger, FilesOk, IsUncertain
<1> QED
  BY <1>4, <1>6 DEF LoginInv

\* The durable record stays, or is replaced by one of its own operation.
LEMMA SameFiles ==
  ASSUME LoginInv, UNCHANGED <<disk, temps, child>>
  PROVE  FilesOk
BY DEF LoginInv, TypeOK, BrokerInv, FilesOk, IsUncertain

LEMMA OwnFiles ==
  ASSUME LoginInv, HoldsLedger, NEW l \in Ledgers, l.op = disk.op,
         l.started => child[disk.op] # "none", disk' \in {disk, l}, temps' \subseteq Ops,
         UNCHANGED child
  PROVE  FilesOk
BY DEF LoginInv, TypeOK, BrokerInv, FilesOk, IsUncertain

\* mark_unknown on the ledger in memory, then the call returns.
LEMMA MarkAndReturn ==
  ASSUME LoginInv, HoldsLedger, NEW l \in Ledgers, NEW ok \in BOOLEAN, MarkUnknown(bk.mem, l, ok),
         UNCHANGED child
  PROVE  /\ FilesOk /\ disk'.op = disk.op /\ disk'.started = disk.started /\ IsUncertain(l)
         /\ l.op = disk.op /\ l.started = disk.started /\ (ok => disk' = l)
         /\ IsUncertain(disk) => IsUncertain(disk')
<1>1. bk.mem = disk /\ disk.op \in Ops /\ TypeOK
  BY DEF LoginInv, BrokerInv
<1>2. /\ l.op = disk.op /\ l.started = disk.started /\ IsUncertain(l)
      /\ disk' \in {disk, l} /\ temps' \subseteq Ops /\ (ok => disk' = l)
  BY <1>1, Marked
<1>3. l.started => child[disk.op] # "none"
  BY <1>2 DEF LoginInv, BrokerInv
<1> QED
  BY <1>2, <1>3, OwnFiles

----------------------------------------------------------------------------
\* The calls that take the lease.
LEMMA AcquireKeeps ==
  LoginInv /\ (StartAcquire \/ \E wait \in BOOLEAN : ReconcileAcquire(wait)) => LoginInv'
<1> SUFFICES ASSUME LoginInv, StartAcquire \/ \E wait \in BOOLEAN : ReconcileAcquire(wait)
             PROVE  LoginInv'
  BY SMTT(30)
<1>1. /\ bk.pc = "idle" /\ ~bk.active /\ lease' = "broker"
      /\ UNCHANGED <<disk, temps, sup, child, auth>>
  BY ZenonT(30) DEF StartAcquire, ReconcileAcquire, supVars
<1>2. bk' \in Brokers /\ bk'.pc \in {"preflight", "reconcile"} /\ ~bk'.active
  BY ZenonT(30) DEF StartAcquire, ReconcileAcquire, LoginInv, TypeOK, Brokers
<1>3. \A e : Sent(e)' <=> Sent(e)
  BY <1>1 DEF Sent
<1> QED
  BY <1>1, <1>2, <1>3 DEF LoginInv, TypeOK, BrokerInv, Busy, Supervising, HoldsLedger, IsUncertain

\* The intent is stored and the supervisor started, or the call ends.
LEMMA IntentKeeps ==
  ASSUME LoginInv, NEW op \in Ops, StartIntent(op)
  PROVE  LoginInv'
<1>1. /\ NewLedger(op) \in Ledgers /\ NewLedger(op).op = op /\ ~NewLedger(op).started
      /\ bk.pc = "preflight" /\ sup.st = "none" /\ UNCHANGED <<child, auth>> /\ TypeOK
      /\ child[op] = "none"
  BY DEF StartIntent, NewLedger, Ledgers, Phases, LoginInv, BrokerInv
<1>2. CASE /\ PersistLedger(NewLedger(op), TRUE)
           /\ bk' = [bk EXCEPT !.pc = "await_started", !.mem = NewLedger(op)]
           /\ sup' = NewSupervisor(op) /\ UNCHANGED lease
  <2>1. disk' = NewLedger(op) /\ temps' \subseteq Ops
    BY <1>1, <1>2, Persisted, ZenonT(30)
  <2>2. /\ bk' \in Brokers /\ bk'.pc = "await_started" /\ bk'.active = bk.active
        /\ bk'.mem = NewLedger(op)
    BY <1>1, <1>2, ZenonT(30) DEF TypeOK, Brokers
  <2>3. /\ sup' \in Supervisors /\ sup'.st = "spawning" /\ sup'.op = op
        /\ sup'.events = <<>>
    <3>1. sup' = [st |-> "spawning", op |-> op, cancel |-> FALSE, events |-> <<>>, shown |-> FALSE]
      BY <1>2, ZenonT(30) DEF NewSupervisor, NoSupervisor
    <3>2. <<>> \in Seq(SupervisorEvents)
      OBVIOUS
    <3> QED
      BY <3>1, <3>2 DEF Supervisors
  <2>4. \A e : ~Sent(e)'
    BY <2>3 DEF Sent
  <2>5. TypeOK'
    BY <1>1, <1>2, <2>1, <2>2, <2>3 DEF TypeOK
  <2> QED
    BY <1>1, <1>2, <2>1, <2>2, <2>3, <2>4, <2>5
       DEF LoginInv, BrokerInv, Busy, Supervising, HoldsLedger
<1>3. CASE \E ok \in BOOLEAN : PersistLedger(NewLedger(op), ok) /\ ReturnAndDrop("ok")
  <2>1. disk' \in {disk, NewLedger(op)} /\ temps' \subseteq Ops
    BY <1>1, <1>3, Persisted
  <2>2. FilesOk
    BY <1>1, <2>1 DEF FilesOk, LoginInv, TypeOK, BrokerInv, IsUncertain
  <2> QED
    BY <1>1, <1>3, <2>2, ReturnKeeps DEF Busy
<1> QED
  BY <1>2, <1>3, ZenonT(30) DEF StartIntent

\* The steps that receive the two events of a login that goes on.
LEMMA ReceiveKeeps ==
  LoginInv /\ (ReceiveStarted \/ ReceiveInstructions) => LoginInv'
<1> SUFFICES ASSUME LoginInv, ReceiveStarted \/ ReceiveInstructions
             PROVE  LoginInv'
  OBVIOUS
<1>1. PICK l : \/ ReceiveStarted /\ l = RecordStarted(bk.mem)
               \/ ReceiveInstructions /\ l = Appended(bk.mem, "DeviceInstructions")
  OBVIOUS
<1>2. /\ TypeOK /\ HoldsLedger /\ Supervising /\ Busy /\ ~bk.active /\ sup.events # <<>>
      /\ UNCHANGED <<child, auth>>
  BY ZenonT(30) DEF LoginInv, BrokerInv, ReceiveStarted, ReceiveInstructions, Received, HoldsLedger, Supervising,
         Busy
<1>3. bk.mem = disk /\ disk \in Ledgers /\ disk.op \in Ops /\ lease = "broker"
  BY <1>2 DEF LoginInv, BrokerInv, TypeOK
<1>4. l \in Ledgers /\ l.op = disk.op /\ (ReceiveInstructions => l.started = disk.started)
  <2>1. {"Started", "DeviceInstructions"} \subseteq Phases
    BY DEF Phases
  <2>2. /\ Appended(disk, "Started") \in Ledgers /\ Appended(disk, "Started").op = disk.op
        /\ Appended(disk, "DeviceInstructions") \in Ledgers
        /\ Appended(disk, "DeviceInstructions").op = disk.op
        /\ Appended(disk, "DeviceInstructions").started = disk.started
    BY <1>3, <2>1, AppendedFacts
  <2>3. CASE l = RecordStarted(disk) /\ ReceiveStarted
    <3>1. ~ReceiveInstructions
      BY <2>3 DEF ReceiveStarted, ReceiveInstructions
    <3> QED
      BY <2>2, <2>3, <3>1, ZenonT(30) DEF RecordStarted, Ledgers
  <2> QED
    BY <1>1, <1>3, <2>2, <2>3
<1>5. child[disk.op] # "none" \/ ~l.started
  <2>1. CASE ReceiveStarted
    <3>1. Sent("Started") /\ sup.op = disk.op
      BY <1>2, <2>1, EventsTaken DEF ReceiveStarted, Received, LoginInv, BrokerInv
    <3> QED
      BY <3>1 DEF LoginInv, BrokerInv
  <2> QED
    BY <1>4, <2>1 DEF LoginInv, BrokerInv
<1>6. CASE \E ok \in BOOLEAN : PersistLedger(l, ok) /\ ReturnAndDrop("ok")
  <2>1. disk' \in {disk, l} /\ temps' \subseteq Ops
    BY <1>2, <1>3, <1>4, <1>6, Persisted
  <2>2. FilesOk
    BY <1>2, <1>4, <1>5, <2>1, OwnFiles
  <2> QED
    BY <1>2, <1>6, <2>2, ReturnKeeps
<1>7. CASE /\ PersistLedger(l, TRUE) /\ sup' = Taken /\ UNCHANGED lease
           /\ \/ bk' = [bk EXCEPT !.pc = "await_instructions", !.mem = l]
              \/ bk' = [bk EXCEPT !.pc = "idle", !.active = TRUE, !.mem = l]
  <2>1. disk' = l /\ temps' \subseteq Ops
    BY <1>2, <1>3, <1>4, <1>7, Persisted, ZenonT(30)
  <2>2. /\ bk' \in Brokers /\ bk'.mem = l
        /\ \/ bk'.pc = "await_instructions" /\ ~bk'.active
           \/ bk'.pc = "idle" /\ bk'.active
    BY <1>2, <1>4, <1>7, ZenonT(30) DEF TypeOK, Brokers
  <2>3. /\ sup' \in Supervisors /\ sup'.st = sup.st /\ sup'.op = sup.op
        /\ \A e : Sent(e)' => Sent(e)
    <3>1. Taken.st = sup.st /\ Taken.op = sup.op
      BY <1>2 DEF Taken, TypeOK, Supervisors
    <3>2. Taken \in Supervisors
      BY <1>2, EventsTaken
    <3>3. \A e : (\E i \in 1 .. Len(Taken.events) : Taken.events[i] = e) => Sent(e)
      BY <1>2, EventsTaken
    <3>4. \A e : Sent(e)' => \E i \in 1 .. Len(Taken.events) : Taken.events[i] = e
      BY <1>7 DEF Sent
    <3> QED
      BY <1>7, <3>1, <3>2, <3>3, <3>4
  <2>4. TypeOK'
    BY <1>2, <1>4, <1>7, <2>1, <2>2, <2>3 DEF TypeOK
  <2>5. BrokerInv'
    BY <1>2, <1>3, <1>4, <1>5, <1>7, <2>1, <2>2, <2>3
       DEF LoginInv, BrokerInv, Busy, Supervising, HoldsLedger
  <2> QED
    BY <2>4, <2>5 DEF LoginInv
<1> QED
  BY <1>1, <1>6, <1>7, ZenonT(30) DEF ReceiveStarted, ReceiveInstructions

\* A finishing event is taken: the supervisor is done and the process gone.
LEMMA TerminalKeeps ==
  LoginInv /\ (ReceiveTerminal \/ Status) => LoginInv'
<1> SUFFICES ASSUME LoginInv, ReceiveTerminal \/ Status
             PROVE  LoginInv'
  OBVIOUS
<1>1. /\ TypeOK /\ Supervising /\ HoldsLedger /\ Busy /\ TakeTerminal /\ sup.events # <<>>
      /\ sup' = Taken /\ UNCHANGED <<disk, temps, child, auth, lease>>
  BY DEF LoginInv, ReceiveTerminal, Status, TakeTerminal, Supervising, HoldsLedger, Busy
<1>2. /\ Sent(Head(sup.events)) /\ Head(sup.events) \in SupervisorEvents
      /\ Taken \in Supervisors
  BY <1>1, EventsTaken
<1>3. \A e : Sent(e)' => Sent(e)
  <2>1. \A e : (\E i \in 1 .. Len(Taken.events) : Taken.events[i] = e) => Sent(e)
    BY <1>1, EventsTaken
  <2> QED
    BY <1>1, <2>1, ZenonT(30) DEF Sent
<1>4. sup.st = "done" /\ sup.op = disk.op /\ disk.op \in Ops /\ bk.mem = disk /\ lease = "broker"
  BY <1>1, <1>2 DEF TakeTerminal, LoginInv, BrokerInv
<1>5. child[disk.op] # "alive" /\ (disk.started => child[disk.op] = "dead")
  BY <1>1, <1>4 DEF LoginInv, BrokerInv, TypeOK
<1>6. sup'.st = "done" /\ sup'.op = sup.op
  BY <1>1, <1>4 DEF Taken, TypeOK, Supervisors
<1>7. bk' \in Brokers /\ bk'.pc = "resolve" /\ ~bk'.active /\ bk'.mem = disk
  BY <1>1, <1>2, <1>4, ZenonT(30) DEF TakeTerminal, TypeOK, Brokers
<1>8. TypeOK'
  BY <1>1, <1>2, <1>7 DEF TypeOK
<1>9. BrokerInv'
  BY <1>1, <1>3, <1>4, <1>5, <1>6, <1>7
     DEF LoginInv, BrokerInv, Busy, Supervising, HoldsLedger, IsUncertain
<1> QED
  BY <1>8, <1>9 DEF LoginInv

\* The steps that end a call whatever they store.
LEMMA EndingKeeps ==
  LoginInv /\ (\/ StartRefused \/ ReceiveFailed \/ ReceiveTimeout \/ SettleKnown \/ SettleFailed
           \/ CancelTimeout \/ DropBroker) => LoginInv'
<1>1. ASSUME LoginInv, StartRefused \/ CancelTimeout
      PROVE  LoginInv'
  <2>1. /\ Busy /\ ReturnAndDrop("ok") /\ UNCHANGED <<disk, temps, child, auth>>
    BY <1>1 DEF StartRefused, CancelTimeout, Busy
  <2> QED
    BY <1>1, <2>1, SameFiles, ReturnKeeps
<1>2. ASSUME LoginInv, ReceiveTimeout \/ SettleFailed \/ DropBroker
      PROVE  LoginInv'
  <2>1. /\ Busy /\ HoldsLedger /\ ReturnAndDrop("ok") /\ UNCHANGED <<child, auth>>
        /\ \E l \in Ledgers, ok \in BOOLEAN : MarkUnknown(bk.mem, l, ok)
    BY <1>2 DEF ReceiveTimeout, SettleFailed, DropBroker, Busy, HoldsLedger, Supervising
  <2> QED
    BY <1>2, <2>1, MarkAndReturn, ReturnKeeps
<1>3. ASSUME LoginInv, NEW phase \in Phases, NEW ok \in BOOLEAN, HoldsLedger, UNCHANGED child,
             PersistLedger(Appended(bk.mem, phase), ok)
      PROVE  FilesOk
  <2>1. TypeOK /\ bk.mem = disk /\ disk \in Ledgers /\ disk.op \in Ops
    BY <1>3 DEF LoginInv, BrokerInv, TypeOK
  <2>2. PICK l : l = Appended(disk, phase)
    OBVIOUS
  <2>3. l \in Ledgers /\ l.op = disk.op /\ l.started = disk.started
    BY <2>1, <2>2, AppendedFacts
  <2>4. disk' \in {disk, l} /\ temps' \subseteq Ops
    BY <1>3, <2>1, <2>2, <2>3, Persisted
  <2>5. l.started => child[disk.op] # "none"
    BY <1>3, <2>3 DEF LoginInv, BrokerInv
  <2> QED
    BY <1>3, <2>3, <2>4, <2>5, OwnFiles
<1>4. ASSUME LoginInv, ReceiveFailed
      PROVE  LoginInv'
  <2>1. /\ Busy /\ HoldsLedger /\ ReturnAndDrop("ok") /\ UNCHANGED <<child, auth>>
        /\ \E ok \in BOOLEAN : PersistLedger(Appended(bk.mem, "Failed"), ok)
    BY <1>4 DEF ReceiveFailed, Busy, HoldsLedger, Supervising
  <2>2. "Failed" \in Phases
    BY DEF Phases
  <2> QED
    BY <1>3, <1>4, <2>1, <2>2, ReturnKeeps
<1>5. ASSUME LoginInv, SettleKnown
      PROVE  LoginInv'
  <2>1. Busy /\ HoldsLedger /\ UNCHANGED <<child, auth>> /\ PinnedStatus \in Phases
    BY <1>5 DEF SettleKnown, Busy, HoldsLedger, PinnedStatus, Phases
  <2>2. CASE ReturnAndDrop("ledger_invalid") /\ UNCHANGED <<disk, temps>>
    BY <1>5, <2>1, <2>2, SameFiles, ReturnKeeps
  <2>3. CASE \E ok \in BOOLEAN : /\ PersistLedger(Appended(bk.mem, PinnedStatus), ok)
                                 /\ ReturnAndDrop(IF ok THEN "ok" ELSE "ledger_unavailable")
    <3>1. PICK ok \in BOOLEAN, res \in {"ok", "ledger_unavailable", "ledger_invalid"} :
            PersistLedger(Appended(bk.mem, PinnedStatus), ok) /\ ReturnAndDrop(res)
      BY <2>3
    <3>2. FilesOk
      BY <1>3, <1>5, <2>1, <3>1
    <3> QED
      BY <1>5, <2>1, <3>1, <3>2, ReturnKeeps
  <2> QED
    BY <1>5, <2>2, <2>3 DEF SettleKnown
<1> QED
  BY <1>1, <1>2, <1>4, <1>5

\* The steps that go on to a status command: the process is gone before it is asked.
LEMMA SettlingKeeps ==
  LoginInv /\ (Resolve \/ ReconcileLoad) => LoginInv'
<1>1. ASSUME LoginInv, NEW l \in Ledgers, Continue("settle", l), disk' = l, l.op \in Ops,
             FilesOk, Busy, ~bk.active, sup.st \in {"none", "done"}, UNCHANGED <<child, auth>>,
             l.started => child[l.op] = "dead"
      PROVE  LoginInv'
  <2>1. UNCHANGED <<sup, lease>> /\ TypeOK
    BY <1>1 DEF Continue, LoginInv
  <2>2. bk' \in Brokers /\ bk'.pc = "settle" /\ ~bk'.active /\ bk'.mem = l
    BY <1>1, <2>1, ZenonT(30) DEF Continue, TypeOK, Brokers
  <2>3. \A e : Sent(e)' <=> Sent(e)
    BY <2>1 DEF Sent
  <2>4. TypeOK'
    BY <1>1, <2>1, <2>2 DEF TypeOK, FilesOk
  <2>5. BrokerInv'
    BY <1>1, <2>1, <2>2, <2>3 DEF LoginInv, BrokerInv, Busy, Supervising, HoldsLedger, FilesOk
  <2> QED
    BY <2>4, <2>5 DEF LoginInv
<1>2. ASSUME LoginInv, Resolve
      PROVE  LoginInv'
  <2>1. /\ Busy /\ HoldsLedger /\ ~bk.active /\ UNCHANGED <<child, auth>>
        /\ bk.mem = disk /\ disk \in Ledgers /\ disk.op \in Ops
        /\ sup.st \in {"none", "done"} /\ (disk.started => child[disk.op] = "dead")
    BY <1>2 DEF Resolve, LoginInv, BrokerInv, TypeOK, Busy, HoldsLedger
  <2>2. CASE Continue("settle", bk.mem) /\ UNCHANGED <<disk, temps>>
    BY <1>1, <1>2, <2>1, <2>2, SameFiles
  <2>3. CASE \E l \in Ledgers, ok \in BOOLEAN :
               /\ MarkUnknown(bk.mem, l, ok)
               /\ (ok /\ Continue("settle", l)) \/ ReturnAndDrop("ok")
    <3>1. PICK l \in Ledgers, ok \in BOOLEAN :
            /\ MarkUnknown(bk.mem, l, ok)
            /\ (ok /\ Continue("settle", l)) \/ ReturnAndDrop("ok")
      BY <2>3
    <3>2. /\ FilesOk /\ l.op = disk.op /\ l.started = disk.started /\ (ok => disk' = l)
      BY <1>2, <2>1, <3>1, MarkAndReturn
    <3>3. CASE ok /\ Continue("settle", l)
      BY <1>1, <1>2, <2>1, <3>2, <3>3
    <3>4. CASE ReturnAndDrop("ok")
      BY <1>2, <2>1, <3>2, <3>4, ReturnKeeps
    <3> QED
      BY <3>1, <3>3, <3>4
  <2> QED
    BY <1>2, <2>2, <2>3 DEF Resolve
<1>3. ASSUME LoginInv, ReconcileLoad
      PROVE  LoginInv'
  <2>1. /\ Busy /\ ~bk.active /\ sup.st = "none" /\ UNCHANGED <<disk, temps, child, auth>>
        /\ disk \in Ledgers
    BY <1>3 DEF ReconcileLoad, LoginInv, BrokerInv, TypeOK, Busy
  <2>2. FilesOk
    BY <1>3, <2>1, SameFiles
  <2>3. CASE ReturnAndDrop("ok")
    BY <1>3, <2>1, <2>2, <2>3, ReturnKeeps
  <2>4. CASE /\ IsUncertain(disk) /\ Continue("settle", disk)
             /\ (disk.started \/ bk.wait) => child[disk.op] # "alive"
    <3>1. disk.op \in Ops /\ (disk.started => child[disk.op] = "dead")
      BY <1>3, <2>4 DEF LoginInv, BrokerInv, TypeOK
    <3> QED
      BY <1>1, <1>3, <2>1, <2>2, <2>4, <3>1
  <2> QED
    BY <1>3, <2>3, <2>4 DEF ReconcileLoad
<1> QED
  BY <1>2, <1>3

\* cancel() of a pending login.
LEMMA CancelKeeps == LoginInv /\ Cancel => LoginInv'
<1> SUFFICES ASSUME LoginInv, Cancel
             PROVE  LoginInv'
  OBVIOUS
<1>1. /\ Busy /\ Supervising /\ HoldsLedger /\ bk.pc = "idle" /\ bk.active
      /\ TypeOK /\ UNCHANGED <<child, auth>>
  BY SMTT(30) DEF Cancel, LoginInv, Busy, Supervising, HoldsLedger
<1>2. PICK l \in Ledgers, ok \in BOOLEAN :
        /\ MarkUnknown(bk.mem, l, ok)
        /\ \/ /\ ok /\ bk' = [bk EXCEPT !.pc = "cancel_wait", !.active = FALSE, !.mem = l]
              /\ sup' = [sup EXCEPT !.cancel = TRUE] /\ UNCHANGED lease
           \/ ReturnAndDrop("ok")
  BY ZenonT(30) DEF Cancel
<1>3. FilesOk /\ l.op = disk.op /\ l.started = disk.started /\ (ok => disk' = l)
  BY <1>1, <1>2, MarkAndReturn
<1>4. CASE ReturnAndDrop("ok")
  BY <1>1, <1>3, <1>4, ReturnKeeps
<1>5. CASE /\ ok /\ bk' = [bk EXCEPT !.pc = "cancel_wait", !.active = FALSE, !.mem = l]
           /\ sup' = [sup EXCEPT !.cancel = TRUE] /\ UNCHANGED lease
  <2>1. bk' \in Brokers /\ bk'.pc = "cancel_wait" /\ ~bk'.active /\ bk'.mem = l
    BY <1>1, <1>5, ZenonT(30) DEF TypeOK, Brokers
  <2>2. sup' \in Supervisors /\ sup'.st = sup.st /\ sup'.op = sup.op /\ sup'.events = sup.events
    BY <1>1, <1>5, ZenonT(30) DEF TypeOK, Supervisors
  <2>3. \A e : Sent(e)' <=> Sent(e)
    BY <2>2 DEF Sent
  <2>4. TypeOK'
    BY <1>1, <1>3, <1>5, <2>1, <2>2 DEF TypeOK, FilesOk
  <2>5. BrokerInv'
    BY <1>1, <1>3, <1>5, <2>1, <2>2, <2>3
       DEF LoginInv, BrokerInv, Busy, Supervising, HoldsLedger, FilesOk
  <2> QED
    BY <2>4, <2>5 DEF LoginInv
<1> QED
  BY <1>2, <1>4, <1>5

\* The thread joined, the process crashed, and the cloud commands.
LEMMA LeaseKeeps ==
  LoginInv /\ (Joined \/ Crash \/ CloudAcquire \/ CloudRelease) => LoginInv'
<1>1. NoSupervisor \in Supervisors /\ NoSupervisor.events = <<>> /\ NoSupervisor.st = "none"
  <2>1. <<>> \in Seq(SupervisorEvents)
    OBVIOUS
  <2> QED
    BY <2>1 DEF NoSupervisor, Supervisors
<1>2. IdleBroker \in Brokers /\ IdleBroker.pc = "idle" /\ ~IdleBroker.active
  BY DEF IdleBroker, Brokers, NoLedger, Ledgers, Phases, SupervisorEvents
<1>3. ASSUME LoginInv, Joined \/ Crash
      PROVE  LoginInv'
  <2>1. /\ UNCHANGED <<disk, temps, child, auth>> /\ sup' = NoSupervisor
        /\ lease' \in {"free", "broker", "cloud"} /\ TypeOK
    BY <1>3 DEF Joined, Crash, LoginInv, TypeOK
  <2>2. bk' \in Brokers /\ bk'.pc = "idle" /\ ~bk'.active
    BY <1>2, <1>3 DEF Joined, Crash, LoginInv, TypeOK, BrokerInv, Brokers
  <2>3. \A e : ~Sent(e)'
    BY <1>1, <2>1 DEF Sent
  <2>4. TypeOK'
    BY <1>1, <2>1, <2>2 DEF TypeOK
  <2>5. BrokerInv'
    BY <1>1, <1>3, <2>1, <2>2, <2>3, SMTT(20)
       DEF LoginInv, BrokerInv, Busy, Supervising, HoldsLedger, IsUncertain
  <2> QED
    BY <2>4, <2>5 DEF LoginInv
<1>4. ASSUME LoginInv, CloudAcquire \/ CloudRelease
      PROVE  LoginInv'
  <2>1. /\ UNCHANGED <<disk, temps, sup, child, auth, bk>> /\ lease # "broker"
        /\ lease' \in {"free", "cloud"}
    BY <1>4 DEF CloudAcquire, CloudRelease, supVars
  <2>2. \A e : Sent(e)' <=> Sent(e)
    BY <2>1 DEF Sent
  <2> QED
    BY <1>4, <2>1, <2>2 DEF LoginInv, TypeOK, BrokerInv, Busy, Supervising, HoldsLedger, IsUncertain
<1> QED
  BY <1>3, <1>4

\* The supervisor thread and the login processes.
LEMMA SupervisorKeeps ==
  LoginInv /\ SupervisorNext /\ UNCHANGED <<disk, temps, bk, lease>> => LoginInv'
<1> SUFFICES ASSUME LoginInv, UNCHANGED <<disk, temps, bk, lease>>, SupervisorNext
             PROVE  LoginInv'
  OBVIOUS
<1>1. TypeOK
  BY DEF LoginInv
<1>2. ASSUME NEW event \in SupervisorEvents, NEW st \in {"running", "done"}, sup.st # "none",
             sup'.events = Append(sup.events, event), sup' \in Supervisors, sup'.st = st,
             sup'.op = sup.op, child' \in [Ops -> {"none", "alive", "dead"}], UNCHANGED auth,
             sup.st # "done", event \in Finishing => st = "done",
             event = "Started" => child'[sup.op] # "none",
             st = "done" => child'[sup.op] # "alive",
             child[sup.op] # "none" => child'[sup.op] # "none",
             \A o \in Ops : o # sup.op => child'[o] = child[o]
      PROVE  LoginInv'
  <2>1. \A e : Sent(e)' => Sent(e) \/ e = event
    <3>1. \A e : (\E i \in 1 .. Len(Append(sup.events, event)) :
                      Append(sup.events, event)[i] = e) => Sent(e) \/ e = event
      BY <1>1, EventsSent
    <3> QED
      BY <1>2, <3>1 DEF Sent
  <2>2. TypeOK'
    BY <1>1, <1>2, SMTT(20) DEF TypeOK
  <2>3. BrokerInv'
    BY <1>1, <1>2, <2>1 DEF LoginInv, BrokerInv, TypeOK, Busy, Supervising, HoldsLedger, IsUncertain
  <2> QED
    BY <2>2, <2>3 DEF LoginInv
<1>3. ASSUME NEW event \in Finishing, Finish(event)
      PROVE  /\ event \in SupervisorEvents /\ event # "Started"
             /\ sup' \in Supervisors /\ sup'.st = "done" /\ sup'.op = sup.op
             /\ sup'.events = Append(sup.events, event)
  <2>1. event \in SupervisorEvents /\ event # "Started"
    BY <1>3 DEF SupervisorEvents, Finishing
  <2>2. Append(sup.events, event) \in Seq(SupervisorEvents)
    BY <1>1, <2>1, EventsSent
  <2> QED
    BY <1>1, <1>3, <2>1, <2>2, ZenonT(30) DEF Finish, TypeOK, Supervisors
<1>4. sup.st # "none" => sup.op \in Ops
  BY DEF LoginInv, BrokerInv
<1>5. {"Exited", "ExitedBadly", "Deadline", "Canceled", "Uncertain", "Failed"} \subseteq Finishing
  BY DEF Finishing
<1>6. ASSUME NEW event \in Finishing, Terminate(event), sup.st = "running"
      PROVE  LoginInv'
  BY <1>1, <1>2, <1>3, <1>4, <1>6 DEF Terminate, TypeOK
<1>7. CASE SupervisorSpawn
  <2>1. ASSUME sup' = [sup EXCEPT !.st = "running", !.events = Append(@, "Started")]
        PROVE  /\ sup' \in Supervisors /\ sup'.st = "running" /\ sup'.op = sup.op
               /\ sup'.events = Append(sup.events, "Started")
               /\ "Started" \in SupervisorEvents \ Finishing
    <3>1. "Started" \in SupervisorEvents \ Finishing
      BY DEF SupervisorEvents, Finishing
    <3>2. Append(sup.events, "Started") \in Seq(SupervisorEvents)
      BY <1>1, <3>1, EventsSent
    <3> QED
      BY <1>1, <2>1, <3>1, <3>2, ZenonT(30) DEF TypeOK, Supervisors
  <2>2. CASE Finish("Failed") /\ UNCHANGED child
    <3>1. child[sup.op] # "alive"
      BY <1>7 DEF SupervisorSpawn, LoginInv, BrokerInv
    <3> QED
      BY <1>1, <1>2, <1>3, <1>4, <1>5, <1>7, <2>2, <3>1 DEF SupervisorSpawn, TypeOK
  <2>3. CASE Finish("Uncertain") /\ child' = [child EXCEPT ![sup.op] = "dead"]
    BY <1>1, <1>2, <1>3, <1>4, <1>5, <1>7, <2>3 DEF SupervisorSpawn, TypeOK
  <2>4. CASE /\ sup' = [sup EXCEPT !.st = "running", !.events = Append(@, "Started")]
             /\ child' = [child EXCEPT ![sup.op] = "alive"]
    BY <1>1, <1>2, <1>4, <1>7, <2>1, <2>4 DEF SupervisorSpawn, TypeOK
  <2> QED
    BY <1>7, <2>2, <2>3, <2>4 DEF SupervisorSpawn
<1>8. CASE SupervisorShow
  <2>1. "Instructions" \in SupervisorEvents \ Finishing
    BY DEF SupervisorEvents, Finishing
  <2>2. Append(sup.events, "Instructions") \in Seq(SupervisorEvents)
    BY <1>1, <2>1, EventsSent
  <2>3. /\ sup' \in Supervisors /\ sup'.st = "running" /\ sup'.op = sup.op
        /\ sup'.events = Append(sup.events, "Instructions")
    BY <1>1, <1>8, <2>2, ZenonT(30) DEF SupervisorShow, TypeOK, Supervisors
  <2> QED
    BY <1>1, <1>2, <1>4, <1>8, <2>1, <2>3 DEF SupervisorShow, TypeOK
<1>9. CASE SupervisorCancel
  BY <1>5, <1>6, <1>9 DEF SupervisorCancel
<1>10. CASE SupervisorDeadline
  BY <1>5, <1>6, <1>10 DEF SupervisorDeadline
<1>11. CASE SupervisorExit
  BY <1>1, <1>2, <1>3, <1>4, <1>5, <1>11, SMTT(20) DEF SupervisorExit, TypeOK
<1>12. CASE ChildAuthorizes
  <2>1. UNCHANGED <<sup, child>> /\ auth' = TRUE
    BY <1>12 DEF ChildAuthorizes
  <2>2. \A e : Sent(e)' <=> Sent(e)
    BY <2>1, SMTT(20) DEF Sent
  <2> QED
    BY <2>1, <2>2 DEF LoginInv, TypeOK, BrokerInv, Busy, Supervising, HoldsLedger, IsUncertain
<1>13. ASSUME NEW o \in Ops, ChildEnds(o)
       PROVE  LoginInv'
  <2>1. /\ UNCHANGED <<sup, auth>> /\ child[o] = "alive" /\ child' = [child EXCEPT ![o] = "dead"]
    BY <1>13 DEF ChildEnds
  <2>2. \A e : Sent(e)' <=> Sent(e)
    BY <2>1 DEF Sent
  <2>3. \A p \in Ops : child'[p] = IF p = o THEN "dead" ELSE child[p]
    BY <1>1, <2>1 DEF TypeOK
  <2> QED
    BY <1>1, <1>4, <2>1, <2>2, <2>3, SMTT(20) DEF LoginInv, TypeOK, BrokerInv, Busy, Supervising, HoldsLedger, IsUncertain
<1> QED
  BY <1>7, <1>8, <1>9, <1>10, <1>11, <1>12, <1>13 DEF SupervisorNext, SupervisorThread

----------------------------------------------------------------------------
\* Types and agreements of the broker, its supervisor thread and the ledger hold at every
\* point of start_device_login, status, reconcile and cancel: the other theorems rest on it.
THEOREM LoginInvariant == Spec => []LoginInv
<1>1. Init => LoginInv
  <2> SUFFICES ASSUME Init
               PROVE  LoginInv
    OBVIOUS
  <2>1. <<>> \in Seq(SupervisorEvents)
    OBVIOUS
  <2>2. /\ disk = NoLedger /\ temps = {} /\ lease = "free" /\ auth = FALSE
        /\ child = [o \in Ops |-> "none"] /\ sup = NoSupervisor /\ bk = IdleBroker
    BY DEF Init, InitLedger, InitSupervisor
  <2>3. NoSupervisor \in Supervisors /\ NoSupervisor.st = "none" /\ NoSupervisor.events = <<>>
    BY <2>1 DEF NoSupervisor, Supervisors
  <2>4. IdleBroker \in Brokers /\ IdleBroker.pc = "idle" /\ ~IdleBroker.active
    BY DEF IdleBroker, Brokers, NoLedger, Ledgers, Phases, SupervisorEvents
  <2>5. NoLedger \in Ledgers /\ ~NoLedger.started /\ ~IsUncertain(NoLedger)
    BY DEF NoLedger, Ledgers, Phases, IsUncertain
  <2>6. \A e : ~Sent(e)
    BY <2>2, <2>3 DEF Sent
  <2>7. TypeOK
    BY <2>2, <2>3, <2>4, <2>5, ZenonT(30) DEF TypeOK
  <2>8. BrokerInv
    BY <2>2, <2>3, <2>4, <2>5, <2>6 DEF BrokerInv, Busy, Supervising, HoldsLedger
  <2> QED
    BY <2>7, <2>8 DEF LoginInv
<1>2. LoginInv /\ [Next]_vars => LoginInv'
  <2> SUFFICES ASSUME LoginInv, [Next]_vars
               PROVE  LoginInv'
    OBVIOUS
  <2>1. CASE Calls
    BY <2>1, AcquireKeeps, TerminalKeeps, CancelKeeps, EndingKeeps DEF Calls
  <2>2. CASE Steps
    BY <2>2, EndingKeeps, IntentKeeps, ReceiveKeeps, TerminalKeeps, SettlingKeeps, LeaseKeeps, SMTT(20)
       DEF Steps
  <2>3. CASE UNCHANGED vars
    <3>1. \A e : Sent(e)' <=> Sent(e)
      BY <2>3 DEF vars, Sent
    <3> QED
      BY <2>3, <3>1
         DEF vars, LoginInv, TypeOK, BrokerInv, Busy, Supervising, HoldsLedger, IsUncertain
  <2> QED
    BY <2>1, <2>2, <2>3, SupervisorKeeps, LeaseKeeps DEF Next
<1> QED
  BY <1>1, <1>2, PTL DEF Spec, LoginInv

\* A supervised login runs only under the credential-scope lease, whatever call started,
\* canceled, timed out or dropped it: for any number of operations.
THEOREM LoginsAreExclusive == Spec => []LoginUnderLease
<1>1. BrokerInv => LoginUnderLease
  BY SMTT(20) DEF BrokerInv, LoginUnderLease
<1> QED
  BY <1>1, LoginInvariant, PTL DEF LoginInv

\* What a step may do to the durable record: nothing; begin an operation over a settled one;
\* or write the operation's own record, and then a verdict only over a process that is gone.
LEMMA RecordSteps ==
  ASSUME LoginInv, [Next]_vars
  PROVE  \/ disk' = disk
         \/ ~IsUncertain(disk) /\ \E op \in Ops : disk' = NewLedger(op)
         \/ /\ disk'.op = disk.op
            /\ (~IsUncertain(disk') /\ disk.started) => child[disk.op] = "dead"
<1> DEFINE Goal == \/ disk' = disk
                   \/ ~IsUncertain(disk) /\ \E op \in Ops : disk' = NewLedger(op)
                   \/ /\ disk'.op = disk.op
                      /\ (~IsUncertain(disk') /\ disk.started) => child[disk.op] = "dead"
<1>1. CASE UNCHANGED disk
  BY <1>1
<1>2. ASSUME NEW op \in Ops, StartIntent(op)
      PROVE  Goal
  <2>1. NewLedger(op) \in Ledgers /\ NewLedger(op).op \in Ops /\ TypeOK
    BY DEF NewLedger, Ledgers, Phases, LoginInv
  <2>2. disk' \in {disk, NewLedger(op)} /\ ~IsUncertain(disk)
    BY <1>2, <2>1, Persisted, ZenonT(30) DEF StartIntent
  <2> QED
    BY <2>2
<1>3. ASSUME NEW l \in Ledgers, NEW ok \in BOOLEAN, MarkUnknown(bk.mem, l, ok), HoldsLedger
      PROVE  Goal
  <2>1. TypeOK /\ bk.mem = disk /\ disk.op \in Ops
    BY <1>3 DEF LoginInv, BrokerInv
  <2>2. l.op = disk.op /\ IsUncertain(l) /\ disk' \in {disk, l}
    BY <1>3, <2>1, Marked
  <2> QED
    BY <2>2, SMTT(20)
<1>4. ASSUME NEW phase \in Phases, NEW ok \in BOOLEAN, HoldsLedger, TypeOK, bk.mem = disk,
             disk \in Ledgers, disk.op \in Ops, PersistLedger(Appended(bk.mem, phase), ok)
      PROVE  disk' = disk \/ (disk'.op = disk.op /\ disk'.phase = phase)
  BY <1>4, AppendedFacts, Persisted
<1>5. HoldsLedger => TypeOK /\ bk.mem = disk /\ disk \in Ledgers /\ disk.op \in Ops
  BY DEF LoginInv, BrokerInv, TypeOK
<1>6. CASE ReceiveStarted
  <2> DEFINE l == RecordStarted(bk.mem)
  <2>1. PICK ok \in BOOLEAN : PersistLedger(l, ok)
    BY <1>6, ZenonT(30) DEF ReceiveStarted
  <2>2. HoldsLedger
    BY <1>6 DEF ReceiveStarted, HoldsLedger, Supervising
  <2>3. l \in Ledgers /\ l.op = disk.op /\ l.phase = "Started"
    BY <1>5, <2>2, ZenonT(30) DEF RecordStarted, Appended, Ledgers, Phases
  <2> HIDE DEF l
  <2>4. disk' \in {disk, l}
    BY <1>5, <2>1, <2>2, <2>3, Persisted
  <2> QED
    BY <2>3, <2>4 DEF IsUncertain
<1>7. CASE ReceiveInstructions
  <2>1. /\ HoldsLedger /\ "DeviceInstructions" \in Phases
        /\ \E ok \in BOOLEAN : PersistLedger(Appended(bk.mem, "DeviceInstructions"), ok)
    BY <1>7, ZenonT(30) DEF ReceiveInstructions, HoldsLedger, Supervising, Phases
  <2> QED
    BY <1>4, <1>5, <2>1 DEF IsUncertain
<1>8. CASE ReceiveFailed
  <2>1. /\ HoldsLedger /\ "Failed" \in Phases /\ ~disk.started
        /\ \E ok \in BOOLEAN : PersistLedger(Appended(bk.mem, "Failed"), ok)
    BY <1>8, SMTT(20) DEF ReceiveFailed, HoldsLedger, Supervising, Phases, LoginInv, BrokerInv
  <2> QED
    BY <1>4, <1>5, <2>1, SMTT(20)
<1>9. CASE SettleKnown
  <2>1. /\ HoldsLedger /\ PinnedStatus \in Phases /\ (disk.started => child[disk.op] = "dead")
        /\ \/ disk' = disk
           \/ \E ok \in BOOLEAN : PersistLedger(Appended(bk.mem, PinnedStatus), ok)
    BY <1>9 DEF SettleKnown, HoldsLedger, PinnedStatus, Phases, LoginInv, BrokerInv
  <2> QED
    BY <1>4, <1>5, <2>1, SMTT(20)
<1>10. CASE ReceiveTimeout \/ SettleFailed \/ DropBroker \/ Cancel
  <2>1. HoldsLedger /\ \E l \in Ledgers, ok \in BOOLEAN : MarkUnknown(bk.mem, l, ok)
    BY <1>10, ZenonT(30) DEF ReceiveTimeout, SettleFailed, DropBroker, Cancel, HoldsLedger, Supervising
  <2> QED
    BY <1>3, <2>1
<1>11. CASE Resolve
  <2>1. \/ disk' = disk
        \/ HoldsLedger /\ \E l \in Ledgers, ok \in BOOLEAN : MarkUnknown(bk.mem, l, ok)
    BY <1>11, SMTT(30) DEF Resolve, HoldsLedger
  <2> QED
    BY <1>3, <2>1
<1>12. CASE \/ StartAcquire \/ (\E wait \in BOOLEAN : ReconcileAcquire(wait)) \/ Status \/ StartRefused
           \/ ReceiveTerminal \/ ReconcileLoad \/ CancelTimeout \/ Joined \/ Crash
           \/ CloudAcquire \/ CloudRelease
  BY <1>1, <1>12, ZenonT(30) DEF StartAcquire, ReconcileAcquire, Status, StartRefused, ReceiveTerminal, TakeTerminal,
                     ReconcileLoad, CancelTimeout, Joined, Crash, CloudAcquire, CloudRelease
<1> QED
  BY <1>1, <1>2, <1>6, <1>7, <1>8, <1>9, <1>10, <1>11, <1>12 DEF Next, Calls, Steps, vars

\* start_device_login never replaces the record of a login whose outcome is unknown.
THEOREM UnknownIsNotRetried == Spec => NoRetryWhileUnknown
<1>1. LoginInv /\ [Next]_vars => [disk'.op # disk.op => ~IsUncertain(disk)]_vars
  BY RecordSteps
<1> QED
  BY <1>1, LoginInvariant, PTL DEF Spec, NoRetryWhileUnknown, LoginInv

\* A login whose process was recorded is judged only when that process is gone, by the
\* broker that started it or by the one that reconciles after a crash.
THEOREM JudgedAfterDeath == Spec => VerdictAfterDeath
<1>1. LoginInv /\ [Next]_vars =>
        [IsUncertain(disk) /\ ~IsUncertain(disk') /\ disk.started => child[disk.op] = "dead"]_vars
  BY RecordSteps
<1> QED
  BY <1>1, LoginInvariant, PTL DEF Spec, VerdictAfterDeath, LoginInv
====================================================================================
