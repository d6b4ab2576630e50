----------------------- MODULE CloudOrchestratorProofs ------------------------
(***************************************************************************)
(* Proofs that CloudOrchestrator keeps its safety properties for any sets  *)
(* of operations, tasks and cancelers and any history limits of at least   *)
(* four.  First the operators of SubmitLedger and LifecycleLedger: each    *)
(* lemma says what one update of a valid record leaves, a valid record and *)
(* the fields that the later proofs look at.  Then IInv holds initially    *)
(* and is kept by construction, a crash, cancel(), inspect() and the       *)
(* provider; by start() and every step of the submit() it runs; and by     *)
(* reconcile_unknown() and resolve_unknown().  The properties follow.      *)
(* Last, every step is one that CloudContract allows.                      *)
(***************************************************************************)
EXTENDS OrchestratorRefinement, TLAPS


----------------------------------------------------------------------------
\* append changes the history alone, by one phase at its end.
LEMMA AppendedFacts ==
  ASSUME NEW l \in SubmitLedgers, NEW p \in SubmitPhases
  PROVE  /\ Appended(l, p) \in SubmitLedgers
         /\ Appended(l, p).op = l.op /\ Appended(l, p).task = l.task
         /\ Appended(l, p).process = l.process
         /\ Appended(l, p).candidates = l.candidates
         /\ Appended(l, p).complete = l.complete
         /\ Appended(l, p).history = Append(l.history, p)
         /\ Len(Appended(l, p).history) = Len(l.history) + 1
         /\ Latest(Appended(l, p)) = p
         /\ \A i \in 1..Len(l.history) : Appended(l, p).history[i] = l.history[i]
         /\ \A q : Contains(Appended(l, p), q) <=> (Contains(l, q) \/ q = p)
<1> DEFINE m == Appended(l, p)
<1>1. /\ m.op = l.op /\ m.task = l.task /\ m.process = l.process
      /\ m.candidates = l.candidates /\ m.complete = l.complete
      /\ m.history = Append(l.history, p)
  BY Zenon DEF SubmitLedgers, Appended
<1>2. l.history \in Seq(SubmitPhases)
  BY Zenon DEF SubmitLedgers
<1>3. /\ m.history \in Seq(SubmitPhases) /\ Len(m.history) = Len(l.history) + 1
      /\ m.history[Len(l.history) + 1] = p
      /\ \A i \in 1..Len(l.history) : m.history[i] = l.history[i]
      /\ Len(l.history) \in Nat
  BY <1>1, <1>2
<1>4. m \in SubmitLedgers
  BY <1>1, <1>3, ZenonT(30) DEF SubmitLedgers, Appended
<1>5. ASSUME NEW q
      PROVE  Contains(m, q) <=> (Contains(l, q) \/ q = p)
  <2> DEFINE n == Len(l.history)
  <2> HIDE DEF m
  <2>1. n \in Nat /\ Len(m.history) = n + 1 /\ m.history[n + 1] = p
        /\ \A i \in 1..n : m.history[i] = l.history[i]
    BY <1>3, Zenon
  <2>2. Contains(m, q) <=> \E i \in 1..(n + 1) : m.history[i] = q
    BY <2>1, Zenon DEF Contains
  <2>3. Contains(l, q) <=> \E i \in 1..n : l.history[i] = q
    BY Zenon DEF Contains
  <2> HIDE DEF n
  <2> QED BY <2>1, <2>2, <2>3
<1>6. Latest(m) = p
  BY <1>3, Zenon DEF Latest
<1> QED BY <1>1, <1>3, <1>4, <1>5, <1>6, Zenon

\* The phase of a record is one of the phases, and an interrupted one is early.
LEMMA LatestFacts ==
  ASSUME NEW l, SubmitOk(l)
  PROVE  /\ Latest(l) \in SubmitPhases
         /\ Contains(l, Latest(l))
         /\ Latest(l) = "Intent" => Len(l.history) = 1
         /\ Latest(l) = "Authorized" => Len(l.history) = 2
         /\ Latest(l) = "Started" => Len(l.history) = 3
<1> DEFINE n == Len(l.history)
<1>1. /\ l.history \in Seq(SubmitPhases) /\ n \in Nat /\ n >= 1
      /\ l.history[1] = "Intent"
      /\ \A i \in 1..(n - 1) : l.history[i + 1] \in SubmitSuccessors(l.history[i])
  BY SubmitLedgerAssumption DEF SubmitOk, SubmitLedgers, SubmitValid
<1>2. Latest(l) = l.history[n] /\ Latest(l) \in SubmitPhases
  BY <1>1 DEF Latest
<1>3. Contains(l, Latest(l))
  BY <1>1, <1>2 DEF Contains
<1>4. \A i \in 1..(n - 1) :
        /\ l.history[i + 1] # "Intent"
        /\ l.history[i + 1] = "Authorized" => l.history[i] = "Intent"
        /\ l.history[i + 1] = "Started" => l.history[i] = "Authorized"
  <2> TAKE i \in 1..(n - 1)
  <2>1. l.history[i] \in SubmitPhases /\ l.history[i + 1] \in SubmitSuccessors(l.history[i])
    BY <1>1
  <2> QED BY <2>1, Zenon DEF SubmitSuccessors, SubmitPhases
<1>5. \A i \in 1..n : l.history[i] = "Intent" => i = 1
  <2> SUFFICES ASSUME NEW i \in 1..n, l.history[i] = "Intent", i # 1 PROVE FALSE
    BY Zenon
  <2>1. i - 1 \in 1..(n - 1) /\ (i - 1) + 1 = i
    BY <1>1
  <2> QED BY <2>1, <1>4, Zenon
<1>6. \A i \in 1..n : l.history[i] = "Authorized" => i = 2
  <2> SUFFICES ASSUME NEW i \in 1..n, l.history[i] = "Authorized" PROVE i = 2
    BY Zenon
  <2>1. i # 1
    BY <1>1, Zenon
  <2>2. i - 1 \in 1..(n - 1) /\ (i - 1) + 1 = i /\ i - 1 \in 1..n
    BY <2>1, <1>1
  <2>3. l.history[i - 1] = "Intent"
    BY <2>2, <1>4, Zenon
  <2> QED BY <2>2, <2>3, <1>5
<1>7. \A i \in 1..n : l.history[i] = "Started" => i = 3
  <2> SUFFICES ASSUME NEW i \in 1..n, l.history[i] = "Started" PROVE i = 3
    BY Zenon
  <2>1. i # 1
    BY <1>1, Zenon
  <2>2. i - 1 \in 1..(n - 1) /\ (i - 1) + 1 = i /\ i - 1 \in 1..n
    BY <2>1, <1>1
  <2>3. l.history[i - 1] = "Authorized"
    BY <2>2, <1>4, Zenon
  <2> QED BY <2>2, <2>3, <1>6
<1>8. n \in 1..n
  BY <1>1
<1> QED BY <1>2, <1>3, <1>5, <1>6, <1>7, <1>8, ZenonT(30)

\* A settled phase is the last one of its record.
LEMMA SettledLast ==
  ASSUME NEW l, SubmitOk(l),
         NEW p \in {"TaskRecorded", "FailedBeforeSpawn", "TaskAdopted", "ExplicitlyAbandoned"},
         Contains(l, p)
  PROVE  Latest(l) = p
<1> DEFINE n == Len(l.history)
<1>1. /\ l.history \in Seq(SubmitPhases) /\ n \in Nat
      /\ \A i \in 1..(n - 1) : l.history[i + 1] \in SubmitSuccessors(l.history[i])
  BY DEF SubmitOk, SubmitLedgers, SubmitValid
<1>2. PICK i \in 1..n : l.history[i] = p
  BY Zenon DEF Contains
<1>3. SubmitSuccessors(p) = {}
  BY Zenon DEF SubmitSuccessors
<1>4. i = n
  BY <1>1, <1>2, <1>3
<1> QED BY <1>2, <1>4, Zenon DEF Latest

\* What the history of a record must satisfy, whatever its other fields
HistoryOk(ledger) ==
  /\ Len(ledger.history) \in 1..MaxSubmitHistory
  /\ ledger.history[1] = "Intent"
  /\ \A i \in 1..(Len(ledger.history) - 1) :
       ledger.history[i + 1] \in SubmitSuccessors(ledger.history[i])

\* append keeps a history well formed when its two tests pass.
LEMMA AppendedHistory ==
  ASSUME NEW l, SubmitOk(l), NEW p \in SubmitPhases, CanAppend(l, p)
  PROVE  HistoryOk(Appended(l, p))
<1> DEFINE n == Len(l.history)
           m == Appended(l, p)
<1>1. /\ n \in 1..MaxSubmitHistory /\ l.history[1] = "Intent"
      /\ \A i \in 1..(n - 1) : l.history[i + 1] \in SubmitSuccessors(l.history[i])
      /\ l \in SubmitLedgers
  BY Zenon DEF SubmitOk, SubmitValid
<1>2. /\ Len(m.history) = n + 1 /\ Latest(m) = p
      /\ \A i \in 1..n : m.history[i] = l.history[i]
  BY <1>1, AppendedFacts, Zenon
<1>3. n < MaxSubmitHistory /\ p \in SubmitSuccessors(l.history[n])
  BY Zenon DEF CanAppend, Latest
<1>4. m.history[n + 1] = p
  BY <1>2, Zenon DEF Latest
<1> HIDE DEF m
<1>5. \A i \in 1..n : m.history[i + 1] \in SubmitSuccessors(m.history[i])
  <2> TAKE i \in 1..n
  <2>1. CASE i = n
    BY <2>1, <1>2, <1>3, <1>4, Zenon
  <2>2. CASE i # n
    <3>1. i \in 1..(n - 1) /\ i + 1 \in 1..n
      BY <2>2, <1>1
    <3> QED BY <3>1, <1>1, <1>2, Zenon
  <2> QED BY <2>1, <2>2, Zenon
<1>6. Len(m.history) \in 1..MaxSubmitHistory /\ m.history[1] = "Intent"
  BY <1>1, <1>2, <1>3, SubmitLedgerAssumption
<1>7. HistoryOk(m)
  BY <1>1, <1>2, <1>5, <1>6 DEF HistoryOk
<1> QED BY <1>7, Zenon DEF m

\* append of a phase that no other field records keeps the record valid.
LEMMA PlainAppend ==
  ASSUME NEW l, SubmitOk(l),
         NEW p \in {"Authorized", "FailedBeforeSpawn", "OutcomeUnknown", "ExplicitlyAbandoned"},
         CanAppend(l, p)
  PROVE  SubmitOk(Appended(l, p))
<1> DEFINE m == Appended(l, p)
<1>1. l \in SubmitLedgers /\ SubmitValid(l) /\ p \in SubmitPhases
  BY Zenon DEF SubmitOk, SubmitPhases
<1>2. HistoryOk(m)
  BY <1>1, AppendedHistory, Zenon
<1>3. /\ m \in SubmitLedgers /\ m.task = l.task /\ m.process = l.process
      /\ m.candidates = l.candidates /\ m.complete = l.complete
      /\ \A q : Contains(m, q) <=> (Contains(l, q) \/ q = p)
  BY <1>1, AppendedFacts, Zenon
<1> HIDE DEF m
<1>4. SubmitOk(m)
  BY <1>1, <1>2, <1>3, Zenon DEF SubmitOk, SubmitValid, HistoryOk
<1> QED BY <1>4, Zenon DEF m

\* A task is on record exactly in the two phases that say so.
LEMMA TaskFacts ==
  ASSUME NEW l, SubmitOk(l)
  PROVE  /\ l.op \in Ops
         /\ l.task \in Tasks \cup {NoTask}
         /\ l.task # NoTask <=> Latest(l) \in {"TaskRecorded", "TaskAdopted"}
         /\ Contains(l, "TaskAdopted") => Latest(l) = "TaskAdopted"
         /\ Latest(l) = "TaskAdopted" => l.task \in l.candidates
         /\ Latest(l) = "ReconciliationObserved" => l.complete # "none"
<1>1. Contains(l, Latest(l))
  BY LatestFacts, Zenon
<1>2. \A p \in {"TaskRecorded", "TaskAdopted"} : Contains(l, p) => Latest(l) = p
  BY SettledLast, Zenon
<1>3. l \in SubmitLedgers /\ SubmitValid(l)
  BY Zenon DEF SubmitOk
<1>4. l.op \in Ops /\ l.task \in Tasks \cup {NoTask}
  BY <1>3, Zenon DEF SubmitLedgers
<1>5. l.task # NoTask <=> Contains(l, "TaskRecorded") \/ Contains(l, "TaskAdopted")
  BY <1>3, Zenon DEF SubmitValid
<1>6. Contains(l, "TaskAdopted") => l.task \in l.candidates
  BY <1>3, Zenon DEF SubmitValid
<1>7. Contains(l, "ReconciliationObserved") => l.complete # "none"
  BY <1>3, Zenon DEF SubmitValid
<1> QED BY <1>1, <1>2, <1>4, <1>5, <1>6, <1>7, Zenon

\* new(): the record of a submit that has done nothing yet is valid.
LEMMA NewSubmitFacts ==
  ASSUME NEW o \in Ops
  PROVE  /\ SubmitOk(NewSubmit(o))
         /\ NewSubmit(o).op = o /\ NewSubmit(o).task = NoTask
         /\ Latest(NewSubmit(o)) = "Intent"
<1> DEFINE m == NewSubmit(o)
<1>1. m \in SubmitLedgers
  BY DEF NewSubmit, SubmitLedgers, SubmitPhases, Completeness
<1>2. /\ m.op = o /\ m.task = NoTask /\ m.process = FALSE /\ m.candidates = {}
      /\ m.complete = "none" /\ Len(m.history) = 1 /\ m.history[1] = "Intent"
  BY Zenon DEF NewSubmit
<1> HIDE DEF m
<1>3. \A q : Contains(m, q) <=> q = "Intent"
  BY <1>2 DEF Contains
<1>4. SubmitValid(m)
  BY <1>2, <1>3, SubmitLedgerAssumption DEF SubmitValid
<1>5. Latest(m) = "Intent"
  BY <1>2, Zenon DEF Latest
<1> QED BY <1>1, <1>2, <1>4, <1>5, Zenon DEF m, SubmitOk

\* record_started
LEMMA RecordStartedFacts ==
  ASSUME NEW l, SubmitOk(l), CanAppend(l, "Started")
  PROVE  /\ SubmitOk(RecordStarted(l))
         /\ RecordStarted(l).op = l.op /\ RecordStarted(l).task = l.task
         /\ Latest(RecordStarted(l)) = "Started"
         /\ Len(RecordStarted(l).history) = Len(l.history) + 1
<1> DEFINE a == Appended(l, "Started")
           m == RecordStarted(l)
<1>1. l \in SubmitLedgers /\ SubmitValid(l) /\ "Started" \in SubmitPhases
  BY Zenon DEF SubmitOk, SubmitPhases
<1>2. HistoryOk(a)
  BY <1>1, AppendedHistory, Zenon
<1>3. /\ a \in SubmitLedgers /\ a.op = l.op /\ a.task = l.task
      /\ a.candidates = l.candidates /\ a.complete = l.complete
      /\ Latest(a) = "Started" /\ Len(a.history) = Len(l.history) + 1
      /\ \A q : Contains(a, q) <=> (Contains(l, q) \/ q = "Started")
  BY <1>1, AppendedFacts, Zenon
<1>4. m = [a EXCEPT !.process = TRUE]
  BY Zenon DEF RecordStarted
<1> HIDE DEF a, m
<1>5. /\ m \in SubmitLedgers /\ m.op = a.op /\ m.task = a.task /\ m.process = TRUE
      /\ m.candidates = a.candidates /\ m.complete = a.complete /\ m.history = a.history
  BY <1>3, <1>4, ZenonT(30) DEF SubmitLedgers
<1>6. Latest(m) = "Started" /\ (\A q : Contains(m, q) <=> Contains(a, q)) /\ HistoryOk(m)
  BY <1>2, <1>3, <1>5, ZenonT(30) DEF Latest, Contains, HistoryOk
<1>7. SubmitOk(m)
  BY <1>1, <1>3, <1>5, <1>6, Zenon DEF SubmitOk, SubmitValid, HistoryOk
<1> QED BY <1>3, <1>5, <1>6, <1>7, Zenon DEF m

\* record_task
LEMMA RecordTaskFacts ==
  ASSUME NEW l, SubmitOk(l), NEW t \in Tasks, CanAppend(l, "TaskRecorded")
  PROVE  /\ SubmitOk(RecordTask(l, t))
         /\ RecordTask(l, t).op = l.op /\ RecordTask(l, t).task = t
         /\ Latest(RecordTask(l, t)) = "TaskRecorded"
<1> DEFINE a == Appended(l, "TaskRecorded")
           m == RecordTask(l, t)
<1>1. l \in SubmitLedgers /\ SubmitValid(l) /\ "TaskRecorded" \in SubmitPhases
  BY Zenon DEF SubmitOk, SubmitPhases
<1>2. HistoryOk(a)
  BY <1>1, AppendedHistory, Zenon
<1>3. /\ a \in SubmitLedgers /\ a.op = l.op /\ a.process = l.process
      /\ a.candidates = l.candidates /\ a.complete = l.complete /\ Latest(a) = "TaskRecorded"
      /\ \A q : Contains(a, q) <=> (Contains(l, q) \/ q = "TaskRecorded")
  BY <1>1, AppendedFacts, Zenon
<1>4. m = [a EXCEPT !.task = t]
  BY Zenon DEF RecordTask
<1> HIDE DEF a, m
<1>5. /\ m \in SubmitLedgers /\ m.op = a.op /\ m.task = t /\ m.process = a.process
      /\ m.candidates = a.candidates /\ m.complete = a.complete /\ m.history = a.history
  BY <1>3, <1>4, ZenonT(30) DEF SubmitLedgers
<1>6. Latest(m) = "TaskRecorded" /\ (\A q : Contains(m, q) <=> Contains(a, q)) /\ HistoryOk(m)
  BY <1>2, <1>3, <1>5, ZenonT(30) DEF Latest, Contains, HistoryOk
<1>7. ~Contains(l, "TaskAdopted")
  <2> SUFFICES ASSUME Latest(l) = "TaskAdopted" PROVE FALSE
    BY TaskFacts, Zenon
  <2> QED BY Zenon DEF CanAppend, SubmitSuccessors
<1>8. SubmitOk(m)
  BY <1>1, <1>3, <1>5, <1>6, <1>7, SubmitLedgerAssumption, Zenon DEF SubmitOk, SubmitValid, HistoryOk
<1> QED BY <1>3, <1>5, <1>6, <1>8, Zenon DEF m

\* record_adopted_task
LEMMA RecordAdoptedTaskFacts ==
  ASSUME NEW l, SubmitOk(l), NEW t \in Tasks, CanAdopt(l, t)
  PROVE  /\ SubmitOk(RecordAdoptedTask(l, t))
         /\ RecordAdoptedTask(l, t).op = l.op /\ RecordAdoptedTask(l, t).task = t
         /\ Latest(RecordAdoptedTask(l, t)) = "TaskAdopted"
<1> DEFINE a == Appended(l, "TaskAdopted")
           m == RecordAdoptedTask(l, t)
<1>1. /\ l \in SubmitLedgers /\ SubmitValid(l) /\ "TaskAdopted" \in SubmitPhases
      /\ t \in l.candidates /\ CanAppend(l, "TaskAdopted")
  BY Zenon DEF SubmitOk, SubmitPhases, CanAdopt
<1>2. HistoryOk(a)
  BY <1>1, AppendedHistory, Zenon
<1>3. /\ a \in SubmitLedgers /\ a.op = l.op /\ a.process = l.process
      /\ a.candidates = l.candidates /\ a.complete = l.complete /\ Latest(a) = "TaskAdopted"
      /\ \A q : Contains(a, q) <=> (Contains(l, q) \/ q = "TaskAdopted")
  BY <1>1, AppendedFacts, Zenon
<1>4. m = [a EXCEPT !.task = t]
  BY Zenon DEF RecordAdoptedTask
<1> HIDE DEF a, m
<1>5. /\ m \in SubmitLedgers /\ m.op = a.op /\ m.task = t /\ m.process = a.process
      /\ m.candidates = a.candidates /\ m.complete = a.complete /\ m.history = a.history
  BY <1>3, <1>4, ZenonT(30) DEF SubmitLedgers
<1>6. Latest(m) = "TaskAdopted" /\ (\A q : Contains(m, q) <=> Contains(a, q)) /\ HistoryOk(m)
  BY <1>2, <1>3, <1>5, ZenonT(30) DEF Latest, Contains, HistoryOk
<1>7. SubmitOk(m)
  BY <1>1, <1>3, <1>5, <1>6, SubmitLedgerAssumption, Zenon DEF SubmitOk, SubmitValid, HistoryOk
<1> QED BY <1>3, <1>5, <1>6, <1>7, Zenon DEF m

\* record_reconciliation
LEMMA RecordReconciliationFacts ==
  ASSUME NEW l, SubmitOk(l), CanAppend(l, "ReconciliationObserved"),
         NEW tasks \in SUBSET Tasks, NEW complete \in {"partial", "full"}
  PROVE  /\ SubmitOk(RecordReconciliation(l, tasks, complete))
         /\ RecordReconciliation(l, tasks, complete).op = l.op
         /\ Latest(RecordReconciliation(l, tasks, complete)) = "ReconciliationObserved"
<1> DEFINE a == Appended(l, "ReconciliationObserved")
           m == RecordReconciliation(l, tasks, complete)
<1>1. l \in SubmitLedgers /\ SubmitValid(l) /\ "ReconciliationObserved" \in SubmitPhases
  BY Zenon DEF SubmitOk, SubmitPhases
<1>2. HistoryOk(a)
  BY <1>1, AppendedHistory, Zenon
<1>3. /\ a \in SubmitLedgers /\ a.op = l.op /\ a.process = l.process /\ a.task = l.task
      /\ Latest(a) = "ReconciliationObserved"
      /\ \A q : Contains(a, q) <=> (Contains(l, q) \/ q = "ReconciliationObserved")
  BY <1>1, AppendedFacts, Zenon
<1>4. m = [a EXCEPT !.candidates = tasks, !.complete = complete]
  BY Zenon DEF RecordReconciliation
<1> HIDE DEF a, m
<1>5. /\ m \in SubmitLedgers /\ m.op = a.op /\ m.task = a.task /\ m.process = a.process
      /\ m.candidates = tasks /\ m.complete = complete /\ m.history = a.history
  BY <1>3, <1>4, ZenonT(30) DEF SubmitLedgers, Completeness
<1>6. /\ Latest(m) = "ReconciliationObserved"
      /\ \A q : Contains(m, q) <=> Contains(a, q)
      /\ HistoryOk(m)
  BY <1>2, <1>3, <1>5, ZenonT(30) DEF Latest, Contains, HistoryOk
<1>7. ~Contains(l, "TaskAdopted")
  <2> SUFFICES ASSUME Latest(l) = "TaskAdopted" PROVE FALSE
    BY TaskFacts, Zenon
  <2> QED BY Zenon DEF CanAppend, SubmitSuccessors
<1>8. SubmitOk(m)
  BY <1>1, <1>3, <1>5, <1>6, <1>7, Zenon DEF SubmitOk, SubmitValid, HistoryOk
<1> QED BY <1>3, <1>5, <1>6, <1>8, Zenon DEF m

\* The phases recover_current_ledger leaves behind
Recoveries == {"FailedBeforeSpawn", "OutcomeUnknown"}

\* recover_current_ledger: an interrupted record becomes one that is settled or
\* unknown, of the same operation; any other record is left alone.
LEMMA RecoveredFacts ==
  ASSUME NEW l, SubmitOk(l)
  PROVE  /\ SubmitOk(Recovered(l))
         /\ Recovered(l).op = l.op /\ Recovered(l).task = l.task
         /\ Latest(Recovered(l)) \notin {"Intent", "Authorized", "Started"}
         /\ Latest(l) \notin {"Intent", "Authorized", "Started"} => Recovered(l) = l
         /\ Latest(l) = "Intent" => Latest(Recovered(l)) = "FailedBeforeSpawn"
         /\ Latest(l) \in {"Authorized", "Started"} => Latest(Recovered(l)) = "OutcomeUnknown"
<1> DEFINE p == IF Latest(l) = "Intent" THEN "FailedBeforeSpawn" ELSE "OutcomeUnknown"
<1>1. l # NoLedger
  BY SubmitLedgerAssumption, Zenon DEF SubmitOk
<1>2. CASE Latest(l) \notin {"Intent", "Authorized", "Started"}
  BY <1>2, Zenon DEF Recovered, NeedsRecovery
<1>3. CASE Latest(l) \in {"Intent", "Authorized", "Started"}
  <2>1. Recovered(l) = Appended(l, p)
    BY <1>1, <1>3, Zenon DEF Recovered, NeedsRecovery
  <2>2. p \in Recoveries /\ p \in SubmitPhases
    BY Zenon DEF Recoveries, SubmitPhases
  <2>3. p \in SubmitSuccessors(Latest(l))
    BY <1>3, Zenon DEF SubmitSuccessors
  <2>4. Len(l.history) < MaxSubmitHistory
    <3>1. Len(l.history) \in {1, 2, 3}
      BY <1>3, LatestFacts, Zenon
    <3>2. \A k \in {1, 2, 3} : k < MaxSubmitHistory
      BY SubmitLedgerAssumption
    <3> QED BY <3>1, <3>2, ZenonT(30)
  <2>5. CanAppend(l, p)
    BY <2>3, <2>4, Zenon DEF CanAppend
  <2>6. SubmitOk(Appended(l, p))
    BY <2>2, <2>5, PlainAppend, Zenon DEF Recoveries
  <2>7. /\ Appended(l, p).op = l.op /\ Appended(l, p).task = l.task
        /\ Latest(Appended(l, p)) = p
    BY <2>2, AppendedFacts, ZenonT(30) DEF SubmitOk
  <2> QED BY <1>3, <2>1, <2>6, <2>7
<1> QED BY <1>2, <1>3, Zenon

----------------------------------------------------------------------------
\* submitting(): the lifecycle record start() writes first
LEMMA SubmittingFacts ==
  ASSUME NEW o \in Ops
  PROVE  /\ LifeOk(Submitting(o))
         /\ Submitting(o).op = o /\ Submitting(o).phase = "Submitting"
         /\ Submitting(o).task = NoTask
<1> DEFINE m == Submitting(o)
<1>1. m \in LifecycleLedgers
  BY DEF Submitting, LifecycleLedgers, LifecyclePhases, Completeness
<1>2. /\ m.op = o /\ m.task = NoTask /\ m.phase = "Submitting" /\ m.candidates = {}
      /\ m.generation = 0 /\ m.complete = "none"
      /\ Len(m.history) = 1 /\ m.history[1] = "Submitting"
  BY Zenon DEF Submitting
<1> HIDE DEF m
<1>3. LifecycleValid(m)
  BY <1>2, LifecycleLedgerAssumption DEF LifecycleValid, StatusPhases
<1> QED BY <1>1, <1>2, <1>3, Zenon DEF m, LifeOk

\* A lifecycle record with one more phase, and the task it then names
Moved(ledger, phase, task) ==
  [ledger EXCEPT !.phase = phase, !.history = Append(@, phase), !.task = task]

\* append to a lifecycle record; the repeated Pending that record_status skips is
\* excluded
LEMMA MoveFacts ==
  ASSUME NEW l, LifeOk(l), NEW p \in LifecycleSuccessors(l.phase),
         l.phase \in {"Submitting", "OutcomeUnknown", "Pending"}, p # l.phase,
         NEW t \in Tasks \cup {NoTask},
         p \in StatusPhases \cup {"CanceledWithTask"} <=> t # NoTask
  PROVE  /\ LifeOk(Moved(l, p, t))
         /\ Moved(l, p, t).op = l.op /\ Moved(l, p, t).phase = p /\ Moved(l, p, t).task = t
<1> DEFINE n == Len(l.history)
           m == Moved(l, p, t)
<1>1. /\ l \in LifecycleLedgers /\ n \in 1..MaxLifecycleHistory /\ l.history[1] = "Submitting"
      /\ l.history[n] = l.phase
      /\ \A i \in 1..(n - 1) : l.history[i + 1] \in LifecycleSuccessors(l.history[i])
      /\ IF l.generation = 0
         THEN l.complete = "none" /\ l.candidates = {}
         ELSE /\ l.complete # "none"
              /\ \E i \in 1..n : l.history[i] = "OutcomeUnknown"
  BY Zenon DEF LifeOk, LifecycleValid
<1>2. l.history \in Seq(LifecyclePhases) /\ p \in LifecyclePhases
  BY <1>1, Zenon DEF LifecycleLedgers, LifecycleSuccessors, LifecyclePhases, StatusPhases
<1>3. /\ m.op = l.op /\ m.phase = p /\ m.task = t /\ m.generation = l.generation
      /\ m.candidates = l.candidates /\ m.complete = l.complete
      /\ m.history = Append(l.history, p)
  BY <1>1, Zenon DEF LifecycleLedgers, Moved
<1> HIDE DEF m
<1>4. /\ Len(m.history) = n + 1 /\ m.history[n + 1] = p
      /\ \A i \in 1..n : m.history[i] = l.history[i]
      /\ m.history \in Seq(LifecyclePhases)
  BY <1>2, <1>3
<1>5. m \in LifecycleLedgers
  BY <1>1, <1>2, <1>3, <1>4, ZenonT(30) DEF LifecycleLedgers, Moved, m
<1>6. n \in 1..3
  <2>1. n = 1 \/ n = 2 \/ n <= 3
    BY Zenon DEF LifeOk
  <2>2. n \in Nat /\ n >= 1
    BY <1>1, LifecycleLedgerAssumption
  <2> HIDE DEF n
  <2> QED BY <2>1, <2>2
<1>7. /\ p = "OutcomeUnknown" => l.phase = "Submitting"
      /\ p = "Pending" => l.phase \in {"Submitting", "OutcomeUnknown"}
      /\ p # "Submitting"
  BY DEF LifecycleSuccessors, StatusPhases
<1>8. (p = "OutcomeUnknown" => n = 1) /\ (p = "Pending" => n \in {1, 2})
  BY <1>7, Zenon DEF LifeOk
<1> HIDE DEF n
<1>9. \A i \in 1..n : m.history[i + 1] \in LifecycleSuccessors(m.history[i])
  <2> TAKE i \in 1..n
  <2>1. CASE i = n
    BY <2>1, <1>1, <1>4, Zenon
  <2>2. CASE i # n
    <3>1. i \in 1..(n - 1) /\ i + 1 \in 1..n
      BY <2>2, <1>6
    <3> QED BY <3>1, <1>1, <1>4, Zenon
  <2> QED BY <2>1, <2>2, Zenon
<1>10. /\ Len(m.history) \in 1..MaxLifecycleHistory
       /\ m.history[1] = "Submitting" /\ m.history[Len(m.history)] = m.phase
  BY <1>1, <1>3, <1>4, <1>6, LifecycleLedgerAssumption
<1>11. (\E i \in 1..n : l.history[i] = "OutcomeUnknown")
         => \E i \in 1..Len(m.history) : m.history[i] = "OutcomeUnknown"
  BY <1>4, <1>6
<1>12. LifecycleValid(m)
  BY <1>1, <1>3, <1>4, <1>6, <1>9, <1>10, <1>11 DEF LifecycleValid
<1>13. /\ m.phase = "Submitting" => Len(m.history) = 1
       /\ m.phase = "OutcomeUnknown" => Len(m.history) = 2
       /\ m.phase = "Pending" => Len(m.history) <= 3
  BY <1>3, <1>4, <1>7, <1>8
<1> QED BY <1>3, <1>5, <1>12, <1>13, Zenon DEF LifeOk, m

\* What a lifecycle record is, field by field
LEMMA LifeFields ==
  ASSUME NEW l, LifeOk(l)
  PROVE  /\ l \in LifecycleLedgers /\ l # NoLedger /\ LifecycleValid(l)
         /\ l.op \in Ops /\ l.phase \in LifecyclePhases /\ l.task \in Tasks \cup {NoTask}
         /\ l.phase \in StatusPhases \cup {"CanceledWithTask"} <=> l.task # NoTask
         /\ l.candidates \in SUBSET Tasks
<1>1. l \in LifecycleLedgers /\ LifecycleValid(l)
  BY Zenon DEF LifeOk
<1>2. l # NoLedger
  BY <1>1, LifecycleLedgerAssumption, Zenon
<1>3. l.op \in Ops /\ l.phase \in LifecyclePhases /\ l.task \in Tasks \cup {NoTask}
      /\ l.candidates \in SUBSET Tasks
  BY <1>1, Zenon DEF LifecycleLedgers
<1>4. l.phase \in StatusPhases \cup {"CanceledWithTask"} <=> l.task # NoTask
  BY <1>1, Zenon DEF LifecycleValid
<1> QED BY <1>1, <1>2, <1>3, <1>4, Zenon

\* record_failed, record_unknown, record_canceled_without_task, record_abandoned
LEMMA MovedToFacts ==
  ASSUME NEW l, LifeOk(l), NEW p,
         \/ /\ l.phase = "Submitting"
            /\ p \in {"FailedBeforeSubmit", "OutcomeUnknown", "CanceledNoTask"}
         \/ l.phase = "OutcomeUnknown" /\ p = "AbandonedUnknown"
         \/ l.phase = "Pending" /\ p = "CanceledWithTask"
  PROVE  /\ LifeOk(MovedTo(l, p))
         /\ MovedTo(l, p).op = l.op /\ MovedTo(l, p).phase = p /\ MovedTo(l, p).task = l.task
<1>1. /\ l \in LifecycleLedgers /\ l.task \in Tasks \cup {NoTask}
      /\ l.phase \in StatusPhases \cup {"CanceledWithTask"} <=> l.task # NoTask
  BY LifeFields, Zenon
<1>2. p \in LifecycleSuccessors(l.phase)
  BY Zenon DEF LifecycleSuccessors, StatusPhases
<1>3. MovedTo(l, p) = Moved(l, p, l.task)
  BY <1>1, ZenonT(30) DEF MovedTo, Moved, LifecycleLedgers
<1>4. p \in StatusPhases \cup {"CanceledWithTask"} <=> l.task # NoTask
  BY <1>1, Zenon DEF StatusPhases
<1>5. l.phase \in {"Submitting", "OutcomeUnknown", "Pending"} /\ p # l.phase
  BY Zenon
<1> QED BY <1>1, <1>2, <1>3, <1>4, <1>5, MoveFacts

\* record_status
LEMMA RecordStatusFacts ==
  ASSUME NEW l, LifeOk(l), NEW t \in Tasks, NEW p \in StatusPhases,
         \/ l.phase = "Submitting" /\ p = "Pending"
         \/ l.phase = "OutcomeUnknown"
         \/ l.phase = "Pending" /\ l.task = t
  PROVE  /\ LifeOk(RecordStatus(l, t, p))
         /\ RecordStatus(l, t, p).op = l.op
         /\ RecordStatus(l, t, p).phase = p
         /\ RecordStatus(l, t, p).task = t
<1>1. l \in LifecycleLedgers
  BY Zenon DEF LifeOk
<1>2. CASE l.phase = "Pending" /\ p = "Pending"
  BY <1>2, Zenon DEF RecordStatus
<1>3. CASE ~(l.phase = "Pending" /\ p = "Pending")
  <2>1. RecordStatus(l, t, p) = [MovedTo(l, p) EXCEPT !.task = t]
    BY <1>3, Zenon DEF RecordStatus
  <2>2. RecordStatus(l, t, p) = Moved(l, p, t)
    BY <1>1, <2>1, Zenon DEF MovedTo, Moved, LifecycleLedgers
  <2>3. p \in LifecycleSuccessors(l.phase) /\ p # l.phase
    BY <1>3, Zenon DEF LifecycleSuccessors, StatusPhases
  <2>4. t # NoTask
    BY SubmitLedgerAssumption, Zenon
  <2>5. l.phase \in {"Submitting", "OutcomeUnknown", "Pending"}
    BY Zenon
  <2> QED BY <2>2, <2>3, <2>4, <2>5, MoveFacts
<1> QED BY <1>2, <1>3, Zenon

\* record_reconciliation of the lifecycle ledger
LEMMA RecordGenerationFacts ==
  ASSUME NEW l, LifeOk(l), l.phase = "OutcomeUnknown",
         NEW tasks \in SUBSET Tasks, NEW complete \in {"partial", "full"}
  PROVE  /\ LifeOk(RecordGeneration(l, tasks, complete))
         /\ RecordGeneration(l, tasks, complete).op = l.op
         /\ RecordGeneration(l, tasks, complete).phase = "OutcomeUnknown"
         /\ RecordGeneration(l, tasks, complete).task = l.task
<1> DEFINE m == RecordGeneration(l, tasks, complete)
<1>1. l \in LifecycleLedgers /\ LifecycleValid(l) /\ Len(l.history) = 2
  BY Zenon DEF LifeOk
<1>2. /\ m.op = l.op /\ m.phase = l.phase /\ m.task = l.task /\ m.history = l.history
      /\ m.generation = l.generation + 1 /\ m.candidates = tasks /\ m.complete = complete
      /\ l.generation \in Nat
  BY <1>1, Zenon DEF RecordGeneration, LifecycleLedgers
<1>3. m \in LifecycleLedgers
  <2> DEFINE g == l.generation + 1
  <2>1. g \in Nat /\ complete \in Completeness
    BY <1>2 DEF Completeness
  <2>2. m = [l EXCEPT !.generation = g, !.candidates = tasks, !.complete = complete]
    BY Zenon DEF RecordGeneration
  <2> HIDE DEF g, m
  <2> QED BY <1>1, <2>1, <2>2, ZenonT(30) DEF LifecycleLedgers
<1> HIDE DEF m
<1>4. m.generation # 0 /\ m.complete # "none" /\ m.history[2] = "OutcomeUnknown"
  BY <1>1, <1>2 DEF LifecycleValid
<1>5. \E i \in 1..Len(m.history) : m.history[i] = "OutcomeUnknown"
  BY <1>1, <1>2, <1>4
<1>6. LifecycleValid(m)
  BY <1>1, <1>2, <1>4, <1>5, ZenonT(30) DEF LifecycleValid
<1> QED BY <1>1, <1>2, <1>3, <1>6, Zenon DEF m, LifeOk

----------------------------------------------------------------------------
(* The orchestrator *)

\* Agrees, with the submit ledger and the spawned operations as arguments
AgreesWith(ledger, record, children) ==
  /\ ledger.phase \in StatusPhases \cup {"CanceledWithTask"} =>
       /\ record # NoLedger /\ record.op = ledger.op /\ record.task = ledger.task
       /\ Latest(record) \in {"TaskRecorded", "TaskAdopted"}
  /\ ledger.phase = "AbandonedUnknown" =>
       /\ record # NoLedger /\ record.op = ledger.op
       /\ Latest(record) = "ExplicitlyAbandoned"
  /\ ledger.phase = "Submitting" =>
       \/ /\ ledger.op \notin children
          /\ record # NoLedger => record.op # ledger.op /\ PermitsNewOperation(Latest(record))
       \/ record # NoLedger /\ record.op = ledger.op
  /\ ledger.phase = "OutcomeUnknown" =>
       /\ record # NoLedger /\ record.op = ledger.op
       /\ Latest(record) \notin {"Intent", "FailedBeforeSpawn"}
  /\ ledger.phase \in {"FailedBeforeSubmit", "CanceledNoTask"} => ledger.op \notin children

\* The last part of IInv, now and after a step
LEMMA AgreesIff ==
  /\ (\A ledger \in {life, mem} : ledger # NoLedger => Agrees(ledger))
       <=> /\ life # NoLedger => AgreesWith(life, submit, spawned)
           /\ mem # NoLedger => AgreesWith(mem, submit, spawned)
  /\ (\A ledger \in {life, mem} : ledger # NoLedger => Agrees(ledger))'
       <=> /\ life' # NoLedger => AgreesWith(life', submit', spawned')
           /\ mem' # NoLedger => AgreesWith(mem', submit', spawned')
BY DEF AgreesWith, Agrees, Backed, Untouched

\* IInv holds when construction has not begun.
LEMMA InitOk == Init => IInv
<1> SUFFICES ASSUME Init PROVE IInv
  BY Zenon
<1>1. TypeOK
  BY ZenonT(30) DEF Init, TypeOK, Results, NoResult, Tokens, Pcs
<1>2. RecordsOk /\ Fresh /\ SubmitAgrees /\ SettledIsDurable
  BY Zenon DEF Init, RecordsOk, Fresh, SubmitAgrees, SettledIsDurable
<1>3. ThreadOk
  BY Zenon DEF Init, ThreadOk
<1> QED BY <1>1, <1>2, <1>3, Zenon DEF IInv, Init

\* Stuttering keeps IInv.
LEMMA StutterKeeps == IInv /\ UNCHANGED vars => IInv'
<1> SUFFICES ASSUME IInv, UNCHANGED vars PROVE IInv'
  BY Zenon
<1>1. TypeOK' /\ RecordsOk' /\ Fresh'
  BY ZenonT(30) DEF IInv, vars, TypeOK, RecordsOk, Fresh, Untouched, DiffAuthorized
<1>2. ThreadOk' /\ SubmitAgrees' /\ SettledIsDurable'
  BY SMTT(30) DEF IInv, vars, ThreadOk, SubmitAgrees, SettledIsDurable, Backed, Untouched, DiffAuthorized
<1>3. (\A ledger \in {life, mem} : ledger # NoLedger => Agrees(ledger))'
  BY Zenon DEF IInv, vars, Agrees, Backed, Untouched
<1> QED
  BY <1>1, <1>2, <1>3, Zenon DEF IInv

\* Construction of an orchestrator whose lifecycle needs no repair
LEMMA LoadSettledKeeps == IInv /\ LoadSettled => IInv'
<1> SUFFICES ASSUME IInv, LoadSettled PROVE IInv'
  BY Zenon
<1> USE DEF LoadSettled, disk, sleepers, thread, external
<1>1. TypeOK'
  BY Zenon DEF IInv, TypeOK
<1>2. RecordsOk'
  BY Zenon DEF IInv, RecordsOk
<1>3. Fresh'
  BY Zenon DEF IInv, Fresh
<1>4. ThreadOk'
  BY Zenon DEF IInv, ThreadOk
<1>5. SubmitAgrees'
  BY Zenon DEF IInv, SubmitAgrees
<1>6. SettledIsDurable'
  BY Zenon DEF IInv, SettledIsDurable, Agrees, Backed, DiffAuthorized, StatusPhases
<1>7. \A ledger \in {life', mem'} : ledger # NoLedger => Agrees(ledger)'
  BY Zenon DEF IInv, Agrees, Backed, Untouched
<1> QED BY <1>1, <1>2, <1>3, <1>4, <1>5, <1>6, <1>7, Zenon DEF IInv

\* The process dies.
LEMMA CrashKeeps == IInv /\ Crash => IInv'
<1> SUFFICES ASSUME IInv, Crash PROVE IInv'
  BY Zenon
<1> USE DEF Crash, disk, external
<1>1. TypeOK'
  BY ZenonT(30) DEF IInv, TypeOK, Results, NoResult, Tokens, Pcs
<1>2. RecordsOk'
  BY Zenon DEF IInv, RecordsOk
<1>3. Fresh'
  BY Zenon DEF IInv, Fresh
<1>4. ThreadOk'
  BY Zenon DEF IInv, ThreadOk
<1>5. SubmitAgrees'
  BY Zenon DEF IInv, SubmitAgrees
<1>6. SettledIsDurable'
  BY Zenon DEF IInv, SettledIsDurable
<1>7. \A ledger \in {life', mem'} : ledger # NoLedger => Agrees(ledger)'
  BY Zenon DEF IInv, Agrees, Backed, Untouched
<1> QED BY <1>1, <1>2, <1>3, <1>4, <1>5, <1>6, <1>7, Zenon DEF IInv

----------------------------------------------------------------------------
\* recover_current_ledger, with any outcome of its write: the record stays one of
\* the same operation, and what a lifecycle says of it stays true.
LEMMA RecoveryFacts ==
  ASSUME IInv, NEW r \in Outcomes
  PROVE  /\ RecoverStored(r) \in {submit, Recovered(submit)}
         /\ RecoverOk(r) => RecoverStored(r) = Recovered(submit)
         /\ submit = NoLedger => Recovered(submit) = NoLedger
         /\ submit # NoLedger => SubmitOk(submit) /\ Recovered(submit) # NoLedger
<1>1. submit # NoLedger => SubmitOk(submit)
  BY Zenon DEF IInv, RecordsOk
<1>2. submit # NoLedger => Recovered(submit) # NoLedger
  BY <1>1, RecoveredFacts, SubmitLedgerAssumption, ZenonT(30) DEF SubmitOk
<1>3. ~NeedsRecovery(submit) => Recovered(submit) = submit
  BY Zenon DEF Recovered
<1> QED BY <1>1, <1>2, <1>3, Zenon DEF RecoverStored, RecoverOk, Stored, Outcomes, NeedsRecovery

\* What recover_current_ledger leaves in the file is a record that agrees with every lifecycle.
LEMMA RecoveryKeeps ==
  ASSUME IInv, submit' \in {submit, Recovered(submit)}, UNCHANGED spawned
  PROVE  /\ submit' # NoLedger => SubmitOk(submit') /\ submit # NoLedger
         /\ submit # NoLedger => submit' # NoLedger /\ submit'.op = submit.op
         /\ submit' \in SubmitLedgers \cup {NoLedger}
         /\ submit' # NoLedger => submit'.op \in used
         /\ SubmitAgrees'
         /\ \A l : AgreesWith(l, submit, spawned) => AgreesWith(l, submit', spawned')
<1>1. CASE submit = NoLedger
  <2>1. submit' = NoLedger
    BY <1>1, Zenon DEF Recovered, NeedsRecovery
  <2> QED BY <1>1, <2>1, Zenon DEF IInv, RecordsOk, SubmitAgrees
<1>2. CASE submit # NoLedger
  <2>1. /\ SubmitOk(submit) /\ submit.op \in used
        /\ Latest(submit) \in {"Intent", "FailedBeforeSpawn"} => submit.op \notin spawned
    BY <1>2, Zenon DEF IInv, RecordsOk, Fresh, SubmitAgrees
  <2>2. /\ SubmitOk(submit') /\ submit'.op = submit.op /\ submit'.task = submit.task
        /\ Latest(submit) \notin {"Intent", "Authorized", "Started"} => submit' = submit
        /\ Latest(submit') = "FailedBeforeSpawn"
             => Latest(submit) \in {"Intent", "FailedBeforeSpawn"}
        /\ Latest(submit') = "Intent" => Latest(submit) = "Intent"
    BY <2>1, RecoveredFacts, ZenonT(30)
  <2>3. submit' \in SubmitLedgers /\ submit' # NoLedger
    BY <2>2, SubmitLedgerAssumption, Zenon DEF SubmitOk
  <2>4. SubmitAgrees'
    BY <2>1, <2>2, Zenon DEF SubmitAgrees
  <2>5. ASSUME NEW l, AgreesWith(l, submit, spawned)
        PROVE  AgreesWith(l, submit', spawned')
    BY <1>2, <2>2, <2>3, <2>5, SMTT(30) DEF AgreesWith, PermitsNewOperation
  <2> QED BY <1>2, <2>1, <2>2, <2>3, <2>4, <2>5, Zenon
<1> QED BY <1>1, <1>2, Zenon

\* repair_interrupted_state: the lifecycle it writes is one the program can hold,
\* and agrees with the recovered submit ledger.
LEMMA RepairedFacts ==
  ASSUME IInv, Interrupted(life), submit' = Recovered(submit), UNCHANGED spawned,
         NEW seen, seen = Observation(life.op, submit'), Repairable(life, seen),
         NEW task, task = IF submit' = NoLedger THEN NoTask ELSE submit'.task,
         NEW fixed, fixed = Repaired(life, seen, task)
  PROVE  LifeOk(fixed) /\ fixed.op = life.op /\ AgreesWith(fixed, submit', spawned')
<1>1. /\ LifeOk(life) /\ AgreesWith(life, submit, spawned) /\ life # NoLedger
      /\ life.phase \in {"Submitting", "OutcomeUnknown"}
  BY AgreesIff, Zenon DEF IInv, RecordsOk, Interrupted
<1>2. life.task = NoTask
  BY <1>1, LifeFields DEF StatusPhases
<1>3. submit' # NoLedger => SubmitOk(submit') /\ submit # NoLedger
  BY RecoveryKeeps, Zenon
<1>4. /\ life.phase = "Submitting" => \/ life.op \notin spawned
                                      \/ submit' # NoLedger /\ submit'.op = life.op
      /\ SubmitAgrees'
  BY <1>1, RecoveryKeeps, Zenon DEF AgreesWith
<1>5. CASE seen \in {"Absent", "FailedBeforeSpawn"}
  <2>1. fixed = MovedTo(life, "FailedBeforeSubmit") /\ life.phase = "Submitting"
    BY <1>5, Zenon DEF Repaired, Repairable
  <2>2. LifeOk(fixed) /\ fixed.op = life.op /\ fixed.phase = "FailedBeforeSubmit"
    BY <1>1, <2>1, MovedToFacts
  <2>3. seen = "Absent" => submit' = NoLedger \/ submit'.op # life.op
    BY Zenon DEF Observation
  <2>4. seen = "FailedBeforeSpawn" => /\ submit' # NoLedger /\ submit'.op = life.op
                                      /\ Latest(submit') = "FailedBeforeSpawn"
    BY Zenon DEF Observation
  <2>5. life.op \notin spawned
    BY <1>4, <1>5, <2>1, <2>3, <2>4, Zenon DEF SubmitAgrees
  <2> QED BY <2>2, <2>5, Zenon DEF AgreesWith, StatusPhases
<1>6. CASE seen = "TaskRecorded"
  <2>1. /\ submit' # NoLedger /\ submit'.op = life.op
        /\ Latest(submit') \in {"TaskRecorded", "TaskAdopted"}
    BY <1>6, Zenon DEF Observation
  <2>2. task \in Tasks /\ task = submit'.task
    BY <1>3, <2>1, TaskFacts, Zenon
  <2>3. fixed = RecordStatus(life, task, "Pending")
    BY <1>6, Zenon DEF Repaired
  <2>4. LifeOk(fixed) /\ fixed.op = life.op /\ fixed.phase = "Pending" /\ fixed.task = task
    BY <1>1, <2>2, <2>3, RecordStatusFacts, SMTT(30) DEF StatusPhases
  <2> QED BY <2>1, <2>2, <2>4, Zenon DEF AgreesWith, StatusPhases
<1>7. CASE seen = "OutcomeUnknown"
  <2>1. /\ submit' # NoLedger /\ submit'.op = life.op
        /\ Latest(submit') \in {"OutcomeUnknown", "ReconciliationObserved"}
    BY <1>7, Zenon DEF Observation, IsUnknown
  <2>2. LifeOk(fixed) /\ fixed.op = life.op /\ fixed.phase = "OutcomeUnknown"
    <3>1. fixed = IF life.phase = "OutcomeUnknown" THEN life ELSE MovedTo(life, "OutcomeUnknown")
      BY <1>7, Zenon DEF Repaired
    <3> QED BY <1>1, <3>1, MovedToFacts
  <2> QED BY <2>1, <2>2, Zenon DEF AgreesWith, StatusPhases
<1>8. CASE seen \notin {"Absent", "FailedBeforeSpawn", "TaskRecorded", "OutcomeUnknown"}
  <2>1. seen = "ExplicitlyAbandoned"
    BY <1>1, <1>8 DEF Repairable, Observation
  <2>2. /\ submit' # NoLedger /\ submit'.op = life.op
        /\ Latest(submit') = "ExplicitlyAbandoned"
    BY <2>1, Zenon DEF Observation
  <2> DEFINE known == IF life.phase = "OutcomeUnknown" THEN life ELSE MovedTo(life, "OutcomeUnknown")
  <2>3. LifeOk(known) /\ known.op = life.op /\ known.phase = "OutcomeUnknown"
    BY <1>1, MovedToFacts, Zenon
  <2>4. fixed = MovedTo(known, "AbandonedUnknown")
    BY <1>8, Zenon DEF Repaired
  <2> HIDE DEF known
  <2>5. LifeOk(fixed) /\ fixed.op = life.op /\ fixed.phase = "AbandonedUnknown"
    BY <2>3, <2>4, MovedToFacts
  <2> QED BY <2>2, <2>5, Zenon DEF AgreesWith, StatusPhases
<1> QED BY <1>5, <1>6, <1>7, <1>8, Zenon

\* Construction with a repair: any outcome of its two writes
LEMMA LoadInterruptedKeeps == IInv /\ LoadInterrupted => IInv'
<1> SUFFICES ASSUME IInv, LoadInterrupted PROVE IInv'
  BY Zenon
<1>1. /\ ~up /\ Interrupted(life)
      /\ UNCHANGED <<token, waiting, woken, pc, op, prior, draft, result, used, spawned, provider>>
  BY Zenon DEF LoadInterrupted, sleepers, thread, external
<1>2. PICK r \in Outcomes, w \in Outcomes :
        LET ledger == Recovered(submit)
            seen   == Observation(life.op, ledger)
            fixed  == Repaired(life, seen, IF ledger = NoLedger THEN NoTask ELSE ledger.task)
            sound  == RecoverOk(r) /\ Repairable(life, seen)
        IN  /\ submit' = RecoverStored(r)
            /\ life' = IF sound THEN Stored(life, fixed, w) ELSE life
            /\ up' = (sound /\ (fixed = life \/ w = "ok"))
            /\ mem' = IF up' THEN fixed ELSE NoLedger
  BY Zenon DEF LoadInterrupted
<1>3. PICK seen : seen = Observation(life.op, Recovered(submit))
  BY Zenon
<1>4. PICK task : task = IF Recovered(submit) = NoLedger THEN NoTask ELSE Recovered(submit).task
  BY Zenon
<1>5. PICK fixed : fixed = Repaired(life, seen, task)
  BY Zenon
<1>6. PICK sound \in BOOLEAN : sound = (RecoverOk(r) /\ Repairable(life, seen))
  BY ZenonT(30) DEF RecoverOk, Repairable
<1>7. /\ life' = IF sound THEN Stored(life, fixed, w) ELSE life
      /\ up' = (sound /\ (fixed = life \/ w = "ok"))
      /\ mem' = IF up' THEN fixed ELSE NoLedger
  BY <1>2, <1>3, <1>4, <1>5, <1>6, ZenonT(30)
<1>8. submit' \in {submit, Recovered(submit)} /\ (sound => submit' = Recovered(submit))
  BY <1>2, <1>6, RecoveryFacts, ZenonT(30)
<1>9. /\ submit' # NoLedger => SubmitOk(submit') /\ submit'.op \in used
      /\ submit' \in SubmitLedgers \cup {NoLedger}
      /\ SubmitAgrees'
      /\ \A l : AgreesWith(l, submit, spawned) => AgreesWith(l, submit', spawned')
  BY <1>1, <1>8, RecoveryKeeps, Zenon
<1>10. sound => LifeOk(fixed) /\ fixed.op = life.op /\ AgreesWith(fixed, submit', spawned')
  BY <1>1, <1>3, <1>4, <1>5, <1>6, <1>8, RepairedFacts, ZenonT(30)
<1>11. /\ life # NoLedger /\ LifeOk(life) /\ AgreesWith(life, submit, spawned)
       /\ life.op \in used /\ life \in LifecycleLedgers
  BY <1>1, AgreesIff, Zenon DEF IInv, RecordsOk, Interrupted, Fresh, LifeOk
<1>12. sound => fixed # NoLedger /\ fixed \in LifecycleLedgers
  BY <1>10, LifeFields, Zenon
<1>13. life' \in {life, fixed} /\ (life' # life => sound) /\ (up' => sound /\ life' = fixed)
  BY <1>7, ZenonT(30) DEF Stored, Outcomes
<1>14. TypeOK'
  BY <1>1, <1>7, <1>9, <1>11, <1>12, <1>13, Zenon DEF IInv, TypeOK
<1>15. RecordsOk' /\ Fresh'
  BY <1>1, <1>7, <1>9, <1>10, <1>11, <1>12, <1>13, Zenon DEF IInv, RecordsOk, Fresh
<1>16. ThreadOk'
  BY <1>1, <1>7, Zenon DEF IInv, ThreadOk
<1>17. /\ life' # NoLedger => AgreesWith(life', submit', spawned')
       /\ mem' # NoLedger => AgreesWith(mem', submit', spawned')
  BY <1>7, <1>9, <1>10, <1>11, <1>13, Zenon
<1>18. SettledIsDurable'
  BY <1>7, <1>13, <1>17, Zenon DEF SettledIsDurable, DiffAuthorized, AgreesWith, StatusPhases
<1> QED BY <1>9, <1>14, <1>15, <1>16, <1>17, <1>18, AgreesIff, Zenon DEF IInv

----------------------------------------------------------------------------
\* While start() is in submit(), both copies of the lifecycle say Submitting.
LEMMA InSubmit ==
  ASSUME IInv, pc # "idle"
  PROVE  /\ op \in Ops /\ op \in used /\ up
         /\ mem = Submitting(op) /\ life = Submitting(op)
         /\ SubmitOk(NewSubmit(op)) /\ NewSubmit(op).op = op
         /\ Latest(NewSubmit(op)) = "Intent"
         /\ NewSubmit(op) # NoLedger
<1>1. op \in used /\ up /\ mem = Submitting(op) /\ life = Submitting(op) /\ used \subseteq Ops
  BY Zenon DEF IInv, ThreadOk, TypeOK
<1>2. op \in Ops
  BY <1>1, Zenon
<1> QED BY <1>1, <1>2, NewSubmitFacts, SubmitLedgerAssumption, Zenon DEF SubmitOk

----------------------------------------------------------------------------
(***************************************************************************)
(* The other calls.  They leave the thread inside start() alone, and touch *)
(* a ledger only when no start() is running.                               *)
(***************************************************************************)
LEMMA CallKeeps ==
  ASSUME IInv, UNCHANGED <<up, pc, op, prior, draft, result, used, spawned>>,
         provider' \in [Ops -> Tasks \cup {NoTask}],
         token' \in Tokens, token = "none" => token' = "none",
         waiting' \in [Cancelers -> Ops \cup {NoOp}], woken' \in SUBSET Cancelers,
         pc # "idle" => UNCHANGED <<submit, life, mem>>, ~up => UNCHANGED mem,
         submit' # NoLedger => SubmitOk(submit') /\ submit'.op \in used,
         life' # NoLedger => LifeOk(life') /\ life'.op \in used,
         mem' # NoLedger => LifeOk(mem') /\ mem'.op \in used,
         life' # NoLedger => AgreesWith(life', submit', spawned),
         mem' # NoLedger => AgreesWith(mem', submit', spawned),
         SubmitAgrees', SettledIsDurable'
  PROVE  IInv'
<1>1. TypeOK'
  BY ZenonT(30) DEF IInv, TypeOK, SubmitOk, LifeOk
<1>2. RecordsOk' /\ Fresh'
  BY Zenon DEF IInv, RecordsOk, Fresh
<1>3. ThreadOk'
  BY ZenonT(30) DEF IInv, ThreadOk, Untouched, AuthorizedSubmit
<1> QED BY <1>1, <1>2, <1>3, AgreesIff, ZenonT(30) DEF IInv

\* The facts about the two ledgers that CallKeeps asks of an action that changes neither
LEMMA LedgersNow ==
  ASSUME IInv
  PROVE  /\ submit # NoLedger => SubmitOk(submit) /\ submit.op \in used
         /\ life # NoLedger => LifeOk(life) /\ life.op \in used /\ AgreesWith(life, submit, spawned)
         /\ mem # NoLedger => LifeOk(mem) /\ mem.op \in used /\ AgreesWith(mem, submit, spawned)
         /\ mem # NoLedger /\ mem.phase # "Submitting" => pc = "idle"
         /\ mem # NoLedger => up
<1>1. pc # "idle" => mem # NoLedger /\ mem.phase = "Submitting"
  BY InSubmit, SubmittingFacts, LifeFields, ZenonT(30)
<1> QED BY <1>1, AgreesIff, ZenonT(30) DEF IInv, RecordsOk, Fresh, ThreadOk

\* A lifecycle that replaces the current one, stored with outcome w: it is installed
\* in memory only if the write succeeded.
LEMMA StoreKeeps ==
  ASSUME IInv, NEW next, LifeOk(next), next.op \in used, AgreesWith(next, submit', spawned),
         NEW w \in Outcomes, life' = Stored(life, next, w),
         mem' = IF w = "ok" THEN next ELSE mem,
         mem # NoLedger, mem.phase \in {"Pending", "OutcomeUnknown"},
         submit' # NoLedger => SubmitOk(submit') /\ submit'.op \in used, SubmitAgrees',
         AgreesWith(mem, submit', spawned), life # NoLedger => AgreesWith(life, submit', spawned),
         UNCHANGED <<up, pc, op, prior, draft, result, used, spawned, provider, token>>,
         waiting' \in [Cancelers -> Ops \cup {NoOp}], woken' \in SUBSET Cancelers
  PROVE  IInv'
<1>1. LifeOk(mem) /\ mem.op \in used /\ pc = "idle" /\ up
  BY LedgersNow, Zenon
<1>2. life # NoLedger => LifeOk(life) /\ life.op \in used
  BY LedgersNow, Zenon
<1>3. life' \in {life, next} /\ mem' \in {mem, next} /\ (mem' = mem \/ life' = mem')
  BY Zenon DEF Stored
<1>4. SettledIsDurable'
  BY <1>3, Zenon DEF SettledIsDurable, IsTerminal, DiffAuthorized, AgreesWith, StatusPhases
<1>5. provider \in [Ops -> Tasks \cup {NoTask}] /\ token \in Tokens
  BY Zenon DEF IInv, TypeOK
<1> QED BY <1>1, <1>2, <1>3, <1>4, <1>5, CallKeeps, Zenon

\* One pass through the loop of cancel()
LEMMA CancelLoopKeeps ==
  ASSUME IInv, NEW c \in Cancelers, CancelLoop(c), woken' \in SUBSET Cancelers,
         UNCHANGED <<submit, up, pc, op, prior, draft, result, used, spawned, provider>>
  PROVE  IInv'
<1>1. /\ waiting \in [Cancelers -> Ops \cup {NoOp}] /\ token \in Tokens
      /\ provider \in [Ops -> Tasks \cup {NoTask}] /\ SubmitAgrees /\ SettledIsDurable
      /\ mem \in LifecycleLedgers \cup {NoLedger}
  BY Zenon DEF IInv, TypeOK
<1>2. SubmitAgrees'
  BY <1>1, Zenon DEF SubmitAgrees
<1>3. CASE UNCHANGED <<life, mem>>
  <2>1. waiting' \in [Cancelers -> Ops \cup {NoOp}] /\ token' \in Tokens
        /\ (token = "none" => token' = "none")
    BY <1>1, <1>3, LifeFields, LedgersNow, ZenonT(30) DEF CancelLoop, Tokens
  <2>2. SettledIsDurable'
    BY <1>1, <1>3, Zenon DEF SettledIsDurable, DiffAuthorized
  <2> QED BY <1>1, <1>2, <1>3, <2>1, <2>2, LedgersNow, CallKeeps, Zenon
<1>4. CASE /\ mem # NoLedger /\ mem.phase = "Pending" /\ UNCHANGED token
           /\ waiting' = [waiting EXCEPT ![c] = NoOp]
           /\ \E w \in Outcomes :
                /\ life' = Stored(life, MovedTo(mem, "CanceledWithTask"), w)
                /\ mem' = IF w = "ok" THEN MovedTo(mem, "CanceledWithTask") ELSE mem
  <2>1. PICK next : next = MovedTo(mem, "CanceledWithTask")
    BY Zenon
  <2>2. LifeOk(mem) /\ mem.op \in used /\ AgreesWith(mem, submit, spawned)
    BY <1>4, LedgersNow, Zenon
  <2>3. LifeOk(next) /\ next.op = mem.op /\ next.phase = "CanceledWithTask" /\ next.task = mem.task
    BY <1>4, <2>1, <2>2, MovedToFacts, Zenon
  <2>4. AgreesWith(next, submit, spawned)
    BY <1>4, <2>2, <2>3, Zenon DEF AgreesWith, StatusPhases
  <2>5. PICK w \in Outcomes : life' = Stored(life, next, w) /\ mem' = IF w = "ok" THEN next ELSE mem
    BY <1>4, <2>1, Zenon
  <2>6. waiting' \in [Cancelers -> Ops \cup {NoOp}]
    BY <1>1, <1>4, Zenon
  <2>7. /\ submit' # NoLedger => SubmitOk(submit') /\ submit'.op \in used
        /\ life # NoLedger => AgreesWith(life, submit', spawned)
        /\ AgreesWith(mem, submit', spawned) /\ AgreesWith(next, submit', spawned)
    BY <2>2, <2>4, LedgersNow, Zenon
  <2> QED BY <1>2, <1>4, <2>2, <2>3, <2>5, <2>6, <2>7, StoreKeeps, Zenon
<1> QED BY <1>3, <1>4, Zenon DEF CancelLoop

\* cancel(), on entry and when it is woken, keeps IInv.
LEMMA CancelKeeps == \A c \in Cancelers : IInv /\ (Cancel(c) \/ CancelWake(c)) => IInv'
<1> SUFFICES ASSUME NEW c \in Cancelers, IInv, Cancel(c) \/ CancelWake(c) PROVE IInv'
  BY Zenon
<1>1. woken \in SUBSET Cancelers
  BY Zenon DEF IInv, TypeOK
<1>2. CASE Cancel(c)
  BY <1>1, <1>2, CancelLoopKeeps, Zenon DEF Cancel, thread, external
<1>3. CASE CancelWake(c)
  BY <1>1, <1>3, CancelLoopKeeps, Zenon DEF CancelWake, thread, external
<1> QED BY <1>2, <1>3, Zenon

\* inspect() of a pending task
LEMMA InspectKeeps == IInv /\ Inspect => IInv'
<1> SUFFICES ASSUME IInv, Inspect PROVE IInv'
  BY Zenon
<1>1. /\ up /\ mem # NoLedger /\ mem.phase = "Pending"
      /\ UNCHANGED <<submit, up, token, waiting, woken, pc, op, prior, draft, result, used, spawned, provider>>
  BY Zenon DEF Inspect, sleepers, thread, external
<1>2. PICK phase \in StatusPhases, w \in Outcomes :
        /\ life' = Stored(life, RecordStatus(mem, mem.task, phase), w)
        /\ mem' = IF w = "ok" THEN RecordStatus(mem, mem.task, phase) ELSE mem
  BY Zenon DEF Inspect
<1>3. PICK next : next = RecordStatus(mem, mem.task, phase)
  BY Zenon
<1>4. LifeOk(mem) /\ mem.op \in used /\ AgreesWith(mem, submit, spawned)
  BY <1>1, LedgersNow, Zenon
<1>5. mem.task \in Tasks
  BY <1>1, <1>4, LifeFields, Zenon DEF StatusPhases
<1>6. LifeOk(next) /\ next.op = mem.op /\ next.phase = phase /\ next.task = mem.task
  BY <1>1, <1>3, <1>4, <1>5, RecordStatusFacts, SMTT(30)
<1>7. AgreesWith(next, submit, spawned)
  BY <1>1, <1>4, <1>6, Zenon DEF AgreesWith, StatusPhases
<1>8. /\ submit' # NoLedger => SubmitOk(submit') /\ submit'.op \in used
      /\ life # NoLedger => AgreesWith(life, submit', spawned)
      /\ AgreesWith(mem, submit', spawned) /\ AgreesWith(next, submit', spawned)
  BY <1>1, <1>4, <1>7, LedgersNow, Zenon
<1>9. SubmitAgrees' /\ waiting' \in [Cancelers -> Ops \cup {NoOp}] /\ woken' \in SUBSET Cancelers
  BY <1>1, Zenon DEF IInv, SubmitAgrees, TypeOK
<1> QED BY <1>1, <1>2, <1>3, <1>4, <1>6, <1>8, <1>9, StoreKeeps, Zenon

\* External: a task comes into being.
LEMMA ProviderKeeps == \A o \in Ops, t \in Tasks : IInv /\ ProviderCreates(o, t) => IInv'
<1> SUFFICES ASSUME NEW o \in Ops, NEW t \in Tasks, IInv, ProviderCreates(o, t) PROVE IInv'
  BY Zenon
<1>1. /\ provider' = [provider EXCEPT ![o] = t]
      /\ UNCHANGED <<submit, life, up, mem, token, waiting, woken, pc, op, prior, draft, result, used, spawned>>
  BY Zenon DEF ProviderCreates, disk, sleepers, thread
<1>2. /\ provider' \in [Ops -> Tasks \cup {NoTask}] /\ token' \in Tokens
      /\ waiting' \in [Cancelers -> Ops \cup {NoOp}] /\ woken' \in SUBSET Cancelers
  BY <1>1, Zenon DEF IInv, TypeOK
<1>3. SubmitAgrees' /\ SettledIsDurable'
  BY <1>1, Zenon DEF IInv, SubmitAgrees, SettledIsDurable, DiffAuthorized
<1> QED BY <1>1, <1>2, <1>3, LedgersNow, CallKeeps, Zenon

----------------------------------------------------------------------------

\* start(), up to the release of the mutex, with any outcome of its two writes
LEMMA StartKeeps == \A o \in Ops : IInv /\ Start(o) => IInv'
<1> SUFFICES ASSUME NEW o \in Ops, IInv, Start(o) PROVE IInv'
  BY Zenon
<1>1. /\ up /\ StartAdmitted /\ o \notin used /\ used' = used \cup {o}
      /\ UNCHANGED <<up, waiting, woken, draft, result, spawned, provider>>
  BY Zenon DEF Start, sleepers, external
<1>2. PICK r \in Outcomes, w \in Outcomes :
        LET open    == RecoverOk(r) /\ LowerReady(o)
            entered == open /\ w = "ok"
        IN  /\ submit' = RecoverStored(r)
            /\ life' = IF open THEN Stored(life, Submitting(o), w) ELSE life
            /\ mem' = IF entered THEN Submitting(o) ELSE mem
            /\ token' = IF entered THEN "armed" ELSE token
            /\ pc' = IF entered THEN "intent" ELSE pc
            /\ op' = IF entered THEN o ELSE op
            /\ prior' = IF entered THEN mem ELSE prior
  BY Zenon DEF Start
<1>3. /\ LifeOk(Submitting(o)) /\ Submitting(o) # NoLedger /\ Submitting(o) \in LifecycleLedgers
      /\ Submitting(o).op = o /\ Submitting(o).phase = "Submitting"
  BY SubmittingFacts, LifeFields, Zenon
<1>4. pc = "idle" /\ token = "none" /\ op = NoOp
  <2>1. pc # "idle" => op \in Ops /\ mem = Submitting(op)
    BY ZenonT(30) DEF IInv, ThreadOk, TypeOK
  <2>2. pc # "idle" => mem # NoLedger /\ mem.phase = "Submitting"
    BY <2>1, SubmittingFacts, LifeFields, ZenonT(30)
  <2>3. pc = "idle"
    BY <1>1, <2>2, Zenon DEF StartAdmitted, IsTerminal
  <2> QED BY <2>3, Zenon DEF IInv, ThreadOk
<1>5. submit' \in {submit, Recovered(submit)} /\ (RecoverOk(r) => submit' = Recovered(submit))
  BY <1>2, RecoveryFacts, Zenon
<1>6. /\ submit' # NoLedger => SubmitOk(submit') /\ submit'.op \in used
      /\ submit' \in SubmitLedgers \cup {NoLedger}
      /\ SubmitAgrees'
      /\ \A l : AgreesWith(l, submit, spawned) => AgreesWith(l, submit', spawned')
  BY <1>1, <1>5, RecoveryKeeps, Zenon
<1>7. o \notin spawned
  BY <1>1, Zenon DEF IInv, Fresh
<1>8. RecoverOk(r) /\ LowerReady(o) =>
        (submit' # NoLedger => submit'.op # o /\ PermitsNewOperation(Latest(submit')))
  <2> SUFFICES ASSUME RecoverOk(r), LowerReady(o), submit' # NoLedger
               PROVE  submit'.op # o /\ PermitsNewOperation(Latest(submit'))
    BY Zenon
  <2>1. Observation(o, submit') = "Absent"
    BY <1>5, Zenon DEF LowerReady
  <2> QED BY <2>1, <1>1, <1>6, Zenon DEF Observation
<1>9. PICK entered \in BOOLEAN : entered = (RecoverOk(r) /\ LowerReady(o) /\ w = "ok")
  BY ZenonT(30) DEF RecoverOk, LowerReady
<1>10. /\ mem' = IF entered THEN Submitting(o) ELSE mem
       /\ token' = IF entered THEN "armed" ELSE token
       /\ pc' = IF entered THEN "intent" ELSE pc
       /\ op' = IF entered THEN o ELSE op
       /\ prior' = IF entered THEN mem ELSE prior
       /\ entered => life' = Submitting(o)
       /\ life' # life => RecoverOk(r) /\ LowerReady(o) /\ life' = Submitting(o)
  BY <1>2, <1>9, ZenonT(30) DEF Stored
<1>11. TypeOK'
  BY <1>1, <1>3, <1>6, <1>10, Zenon DEF IInv, TypeOK, Tokens, Pcs
<1>12. RecordsOk' /\ Fresh'
  BY <1>1, <1>3, <1>6, <1>10, Zenon DEF IInv, RecordsOk, Fresh
<1>13. ThreadOk'
  BY <1>1, <1>4, <1>7, <1>8, <1>9, <1>10, ZenonT(30) DEF IInv, ThreadOk, Untouched
<1>14. AgreesWith(Submitting(o), submit', spawned') \/ (life' = life /\ mem' = mem)
  BY <1>1, <1>3, <1>7, <1>8, <1>9, <1>10, ZenonT(30) DEF AgreesWith, StatusPhases
<1>15. /\ life' # NoLedger => AgreesWith(life', submit', spawned')
       /\ mem' # NoLedger => AgreesWith(mem', submit', spawned')
  BY <1>6, <1>10, <1>14, AgreesIff, Zenon DEF IInv
<1>16. SettledIsDurable'
  <2>1. CASE entered
    BY <1>3, <1>10, <2>1, Zenon DEF SettledIsDurable, IsTerminal
  <2>2. CASE ~entered /\ mem # NoLedger /\ life' = Submitting(o)
    <3>1. mem.op # o
      BY <1>1, <2>2, Zenon DEF IInv, Fresh
    <3> QED BY <1>3, <1>10, <2>2, <3>1, Zenon DEF SettledIsDurable
  <2>3. CASE ~entered /\ mem # NoLedger /\ life' = life
    BY <1>1, <1>10, <1>15, <2>3, Zenon DEF IInv, SettledIsDurable, DiffAuthorized, AgreesWith, StatusPhases
  <2> QED BY <1>10, <2>1, <2>2, <2>3, Zenon DEF SettledIsDurable
<1> QED BY <1>6, <1>11, <1>12, <1>13, <1>15, <1>16, AgreesIff, Zenon DEF IInv

----------------------------------------------------------------------------
(***************************************************************************)
(* The steps of runner.submit.  They leave both copies of the lifecycle at *)
(* Submitting(op), so a step keeps IInv if it keeps the submit ledger in   *)
(* agreement with that, and knows what ThreadOk says at its new point.     *)
(***************************************************************************)
LEMMA SubmitStepKeeps ==
  ASSUME IInv, pc # "idle",
         UNCHANGED <<life, up, mem, token, waiting, woken, op, prior, used, provider>>,
         spawned' \in {spawned, spawned \cup {op}},
         submit' # NoLedger => SubmitOk(submit') /\ submit'.op \in used,
         SubmitAgrees', ThreadOk',
         pc' \in Pcs, draft' \in SubmitLedgers \cup {NoLedger}, result' \in Results,
         \/ submit' # NoLedger /\ submit'.op = op
         \/ UNCHANGED <<submit, spawned>>
  PROVE  IInv'
<1>1. /\ op \in Ops /\ op \in used /\ up /\ mem = Submitting(op) /\ life = Submitting(op)
  BY InSubmit, Zenon
<1>2. /\ Submitting(op) # NoLedger /\ Submitting(op).op = op
      /\ Submitting(op).phase = "Submitting"
  BY <1>1, SubmittingFacts, LifeFields, Zenon
<1>3. submit' \in SubmitLedgers \cup {NoLedger}
  BY Zenon DEF SubmitOk
<1>4. TypeOK'
  BY <1>1, <1>3, Zenon DEF IInv, TypeOK
<1>5. RecordsOk' /\ Fresh'
  BY <1>1, Zenon DEF IInv, RecordsOk, Fresh
<1>6. AgreesWith(Submitting(op), submit', spawned')
  BY <1>1, <1>2, AgreesIff, Zenon DEF IInv, AgreesWith, StatusPhases
<1>7. SettledIsDurable'
  BY <1>1, <1>2, Zenon DEF SettledIsDurable, IsTerminal
<1> QED BY <1>1, <1>2, <1>4, <1>5, <1>6, <1>7, AgreesIff, Zenon DEF IInv

\* Before the first write of submit(), recovery finds nothing to do.
LEMMA IntentSettled ==
  ASSUME IInv, pc = "intent"
  PROVE  /\ Recovered(submit) = submit /\ op \notin spawned
         /\ submit # NoLedger => submit.op # op /\ PermitsNewOperation(Latest(submit))
<1>1. /\ op \notin spawned
      /\ submit # NoLedger => submit.op # op /\ PermitsNewOperation(Latest(submit))
  BY Zenon DEF IInv, ThreadOk, Untouched
<1> QED BY <1>1, Zenon DEF Recovered, NeedsRecovery, PermitsNewOperation

\* submit() returns before it writes an intent: IInv is kept.
LEMMA SubmitRefusedKeeps == IInv /\ SubmitRefused => IInv'
<1> SUFFICES ASSUME IInv, SubmitRefused PROVE IInv'
  BY Zenon
<1>1. /\ pc = "intent" /\ pc' = "finish" /\ submit' = submit
      /\ result' = [kind |-> "failed", op |-> op, task |-> NoTask]
      /\ UNCHANGED <<life, up, mem, token, waiting, woken, op, prior, draft, used, spawned, provider>>
  BY IntentSettled, Zenon DEF SubmitRefused, Return, sleepers, external
<1>2. result' \in Results /\ pc' \in Pcs /\ draft' \in SubmitLedgers \cup {NoLedger}
  BY <1>1, InSubmit, Zenon DEF Results, Pcs, IInv, TypeOK
<1>3. ThreadOk'
  BY <1>1, IntentSettled, ZenonT(30) DEF IInv, ThreadOk
<1>4. SubmitAgrees' /\ (submit' # NoLedger => SubmitOk(submit') /\ submit'.op \in used)
  BY <1>1, ZenonT(30) DEF IInv, SubmitAgrees, RecordsOk, Fresh
<1> QED BY <1>1, <1>2, <1>3, <1>4, SubmitStepKeeps, Zenon

\* submit() replaces a settled record by the intent of its own operation: IInv is kept.
LEMMA SubmitIntentKeeps == IInv /\ SubmitIntent => IInv'
<1> SUFFICES ASSUME IInv, SubmitIntent PROVE IInv'
  BY Zenon
<1>1. /\ pc = "intent"
      /\ UNCHANGED <<life, up, mem, token, waiting, woken, op, prior, used, spawned, provider>>
  BY Zenon DEF SubmitIntent, sleepers, external
<1>2. /\ Recovered(submit) = submit /\ op \notin spawned
      /\ submit # NoLedger => submit.op # op /\ PermitsNewOperation(Latest(submit))
  BY <1>1, IntentSettled, Zenon
<1>3. Dispatch(Recovered(submit)) = NoResult
  <2>1. CASE submit = NoLedger
    BY <1>2, <2>1, Zenon DEF Dispatch
  <2>2. CASE submit # NoLedger
    <3>1. Latest(submit) # "none" /\ ~IsUnknown(Latest(submit))
      BY <1>2, <2>2, Zenon DEF PermitsNewOperation, IsUnknown
    <3> QED BY <1>2, <2>2, <3>1, Zenon DEF Dispatch
  <2> QED BY <2>1, <2>2, Zenon
<1>4. PICK w \in Outcomes :
        /\ submit' = Stored(submit, NewSubmit(op), w)
        /\ IF w = "ok"
           THEN pc' = "authorize" /\ draft' = NewSubmit(op) /\ UNCHANGED result
           ELSE Return("failed", op, NoTask) /\ UNCHANGED draft
  BY <1>2, <1>3, Zenon DEF SubmitIntent
<1>5. /\ op \in Ops /\ op \in used /\ SubmitOk(NewSubmit(op)) /\ NewSubmit(op).op = op
      /\ Latest(NewSubmit(op)) = "Intent" /\ NewSubmit(op) # NoLedger
  BY <1>1, InSubmit, Zenon
<1>6. result' \in Results /\ pc' \in Pcs /\ draft' \in SubmitLedgers \cup {NoLedger}
  BY <1>4, <1>5 DEF Results, Pcs, IInv, TypeOK, Return, SubmitOk
<1>7. submit' = NewSubmit(op) \/ (submit' = submit /\ w # "ok")
  BY <1>4, Zenon DEF Stored
<1>8. SubmitAgrees' /\ (submit' # NoLedger => SubmitOk(submit') /\ submit'.op \in used)
  BY <1>1, <1>2, <1>5, <1>7, Zenon DEF IInv, SubmitAgrees, RecordsOk, Fresh
<1>9. ThreadOk'
  BY <1>1, <1>2, <1>4, <1>7, SMTT(30) DEF IInv, ThreadOk, Return
<1> QED BY <1>1, <1>5, <1>6, <1>7, <1>8, <1>9, SubmitStepKeeps, Zenon

\* What the local ledger of submit() is at each point, and what may be appended.
LEMMA DraftFacts ==
  ASSUME IInv, pc \in {"authorize", "spawn", "started", "wait"}
  PROVE  /\ op \in Ops /\ op \in used /\ submit = draft /\ draft # NoLedger
         /\ SubmitOk(draft) /\ draft.op = op /\ draft \in SubmitLedgers
         /\ pc = "authorize" => draft = NewSubmit(op) /\ Latest(draft) = "Intent"
         /\ pc \in {"spawn", "started"} => draft = AuthorizedSubmit(op) /\ Latest(draft) = "Authorized"
         /\ pc = "wait" => draft = RecordStarted(AuthorizedSubmit(op)) /\ Latest(draft) = "Started"
         /\ \A p \in SubmitSuccessors(Latest(draft)) : CanAppend(draft, p)
         /\ pc = "authorize" => Appended(draft, "Authorized") = AuthorizedSubmit(op)
         /\ pc \in {"authorize", "spawn"} => op \notin spawned
<1>1. /\ op \in Ops /\ op \in used /\ SubmitOk(NewSubmit(op)) /\ NewSubmit(op).op = op
      /\ Latest(NewSubmit(op)) = "Intent"
  BY InSubmit, Zenon
<1>2. \A k \in {1, 2, 3} : k < MaxSubmitHistory
  BY SubmitLedgerAssumption
<1>3. ASSUME NEW l, SubmitOk(l), Latest(l) \in {"Intent", "Authorized", "Started"},
             NEW p \in SubmitSuccessors(Latest(l))
      PROVE  CanAppend(l, p)
  <2>1. Len(l.history) \in {1, 2, 3}
    BY <1>3, LatestFacts, Zenon
  <2> QED BY <1>2, <1>3, <2>1, ZenonT(30) DEF CanAppend
<1>4. /\ SubmitOk(AuthorizedSubmit(op)) /\ AuthorizedSubmit(op).op = op
      /\ Latest(AuthorizedSubmit(op)) = "Authorized"
  <2>1. CanAppend(NewSubmit(op), "Authorized")
    BY <1>1, <1>3, Zenon DEF SubmitSuccessors
  <2>2. SubmitOk(AuthorizedSubmit(op))
    BY <1>1, <2>1, PlainAppend, Zenon DEF AuthorizedSubmit
  <2> QED BY <1>1, <2>2, AppendedFacts, ZenonT(30) DEF AuthorizedSubmit, SubmitOk, SubmitPhases
<1>5. LET s == RecordStarted(AuthorizedSubmit(op))
      IN  SubmitOk(s) /\ s.op = op /\ Latest(s) = "Started"
  <2>1. CanAppend(AuthorizedSubmit(op), "Started")
    BY <1>4, <1>3, Zenon DEF SubmitSuccessors
  <2> QED BY <1>4, <2>1, RecordStartedFacts, Zenon
<1>6. /\ submit = draft
      /\ pc = "authorize" => draft = NewSubmit(op)
      /\ pc \in {"spawn", "started"} => draft = AuthorizedSubmit(op)
      /\ pc = "wait" => draft = RecordStarted(AuthorizedSubmit(op))
      /\ pc \in {"authorize", "spawn"} => op \notin spawned
  BY Zenon DEF IInv, ThreadOk
<1>7. SubmitOk(draft) /\ draft.op = op /\ Latest(draft) \in {"Intent", "Authorized", "Started"}
  BY <1>1, <1>4, <1>5, <1>6, Zenon
<1>8. draft \in SubmitLedgers /\ draft # NoLedger
  BY <1>7, SubmitLedgerAssumption, Zenon DEF SubmitOk
<1>9. \A p \in SubmitSuccessors(Latest(draft)) : CanAppend(draft, p)
  BY <1>3, <1>7, Zenon
<1> QED BY <1>1, <1>4, <1>5, <1>6, <1>7, <1>8, <1>9, ZenonT(30) DEF AuthorizedSubmit

\* FailedBeforeSpawn is written, or the write fails: submit() returns with an error
\* and no child exists.
LEMMA WriteFailedKeeps ==
  ASSUME IInv, pc \in {"authorize", "spawn"}, NEW kind \in {"failed", "canceled"},
         WriteFailed(draft, kind),
         UNCHANGED <<life, up, mem, token, waiting, woken, op, prior, draft, used, spawned, provider>>
  PROVE  IInv'
<1> DEFINE new == Appended(draft, "FailedBeforeSpawn")
<1>1. /\ op \in Ops /\ op \in used /\ submit = draft /\ draft # NoLedger
      /\ SubmitOk(draft) /\ draft.op = op /\ draft \in SubmitLedgers /\ op \notin spawned
      /\ CanAppend(draft, "FailedBeforeSpawn")
  BY DraftFacts, Zenon DEF SubmitSuccessors
<1>2. SubmitOk(new) /\ new.op = op /\ new # NoLedger
  BY <1>1, PlainAppend, AppendedFacts, SubmitLedgerAssumption, ZenonT(30) DEF SubmitOk, SubmitPhases
<1>3. /\ submit' \in {draft, new} /\ pc' = "finish" /\ result'.op = op
      /\ result'.kind \in {"failed", "canceled"} /\ result' \in Results
  BY <1>1 DEF WriteFailed, Stored, Return, Results
<1>4. ThreadOk'
  BY <1>1, <1>3, ZenonT(30) DEF IInv, ThreadOk
<1> HIDE DEF new
<1>5. SubmitAgrees' /\ submit' # NoLedger /\ SubmitOk(submit') /\ submit'.op = op
  BY <1>1, <1>2, <1>3, Zenon DEF SubmitAgrees
<1> QED BY <1>1, <1>3, <1>4, <1>5, SubmitStepKeeps, Zenon DEF Pcs

\* OutcomeUnknown is written, or the write fails: submit() returns an unknown outcome.
LEMMA WriteUnknownKeeps ==
  ASSUME IInv, pc \in {"spawn", "wait"}, WriteUnknown(draft),
         spawned' \in {spawned, spawned \cup {op}},
         UNCHANGED <<life, up, mem, token, waiting, woken, op, prior, draft, used, provider>>
  PROVE  IInv'
<1> DEFINE new == Appended(draft, "OutcomeUnknown")
<1>1. /\ op \in Ops /\ op \in used /\ submit = draft /\ draft # NoLedger
      /\ SubmitOk(draft) /\ draft.op = op /\ draft \in SubmitLedgers
      /\ Latest(draft) \in {"Authorized", "Started"}
      /\ CanAppend(draft, "OutcomeUnknown")
  BY DraftFacts, Zenon DEF SubmitSuccessors
<1>2. SubmitOk(new) /\ new.op = op /\ new # NoLedger /\ Latest(new) = "OutcomeUnknown"
  BY <1>1, PlainAppend, AppendedFacts, SubmitLedgerAssumption, ZenonT(30) DEF SubmitOk, SubmitPhases
<1>3. /\ submit' \in {draft, new} /\ pc' = "finish" /\ result'.op = op
      /\ result'.kind = "unknown" /\ result' \in Results
  BY <1>1, SMTT(30) DEF WriteUnknown, Stored, Return, Results, IsUnknown
<1> HIDE DEF new
<1>4. ThreadOk'
  <2>1. ThreadOk
    BY ZenonT(30) DEF IInv
  <2> QED BY <1>1, <1>2, <1>3, <2>1, Zenon DEF ThreadOk
<1>5. SubmitAgrees' /\ submit' # NoLedger /\ SubmitOk(submit') /\ submit'.op = op
  BY <1>1, <1>2, <1>3, ZenonT(30) DEF SubmitAgrees
<1> QED BY <1>1, <1>3, <1>4, <1>5, SubmitStepKeeps, ZenonT(30) DEF Pcs

\* The error returns of submit(), up to the spawn and after it, keep IInv.
LEMMA SubmitErrorsKeep ==
  /\ IInv /\ SubmitCanceledBeforeStart => IInv'
  /\ IInv /\ SubmitUnauthorized => IInv'
  /\ IInv /\ SubmitCanceledAuthorized => IInv'
  /\ IInv /\ SpawnFails => IInv'
  /\ IInv /\ SpawnUncertain => IInv'
  /\ IInv /\ SubmitInconclusive => IInv'
<1> USE DEF sleepers, external
<1>1. IInv /\ SubmitCanceledBeforeStart => IInv'
  BY WriteFailedKeeps, Zenon DEF SubmitCanceledBeforeStart
<1>2. IInv /\ SubmitUnauthorized => IInv'
  BY WriteFailedKeeps, Zenon DEF SubmitUnauthorized
<1>3. IInv /\ SubmitCanceledAuthorized => IInv'
  BY WriteUnknownKeeps, Zenon DEF SubmitCanceledAuthorized
<1>4. IInv /\ SpawnFails => IInv'
  BY WriteFailedKeeps, Zenon DEF SpawnFails
<1>5. IInv /\ SpawnUncertain => IInv'
  BY WriteUnknownKeeps, Zenon DEF SpawnUncertain
<1>6. IInv /\ SubmitInconclusive => IInv'
  BY WriteUnknownKeeps, Zenon DEF SubmitInconclusive
<1> QED BY <1>1, <1>2, <1>3, <1>4, <1>5, <1>6, Zenon

\* Recording Authorized keeps IInv.
LEMMA SubmitAuthorizeKeeps == IInv /\ SubmitAuthorize => IInv'
<1> SUFFICES ASSUME IInv, SubmitAuthorize PROVE IInv'
  BY Zenon
<1>1. /\ pc = "authorize"
      /\ UNCHANGED <<life, up, mem, token, waiting, woken, op, prior, used, spawned, provider>>
  BY Zenon DEF SubmitAuthorize, sleepers, external
<1>2. /\ op \in Ops /\ op \in used /\ submit = draft /\ draft # NoLedger
      /\ SubmitOk(draft) /\ draft.op = op /\ draft \in SubmitLedgers /\ op \notin spawned
      /\ CanAppend(draft, "Authorized") /\ Appended(draft, "Authorized") = AuthorizedSubmit(op)
  BY <1>1, DraftFacts, Zenon DEF SubmitSuccessors
<1>3. /\ SubmitOk(AuthorizedSubmit(op)) /\ AuthorizedSubmit(op).op = op
      /\ AuthorizedSubmit(op) # NoLedger /\ AuthorizedSubmit(op) \in SubmitLedgers
  BY <1>2, PlainAppend, AppendedFacts, SubmitLedgerAssumption DEF SubmitOk, SubmitPhases
<1>4. PICK w \in Outcomes :
        /\ submit' = Stored(submit, AuthorizedSubmit(op), w)
        /\ IF w = "ok"
           THEN pc' = "spawn" /\ draft' = AuthorizedSubmit(op) /\ UNCHANGED result
           ELSE Return("failed", op, NoTask) /\ UNCHANGED draft
  BY <1>2, Zenon DEF SubmitAuthorize
<1>5. submit' \in {draft, AuthorizedSubmit(op)} /\ (w = "ok" => submit' = AuthorizedSubmit(op))
  BY <1>2, <1>4, Zenon DEF Stored
<1>6. result' \in Results /\ pc' \in Pcs /\ draft' \in SubmitLedgers \cup {NoLedger}
  BY <1>2, <1>3, <1>4, SMTT(30) DEF Results, Pcs, IInv, TypeOK, Return
<1>7. ThreadOk'
  BY <1>1, <1>2, <1>4, <1>5, SMTT(30) DEF IInv, ThreadOk, Return
<1>8. SubmitAgrees' /\ submit' # NoLedger /\ SubmitOk(submit') /\ submit'.op = op
  BY <1>1, <1>2, <1>3, <1>5, ZenonT(30) DEF SubmitAgrees
<1> QED BY <1>1, <1>2, <1>6, <1>7, <1>8, SubmitStepKeeps, Zenon

\* The child process exists only once Authorized is on record, so IInv is kept.
LEMMA SpawnKeeps == IInv /\ Spawn => IInv'
<1> SUFFICES ASSUME IInv, Spawn PROVE IInv'
  BY Zenon
<1>1. /\ pc = "spawn" /\ pc' = "started" /\ spawned' = spawned \cup {op} /\ submit' = submit
      /\ UNCHANGED <<life, up, mem, token, waiting, woken, op, prior, draft, result, used, provider>>
  BY Zenon DEF Spawn, disk, sleepers
<1>2. /\ op \in used /\ submit = draft /\ draft # NoLedger
      /\ SubmitOk(draft) /\ draft.op = op /\ draft \in SubmitLedgers
      /\ Latest(draft) = "Authorized"
  BY <1>1, DraftFacts, Zenon
<1>3. ThreadOk'
  BY <1>1, <1>2, ZenonT(30) DEF IInv, ThreadOk, AuthorizedSubmit
<1>4. SubmitAgrees'
  BY <1>1, <1>2, ZenonT(30) DEF SubmitAgrees
<1>5. result' \in Results
  BY <1>1, Zenon DEF IInv, TypeOK
<1> QED BY <1>1, <1>2, <1>3, <1>4, <1>5, SubmitStepKeeps, Zenon DEF Pcs

\* Recording Started keeps IInv, also when the write fails.
LEMMA SubmitStartedKeeps == IInv /\ SubmitStarted => IInv'
<1> SUFFICES ASSUME IInv, SubmitStarted PROVE IInv'
  BY Zenon
<1> DEFINE new == RecordStarted(draft)
<1>1. /\ pc = "started"
      /\ UNCHANGED <<life, up, mem, token, waiting, woken, op, prior, used, spawned, provider>>
  BY Zenon DEF SubmitStarted, sleepers, external
<1>2. /\ op \in Ops /\ op \in used /\ submit = draft /\ draft # NoLedger
      /\ SubmitOk(draft) /\ draft.op = op /\ draft \in SubmitLedgers
      /\ draft = AuthorizedSubmit(op) /\ Latest(draft) = "Authorized"
      /\ CanAppend(draft, "Started")
  BY <1>1, DraftFacts, Zenon DEF SubmitSuccessors
<1>3. /\ SubmitOk(new) /\ new.op = op /\ new # NoLedger /\ new \in SubmitLedgers
      /\ Latest(new) = "Started" /\ new = RecordStarted(AuthorizedSubmit(op))
  BY <1>2, RecordStartedFacts, SubmitLedgerAssumption, Zenon DEF SubmitOk
<1>4. PICK w \in Outcomes :
        /\ submit' = Stored(submit, new, w)
        /\ IF w = "ok"
           THEN pc' = "wait" /\ draft' = RecordStarted(AuthorizedSubmit(op)) /\ UNCHANGED result
           ELSE Return("unknown", op, NoTask) /\ UNCHANGED draft
  BY <1>2, Zenon DEF SubmitStarted
<1> HIDE DEF new
<1>5. submit' \in {draft, new} /\ (w = "ok" => submit' = new)
  BY <1>2, <1>4, Zenon DEF Stored
<1>6. result' \in Results /\ pc' \in Pcs /\ draft' \in SubmitLedgers \cup {NoLedger}
  BY <1>2, <1>3, <1>4, SMTT(30) DEF Results, Pcs, IInv, TypeOK, Return
<1>7. ThreadOk'
  BY <1>1, <1>2, <1>3, <1>4, <1>5, SMTT(30) DEF IInv, ThreadOk, Return, AuthorizedSubmit
<1>8. SubmitAgrees' /\ submit' # NoLedger /\ SubmitOk(submit') /\ submit'.op = op
  BY <1>1, <1>2, <1>3, <1>5, ZenonT(30) DEF SubmitAgrees
<1> QED BY <1>1, <1>2, <1>6, <1>7, <1>8, SubmitStepKeeps, Zenon

\* Recording the task keeps IInv, also when the write fails.
LEMMA SubmitTaskKeeps == IInv /\ SubmitTask => IInv'
<1> SUFFICES ASSUME IInv, SubmitTask PROVE IInv'
  BY Zenon
<1>1. /\ pc = "wait" /\ provider[op] # NoTask
      /\ UNCHANGED <<life, up, mem, token, waiting, woken, op, prior, draft, used, spawned, provider>>
  BY Zenon DEF SubmitTask, sleepers, external
<1>2. /\ op \in Ops /\ op \in used /\ submit = draft /\ draft # NoLedger
      /\ SubmitOk(draft) /\ draft.op = op /\ draft \in SubmitLedgers
      /\ Latest(draft) = "Started"
      /\ CanAppend(draft, "TaskRecorded") /\ CanAppend(draft, "OutcomeUnknown")
  BY <1>1, DraftFacts, Zenon DEF SubmitSuccessors
<1>3. PICK t \in Tasks : t = provider[op]
  BY <1>1, <1>2, Zenon DEF IInv, TypeOK
<1> DEFINE new  == RecordTask(draft, t)
           lost == Appended(draft, "OutcomeUnknown")
<1>4. /\ SubmitOk(new) /\ new.op = op /\ new # NoLedger /\ new.task = t
      /\ Latest(new) = "TaskRecorded"
  BY <1>2, RecordTaskFacts, SubmitLedgerAssumption, Zenon DEF SubmitOk
<1>5. SubmitOk(lost) /\ lost.op = op /\ lost # NoLedger /\ Latest(lost) = "OutcomeUnknown"
  BY <1>2, PlainAppend, AppendedFacts, SubmitLedgerAssumption, ZenonT(30) DEF SubmitOk, SubmitPhases
<1>6. PICK w \in Outcomes, v \in Outcomes :
        IF w = "ok"
        THEN submit' = Stored(submit, new, w) /\ Return("task", op, t)
        ELSE /\ submit' = Stored(Stored(submit, new, w), lost, v)
             /\ Return("unknown", op, NoTask)
  BY <1>3, Zenon DEF SubmitTask
<1> HIDE DEF new, lost
<1>7. /\ submit' \in {draft, new, lost} /\ pc' = "finish" /\ result'.op = op /\ result' \in Results
      /\ \/ submit' = new /\ result'.kind = "task" /\ result'.task = t
         \/ result'.kind = "unknown"
  BY <1>2, <1>6, SMTT(30) DEF Stored, Return, Results
<1>8. ThreadOk'
  <2>1. ThreadOk
    BY ZenonT(30) DEF IInv
  <2> QED BY <1>1, <1>2, <1>4, <1>5, <1>7, <2>1, Zenon DEF ThreadOk
<1>9. SubmitAgrees' /\ submit' # NoLedger /\ SubmitOk(submit') /\ submit'.op = op
  BY <1>1, <1>2, <1>4, <1>5, <1>7, ZenonT(30) DEF SubmitAgrees
<1> QED BY <1>1, <1>2, <1>7, <1>8, <1>9, SubmitStepKeeps, Zenon DEF Pcs

\* start() takes the mutex again and records what submit() returned.
LEMMA StartReturnKeeps == IInv /\ StartReturn => IInv'
<1> SUFFICES ASSUME IInv, StartReturn PROVE IInv'
  BY Zenon
<1>1. /\ pc = "finish" /\ pc' = "idle" /\ token' = "none" /\ op' = NoOp /\ prior' = NoLedger
      /\ draft' = NoLedger /\ result' = NoResult
      /\ woken' = {c \in Cancelers : waiting[c] # NoOp}
      /\ UNCHANGED <<submit, up, waiting, used, spawned, provider>>
  BY Zenon DEF StartReturn, external
<1>2. /\ op \in Ops /\ op \in used /\ up /\ mem = Submitting(op) /\ life = Submitting(op)
  BY <1>1, InSubmit, Zenon
<1>3. /\ Submitting(op) # NoLedger /\ Submitting(op).op = op
      /\ Submitting(op).phase = "Submitting" /\ LifeOk(Submitting(op))
  BY <1>2, SubmittingFacts, LifeFields, Zenon
<1>4. /\ result.op = op /\ result.kind # "none" /\ result \in Results
      /\ result.kind = "task" =>
           /\ submit # NoLedger /\ submit.op = op /\ submit.task = result.task
           /\ Latest(submit) = "TaskRecorded"
      /\ result.kind = "unknown" =>
           /\ submit # NoLedger /\ submit.op = op
           /\ Latest(submit) \notin {"Intent", "FailedBeforeSpawn"}
      /\ result.kind \in {"failed", "canceled"} => op \notin spawned
  BY <1>1, ZenonT(30) DEF IInv, ThreadOk, TypeOK
<1>5. StillSubmitting
  BY <1>2, <1>3, ZenonT(30) DEF StillSubmitting
<1>6. PICK next : next = Disposition(mem)
  BY Zenon
<1>7. LifeOk(next) /\ next.op = op /\ AgreesWith(next, submit, spawned)
  <2>1. CASE result.kind = "task"
    <3>1. result.task \in Tasks
      BY <1>4, <2>1, TaskFacts, Zenon DEF IInv, RecordsOk
    <3>2. next = RecordStatus(mem, result.task, "Pending")
      BY <1>6, <2>1, Zenon DEF Disposition
    <3>3. LifeOk(next) /\ next.op = op /\ next.phase = "Pending" /\ next.task = result.task
      BY <1>2, <1>3, <3>1, <3>2, RecordStatusFacts, SMTT(30) DEF StatusPhases
    <3> QED BY <1>4, <2>1, <3>3, Zenon DEF AgreesWith, StatusPhases
  <2>2. CASE result.kind = "canceled"
    <3>1. next = MovedTo(mem, "CanceledNoTask")
      BY <1>6, <2>2, Zenon DEF Disposition
    <3>2. LifeOk(next) /\ next.op = op /\ next.phase = "CanceledNoTask"
      BY <1>2, <1>3, <3>1, MovedToFacts, Zenon
    <3> QED BY <1>4, <2>2, <3>2, ZenonT(30) DEF AgreesWith, StatusPhases
  <2>3. CASE result.kind = "unknown"
    <3>1. next = MovedTo(mem, "OutcomeUnknown")
      BY <1>6, <2>3, Zenon DEF Disposition
    <3>2. LifeOk(next) /\ next.op = op /\ next.phase = "OutcomeUnknown"
      BY <1>2, <1>3, <3>1, MovedToFacts, Zenon
    <3> QED BY <1>4, <2>3, <3>2, Zenon DEF AgreesWith, StatusPhases
  <2>4. CASE result.kind = "failed"
    <3>1. next = MovedTo(mem, "FailedBeforeSubmit")
      BY <1>6, <2>4, Zenon DEF Disposition
    <3>2. LifeOk(next) /\ next.op = op /\ next.phase = "FailedBeforeSubmit"
      BY <1>2, <1>3, <3>1, MovedToFacts, Zenon
    <3> QED BY <1>4, <2>4, <3>2, Zenon DEF AgreesWith, StatusPhases
  <2> QED BY <1>4, <2>1, <2>2, <2>3, <2>4, ZenonT(30) DEF Results
<1>8. \E w \in Outcomes : /\ life' = Stored(life, next, w)
                          /\ mem' = IF w = "ok" THEN next ELSE mem
  BY <1>4, <1>5, <1>6, ZenonT(30) DEF StartReturn
<1>9. life' \in {life, next} /\ mem' \in {mem, next} /\ (mem' = next => life' = next \/ mem = next)
  BY <1>8, Zenon DEF Stored
<1>10. next # NoLedger /\ next \in LifecycleLedgers
  BY <1>7, LifeFields, ZenonT(30)
<1>11. TypeOK'
  BY <1>1, <1>9, <1>10, Zenon DEF IInv, TypeOK, Results, NoResult, Tokens, Pcs
<1>12. RecordsOk' /\ Fresh'
  BY <1>1, <1>2, <1>7, <1>9, <1>10, ZenonT(30) DEF IInv, RecordsOk, Fresh
<1>13. ThreadOk' /\ SubmitAgrees'
  BY <1>1, <1>2, ZenonT(30) DEF IInv, ThreadOk, SubmitAgrees
<1>14. /\ life' # NoLedger => AgreesWith(life', submit', spawned')
       /\ mem' # NoLedger => AgreesWith(mem', submit', spawned')
  BY <1>1, <1>7, <1>9, AgreesIff, ZenonT(30) DEF IInv
<1>15. SettledIsDurable'
  <2>1. CASE mem' = mem
    BY <1>2, <1>3, <2>1, Zenon DEF SettledIsDurable, IsTerminal
  <2>2. CASE mem' # mem
    <3>1. life' = next /\ mem' = next
      BY <1>9, <2>2, Zenon
    <3> QED BY <1>14, <3>1, Zenon DEF SettledIsDurable, DiffAuthorized, AgreesWith, StatusPhases
  <2> QED BY <2>1, <2>2, Zenon
<1> QED BY <1>11, <1>12, <1>13, <1>14, <1>15, AgreesIff, Zenon DEF IInv

----------------------------------------------------------------------------
(* reconcile_unknown() and resolve_unknown() *)

\* A new phase on an unknown submit record disturbs no lifecycle: only settled
\* records back one.
LEMMA UnknownAdvances ==
  ASSUME IInv, mem # NoLedger, mem.phase = "OutcomeUnknown",
         NEW record, SubmitOk(record), record.op = mem.op,
         Latest(record) \notin {"Intent", "FailedBeforeSpawn"},
         IsUnknown(Latest(Recovered(submit)))
  PROVE  \A l : AgreesWith(l, submit, spawned) => AgreesWith(l, record, spawned)
<1>1. /\ submit # NoLedger /\ submit.op = mem.op /\ SubmitOk(submit)
      /\ record # NoLedger
  BY LedgersNow, SubmitLedgerAssumption, Zenon DEF AgreesWith, SubmitOk
<1>2. Latest(submit) \notin {"TaskRecorded", "TaskAdopted", "ExplicitlyAbandoned", "FailedBeforeSpawn"}
  BY <1>1, RecoveredFacts, Zenon DEF IsUnknown
<1> QED BY <1>1, <1>2, Zenon DEF AgreesWith, PermitsNewOperation

\* reconcile_unknown(), with any outcome of its three writes
LEMMA ReconcileKeeps ==
  \A tasks \in SUBSET Tasks, complete \in {"partial", "full"} :
    IInv /\ Reconcile(tasks, complete) => IInv'
<1> SUFFICES ASSUME NEW tasks \in SUBSET Tasks, NEW complete \in {"partial", "full"},
                    IInv, Reconcile(tasks, complete)
             PROVE  IInv'
  BY Zenon
<1>1. /\ up /\ mem # NoLedger /\ mem.phase = "OutcomeUnknown"
      /\ UNCHANGED <<up, token, waiting, woken, pc, op, prior, draft, result, used, spawned, provider>>
  BY Zenon DEF Reconcile, Unknown, sleepers, thread, external
<1>2. PICK r \in Outcomes, w \in Outcomes, v \in Outcomes :
       LET ledger   == Recovered(submit)
           recorded == RecordReconciliation(ledger, tasks, complete)
           listed   == /\ RecoverOk(r) /\ ledger # NoLedger /\ IsUnknown(Latest(ledger))
                       /\ CanAppend(ledger, "ReconciliationObserved")
           copied   == listed /\ w = "ok" /\ ledger.op = mem.op
           next     == RecordGeneration(mem, tasks, complete)
       IN  /\ submit' = IF listed THEN Stored(ledger, recorded, w) ELSE RecoverStored(r)
           /\ life' = IF copied THEN Stored(life, next, v) ELSE life
           /\ mem' = IF copied /\ v = "ok" THEN next ELSE mem
  BY ZenonT(30) DEF Reconcile
<1>3. PICK ledger : ledger = Recovered(submit)
  BY Zenon
<1>4. PICK recorded : recorded = RecordReconciliation(ledger, tasks, complete)
  BY Zenon
<1>5. PICK next : next = RecordGeneration(mem, tasks, complete)
  BY Zenon
<1>6. PICK listed \in BOOLEAN :
        listed = (/\ RecoverOk(r) /\ ledger # NoLedger /\ IsUnknown(Latest(ledger))
                  /\ CanAppend(ledger, "ReconciliationObserved"))
  BY ZenonT(30) DEF RecoverOk, IsUnknown, CanAppend
<1>7. /\ submit' = IF listed THEN Stored(ledger, recorded, w) ELSE RecoverStored(r)
      /\ life' = IF listed /\ w = "ok" /\ ledger.op = mem.op THEN Stored(life, next, v) ELSE life
      /\ mem' = IF listed /\ w = "ok" /\ ledger.op = mem.op /\ v = "ok" THEN next ELSE mem
  BY <1>2, <1>3, <1>4, <1>5, <1>6, ZenonT(30)
<1>8. /\ LifeOk(mem) /\ mem.op \in used /\ AgreesWith(mem, submit, spawned)
      /\ submit # NoLedger /\ submit.op = mem.op /\ SubmitOk(submit)
      /\ life # NoLedger => LifeOk(life) /\ life.op \in used /\ AgreesWith(life, submit, spawned)
  BY <1>1, LedgersNow, Zenon DEF AgreesWith
<1>9. SubmitOk(ledger) /\ ledger.op = mem.op
  BY <1>3, <1>8, RecoveredFacts, Zenon
<1>10. listed => /\ SubmitOk(recorded) /\ recorded.op = mem.op /\ recorded # NoLedger
                 /\ Latest(recorded) = "ReconciliationObserved"
  BY <1>4, <1>6, <1>9, RecordReconciliationFacts, SubmitLedgerAssumption, ZenonT(30) DEF SubmitOk
<1>11. LifeOk(next) /\ next.op = mem.op /\ next.phase = "OutcomeUnknown"
  BY <1>1, <1>5, <1>8, RecordGenerationFacts, Zenon
<1>12. /\ submit' \in {submit, ledger} \/ (listed /\ submit' = recorded)
       /\ listed /\ w = "ok" => submit' = recorded
  BY <1>3, <1>7, RecoveryFacts, Zenon DEF Stored
<1>13. /\ submit' # NoLedger => SubmitOk(submit') /\ submit'.op \in used
       /\ SubmitAgrees'
       /\ \A l : AgreesWith(l, submit, spawned) => AgreesWith(l, submit', spawned)
  <2>1. CASE submit' \in {submit, ledger}
    BY <1>1, <1>3, <2>1, RecoveryKeeps, Zenon
  <2>2. CASE listed /\ submit' = recorded
    <3>1. \A l : AgreesWith(l, submit, spawned) => AgreesWith(l, submit', spawned)
      BY <1>1, <1>3, <1>6, <1>10, <2>2, UnknownAdvances, ZenonT(30)
    <3>2. SubmitAgrees'
      BY <1>10, <2>2, Zenon DEF SubmitAgrees
    <3> QED BY <1>8, <1>10, <2>2, <3>1, <3>2, Zenon
  <2> QED BY <1>12, <2>1, <2>2, Zenon
<1>14. waiting' \in [Cancelers -> Ops \cup {NoOp}] /\ woken' \in SUBSET Cancelers
       /\ token' \in Tokens /\ provider' \in [Ops -> Tasks \cup {NoTask}]
  BY <1>1, Zenon DEF IInv, TypeOK
<1>15. CASE listed /\ w = "ok"
  <2>1. AgreesWith(next, submit', spawned)
    BY <1>10, <1>11, <1>12, <1>15, ZenonT(30) DEF AgreesWith, StatusPhases
  <2>2. life' = Stored(life, next, v) /\ mem' = IF v = "ok" THEN next ELSE mem
    BY <1>7, <1>9, <1>15, Zenon
  <2> QED BY <1>1, <1>8, <1>11, <1>13, <1>14, <2>1, <2>2, StoreKeeps, Zenon
<1>16. CASE ~(listed /\ w = "ok")
  <2>1. life' = life /\ mem' = mem
    BY <1>7, <1>16, Zenon
  <2>2. SettledIsDurable'
    BY <1>1, <2>1, Zenon DEF SettledIsDurable, IsTerminal
  <2>3. pc = "idle"
    BY <1>1, LedgersNow, Zenon
  <2> QED BY <1>1, <1>8, <1>13, <1>14, <2>1, <2>2, <2>3, CallKeeps, Zenon
<1> QED BY <1>15, <1>16, Zenon

\* runner.resolve_unknown: what it leaves is settled as the decision says.
LEMMA ResolvedSubmitFacts ==
  ASSUME NEW l, SubmitOk(l), NEW o, NEW task \in Tasks \cup {NoTask},
         NEW m, m = ResolvedSubmit(l, o, task), m # NoLedger
  PROVE  /\ SubmitOk(m) /\ m.op = o /\ l.op = o
         /\ task # NoTask => m.task = task /\ Latest(m) = "TaskAdopted"
         /\ task = NoTask => Latest(m) = "ExplicitlyAbandoned"
         /\ m = l \/ Latest(l) = "ReconciliationObserved"
<1>1. l # NoLedger
  BY SubmitLedgerAssumption, Zenon DEF SubmitOk
<1>2. l.op = o
  BY <1>1, Zenon DEF ResolvedSubmit
<1>3. CASE task # NoTask
  <2>1. m = IF Latest(l) = "TaskAdopted" /\ l.task = task THEN l
            ELSE IF CanAdopt(l, task) THEN RecordAdoptedTask(l, task) ELSE NoLedger
    BY <1>1, <1>2, <1>3, Zenon DEF ResolvedSubmit
  <2>2. CASE m = l /\ Latest(l) = "TaskAdopted" /\ l.task = task
    BY <1>2, <1>3, <2>2, Zenon
  <2>3. CASE CanAdopt(l, task) /\ m = RecordAdoptedTask(l, task)
    <3>1. task \in Tasks /\ Latest(l) = "ReconciliationObserved"
      BY <1>3, <2>3, Zenon DEF CanAdopt
    <3> QED BY <1>2, <1>3, <2>3, <3>1, RecordAdoptedTaskFacts, SMTT(30)
  <2> QED BY <2>1, <2>2, <2>3, Zenon
<1>4. CASE task = NoTask
  <2>1. m = IF Latest(l) = "ExplicitlyAbandoned" THEN l
            ELSE IF CanAbandon(l) THEN RecordExplicitlyAbandoned(l) ELSE NoLedger
    BY <1>1, <1>2, <1>4, Zenon DEF ResolvedSubmit
  <2>2. CASE m = l /\ Latest(l) = "ExplicitlyAbandoned"
    BY <1>2, <1>4, <2>2, Zenon
  <2>3. CASE CanAbandon(l) /\ m = RecordExplicitlyAbandoned(l)
    <3>1. CanAppend(l, "ExplicitlyAbandoned") /\ Latest(l) = "ReconciliationObserved"
      BY <2>3, Zenon DEF CanAbandon
    <3>2. SubmitOk(m)
      BY <2>3, <3>1, PlainAppend, Zenon DEF RecordExplicitlyAbandoned
    <3>3. l \in SubmitLedgers /\ "ExplicitlyAbandoned" \in SubmitPhases
      BY Zenon DEF SubmitOk, SubmitPhases
    <3>4. m = Appended(l, "ExplicitlyAbandoned")
      BY <2>3, Zenon DEF RecordExplicitlyAbandoned
    <3>5. m.op = l.op /\ Latest(m) = "ExplicitlyAbandoned"
      <4>1. /\ Appended(l, "ExplicitlyAbandoned").op = l.op
            /\ Latest(Appended(l, "ExplicitlyAbandoned")) = "ExplicitlyAbandoned"
        BY <3>3, AppendedFacts, ZenonT(30)
      <4> QED BY <3>4, <4>1, ZenonT(30)
    <3> QED BY <1>2, <1>4, <3>1, <3>2, <3>5, Zenon
  <2> QED BY <2>1, <2>2, <2>3, Zenon
<1> QED BY <1>3, <1>4, Zenon

\* resolve_unknown() of an unknown operation, settling it as `next'
LEMMA ResolveKeeps ==
  ASSUME IInv, Unknown, NEW task \in Tasks \cup {NoTask},
         NEW next, LifeOk(next), next.op = mem.op,
         task # NoTask => next.phase \in StatusPhases /\ next.task = task,
         task = NoTask => next.phase = "AbandonedUnknown",
         Resolve(task, next),
         UNCHANGED <<up, token, waiting, woken, pc, op, prior, draft, result, used, spawned, provider>>
  PROVE  IInv'
<1>1. up /\ mem # NoLedger /\ mem.phase = "OutcomeUnknown"
  BY ZenonT(30) DEF Unknown
<1>2. /\ LifeOk(mem) /\ mem.op \in used /\ AgreesWith(mem, submit, spawned) /\ pc = "idle"
      /\ submit # NoLedger /\ submit.op = mem.op /\ SubmitOk(submit)
      /\ life # NoLedger => LifeOk(life) /\ life.op \in used /\ AgreesWith(life, submit, spawned)
  BY <1>1, LedgersNow, ZenonT(30) DEF AgreesWith
<1>3. PICK ledger : ledger = Recovered(submit)
  BY ZenonT(30)
<1>4. PICK resolved : resolved = ResolvedSubmit(ledger, mem.op, task)
  BY ZenonT(30)
<1>5. PICK r \in Outcomes, w \in Outcomes, v \in Outcomes :
        LET ok      == RecoverOk(r) /\ resolved # NoLedger
            written == ok /\ (resolved = ledger \/ w = "ok")
        IN  /\ submit' = IF ok THEN Stored(ledger, resolved, w) ELSE RecoverStored(r)
            /\ life' = IF written THEN Stored(life, next, v) ELSE life
            /\ mem' = IF written /\ v = "ok" THEN next ELSE mem
  BY <1>3, <1>4, ZenonT(30) DEF Resolve
<1>6. PICK ok \in BOOLEAN : ok = (RecoverOk(r) /\ resolved # NoLedger)
  BY ZenonT(30) DEF RecoverOk
<1>7. PICK written \in BOOLEAN : written = (ok /\ (resolved = ledger \/ w = "ok"))
  BY ZenonT(30)
<1>8. /\ submit' = IF ok THEN Stored(ledger, resolved, w) ELSE RecoverStored(r)
      /\ life' = IF written THEN Stored(life, next, v) ELSE life
      /\ mem' = IF written /\ v = "ok" THEN next ELSE mem
  BY <1>5, <1>6, <1>7, ZenonT(30)
<1>9. SubmitOk(ledger) /\ ledger.op = mem.op
  BY <1>2, <1>3, RecoveredFacts, Zenon
<1>10. ok => /\ SubmitOk(resolved) /\ resolved.op = mem.op /\ resolved # NoLedger
             /\ task # NoTask => resolved.task = task /\ Latest(resolved) = "TaskAdopted"
             /\ task = NoTask => Latest(resolved) = "ExplicitlyAbandoned"
             /\ resolved = ledger \/ Latest(ledger) = "ReconciliationObserved"
  <2>1. ok => resolved # NoLedger
    BY <1>6, ZenonT(30)
  <2>2. resolved # NoLedger =>
          /\ SubmitOk(resolved) /\ resolved.op = mem.op
          /\ task # NoTask => resolved.task = task /\ Latest(resolved) = "TaskAdopted"
          /\ task = NoTask => Latest(resolved) = "ExplicitlyAbandoned"
          /\ resolved = ledger \/ Latest(ledger) = "ReconciliationObserved"
    BY <1>4, <1>9, ResolvedSubmitFacts, SMTT(30)
  <2> QED BY <2>1, <2>2, ZenonT(30)
<1>11. /\ submit' \in {submit, ledger} \/ (ok /\ submit' = resolved /\ resolved # ledger)
       /\ written => ok /\ submit' = resolved
  BY <1>3, <1>7, <1>8, RecoveryFacts, ZenonT(30) DEF Stored
<1>12. /\ submit' # NoLedger => SubmitOk(submit') /\ submit'.op \in used
       /\ SubmitAgrees'
       /\ \A l : AgreesWith(l, submit, spawned) => AgreesWith(l, submit', spawned)
  <2>1. CASE submit' \in {submit, ledger}
    BY <1>3, <2>1, RecoveryKeeps, Zenon
  <2>2. CASE ok /\ submit' = resolved /\ resolved # ledger
    <3>1. Latest(resolved) \notin {"Intent", "FailedBeforeSpawn"}
      BY <1>10, <2>2, ZenonT(30)
    <3>2. IsUnknown(Latest(ledger))
      BY <1>10, <2>2, Zenon DEF IsUnknown
    <3>3. \A l : AgreesWith(l, submit, spawned) => AgreesWith(l, submit', spawned)
      BY <1>1, <1>3, <1>10, <2>2, <3>1, <3>2, UnknownAdvances, ZenonT(30)
    <3>4. SubmitAgrees'
      BY <2>2, <3>1, Zenon DEF SubmitAgrees
    <3> QED BY <1>2, <1>10, <2>2, <3>3, <3>4, Zenon
  <2> QED BY <1>11, <2>1, <2>2, ZenonT(30)
<1>13. waiting' \in [Cancelers -> Ops \cup {NoOp}] /\ woken' \in SUBSET Cancelers
       /\ token' \in Tokens /\ provider' \in [Ops -> Tasks \cup {NoTask}]
  BY ZenonT(30) DEF IInv, TypeOK
<1>14. CASE written
  <2>1. AgreesWith(next, submit', spawned)
    <3>1. CASE task # NoTask
      BY <1>10, <1>11, <1>14, <3>1, Zenon DEF AgreesWith, StatusPhases
    <3>2. CASE task = NoTask
      BY <1>10, <1>11, <1>14, <3>2, Zenon DEF AgreesWith, StatusPhases
    <3> QED BY <3>1, <3>2, ZenonT(30)
  <2>2. life' = Stored(life, next, v) /\ mem' = IF v = "ok" THEN next ELSE mem
    BY <1>8, <1>14, Zenon
  <2> QED BY <1>1, <1>2, <1>12, <1>13, <2>1, <2>2, StoreKeeps, Zenon
<1>15. CASE ~written
  <2>1. life' = life /\ mem' = mem
    BY <1>8, <1>15, Zenon
  <2>2. SettledIsDurable'
    BY <1>1, <2>1, Zenon DEF SettledIsDurable, IsTerminal
  <2> QED BY <1>1, <1>2, <1>12, <1>13, <2>1, <2>2, CallKeeps, Zenon
<1> QED BY <1>14, <1>15, Zenon

\* resolve_unknown(AdoptListedTask) keeps IInv.
LEMMA AdoptKeeps == \A task \in Tasks : IInv /\ Adopt(task) => IInv'
<1> SUFFICES ASSUME NEW task \in Tasks, IInv, Adopt(task) PROVE IInv'
  BY Zenon
<1>1. Unknown /\ UNCHANGED <<up, token, waiting, woken, pc, op, prior, draft, result, used, spawned, provider>>
  BY ZenonT(30) DEF Adopt, sleepers, thread, external
<1>2. PICK phase \in StatusPhases : Resolve(task, RecordStatus(mem, task, phase))
  BY Zenon DEF Adopt
<1>3. PICK next : next = RecordStatus(mem, task, phase)
  BY Zenon
<1>4. Resolve(task, next)
  BY <1>2, <1>3, ZenonT(30) DEF Resolve
<1>5. LifeOk(mem) /\ mem.phase = "OutcomeUnknown"
  BY <1>1, LedgersNow, Zenon DEF Unknown
<1>6. LifeOk(next) /\ next.op = mem.op /\ next.phase = phase /\ next.task = task
  BY <1>3, <1>5, RecordStatusFacts
<1>7. task # NoTask
  BY SubmitLedgerAssumption, Zenon
<1> QED BY <1>1, <1>4, <1>6, <1>7, ResolveKeeps, ZenonT(30)

\* resolve_unknown(AbandonAfterReconciliation) keeps IInv.
LEMMA AbandonKeeps == IInv /\ Abandon => IInv'
<1> SUFFICES ASSUME IInv, Abandon PROVE IInv'
  BY Zenon
<1>1. Unknown /\ UNCHANGED <<up, token, waiting, woken, pc, op, prior, draft, result, used, spawned, provider>>
  BY Zenon DEF Abandon, sleepers, thread, external
<1>2. PICK next : next = MovedTo(mem, "AbandonedUnknown")
  BY Zenon
<1>3. Resolve(NoTask, next)
  BY <1>2, ZenonT(30) DEF Abandon, Resolve
<1>4. LifeOk(mem) /\ mem.phase = "OutcomeUnknown"
  BY <1>1, LedgersNow, Zenon DEF Unknown
<1>5. LifeOk(next) /\ next.op = mem.op /\ next.phase = "AbandonedUnknown"
  BY <1>2, <1>4, MovedToFacts, Zenon
<1> QED BY <1>1, <1>3, <1>5, ResolveKeeps, Zenon

----------------------------------------------------------------------------
(***************************************************************************)
(* The invariant is inductive, and the properties follow from it.          *)
(***************************************************************************)
LEMMA StartThreadKeeps == IInv /\ StartThread => IInv'
BY SubmitRefusedKeeps, SubmitIntentKeeps, SubmitErrorsKeep, SubmitAuthorizeKeeps, SpawnKeeps,
   SubmitStartedKeeps, SubmitTaskKeeps, StartReturnKeeps, Zenon DEF StartThread

\* Every step keeps IInv.
LEMMA NextKeeps == IInv /\ [Next]_vars => IInv'
<1> SUFFICES ASSUME IInv, [Next]_vars PROVE IInv'
  BY ZenonT(30)
<1>1. CASE LoadSettled \/ LoadInterrupted \/ Crash
  BY <1>1, LoadSettledKeeps, LoadInterruptedKeeps, CrashKeeps, Zenon
<1>2. CASE \E o \in Ops : Start(o)
  BY <1>2, StartKeeps, Zenon
<1>3. CASE StartThread
  BY <1>3, StartThreadKeeps, Zenon
<1>4. CASE \E c \in Cancelers : Cancel(c) \/ CancelWake(c)
  BY <1>4, CancelKeeps, Zenon
<1>5. CASE Inspect \/ Abandon
  BY <1>5, InspectKeeps, AbandonKeeps, Zenon
<1>6. CASE \E tasks \in SUBSET Tasks, complete \in {"partial", "full"} : Reconcile(tasks, complete)
  BY <1>6, ReconcileKeeps, Zenon
<1>7. CASE \E task \in Tasks : Adopt(task)
  BY <1>7, AdoptKeeps, Zenon
<1>8. CASE \E o \in Ops, t \in Tasks : ProviderCreates(o, t)
  BY <1>8, ProviderKeeps, Zenon
<1>9. CASE UNCHANGED vars
  BY <1>9, StutterKeeps, Zenon
<1> QED BY <1>1, <1>2, <1>3, <1>4, <1>5, <1>6, <1>7, <1>8, <1>9, Zenon DEF Next

\* The two ledgers, the memory of the orchestrator and the thread inside start()
\* stay in agreement in every reachable state, whatever crashes and write failures
\* happened on the way.
THEOREM Inductive == Spec => []IInv
BY InitOk, NextKeeps, PTL DEF Spec

\* Type correctness
THEOREM TypeCorrect == Spec => []TypeOK
<1>1. IInv => TypeOK
  BY Zenon DEF IInv
<1> QED BY <1>1, Inductive, PTL

\* Every ledger that reaches a file passes validate(), so a later load accepts it.
THEOREM StoredLedgersValid == Spec => []LedgersValid
<1>1. IInv => LedgersValid
  BY Zenon DEF IInv, RecordsOk, LedgersValid, SubmitOk, LifeOk
<1> QED BY <1>1, Inductive, PTL

\* An operation that either ledger calls failed or cancelled before the submit never
\* had a child process.
THEOREM FailedNeverSpawned == Spec => []FailedMeansNotSpawned
<1>1. IInv => FailedMeansNotSpawned
  BY Zenon DEF IInv, SubmitAgrees, Agrees, FailedMeansNotSpawned
<1> QED BY <1>1, Inductive, PTL

\* repair_interrupted_state classifies every pair of files a crash can leave.
THEOREM RestartAlwaysRepairs == Spec => []RestartRepairs
<1>1. IInv => RestartRepairs
  <2> SUFFICES ASSUME IInv, Interrupted(life)
               PROVE  Repairable(life, Observation(life.op, Recovered(submit)))
    BY Zenon DEF RestartRepairs
  <2>1. /\ life.phase \in {"Submitting", "OutcomeUnknown"}
        /\ AgreesWith(life, submit, spawned)
        /\ submit # NoLedger => SubmitOk(submit)
    BY LedgersNow, Zenon DEF Interrupted
  <2>2. CASE submit = NoLedger
    <3>1. Recovered(submit) = NoLedger /\ life.phase = "Submitting"
      BY <2>1, <2>2, Zenon DEF Recovered, NeedsRecovery, AgreesWith
    <3> QED BY <3>1, Zenon DEF Observation, Repairable
  <2>3. CASE submit # NoLedger
    <3>1. PICK ledger : ledger = Recovered(submit)
      BY Zenon
    <3>2. /\ SubmitOk(ledger) /\ ledger.op = submit.op
          /\ Latest(ledger) \notin {"Intent", "Authorized", "Started"}
          /\ Latest(submit) \notin {"Intent", "Authorized", "Started"} => ledger = submit
          /\ Latest(ledger) = "FailedBeforeSpawn" => Latest(submit) \in {"Intent", "FailedBeforeSpawn"}
      BY <2>1, <2>3, <3>1, RecoveredFacts, Zenon
    <3>3. ledger # NoLedger /\ Latest(ledger) \in SubmitPhases
      BY <3>2, LatestFacts, SubmitLedgerAssumption, Zenon DEF SubmitOk
    <3>4. CASE submit.op = life.op
      <4>1. /\ Observation(life.op, ledger) \notin {"Conflict", "Invalid"}
            /\ Observation(life.op, ledger) \in {"FailedBeforeSpawn", "Absent"}
                 => Latest(ledger) = "FailedBeforeSpawn"
            /\ Observation(life.op, ledger) \in {"FailedBeforeSpawn", "OutcomeUnknown",
                                                 "TaskRecorded", "ExplicitlyAbandoned"}
        BY <3>2, <3>3, <3>4, Zenon DEF Observation, SubmitPhases, IsUnknown
      <4> QED BY <2>1, <3>1, <3>2, <4>1, Zenon DEF Repairable, AgreesWith
    <3>5. CASE submit.op # life.op
      <4>1. life.phase = "Submitting" /\ PermitsNewOperation(Latest(submit))
        BY <2>1, <2>3, <3>5, Zenon DEF AgreesWith
      <4>2. ledger = submit
        BY <3>2, <4>1, Zenon DEF PermitsNewOperation
      <4>3. Observation(life.op, ledger) = "Absent"
        BY <2>3, <3>5, <4>1, <4>2, Zenon DEF Observation
      <4> QED BY <3>1, <4>1, <4>3, Zenon DEF Repairable
    <3> QED BY <3>4, <3>5, Zenon
  <2> QED BY <2>2, <2>3, Zenon
<1> QED BY <1>1, Inductive, PTL

\* A lifecycle with a task, or an abandoned one, is backed by the submit ledger.
THEOREM LowerAlwaysFirst == Spec => []LowerSettledFirst
<1>1. IInv => LowerSettledFirst
  BY Zenon DEF IInv, Agrees, LowerSettledFirst
<1> QED BY <1>1, Inductive, PTL

\* A terminal lifecycle in memory is the durable one, and its diff can be authorized.
THEOREM TerminalIsDurable == Spec => []SettledIsDurable
<1>1. IInv => SettledIsDurable
  BY Zenon DEF IInv
<1> QED BY <1>1, Inductive, PTL

\* What start() checked before it released the mutex still holds when submit() runs.
THEOREM GateHolds == Spec => []GateNotStale
<1>1. IInv => GateNotStale
  <2> SUFFICES ASSUME IInv, pc # "idle" PROVE StillSubmitting /\ (pc = "finish" => result.op = op)
    BY Zenon DEF GateNotStale
  <2>1. op \in Ops /\ mem = Submitting(op)
    BY InSubmit, Zenon
  <2>2. StillSubmitting
    BY <2>1, SubmittingFacts, LifeFields, Zenon DEF StillSubmitting
  <2> QED BY <2>2, Zenon DEF IInv, ThreadOk
<1> QED BY <1>1, Inductive, PTL

----------------------------------------------------------------------------
\* Only the first write of submit() hands the submit ledger to another operation.
LEMMA OperationKept ==
  ASSUME IInv, Next, submit # NoLedger, ~SubmitIntent
  PROVE  submit'.op = submit.op
<1>1. SubmitOk(submit) /\ Recovered(submit).op = submit.op
  BY RecoveredFacts, Zenon DEF IInv, RecordsOk
<1>2. \A r \in Outcomes : RecoverStored(r) \in {submit, Recovered(submit)}
  BY RecoveryFacts, Zenon
<1>3. CASE \/ LoadSettled \/ Crash \/ Spawn \/ StartReturn \/ Inspect
           \/ \E c \in Cancelers : Cancel(c) \/ CancelWake(c)
           \/ \E o \in Ops, t \in Tasks : ProviderCreates(o, t)
  BY <1>3, Zenon DEF LoadSettled, Crash, Spawn, StartReturn, Inspect, Cancel, CancelWake, ProviderCreates, disk
<1>4. CASE LoadInterrupted \/ SubmitRefused \/ \E o \in Ops : Start(o)
  BY <1>1, <1>2, <1>4, ZenonT(30) DEF LoadInterrupted, SubmitRefused, Start
<1>5. CASE \/ SubmitCanceledBeforeStart \/ SubmitUnauthorized \/ SubmitAuthorize
           \/ SubmitCanceledAuthorized \/ SpawnFails \/ SpawnUncertain
           \/ SubmitStarted \/ SubmitInconclusive \/ SubmitTask
  <2>1. pc \in {"authorize", "spawn", "started", "wait"}
    BY <1>5, ZenonT(30) DEF SubmitCanceledBeforeStart, SubmitUnauthorized, SubmitAuthorize,
         SubmitCanceledAuthorized, SpawnFails, SpawnUncertain, SubmitStarted, SubmitInconclusive, SubmitTask
  <2>2. submit = draft /\ SubmitOk(draft) /\ draft \in SubmitLedgers
    BY <2>1, DraftFacts, Zenon
  <2>3. \A p \in SubmitPhases : Appended(draft, p).op = submit.op
    BY <2>2, AppendedFacts, Zenon
  <2>4. RecordStarted(draft).op = submit.op
    BY <2>2, <2>3, Zenon DEF RecordStarted, SubmitPhases, Appended, SubmitLedgers
  <2>5. \A t : RecordTask(draft, t).op = submit.op
    BY <2>2, <2>3, Zenon DEF RecordTask, SubmitPhases, Appended, SubmitLedgers
  <2> QED BY <1>5, <2>2, <2>3, <2>4, <2>5, ZenonT(30)
        DEF SubmitCanceledBeforeStart, SubmitUnauthorized, SubmitAuthorize,
            SubmitCanceledAuthorized, SpawnFails, SpawnUncertain, SubmitStarted,
            SubmitInconclusive, SubmitTask, WriteFailed, WriteUnknown, Stored, SubmitPhases
<1>6. ASSUME NEW tasks \in SUBSET Tasks, NEW complete \in {"partial", "full"}, Reconcile(tasks, complete)
      PROVE  submit'.op = submit.op
  <2>1. CanAppend(Recovered(submit), "ReconciliationObserved") =>
          RecordReconciliation(Recovered(submit), tasks, complete).op = submit.op
    BY <1>1, RecoveredFacts, RecordReconciliationFacts, SMTT(30)
  <2> QED BY <1>1, <1>2, <1>6, <2>1, ZenonT(30) DEF Reconcile, Stored
<1>7. ASSUME NEW task \in Tasks \cup {NoTask}, NEW next, Resolve(task, next)
      PROVE  submit'.op = submit.op
  <2>1. PICK resolved : resolved = ResolvedSubmit(Recovered(submit), mem.op, task)
    BY Zenon
  <2>2. SubmitOk(Recovered(submit)) /\ Recovered(submit).op = submit.op
    BY <1>1, RecoveredFacts, Zenon
  <2>3. resolved # NoLedger => resolved.op = mem.op /\ Recovered(submit).op = mem.op
    BY <2>1, <2>2, ResolvedSubmitFacts
  <2> QED BY <1>1, <1>2, <1>7, <2>1, <2>2, <2>3, ZenonT(30) DEF Resolve, Stored
<1>8. CASE \E task \in Tasks : Adopt(task)
  <2>1. PICK task \in Tasks : Adopt(task)
    BY <1>8, Zenon
  <2>2. PICK phase \in StatusPhases : Resolve(task, RecordStatus(mem, task, phase))
    BY <2>1, Zenon DEF Adopt
  <2>3. PICK next : next = RecordStatus(mem, task, phase)
    BY Zenon
  <2>4. Resolve(task, next)
    BY <2>2, <2>3, ZenonT(30) DEF Resolve
  <2> QED BY <1>7, <2>4, Zenon
<1>9. CASE Abandon
  <2>1. PICK next : next = MovedTo(mem, "AbandonedUnknown")
    BY Zenon
  <2>2. Resolve(NoTask, next)
    BY <1>9, <2>1, ZenonT(30) DEF Abandon, Resolve
  <2> QED BY <1>7, <2>2, ZenonT(30)
<1> QED BY <1>3, <1>4, <1>5, <1>6, <1>8, <1>9, Zenon DEF Next, StartThread

\* submit() never replaces the record of an operation whose outcome is open.
THEOREM OpenRecordKept == Spec => OpenSubmitNeverReplaced
<1>1. ASSUME IInv, [Next]_vars, submit # NoLedger, submit'.op # submit.op, submit.op \in spawned
      PROVE  submit.task # NoTask \/ Latest(submit) = "ExplicitlyAbandoned"
  <2>1. SubmitIntent
    BY <1>1, OperationKept, Zenon DEF vars
  <2>2. PermitsNewOperation(Latest(submit)) /\ SubmitOk(submit)
    BY <1>1, <2>1, IntentSettled, ZenonT(30) DEF SubmitIntent, IInv, RecordsOk
  <2>3. Latest(submit) # "FailedBeforeSpawn"
    BY <1>1, Zenon DEF IInv, SubmitAgrees
  <2>4. Latest(submit) \in {"TaskRecorded", "TaskAdopted"} => submit.task # NoTask
    BY <2>2, TaskFacts, SubmitLedgerAssumption, Zenon
  <2> QED BY <2>2, <2>3, <2>4, Zenon DEF PermitsNewOperation
<1> QED BY <1>1, Inductive, PTL DEF Spec, OpenSubmitNeverReplaced

\* One operation reaches one terminal lifecycle in memory, and no call moves it again.
THEOREM TerminalNeverMoves == Spec => TerminalIsFinal
<1>1. ASSUME IInv, [Next]_vars, mem # NoLedger, IsTerminal(mem.phase), up', mem' # mem
      PROVE  mem'.op # mem.op
  <2>1. up /\ mem.op \in used /\ mem.phase \notin {"Submitting", "Pending", "OutcomeUnknown"}
    BY <1>1, LedgersNow, Zenon DEF IsTerminal
  <2>2. pc = "idle"
    BY <1>1, <2>1, LedgersNow, Zenon
  <2>3. ASSUME NEW o \in Ops, Start(o) PROVE mem'.op # mem.op
    <3>1. o \notin used /\ mem' = Submitting(o)
      BY <1>1, <2>3, Zenon DEF Start
    <3>2. Submitting(o).op = o
      BY SubmittingFacts, Zenon
    <3> QED BY <2>1, <3>1, <3>2, Zenon
  <2>4. ~StartThread
    BY <2>2, ZenonT(30) DEF StartThread, SubmitRefused, SubmitIntent, SubmitCanceledBeforeStart, SubmitUnauthorized,
         SubmitAuthorize, SubmitCanceledAuthorized, SpawnFails, SpawnUncertain, Spawn, SubmitStarted,
         SubmitInconclusive, SubmitTask, StartReturn
  <2>5. ~(LoadSettled \/ LoadInterrupted \/ Crash)
    BY <1>1, <2>1, Zenon DEF LoadSettled, LoadInterrupted, Crash
  <2>6. ASSUME NEW c \in Cancelers, Cancel(c) \/ CancelWake(c) PROVE mem' = mem
    BY <2>1, <2>6, ZenonT(30) DEF Cancel, CancelWake, CancelLoop
  <2>7. ASSUME NEW tasks, NEW complete, Reconcile(tasks, complete) PROVE FALSE
    BY <2>1, <2>7, Zenon DEF Reconcile, Unknown
  <2>8. ~Inspect /\ ~Abandon /\ (\A task \in Tasks : ~Adopt(task))
    BY <2>1, ZenonT(30) DEF Inspect, Abandon, Adopt, Unknown
  <2>9. ASSUME NEW o \in Ops, NEW t \in Tasks, ProviderCreates(o, t) PROVE mem' = mem
    BY <2>9, Zenon DEF ProviderCreates
  <2>10. UNCHANGED vars => mem' = mem
    BY Zenon DEF vars
  <2> QED BY <1>1, <2>3, <2>4, <2>5, <2>6, <2>7, <2>8, <2>9, <2>10, Zenon DEF Next
<1> QED BY <1>1, Inductive, PTL DEF Spec, TerminalIsFinal

----------------------------------------------------------------------------
(***************************************************************************)
(* The refinement.  Each action is shown to keep what RefinementInv adds   *)
(* to IInv and to be a step of CloudContract, or a stutter of it.          *)
(***************************************************************************)
Refines == [Contract!ContractNext]_(Contract!cloudVars)

Follows == (up => FileFollows) /\ CancelWasSignalled

\* lifecycle(): a record is shown as its operation and phase, and no record as none.
LEMMA ProjectionFacts ==
  ASSUME NEW l, LifeOk(l)
  PROVE  /\ Projection(l) = Contract!Life(l.op, l.phase)
         /\ Projection(l) \in Contract!Lives /\ Projection(l) # NoLedger
         /\ Projection(l).op = l.op /\ Projection(l).phase = l.phase
         /\ Contract!Ok(Projection(l)) \in Contract!CallResults
<1>1. l # NoLedger /\ l.op \in Ops /\ l.phase \in LifecyclePhases
  BY LifeFields, Zenon
<1>2. Projection(l) = [op |-> l.op, phase |-> l.phase]
  BY <1>1, Zenon DEF Projection
<1>3. Contract!Phases = LifecyclePhases
  BY Zenon DEF Contract!Phases, Contract!Terminal, LifecyclePhases
<1>4. Projection(l) \in [op : Ops, phase : LifecyclePhases]
  BY <1>1, <1>2
<1>5. Projection(l) \in Contract!Lives /\ Projection(l) # NoLedger
  BY <1>3, <1>4, ProjectionAssumption, Zenon DEF Contract!Lives
<1>6. Contract!Ok(Projection(l)) \in Contract!CallResults
  BY <1>5, ZenonT(30) DEF Contract!Ok, Contract!CallResults
<1> QED BY <1>2, <1>5, <1>6 DEF Contract!Life

\* The errors a call may return
LEMMA ErrorFacts ==
  /\ Contract!Err("Other") \in Contract!CallResults
  /\ Contract!Err("ProviderRead") \in Contract!CallResults
  /\ Contract!Err("NoCurrentOperation") \in Contract!CallResults
BY ZenonT(30) DEF Contract!CallResults

\* A step that callers do not see
LEMMA Unseen ==
  ASSUME UNCHANGED <<CurrentLifecycle, StartCall, used, up>>
  PROVE  Refines
BY Zenon DEF Refines, Contract!cloudVars

\* The current lifecycle when the orchestrator exists, and when it does not
LEMMA Current ==
  ASSUME IInv
  PROVE  /\ up => CurrentLifecycle = Projection(mem)
         /\ ~up => CurrentLifecycle = Projection(life) /\ StartCall = "idle"
         /\ mem # NoLedger => LifeOk(mem) /\ up
         /\ life # NoLedger => LifeOk(life)
         /\ StartCall = "idle" <=> pc = "idle"
         /\ pc = "idle" => token = "none"
<1>1. /\ mem # NoLedger => LifeOk(mem) /\ up
      /\ life # NoLedger => LifeOk(life)
  BY Zenon DEF IInv, RecordsOk, ThreadOk
<1>2. (~up => pc = "idle") /\ (pc = "idle" => token = "none")
  BY Zenon DEF IInv, ThreadOk
<1> QED BY <1>1, <1>2, Zenon DEF CurrentLifecycle, StartCall

\* The gate of start() in the words of the contract
LEMMA SettledIff ==
  ASSUME IInv, up
  PROVE  Contract!Settled <=> StartAdmitted
<1>1. CASE mem = NoLedger
  BY <1>1, Current, Zenon DEF Contract!Settled, StartAdmitted, Projection
<1>2. CASE mem # NoLedger
  <2>1. CurrentLifecycle # NoLedger /\ CurrentLifecycle.phase = mem.phase
    BY <1>2, Current, ProjectionFacts, Zenon
  <2> QED BY <1>2, <2>1, Zenon DEF Contract!Settled, StartAdmitted, IsTerminal, Contract!Terminal
<1> QED BY <1>1, <1>2, Zenon

\* The phase of the current lifecycle in the words of the contract
LEMMA InPhaseIff ==
  ASSUME IInv, NEW ps
  PROVE  /\ mem # NoLedger => (Contract!InPhase(ps) <=> mem.phase \in ps)
         /\ ~up /\ life # NoLedger => (Contract!InPhase(ps) <=> life.phase \in ps)
         /\ ~up /\ life = NoLedger => ~Contract!InPhase(ps)
<1>1. ASSUME mem # NoLedger PROVE Contract!InPhase(ps) <=> mem.phase \in ps
  <2>1. CurrentLifecycle # NoLedger /\ CurrentLifecycle.phase = mem.phase
    BY <1>1, Current, ProjectionFacts, Zenon
  <2> QED BY <2>1, Zenon DEF Contract!InPhase
<1>2. ASSUME ~up, life # NoLedger PROVE Contract!InPhase(ps) <=> life.phase \in ps
  <2>1. CurrentLifecycle # NoLedger /\ CurrentLifecycle.phase = life.phase
    BY <1>2, Current, ProjectionFacts, Zenon
  <2> QED BY <2>1, Zenon DEF Contract!InPhase
<1>3. ASSUME ~up, life = NoLedger PROVE ~Contract!InPhase(ps)
  BY <1>3, Current, Zenon DEF Contract!InPhase, Projection
<1> QED BY <1>1, <1>2, <1>3, Zenon

----------------------------------------------------------------------------
\* Construction of an orchestrator whose lifecycle needs no repair
LEMMA LoadSettledRefines ==
  ASSUME RefinementInv, LoadSettled
  PROVE  Follows' /\ Refines
<1>1. /\ ~up /\ up' /\ ~Interrupted(life) /\ mem' = life
      /\ UNCHANGED <<life, pc, token, result, used>>
  BY Zenon DEF LoadSettled, disk, thread
<1>2. IInv /\ CancelWasSignalled
  BY Zenon DEF RefinementInv
<1>3. Follows'
  BY <1>1, <1>2, Zenon DEF Follows, FileFollows, CancelWasSignalled
<1>4. UNCHANGED <<CurrentLifecycle, StartCall>>
  BY <1>1, Zenon DEF CurrentLifecycle, StartCall
<1>5. ~Contract!InPhase({"Submitting"})
  BY <1>1, <1>2, InPhaseIff, Zenon DEF Interrupted
<1>6. Contract!CloudRestart
  BY <1>1, <1>4, <1>5, Zenon DEF Contract!CloudRestart
<1> QED BY <1>3, <1>6, Zenon DEF Refines, Contract!ContractNext

\* repair_interrupted_state: the phases it settles an interrupted submit in
LEMMA RepairedPhase ==
  ASSUME IInv, Interrupted(life), NEW seen, seen = Observation(life.op, Recovered(submit)),
         Repairable(life, seen), NEW task,
         task = IF Recovered(submit) = NoLedger THEN NoTask ELSE Recovered(submit).task
  PROVE  /\ LifeOk(Repaired(life, seen, task)) /\ Repaired(life, seen, task).op = life.op
         /\ Repaired(life, seen, task).phase
              \in {"FailedBeforeSubmit", "OutcomeUnknown", "Pending", "AbandonedUnknown"}
         /\ life.phase = "OutcomeUnknown"
              => Repaired(life, seen, task).phase # "FailedBeforeSubmit"
<1> DEFINE fixed == Repaired(life, seen, task)
<1>1. LifeOk(life) /\ life.phase \in {"Submitting", "OutcomeUnknown"}
  BY LedgersNow, Zenon DEF Interrupted
<1>2. CASE seen \in {"Absent", "FailedBeforeSpawn"}
  <2>1. fixed = MovedTo(life, "FailedBeforeSubmit") /\ life.phase = "Submitting"
    BY <1>2, Zenon DEF Repaired, Repairable
  <2> QED BY <1>1, <2>1, MovedToFacts
<1>3. CASE seen = "TaskRecorded"
  <2>1. /\ Recovered(submit) # NoLedger
        /\ Latest(Recovered(submit)) \in {"TaskRecorded", "TaskAdopted"}
    BY <1>3, Zenon DEF Observation
  <2>2. submit # NoLedger /\ SubmitOk(submit)
    BY <2>1, LedgersNow, Zenon DEF Recovered, NeedsRecovery
  <2>3. SubmitOk(Recovered(submit))
    BY <2>2, RecoveredFacts, Zenon
  <2>4. task \in Tasks
    BY <2>1, <2>3, TaskFacts, Zenon
  <2>5. fixed = RecordStatus(life, task, "Pending")
    BY <1>3, Zenon DEF Repaired
  <2>6. LifeOk(fixed) /\ fixed.op = life.op /\ fixed.phase = "Pending"
    BY <1>1, <2>4, <2>5, RecordStatusFacts, SMTT(30) DEF StatusPhases
  <2> QED BY <2>6, Zenon
<1>4. CASE seen = "OutcomeUnknown"
  <2>1. fixed = IF life.phase = "OutcomeUnknown" THEN life ELSE MovedTo(life, "OutcomeUnknown")
    BY <1>4, Zenon DEF Repaired
  <2>2. LifeOk(fixed) /\ fixed.op = life.op /\ fixed.phase = "OutcomeUnknown"
    BY <1>1, <2>1, MovedToFacts
  <2> QED BY <2>2, Zenon
<1>5. CASE seen \notin {"Absent", "FailedBeforeSpawn", "TaskRecorded", "OutcomeUnknown"}
  <2> DEFINE known == IF life.phase = "OutcomeUnknown" THEN life ELSE MovedTo(life, "OutcomeUnknown")
  <2>1. LifeOk(known) /\ known.op = life.op /\ known.phase = "OutcomeUnknown"
    BY <1>1, MovedToFacts, Zenon
  <2>2. fixed = MovedTo(known, "AbandonedUnknown")
    BY <1>5, Zenon DEF Repaired
  <2> HIDE DEF known, fixed
  <2>3. LifeOk(fixed) /\ fixed.op = life.op /\ fixed.phase = "AbandonedUnknown"
    BY <2>1, <2>2, MovedToFacts, ZenonT(30)
  <2> QED BY <2>3, Zenon DEF fixed
<1> QED BY <1>2, <1>3, <1>4, <1>5, Zenon

\* Construction with a repair
LEMMA LoadInterruptedRefines ==
  ASSUME RefinementInv, LoadInterrupted
  PROVE  Follows' /\ Refines
<1>1. /\ ~up /\ Interrupted(life) /\ UNCHANGED <<token, pc, result, used>>
      /\ IInv /\ CancelWasSignalled
  BY Zenon DEF LoadInterrupted, thread, RefinementInv
<1>2. PICK seen : seen = Observation(life.op, Recovered(submit))
  BY Zenon
<1>3. PICK task : task = IF Recovered(submit) = NoLedger THEN NoTask ELSE Recovered(submit).task
  BY Zenon
<1>4. PICK fixed : fixed = Repaired(life, seen, task)
  BY Zenon
<1>5. PICK r \in Outcomes, w \in Outcomes :
        /\ life' = IF RecoverOk(r) /\ Repairable(life, seen) THEN Stored(life, fixed, w) ELSE life
        /\ up' = (RecoverOk(r) /\ Repairable(life, seen) /\ (fixed = life \/ w = "ok"))
        /\ mem' = IF up' THEN fixed ELSE NoLedger
  BY <1>2, <1>3, <1>4, ZenonT(30) DEF LoadInterrupted
<1>6. Repairable(life, seen) =>
        /\ LifeOk(fixed) /\ fixed.op = life.op
        /\ fixed.phase \in {"FailedBeforeSubmit", "OutcomeUnknown", "Pending", "AbandonedUnknown"}
        /\ life.phase = "OutcomeUnknown" => fixed.phase # "FailedBeforeSubmit"
  BY <1>1, <1>2, <1>3, <1>4, RepairedPhase, Zenon
<1>7. /\ up' => Repairable(life, seen) /\ mem' = fixed /\ life' = fixed
      /\ ~up' => life' = life \/ (Repairable(life, seen) /\ life' = fixed)
      /\ up' \in BOOLEAN /\ up \in BOOLEAN
  <2>1. PICK sound \in BOOLEAN : sound = (RecoverOk(r) /\ Repairable(life, seen))
    BY ZenonT(30) DEF RecoverOk, Repairable
  <2>2. /\ life' = IF sound THEN Stored(life, fixed, w) ELSE life
        /\ up' = (sound /\ (fixed = life \/ w = "ok"))
        /\ mem' = IF up' THEN fixed ELSE NoLedger
        /\ sound => Repairable(life, seen)
    BY <1>5, <2>1, ZenonT(30)
  <2>3. up \in BOOLEAN
    BY <1>1, Zenon DEF IInv, TypeOK
  <2>4. up' \in BOOLEAN
    BY <2>2, ZenonT(30)
  <2>5. Stored(life, fixed, w) \in {life, fixed} /\ (w = "ok" => Stored(life, fixed, w) = fixed)
    BY Zenon DEF Stored
  <2>6. /\ up' => sound /\ (fixed = life \/ w = "ok") /\ mem' = fixed
        /\ sound => life' = Stored(life, fixed, w) /\ Repairable(life, seen)
        /\ ~sound => life' = life
    BY <2>2, ZenonT(30)
  <2>7. up' => Repairable(life, seen) /\ mem' = fixed /\ life' = fixed
    BY <2>5, <2>6, Zenon
  <2>8. life' = life \/ (Repairable(life, seen) /\ life' = fixed)
    BY <2>5, <2>6, Zenon
  <2> QED BY <2>3, <2>4, <2>7, <2>8, ZenonT(30)
<1>8. Follows'
  <2>1. up' => FileFollows'
    BY <1>6, <1>7, LifeFields, Zenon DEF FileFollows
  <2> QED BY <1>1, <2>1, Zenon DEF Follows, CancelWasSignalled
<1>9. LifeOk(life) /\ life # NoLedger /\ life.phase \in {"Submitting", "OutcomeUnknown"}
  BY <1>1, LedgersNow, Zenon DEF Interrupted
<1>10. /\ CurrentLifecycle = Projection(life) /\ UNCHANGED StartCall
       /\ CurrentLifecycle' = IF up' THEN Projection(mem') ELSE Projection(life')
  BY <1>1, Zenon DEF CurrentLifecycle, StartCall
<1>11. CASE ~up' /\ life' = life
  <2>1. UNCHANGED <<CurrentLifecycle, StartCall, used, up>>
    BY <1>1, <1>7, <1>10, <1>11, Zenon
  <2> QED BY <1>8, <2>1, Unseen, Zenon
<1>12. CASE up' \/ life' # life
  <2>1. /\ LifeOk(fixed) /\ fixed.op = life.op /\ CurrentLifecycle' = Projection(fixed)
        /\ fixed.phase \in {"FailedBeforeSubmit", "OutcomeUnknown", "Pending", "AbandonedUnknown"}
        /\ life.phase = "OutcomeUnknown" => fixed.phase # "FailedBeforeSubmit"
    BY <1>6, <1>7, <1>10, <1>12, Zenon
  <2>2. CurrentLifecycle' = Contract!Life(CurrentLifecycle.op, fixed.phase)
    BY <2>1, <1>9, <1>10, ProjectionFacts, Zenon
  <2>3. /\ Contract!InPhase({"Submitting", "OutcomeUnknown"})
        /\ Contract!InPhase({"OutcomeUnknown"}) => fixed.phase # "FailedBeforeSubmit"
    BY <1>1, <1>9, <2>1, InPhaseIff
  <2>4. Contract!CloudRestart
    BY <1>1, <1>7, <1>10, <2>1, <2>2, <2>3, ZenonT(30) DEF Contract!CloudRestart
  <2> QED BY <1>8, <2>4, Zenon DEF Refines, Contract!ContractNext
<1> QED BY <1>7, <1>11, <1>12, Zenon

\* The process dies: callers then meet what the file says.
LEMMA CrashRefines ==
  ASSUME RefinementInv, Crash
  PROVE  Follows' /\ Refines
<1>1. /\ up /\ ~up' /\ pc' = "idle" /\ UNCHANGED <<life, used>> /\ IInv /\ FileFollows
  BY Zenon DEF Crash, disk, RefinementInv
<1>2. Follows'
  BY <1>1, Zenon DEF Follows, CancelWasSignalled
<1>3. CurrentLifecycle = Projection(mem) /\ CurrentLifecycle' = Projection(life) /\ StartCall' = "idle"
  BY <1>1, Zenon DEF CurrentLifecycle, StartCall
<1>4. \/ CurrentLifecycle # NoLedger /\ CurrentLifecycle' \in Contract!Later(CurrentLifecycle)
      \/ CurrentLifecycle = NoLedger /\ UNCHANGED CurrentLifecycle
      \/ /\ Contract!Settled
         /\ \E o \in used : /\ CurrentLifecycle' = Contract!Life(o, "Submitting")
                            /\ CurrentLifecycle # NoLedger => o # CurrentLifecycle.op
  <2>1. CASE mem = NoLedger /\ life = NoLedger
    BY <1>3, <2>1, Zenon DEF Projection
  <2>2. CASE /\ mem # NoLedger /\ life # NoLedger /\ life.op = mem.op
             /\ life.phase \in {mem.phase} \cup LifecycleSuccessors(mem.phase)
    <3>1. /\ CurrentLifecycle = Contract!Life(mem.op, mem.phase) /\ CurrentLifecycle # NoLedger
          /\ CurrentLifecycle' = Contract!Life(mem.op, life.phase)
          /\ CurrentLifecycle.op = mem.op /\ CurrentLifecycle.phase = mem.phase
      BY <1>1, <1>3, <2>2, Current, ProjectionFacts, Zenon
    <3>2. CurrentLifecycle' \in Contract!Later(CurrentLifecycle)
      BY <2>2, <3>1, Zenon DEF Contract!Later, Contract!Statuses, LifecycleSuccessors, StatusPhases
    <3> QED BY <3>1, <3>2, Zenon
  <2>3. CASE /\ StartAdmitted /\ life # NoLedger /\ life.phase = "Submitting"
             /\ mem # NoLedger => life.op # mem.op
    <3>1. CurrentLifecycle' = Contract!Life(life.op, "Submitting") /\ life.op \in used
      BY <1>1, <1>3, <2>3, Current, ProjectionFacts, Zenon DEF IInv, Fresh
    <3>2. CurrentLifecycle # NoLedger => life.op # CurrentLifecycle.op
      <4>1. CASE mem = NoLedger
        BY <1>3, <4>1, Zenon DEF Projection
      <4>2. CASE mem # NoLedger
        BY <1>1, <1>3, <2>3, <4>2, Current, ProjectionFacts, Zenon
      <4> QED BY <4>1, <4>2, ZenonT(30)
    <3>3. Contract!Settled
      BY <1>1, <2>3, SettledIff, Zenon
    <3> QED BY <3>1, <3>2, <3>3, Zenon
  <2> QED BY <1>1, <2>1, <2>2, <2>3, Zenon DEF FileFollows
<1>5. Contract!CloudCrash
  BY <1>1, <1>3, <1>4 DEF Contract!CloudCrash
<1> QED BY <1>2, <1>5, Zenon DEF Refines, Contract!ContractNext

----------------------------------------------------------------------------
\* start(), up to the release of the mutex: the new lifecycle is installed, or
\* callers see that an identifier was drawn and nothing else.
LEMMA StartRefines ==
  ASSUME RefinementInv, NEW o \in Ops, Start(o)
  PROVE  Follows' /\ Refines
<1>1. /\ up /\ StartAdmitted /\ o \notin used /\ used' = used \cup {o}
      /\ UNCHANGED <<up, result>> /\ IInv /\ FileFollows /\ CancelWasSignalled
  BY Zenon DEF Start, RefinementInv
<1>2. PICK w \in Outcomes, open \in BOOLEAN :
        /\ life' = IF open THEN Stored(life, Submitting(o), w) ELSE life
        /\ mem' = IF open /\ w = "ok" THEN Submitting(o) ELSE mem
        /\ token' = IF open /\ w = "ok" THEN "armed" ELSE token
        /\ pc' = IF open /\ w = "ok" THEN "intent" ELSE pc
  BY ZenonT(30) DEF Start, RecoverOk, LowerReady
<1>3. LifeOk(Submitting(o)) /\ Submitting(o).op = o /\ Submitting(o).phase = "Submitting"
  BY SubmittingFacts, Zenon
<1>4. pc = "idle" /\ token = "none"
  <2>1. mem # NoLedger => mem.phase # "Submitting"
    BY <1>1, Zenon DEF StartAdmitted, IsTerminal
  <2>2. pc # "idle" => mem # NoLedger /\ mem.phase = "Submitting"
    BY <1>1, InSubmit, SubmittingFacts, LifeFields, Zenon
  <2> QED BY <1>1, <2>1, <2>2, Current, Zenon
<1>5. mem # NoLedger => mem.op \in used /\ mem.op # o
  BY <1>1, LedgersNow, Zenon
<1>6. CurrentLifecycle = Projection(mem) /\ CurrentLifecycle' = Projection(mem') /\ StartCall = "idle"
  BY <1>1, <1>4, Zenon DEF CurrentLifecycle, StartCall
<1>7. CASE open /\ w = "ok"
  <2>1. /\ life' = Submitting(o) /\ mem' = Submitting(o) /\ token' = "armed" /\ pc' = "intent"
        /\ Submitting(o) # NoLedger
    BY <1>2, <1>3, <1>7, LifeFields, Zenon DEF Stored
  <2>2. Follows'
    BY <1>3, <2>1, Zenon DEF Follows, FileFollows, CancelWasSignalled
  <2>3. StartCall' = "running" /\ CurrentLifecycle' = Contract!Life(o, "Submitting")
    BY <1>3, <1>6, <2>1, ProjectionFacts, Zenon DEF StartCall
  <2>4. Contract!Settled
    BY <1>1, SettledIff, Zenon
  <2>5. Contract!StartEnters(o)
    BY <1>1, <1>6, <2>3, <2>4, Zenon DEF Contract!StartEnters
  <2> QED BY <2>2, <2>5, Zenon DEF Refines, Contract!ContractNext
<1>8. CASE ~(open /\ w = "ok")
  <2>1. UNCHANGED <<mem, token, pc>> /\ life' \in {life, Submitting(o)}
    BY <1>2, <1>8, Zenon DEF Stored
  <2>2. Follows'
    <3>1. CASE life' = life
      BY <1>1, <2>1, <3>1, Zenon DEF Follows, FileFollows, CancelWasSignalled, StartAdmitted
    <3>2. CASE life' = Submitting(o)
      BY <1>1, <1>3, <1>5, <2>1, <3>2, LifeFields, Zenon DEF Follows, FileFollows, CancelWasSignalled, StartAdmitted
    <3> QED BY <2>1, <3>1, <3>2, Zenon
  <2>3. UNCHANGED <<CurrentLifecycle, StartCall>>
    BY <1>6, <2>1, Zenon DEF StartCall
  <2>4. Contract!StartRefused(o)
    BY <1>1, <1>6, <2>3, Zenon DEF Contract!StartRefused
  <2> QED BY <2>2, <2>4, Zenon DEF Refines, Contract!ContractNext
<1> QED BY <1>7, <1>8, Zenon

\* The steps of submit(): callers see none of them.  Only the first look at the
\* token reports a cancellation.
LEMMA SubmitRefines ==
  ASSUME RefinementInv, StartThread, ~StartReturn
  PROVE  Follows' /\ Refines
<1> DEFINE Told == pc' = "finish" /\ result'.kind = "canceled" => token = "cancelled"
<1>1. pc # "idle" /\ UNCHANGED <<life, up, mem, token, used>>
  BY ZenonT(30) DEF StartThread, SubmitRefused, SubmitIntent, SubmitCanceledBeforeStart, SubmitUnauthorized,
     SubmitAuthorize, SubmitCanceledAuthorized, SpawnFails, SpawnUncertain, Spawn, SubmitStarted,
     SubmitInconclusive, SubmitTask, disk
<1>2. ASSUME SubmitRefused \/ Spawn \/ SubmitAuthorize \/ SubmitStarted PROVE pc' # "idle" /\ Told
  BY <1>2, SMTT(30) DEF SubmitRefused, Spawn, SubmitAuthorize, SubmitStarted, Return
<1>3. ASSUME SubmitIntent PROVE pc' # "idle" /\ Told
  <2>1. PICK found : found = Dispatch(Recovered(submit))
    BY Zenon
  <2>2. found.kind # "canceled"
    BY <2>1, Zenon DEF Dispatch, NoResult
  <2> QED BY <1>3, <2>1, <2>2, SMTT(30) DEF SubmitIntent, Return
<1>4. ASSUME NEW ledger, NEW kind, WriteFailed(ledger, kind), kind = "canceled" => token = "cancelled"
      PROVE  pc' # "idle" /\ Told
  BY <1>4, SMTT(30) DEF WriteFailed, Return
<1>5. ASSUME NEW ledger, WriteUnknown(ledger) PROVE pc' # "idle" /\ Told
  BY <1>5, SMTT(30) DEF WriteUnknown, Return
<1>6. ASSUME SubmitTask PROVE pc' # "idle" /\ Told
  BY <1>6, SMTT(30) DEF SubmitTask, Return
<1>7. ASSUME \/ SubmitCanceledBeforeStart \/ SubmitUnauthorized \/ SpawnFails
             \/ SubmitCanceledAuthorized \/ SpawnUncertain \/ SubmitInconclusive
      PROVE  pc' # "idle" /\ Told
  <2>1. WriteFailed(draft, "failed") \/ WriteUnknown(draft)
        \/ (WriteFailed(draft, "canceled") /\ token = "cancelled")
    BY <1>7, ZenonT(30) DEF SubmitCanceledBeforeStart, SubmitUnauthorized, SpawnFails, SubmitCanceledAuthorized,
         SpawnUncertain, SubmitInconclusive
  <2>2. CASE WriteFailed(draft, "failed")
    BY <1>4, <2>2, Zenon
  <2>3. CASE WriteUnknown(draft)
    BY <1>5, <2>3, Zenon
  <2>4. CASE WriteFailed(draft, "canceled") /\ token = "cancelled"
    BY <1>4, <2>4, Zenon
  <2> QED BY <2>1, <2>2, <2>3, <2>4, Zenon
<1>8. pc' # "idle" /\ Told
  BY <1>2, <1>3, <1>6, <1>7, ZenonT(30) DEF StartThread
<1>9. UNCHANGED <<CurrentLifecycle, StartCall, used, up>>
  BY <1>1, <1>8, Zenon DEF CurrentLifecycle, StartCall
<1>10. Follows'
  BY <1>1, <1>8, Zenon DEF Follows, FileFollows, CancelWasSignalled, StartAdmitted, RefinementInv
<1> QED BY <1>9, <1>10, Unseen, Zenon

\* start(), after submit() has returned
LEMMA StartReturnRefines ==
  ASSUME RefinementInv, StartReturn
  PROVE  Follows' /\ Refines
<1>1. /\ pc = "finish" /\ pc' = "idle" /\ UNCHANGED <<up, used>> /\ IInv /\ CancelWasSignalled
  BY Zenon DEF StartReturn, RefinementInv
<1>2. /\ op \in Ops /\ up /\ mem = Submitting(op) /\ life = Submitting(op)
      /\ LifeOk(mem) /\ mem # NoLedger /\ mem.op = op /\ mem.phase = "Submitting"
  BY <1>1, InSubmit, SubmittingFacts, LifeFields, Zenon
<1>3. /\ result.op = op /\ result \in Results /\ result.kind # "none"
      /\ result.kind = "task" => /\ submit # NoLedger /\ submit.task = result.task
                                 /\ Latest(submit) = "TaskRecorded"
  BY <1>1, ZenonT(30) DEF IInv, ThreadOk, TypeOK
<1>4. PICK next : next = Disposition(mem)
  BY ZenonT(30)
<1>5. PICK w \in Outcomes : life' = Stored(life, next, w) /\ mem' = IF w = "ok" THEN next ELSE mem
  <2>1. StillSubmitting
    BY <1>2, Zenon DEF StillSubmitting
  <2> QED BY <1>3, <1>4, <2>1, ZenonT(30) DEF StartReturn
<1>6. /\ LifeOk(next) /\ next.op = op
      /\ next.phase \in {"FailedBeforeSubmit", "OutcomeUnknown", "Pending", "CanceledNoTask"}
      /\ next.phase = "CanceledNoTask" => result.kind = "canceled"
  <2>1. CASE result.kind = "task"
    <3>1. SubmitOk(submit) /\ result.task \in Tasks
      BY <1>1, <1>3, <2>1, TaskFacts, LedgersNow, Zenon
    <3>2. next = RecordStatus(mem, result.task, "Pending")
      BY <1>4, <2>1, Zenon DEF Disposition
    <3>3. LifeOk(next) /\ next.op = op /\ next.phase = "Pending"
      BY <1>2, <3>1, <3>2, RecordStatusFacts DEF StatusPhases
    <3> QED BY <3>3, Zenon
  <2>2. CASE result.kind = "canceled"
    BY <1>2, <1>4, <2>2, MovedToFacts DEF Disposition
  <2>3. CASE result.kind = "unknown"
    BY <1>2, <1>4, <2>3, MovedToFacts DEF Disposition
  <2>4. CASE result.kind \notin {"task", "canceled", "unknown"}
    BY <1>2, <1>4, <2>4, MovedToFacts DEF Disposition
  <2> QED BY <2>1, <2>2, <2>3, <2>4, Zenon
<1>7. life' \in {mem, next} /\ (w = "ok" => life' = next /\ mem' = next) /\ (w # "ok" => mem' = mem)
  BY <1>2, <1>5, Zenon DEF Stored
<1>8. Follows'
  <2>1. FileFollows'
    BY <1>2, <1>6, <1>7, LifeFields, Zenon DEF FileFollows, LifecycleSuccessors
  <2> QED BY <1>1, <2>1, Zenon DEF Follows, CancelWasSignalled
<1>9. /\ CurrentLifecycle = Projection(mem) /\ CurrentLifecycle' = Projection(mem')
      /\ StartCall' = "idle" /\ StartCall # "idle"
      /\ StartCall = "cancelling" <=> token = "cancelled"
  BY <1>1, <1>2, Zenon DEF CurrentLifecycle, StartCall
<1>10. \E r \in Contract!CallResults : Contract!StartReturns(r)
  <2>1. CASE w = "ok"
    <3>1. PICK r : r = Contract!Ok(CurrentLifecycle')
      BY Zenon
    <3>2. /\ r \in Contract!CallResults
          /\ CurrentLifecycle' = Contract!Life(CurrentLifecycle.op, next.phase)
      BY <1>2, <1>6, <1>7, <1>9, <2>1, <3>1, ProjectionFacts, ZenonT(30)
    <3>3. next.phase \in {"FailedBeforeSubmit", "OutcomeUnknown", "Pending"} \cup
                         (IF StartCall = "cancelling" THEN {"CanceledNoTask"} ELSE {})
      BY <1>1, <1>6, <1>9, Zenon DEF CancelWasSignalled
    <3>4. Contract!StartReturns(r)
      BY <1>1, <1>9, <3>1, <3>2, <3>3, Zenon DEF Contract!StartReturns
    <3> QED BY <3>2, <3>4, Zenon
  <2>2. CASE w # "ok"
    <3>1. UNCHANGED CurrentLifecycle
      BY <1>7, <1>9, <2>2, Zenon
    <3>2. Contract!StartReturns(Contract!Err("Other"))
      BY <1>1, <1>9, <3>1, Zenon DEF Contract!StartReturns
    <3> QED BY <3>2, ErrorFacts, Zenon
  <2> QED BY <2>1, <2>2, Zenon
<1> QED BY <1>8, <1>10, ZenonT(30) DEF Refines, Contract!ContractNext

----------------------------------------------------------------------------
\* A call that stores a successor of the current lifecycle and shows it if the write
\* succeeds
LEMMA StoreRefines ==
  ASSUME RefinementInv, mem # NoLedger, mem.phase \in {"Pending", "OutcomeUnknown"},
         NEW next, LifeOk(next), next.op = mem.op, next.phase \in LifecycleSuccessors(mem.phase),
         NEW w \in Outcomes, life' = Stored(life, next, w), mem' = IF w = "ok" THEN next ELSE mem,
         UNCHANGED <<up, pc, token, result, used>>
  PROVE  /\ Follows' /\ UNCHANGED <<StartCall, used, up>> /\ up
         /\ w = "ok" => /\ CurrentLifecycle' = Contract!Life(CurrentLifecycle.op, next.phase)
                        /\ CurrentLifecycle.op = mem.op
                        /\ Contract!Ok(CurrentLifecycle') \in Contract!CallResults
         /\ w # "ok" => UNCHANGED CurrentLifecycle
<1>1. /\ up /\ LifeOk(mem) /\ IInv /\ FileFollows /\ CancelWasSignalled
  BY Current, Zenon DEF RefinementInv
<1>2. ~StartAdmitted /\ next # NoLedger
  BY LifeFields, Zenon DEF StartAdmitted, IsTerminal
<1>3. /\ life # NoLedger /\ life.op = mem.op
      /\ life.phase \in {mem.phase} \cup LifecycleSuccessors(mem.phase)
  BY <1>1, <1>2, Zenon DEF FileFollows
<1>4. FileFollows'
  BY <1>2, <1>3, Zenon DEF FileFollows, Stored
<1>5. Follows' /\ UNCHANGED StartCall
  BY <1>1, <1>4, Zenon DEF Follows, CancelWasSignalled, StartCall
<1>6. CurrentLifecycle = Projection(mem) /\ CurrentLifecycle' = Projection(mem')
  BY <1>1, Zenon DEF CurrentLifecycle
<1>7. CASE w = "ok"
  BY <1>1, <1>5, <1>6, <1>7, ProjectionFacts, Zenon
<1>8. CASE w # "ok"
  BY <1>1, <1>5, <1>6, <1>8, Zenon
<1> QED BY <1>7, <1>8, Zenon

\* One pass through the loop of cancel()
LEMMA CancelLoopRefines ==
  ASSUME RefinementInv, NEW c \in Cancelers, CancelLoop(c), UNCHANGED <<up, pc, result, used>>
  PROVE  Follows' /\ Refines
<1>1. IInv /\ CancelWasSignalled /\ (up => FileFollows) /\ up \in BOOLEAN /\ token \in Tokens
  BY Zenon DEF RefinementInv, IInv, TypeOK
<1>2. CASE /\ mem # NoLedger /\ mem.phase = "Submitting" /\ token # "none"
           /\ token' = "cancelled" /\ UNCHANGED <<life, mem>>
  <2>1. up /\ pc # "idle"
    BY <1>1, <1>2, Current, Zenon
  <2>2. Follows'
    BY <1>1, <1>2, Zenon DEF Follows, FileFollows, CancelWasSignalled, StartAdmitted
  <2>3. UNCHANGED CurrentLifecycle /\ StartCall' = "cancelling"
    BY <1>2, <2>1, Zenon DEF CurrentLifecycle, StartCall
  <2>4. CASE token = "cancelled"
    <3>1. StartCall = "cancelling"
      BY <2>1, <2>4, Zenon DEF StartCall
    <3> QED BY <2>2, <2>3, <3>1, Unseen, Zenon
  <2>5. CASE token # "cancelled"
    <3>1. StartCall = "running"
      BY <2>1, <2>5, Zenon DEF StartCall
    <3>2. Contract!CancelSignals
      BY <2>1, <2>3, <3>1, Zenon DEF Contract!CancelSignals
    <3> QED BY <2>2, <3>2, Zenon DEF Refines, Contract!ContractNext
  <2> QED BY <2>4, <2>5, Zenon
<1>3. CASE UNCHANGED <<life, mem, token>>
  <2>1. Follows'
    BY <1>1, <1>3, Zenon DEF Follows, FileFollows, CancelWasSignalled, StartAdmitted
  <2>2. UNCHANGED <<CurrentLifecycle, StartCall, used, up>>
    BY <1>3, Zenon DEF CurrentLifecycle, StartCall
  <2> QED BY <2>1, <2>2, Unseen, Zenon
<1>4. CASE /\ mem # NoLedger /\ mem.phase = "Pending" /\ UNCHANGED token
           /\ \E w \in Outcomes :
                /\ life' = Stored(life, MovedTo(mem, "CanceledWithTask"), w)
                /\ mem' = IF w = "ok" THEN MovedTo(mem, "CanceledWithTask") ELSE mem
  <2>1. PICK next : next = MovedTo(mem, "CanceledWithTask")
    BY Zenon
  <2>2. PICK w \in Outcomes : life' = Stored(life, next, w) /\ mem' = IF w = "ok" THEN next ELSE mem
    BY <1>4, <2>1, Zenon
  <2>3. LifeOk(next) /\ next.op = mem.op /\ next.phase = "CanceledWithTask"
    BY <1>1, <1>4, <2>1, Current, MovedToFacts, ZenonT(30)
  <2>4. next.phase \in LifecycleSuccessors(mem.phase)
    BY <1>4, <2>3, Zenon DEF LifecycleSuccessors
  <2>5. /\ Follows' /\ UNCHANGED <<StartCall, used, up>> /\ up
        /\ w = "ok" => /\ CurrentLifecycle' = Contract!Life(CurrentLifecycle.op, next.phase)
                       /\ Contract!Ok(CurrentLifecycle') \in Contract!CallResults
        /\ w # "ok" => UNCHANGED CurrentLifecycle
    BY <1>4, <2>2, <2>3, <2>4, StoreRefines, Zenon
  <2>6. CASE w = "ok"
    <3>1. Contract!InPhase({"Pending"})
      BY <1>1, <1>4, InPhaseIff, Zenon
    <3>2. PICK r : r = Contract!Ok(CurrentLifecycle')
      BY Zenon
    <3>3. Contract!CancelReturns(r)
      BY <2>3, <2>5, <2>6, <3>1, <3>2, Zenon DEF Contract!CancelReturns
    <3> QED BY <2>5, <2>6, <3>2, <3>3, ZenonT(30) DEF Refines, Contract!ContractNext
  <2>7. CASE w # "ok"
    BY <2>5, <2>7, Unseen, Zenon
  <2> QED BY <2>6, <2>7, Zenon
<1> QED BY <1>2, <1>3, <1>4, Zenon DEF CancelLoop

\* cancel(), on entry and when it is woken
LEMMA CancelRefines ==
  ASSUME RefinementInv, NEW c \in Cancelers, Cancel(c) \/ CancelWake(c)
  PROVE  Follows' /\ Refines
<1>1. CancelLoop(c) /\ UNCHANGED <<up, pc, result, used>>
  BY Zenon DEF Cancel, CancelWake, thread
<1> QED BY <1>1, CancelLoopRefines, Zenon

\* inspect() of a pending task
LEMMA InspectRefines ==
  ASSUME RefinementInv, Inspect
  PROVE  Follows' /\ Refines
<1>1. /\ IInv /\ up /\ mem # NoLedger /\ mem.phase = "Pending"
      /\ UNCHANGED <<up, token, pc, result, used>>
  BY Zenon DEF RefinementInv, Inspect, thread
<1>2. PICK phase \in StatusPhases, w \in Outcomes :
        /\ life' = Stored(life, RecordStatus(mem, mem.task, phase), w)
        /\ mem' = IF w = "ok" THEN RecordStatus(mem, mem.task, phase) ELSE mem
  BY Zenon DEF Inspect
<1>3. PICK next : next = RecordStatus(mem, mem.task, phase)
  BY Zenon
<1>4. LifeOk(mem) /\ mem.task \in Tasks
  BY <1>1, Current, LifeFields, Zenon DEF StatusPhases
<1>5. LifeOk(next) /\ next.op = mem.op /\ next.phase = phase
  BY <1>1, <1>3, <1>4, RecordStatusFacts
<1>6. next.phase \in LifecycleSuccessors(mem.phase)
  BY <1>1, <1>5, Zenon DEF LifecycleSuccessors
<1>7. /\ Follows' /\ UNCHANGED <<StartCall, used, up>> /\ up
      /\ w = "ok" => /\ CurrentLifecycle' = Contract!Life(CurrentLifecycle.op, next.phase)
                     /\ Contract!Ok(CurrentLifecycle') \in Contract!CallResults
      /\ w # "ok" => UNCHANGED CurrentLifecycle
  BY <1>1, <1>2, <1>3, <1>5, <1>6, StoreRefines, Zenon
<1>8. CASE w = "ok"
  <2>1. Contract!InPhase({"Pending"}) /\ phase \in Contract!Statuses
    BY <1>1, InPhaseIff, Zenon DEF StatusPhases, Contract!Statuses
  <2>2. PICK r : r = Contract!Ok(CurrentLifecycle')
    BY Zenon
  <2>3. Contract!InspectReturns(r)
    BY <1>5, <1>7, <1>8, <2>1, <2>2, Zenon DEF Contract!InspectReturns
  <2> QED BY <1>7, <1>8, <2>2, <2>3, ZenonT(30) DEF Refines, Contract!ContractNext
<1>9. CASE w # "ok"
  BY <1>7, <1>9, Unseen, Zenon
<1> QED BY <1>8, <1>9, Zenon

\* reconcile_unknown() may store new evidence; the lifecycle it returns is the same.
LEMMA ReconcileRefines ==
  ASSUME RefinementInv, NEW tasks \in SUBSET Tasks, NEW complete \in {"partial", "full"},
         Reconcile(tasks, complete)
  PROVE  Follows' /\ Refines
<1>1. /\ IInv /\ up /\ mem # NoLedger /\ mem.phase = "OutcomeUnknown"
      /\ UNCHANGED <<up, token, pc, result, used>>
      /\ FileFollows /\ CancelWasSignalled
  BY Zenon DEF RefinementInv, Reconcile, Unknown, thread
<1>2. PICK next : next = RecordGeneration(mem, tasks, complete)
  BY Zenon
<1>3. LifeOk(mem) /\ LifeOk(next) /\ next.op = mem.op /\ next.phase = mem.phase
  BY <1>1, <1>2, Current, RecordGenerationFacts, Zenon
<1>4. CASE UNCHANGED <<life, mem>>
  <2>1. Follows'
    BY <1>1, <1>4, Zenon DEF Follows, FileFollows, CancelWasSignalled, StartAdmitted
  <2>2. UNCHANGED <<CurrentLifecycle, StartCall, used, up>>
    BY <1>1, <1>4, Zenon DEF CurrentLifecycle, StartCall
  <2> QED BY <2>1, <2>2, Unseen, Zenon
<1>5. CASE \E v \in Outcomes : life' = Stored(life, next, v) /\ mem' = IF v = "ok" THEN next ELSE mem
  <2>1. PICK v \in Outcomes : life' = Stored(life, next, v) /\ mem' = IF v = "ok" THEN next ELSE mem
    BY <1>5, Zenon
  <2>2. next.phase \in LifecycleSuccessors(mem.phase)
    BY <1>1, <1>3, Zenon DEF LifecycleSuccessors
  <2>3. /\ Follows' /\ UNCHANGED <<StartCall, used, up>>
        /\ v = "ok" => CurrentLifecycle' = Contract!Life(CurrentLifecycle.op, next.phase)
        /\ v # "ok" => UNCHANGED CurrentLifecycle
    BY <1>1, <1>3, <2>1, <2>2, StoreRefines, Zenon
  <2>4. CurrentLifecycle = Contract!Life(CurrentLifecycle.op, mem.phase)
    BY <1>1, <1>3, Current, ProjectionFacts, Zenon
  <2> QED BY <1>3, <2>3, <2>4, Unseen, Zenon
<1>6. \/ UNCHANGED <<life, mem>>
      \/ \E v \in Outcomes : life' = Stored(life, next, v) /\ mem' = IF v = "ok" THEN next ELSE mem
  BY <1>2, ZenonT(30) DEF Reconcile
<1> QED BY <1>4, <1>5, <1>6, Zenon

\* resolve_unknown(), with the lifecycle it settles the operation in
LEMMA ResolveRefines ==
  ASSUME RefinementInv, Unknown, NEW task, NEW next, Resolve(task, next),
         LifeOk(next), next.op = mem.op,
         next.phase \in StatusPhases \cup {"AbandonedUnknown"},
         UNCHANGED <<up, token, pc, result, used>>
  PROVE  Follows' /\ Refines
<1>1. /\ IInv /\ up /\ mem # NoLedger /\ mem.phase = "OutcomeUnknown" /\ LifeOk(mem)
      /\ FileFollows /\ CancelWasSignalled
  BY Current, Zenon DEF RefinementInv, Unknown
<1>2. CASE UNCHANGED <<life, mem>>
  <2>1. Follows'
    BY <1>1, <1>2, Zenon DEF Follows, FileFollows, CancelWasSignalled, StartAdmitted
  <2>2. UNCHANGED <<CurrentLifecycle, StartCall, used, up>>
    BY <1>1, <1>2, Zenon DEF CurrentLifecycle, StartCall
  <2> QED BY <2>1, <2>2, Unseen, Zenon
<1>3. CASE \E v \in Outcomes : life' = Stored(life, next, v) /\ mem' = IF v = "ok" THEN next ELSE mem
  <2>1. PICK v \in Outcomes : life' = Stored(life, next, v) /\ mem' = IF v = "ok" THEN next ELSE mem
    BY <1>3, Zenon
  <2>2. next.phase \in LifecycleSuccessors(mem.phase)
    BY <1>1, Zenon DEF LifecycleSuccessors
  <2>3. /\ Follows' /\ UNCHANGED <<StartCall, used, up>> /\ up
        /\ v = "ok" => /\ CurrentLifecycle' = Contract!Life(CurrentLifecycle.op, next.phase)
                       /\ CurrentLifecycle.op = mem.op
                       /\ Contract!Ok(CurrentLifecycle') \in Contract!CallResults
        /\ v # "ok" => UNCHANGED CurrentLifecycle
    BY <1>1, <2>1, <2>2, StoreRefines, Zenon
  <2>4. CASE v = "ok"
    <3>1. /\ Contract!InPhase({"OutcomeUnknown"}) /\ mem.op \in Ops
          /\ next.phase \in Contract!Statuses \cup {"AbandonedUnknown"}
      BY <1>1, InPhaseIff, LifeFields, Zenon DEF StatusPhases, Contract!Statuses
    <3>2. PICK r : r = Contract!Ok(CurrentLifecycle')
      BY Zenon
    <3>3. Contract!ResolveReturns(mem.op, r)
      BY <2>3, <2>4, <3>1, <3>2, Zenon DEF Contract!ResolveReturns
    <3> QED BY <2>3, <2>4, <3>1, <3>2, <3>3, ZenonT(30) DEF Refines, Contract!ContractNext
  <2>5. CASE v # "ok"
    BY <2>3, <2>5, Unseen, Zenon
  <2> QED BY <2>4, <2>5, Zenon
<1>4. \/ UNCHANGED <<life, mem>>
      \/ \E v \in Outcomes : life' = Stored(life, next, v) /\ mem' = IF v = "ok" THEN next ELSE mem
  BY ZenonT(30) DEF Resolve
<1> QED BY <1>2, <1>3, <1>4, Zenon

\* The operator adopts a listed task, or abandons the operation.
LEMMA SettleRefines ==
  ASSUME RefinementInv, Abandon \/ \E task \in Tasks : Adopt(task)
  PROVE  Follows' /\ Refines
<1>1. Unknown /\ UNCHANGED <<up, token, pc, result, used>>
  BY Zenon DEF Abandon, Adopt, thread
<1>2. LifeOk(mem) /\ mem.phase = "OutcomeUnknown"
  BY <1>1, Current, Zenon DEF RefinementInv, Unknown
<1>3. CASE Abandon
  <2>1. PICK next : next = MovedTo(mem, "AbandonedUnknown")
    BY Zenon
  <2>2. Resolve(NoTask, next)
    BY <1>3, <2>1, ZenonT(30) DEF Abandon, Resolve
  <2>3. LifeOk(next) /\ next.op = mem.op /\ next.phase = "AbandonedUnknown"
    BY <1>2, <2>1, MovedToFacts, Zenon
  <2> QED BY <1>1, <2>2, <2>3, ResolveRefines, Zenon
<1>4. ASSUME NEW task \in Tasks, Adopt(task) PROVE Follows' /\ Refines
  <2>1. PICK phase \in StatusPhases : Resolve(task, RecordStatus(mem, task, phase))
    BY <1>4, Zenon DEF Adopt
  <2>2. PICK next : next = RecordStatus(mem, task, phase)
    BY Zenon
  <2>3. Resolve(task, next)
    BY <2>1, <2>2, ZenonT(30) DEF Resolve
  <2>4. LifeOk(next) /\ next.op = mem.op /\ next.phase = phase
    BY <1>2, <2>2, RecordStatusFacts
  <2> QED BY <1>1, <2>3, <2>4, ResolveRefines, Zenon
<1> QED BY <1>3, <1>4, Zenon

\* The provider's own steps, and no step, are unseen.
LEMMA OutsideRefines ==
  ASSUME RefinementInv, UNCHANGED <<life, up, mem, token, pc, result, used>>
  PROVE  Follows' /\ Refines
<1>1. Follows'
  BY Zenon DEF RefinementInv, Follows, FileFollows, CancelWasSignalled, StartAdmitted
<1>2. UNCHANGED <<CurrentLifecycle, StartCall, used, up>>
  BY Zenon DEF CurrentLifecycle, StartCall
<1> QED BY <1>1, <1>2, Unseen, Zenon

\* Every step keeps the invariant and is one that callers can expect.
LEMMA StepRefines ==
  ASSUME RefinementInv, [Next]_vars
  PROVE  RefinementInv' /\ Refines
<1>1. CASE LoadSettled \/ LoadInterrupted \/ Crash
  BY <1>1, LoadSettledRefines, LoadInterruptedRefines, CrashRefines, NextKeeps, Zenon
     DEF RefinementInv, Follows
<1>2. CASE \E o \in Ops : Start(o)
  BY <1>2, StartRefines, NextKeeps, Zenon DEF RefinementInv, Follows
<1>3. CASE StartThread
  BY <1>3, SubmitRefines, StartReturnRefines, NextKeeps, Zenon DEF RefinementInv, Follows
<1>4. CASE \E c \in Cancelers : Cancel(c) \/ CancelWake(c)
  BY <1>4, CancelRefines, NextKeeps, Zenon DEF RefinementInv, Follows
<1>5. CASE Inspect
  BY <1>5, InspectRefines, NextKeeps, Zenon DEF RefinementInv, Follows
<1>6. CASE \E tasks \in SUBSET Tasks, complete \in {"partial", "full"} : Reconcile(tasks, complete)
  BY <1>6, ReconcileRefines, NextKeeps, Zenon DEF RefinementInv, Follows
<1>7. CASE Abandon \/ \E task \in Tasks : Adopt(task)
  BY <1>7, SettleRefines, NextKeeps, Zenon DEF RefinementInv, Follows
<1>8. CASE (\E o \in Ops, t \in Tasks : ProviderCreates(o, t)) \/ UNCHANGED vars
  <2>1. UNCHANGED <<life, up, mem, token, pc, result, used>>
    BY <1>8, Zenon DEF ProviderCreates, disk, thread, vars
  <2> QED BY <2>1, OutsideRefines, NextKeeps, Zenon DEF RefinementInv, Follows
<1> QED BY <1>1, <1>2, <1>3, <1>4, <1>5, <1>6, <1>7, <1>8, Zenon DEF Next

\* The lifecycle file is never further from the orchestrator's copy than one transition,
\* and start() learns of a cancellation only when its token was signalled.
THEOREM FileStaysClose == Spec => []RefinementInv
<1>1. Init => RefinementInv
  BY InitOk, Zenon DEF Init, RefinementInv, CancelWasSignalled
<1>2. RefinementInv /\ [Next]_vars => RefinementInv'
  BY StepRefines, Zenon
<1> QED BY <1>1, <1>2, PTL DEF Spec

\* The orchestrator with its runner and both ledgers implements P0CloudControl as the
\* session runtime relies on it, crashes, failed writes and repairs included.
THEOREM OrchestratorImplementsContract == Spec => ImplementsContract
<1>1. Init => Contract!ContractInit
  BY Zenon DEF Init, Contract!ContractInit, CurrentLifecycle, StartCall, Projection
<1>2. RefinementInv /\ [Next]_vars => [Contract!ContractNext]_(Contract!cloudVars)
  BY StepRefines, Zenon DEF Refines
<1> QED BY <1>1, <1>2, FileStaysClose, PTL DEF Spec, ImplementsContract, Contract!ContractSpec
====================================================================================
