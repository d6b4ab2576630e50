-------------------------------- MODULE LoginLedger --------------------------------
(***************************************************************************)
(* The durable login ledger (codebox-agent-codex/src/ledger.rs).           *)
(*                                                                         *)
(* A ledger is its operation, its latest phase and whether the identity of *)
(* the child process was recorded; the earlier phases of its history are   *)
(* read only by validate, and at most five are ever appended, so the limit *)
(* of 32 entries is out of reach.                                          *)
(***************************************************************************)
CONSTANTS
  Ops,   \* login operations
  NoOp   \* no ledger file

VARIABLES
  disk,  \* login-ledger.json
  temps  \* operations whose temporary file was left behind

Phases ==
  {"Intent", "Started", "DeviceInstructions", "LoggedIn", "LoggedOut", "Failed", "OutcomeUnknown"}

Ledgers == [op : Ops \cup {NoOp}, phase : Phases, started : BOOLEAN]

NoLedger == [op |-> NoOp, phase |-> "LoggedOut", started |-> FALSE]

NewLedger(op) == [op |-> op, phase |-> "Intent", started |-> FALSE]

IsUncertain(l) == l.phase \in {"Intent", "Started", "DeviceInstructions", "OutcomeUnknown"}

ValidTransition(from, to) ==
  to \in CASE from = "Intent" -> {"Started", "Failed", "OutcomeUnknown"}
           [] from = "Started" -> {"DeviceInstructions", "LoggedIn", "LoggedOut", "Failed",
                                   "OutcomeUnknown"}
           [] from \in {"DeviceInstructions", "OutcomeUnknown"} ->
                {"LoggedIn", "LoggedOut", "Failed", "OutcomeUnknown"}
           [] OTHER -> {}

Appended(l, phase) == [l EXCEPT !.phase = phase]

RecordStarted(l) == [Appended(l, "Started") EXCEPT !.started = TRUE]

InitLedger == disk = NoLedger /\ temps = {}

\* persist_ledger.  The temporary file is created anew, written, synced and renamed, and
\* the directory synced; a failure before the rename leaves the temporary file behind, and
\* then no ledger of that operation can be written any more.
PersistLedger(l, ok) ==
  \/ ok /\ l.op \notin temps /\ disk' = l /\ UNCHANGED temps
  \/ ~ok /\ UNCHANGED <<disk, temps>>                               \* not created
  \/ ~ok /\ l.op \notin temps /\ temps' = temps \cup {l.op} /\ UNCHANGED disk
  \/ ~ok /\ l.op \notin temps /\ disk' = l /\ UNCHANGED temps       \* renamed, not synced

\* mark_unknown: l is the ledger afterwards
MarkUnknown(old, l, ok) ==
  IF old.phase = "OutcomeUnknown"
  THEN ok /\ l = old /\ UNCHANGED <<disk, temps>>
  ELSE l = Appended(old, "OutcomeUnknown") /\ PersistLedger(l, ok)
====================================================================================
