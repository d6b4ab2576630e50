-------------------------------- MODULE EventStream --------------------------------
(***************************************************************************)
(* The event side of P0SessionRuntime (runtime.rs): append_event, the      *)
(* bounded history, subscribe and the live receivers.  An event is its     *)
(* sequence number.                                                        *)
(*                                                                         *)
(* A receiver outlives its registration: when append_event finds its       *)
(* channel full, or the runtime stops, the sender is dropped and the       *)
(* reason recorded, and the receiver still drains what the channel holds   *)
(* before it learns of it.  `got' is what its owner was given so far: the  *)
(* replay, then the live events.                                           *)
(***************************************************************************)
EXTENDS Integers, Sequences, FiniteSets

CONSTANTS
  Receivers,        \* clients, each with at most one subscription at a time
  HistoryCapacity,  \* config.history_capacity (64..1024)
  LiveCapacity,     \* config.live_capacity (8..256)
  MaxSubscribers,   \* config.max_subscribers (1..32)
  MaxSeq            \* the largest sequence number (2^64 - 1)

ASSUME StreamAssumption ==
  /\ HistoryCapacity \in Nat \ {0} /\ LiveCapacity \in Nat \ {0}
  /\ MaxSubscribers \in Nat \ {0} /\ MaxSeq \in Nat

VARIABLES
  high,     \* high_water_seq
  history,  \* the retained events
  phase,    \* "open", "closing" (shutdown_requested) or "stopped" (worker_stopped)
  end,      \* high_water_seq at the time the runtime stopped
  sub       \* per receiver: its registration, channel and close reason

vars == <<high, history, phase, end, sub>>

Reasons == {"open", "lagged", "stopped", "closed"}

\* registered: the sender is in the registry; told: the reason its owner has been given
NoSubscription ==
  [held |-> FALSE, registered |-> FALSE, after |-> 0, queue |-> <<>>, reason |-> "closed",
   got |-> <<>>, told |-> "open"]

Init ==
  /\ high = 0 /\ history = <<>> /\ phase = "open" /\ end = 0
  /\ sub = [r \in Receivers |-> NoSubscription]

----------------------------------------------------------------------------
\* Mutation: the history is cut at the wrong end.
TrimmedAtBack(h) == IF Len(h) > HistoryCapacity THEN SubSeq(h, 1, HistoryCapacity) ELSE h

Trimmed(h) ==
  IF Len(h) > HistoryCapacity THEN SubSeq(h, Len(h) - HistoryCapacity + 1, Len(h)) ELSE h

\* Mutation: a receiver that has no room misses the event and stays registered.
SkippedIfFull(s, seq) ==
  IF s.registered /\ Len(s.queue) < LiveCapacity THEN [s EXCEPT !.queue = Append(@, seq)] ELSE s

\* try_send to one subscriber
Sent(s, seq) ==
  CASE ~s.registered -> s
    [] s.registered /\ Len(s.queue) < LiveCapacity -> [s EXCEPT !.queue = Append(@, seq)]
    [] OTHER -> [s EXCEPT !.registered = FALSE, !.reason = "lagged"]

Closed(s) ==
  IF s.registered THEN [s EXCEPT !.registered = FALSE, !.reason = "stopped"] ELSE s

\* append_event, called with a sequence number in reserve
AppendEvent ==
  /\ high < MaxSeq
  /\ high' = high + 1 /\ history' = Trimmed(Append(history, high + 1))
  /\ sub' = [r \in Receivers |-> Sent(sub[r], high + 1)]
  /\ UNCHANGED <<phase, end>>

\* shutdown() while the worker is busy: from now on subscribe answers RuntimeStopped.
RequestShutdown ==
  /\ phase = "open" /\ phase' = "closing"
  /\ UNCHANGED <<high, history, end, sub>>

\* Mutation: the subscribers are closed before the last event is appended.
StopBeforeLastEvent ==
  /\ phase # "stopped" /\ phase' = "stopped" /\ high < MaxSeq /\ end' = high + 1
  /\ high' = high + 1 /\ history' = Trimmed(Append(history, high + 1))
  /\ sub' = [r \in Receivers |-> Sent(Closed(sub[r]), high + 1)]

\* stop_worker and shutdown: RuntimeStopped, if it fits, and close_subscribers
Stop ==
  /\ phase # "stopped" /\ phase' = "stopped"
  /\ IF high < MaxSeq
     THEN /\ high' = high + 1 /\ history' = Trimmed(Append(history, high + 1))
          /\ sub' = [r \in Receivers |-> Closed(Sent(sub[r], high + 1))]
     ELSE /\ sub' = [r \in Receivers |-> Closed(sub[r])]
          /\ UNCHANGED <<high, history>>
  /\ end' = high'

\* The retained events above a cursor; history ascends, so they are its last ones.
Replay(after) ==
  LET n == Cardinality({i \in DOMAIN history : history[i] > after})
  IN  [i \in 1 .. n |-> history[Len(history) - n + i]]

\* Mutation: off by one.
CursorRetainedLoosely(after) == after <= high /\ (history # <<>> => after >= history[1] - 2)

\* A cursor is neither in the future nor older than the history.
CursorRetained(after) == after <= high /\ (history # <<>> => after >= history[1] - 1)

Subscribe(r, after) ==
  /\ phase = "open" /\ ~sub[r].held
  /\ CursorRetained(after)
  /\ Cardinality({q \in Receivers : sub[q].registered}) < MaxSubscribers
  /\ sub' = [sub EXCEPT ![r] = [held |-> TRUE, registered |-> TRUE, after |-> after, queue |-> <<>>,
                                reason |-> "open", got |-> Replay(after), told |-> "open"]]
  /\ UNCHANGED <<high, history, phase, end>>

\* recv_timeout or try_recv finds an event; finds the channel disconnected
Receive(r) ==
  /\ sub[r].held /\ sub[r].queue # <<>>
  /\ sub' = [sub EXCEPT ![r].got = Append(@, Head(sub[r].queue)), ![r].queue = Tail(@)]
  /\ UNCHANGED <<high, history, phase, end>>

LearnClose(r) ==
  /\ sub[r].held /\ ~sub[r].registered /\ sub[r].queue = <<>> /\ sub[r].told = "open"
  /\ sub' = [sub EXCEPT ![r].told = sub[r].reason]
  /\ UNCHANGED <<high, history, phase, end>>

\* Drop of P0LiveReceiver
Drop(r) ==
  /\ sub[r].held
  /\ sub' = [sub EXCEPT ![r] = NoSubscription]
  /\ UNCHANGED <<high, history, phase, end>>

Next ==
  \/ AppendEvent \/ RequestShutdown \/ Stop
  \/ \E r \in Receivers :
       \/ \E after \in 0 .. MaxSeq : Subscribe(r, after)
       \/ Receive(r) \/ LearnClose(r) \/ Drop(r)

Spec == Init /\ [][Next]_vars

\* A client that holds a receiver keeps reading it.
FairSpec == Spec /\ \A r \in Receivers : WF_vars(Receive(r)) /\ WF_vars(LearnClose(r))

----------------------------------------------------------------------------
Subscriptions ==
  [held : BOOLEAN, registered : BOOLEAN, after : 0 .. MaxSeq, queue : Seq(1 .. MaxSeq),
   reason : Reasons, got : Seq(1 .. MaxSeq), told : Reasons]

\* Type invariant: append_event never uses a sequence number beyond the last one.
TypeOK ==
  /\ high \in 0 .. MaxSeq /\ history \in Seq(1 .. MaxSeq)
  /\ phase \in {"open", "closing", "stopped"} /\ end \in 0 .. MaxSeq
  /\ sub \in [Receivers -> Subscriptions]

\* The retained history is the most recent events, ascending and without a gap, and never
\* more of them than history_capacity.
HistoryGapFree ==
  /\ Len(history) = IF high < HistoryCapacity THEN high ELSE HistoryCapacity
  /\ \A i \in DOMAIN history : history[i] = high - Len(history) + i

Stream(s) == s.got \o s.queue

\* No event is lost or duplicated between replay and live: what a subscriber was given,
\* followed by what waits in its channel, are the events after its cursor one by one, and
\* as long as it is registered they reach up to the newest.
DeliveryExact ==
  \A r \in Receivers : sub[r].held =>
    /\ \A i \in DOMAIN Stream(sub[r]) : Stream(sub[r])[i] = sub[r].after + i
    /\ sub[r].registered => sub[r].after + Len(Stream(sub[r])) = high

\* The close reason is truthful: a subscriber told that the runtime stopped has been given
\* RuntimeStopped and everything before it; one told that it lagged did miss an event.
CloseIsTruthful ==
  \A r \in Receivers : sub[r].held =>
    LET last == sub[r].after + Len(sub[r].got)
    IN  /\ sub[r].told = "stopped" => phase = "stopped" /\ last = end
        /\ sub[r].told = "lagged" => last < high

\* A subscriber that keeps reading is never left in the dark: it catches up with the event
\* stream again and again, or it is told why it was cut off.
ReaderIsServed ==
  \A r \in Receivers :
    sub[r].held ~> \/ ~sub[r].held \/ sub[r].told # "open"
                   \/ sub[r].after + Len(sub[r].got) = high
====================================================================================
