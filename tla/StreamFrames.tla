-------------------------------- MODULE StreamFrames --------------------------------
(***************************************************************************)
(* The frames of the event stream and the order in which they may follow   *)
(* each other on one connection: replay_begin, the events after the        *)
(* client's cursor up to the captured high water one by one, the snapshot, *)
(* replay_end, then the live events one by one; at any point at most one   *)
(* error and a close.  A frame is its type and its number: the high water, *)
(* or the sequence number of an event.                                     *)
(***************************************************************************)
EXTENDS Naturals

Resyncing == {"history_gap", "future_cursor", "wrong_session"}
Fatal == {"protocol_error", "unsupported_version"}
Retried == {"subscribe_timeout", "subscriber_limit", "subscriber_lagged", "stream_unavailable"}
Codes == Resyncing \cup Fatal \cup Retried \cup {"authentication_expired"}
FrameTypes == {"begin", "event", "snapshot", "end", "close", "close1012"} \cup Codes

Frame(t, n) == [t |-> t, n |-> n]
NoFrame == Frame("none", 0)

\* clean: the client sent nothing but a subscribe; same: it was for the current session
Unconnected == [stage |-> "none", clean |-> TRUE, same |-> FALSE, after |-> 0, high |-> 0, next |-> 0]
Connected == [Unconnected EXCEPT !.stage = "open"]
Asked(w, same, n) == [w EXCEPT !.stage = "asked", !.same = same, !.after = n]
Misused(w) == [w EXCEPT !.clean = FALSE]

\* The errors a connection may report: those about the client's own frames are truthful.
Reportable(w, code, newest) ==
  /\ code \in Codes
  /\ code \in Fatal => ~w.clean
  /\ code = "wrong_session" => ~w.same
  /\ code \in Resyncing => w.stage = "asked"
  /\ code = "future_cursor" => w.after > 0
  /\ code = "history_gap" => w.after < newest

\* The frames that may be written next
Allowed(w, f, newest) ==
  \/ f.t = "begin" /\ w.stage = "asked" /\ w.same /\ f.n \in w.after .. newest
  \/ f.t = "event" /\ w.stage = "replay" /\ f.n = w.next /\ f.n <= w.high
  \/ f.t = "snapshot" /\ w.stage = "replay" /\ f.n = w.high /\ w.next = w.high + 1
  \/ f.t = "end" /\ w.stage = "snapshot" /\ f.n = w.high
  \/ f.t = "event" /\ w.stage = "live" /\ f.n = w.next /\ f.n <= newest
  \/ w.stage \notin {"none", "error", "closed"} /\ Reportable(w, f.t, newest) /\ f.n = 0
  \/ f.t \in {"close", "close1012"} /\ w.stage \notin {"none", "closed"} /\ f.n = 0

\* The connection after a frame
Written(w, f) ==
  CASE f.t = "begin" -> [w EXCEPT !.stage = "replay", !.high = f.n, !.next = w.after + 1]
    [] f.t = "event" -> [w EXCEPT !.next = f.n + 1]
    [] f.t = "snapshot" -> [w EXCEPT !.stage = "snapshot"]
    [] f.t = "end" -> [w EXCEPT !.stage = "live"]
    [] f.t \in Codes -> [w EXCEPT !.stage = "error"]
    [] OTHER -> [w EXCEPT !.stage = "closed"]
=====================================================================================
