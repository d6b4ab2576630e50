----------------------------- MODULE StreamSocketProofs -----------------------------
(***************************************************************************)
(* The connections of the event stream implement StreamContract, for every *)
(* set of connections, every capacity and every length of the stream, with *)
(* clients that may send anything and leave at any time.  SInv says where  *)
(* each connection's task, its subscribe task and its subscription stand   *)
(* when its client has seen so much; every step keeps it and is a step of  *)
(* the contract or none.  The stream itself is EventStreamProofs' Inv.     *)
(***************************************************************************)
EXTENDS StreamSocket, EventStreamProofs

\* The stream, and what each connection makes of it; the runtime never ended in the future.
SInv == Inv /\ end <= high /\ SocketInv

\* The step is one that the contract allows, or is not seen by the clients.
Refines == [SC!ContractNext]_<<high, wire>>

\* A connection that does not exist is well typed.
LEMMA NoSocketType == NoSocket \in Sockets /\ NoFrame \in SocketFrames /\ <<>> \in Seq(SocketFrames)
<1>1. 0 \in 0 .. MaxSeq /\ 0 \in Nat /\ <<>> \in Seq(SocketFrames)
  BY StreamAssumption
<1>2. NoFrame \in SocketFrames
  BY <1>1, Zenon DEF NoFrame, Frame, SocketFrames
<1> QED
  BY <1>1, <1>2, ZenonT(30) DEF NoSocket, Sockets

\* What a client has seen before and right after the upgrade is well typed.
LEMMA WireType == Unconnected \in Wires /\ Connected \in Wires
<1>1. 0 \in 0 .. MaxSeq /\ 0 \in 0 .. MaxSeq + 1
  BY StreamAssumption
<1>2. Unconnected \in Wires
  BY <1>1, ZenonT(30) DEF Wires, Unconnected
<1> QED
  BY <1>2, ZenonT(30) DEF Wires, Connected

\* The contract has its own copy of the definitions of StreamFrames.
LEMMA SameFrames ==
  /\ SC!Unconnected = Unconnected /\ SC!Connected = Connected /\ SC!FrameTypes = FrameTypes
  /\ \A w : SC!Misused(w) = Misused(w)
  /\ \A w, same, n : SC!Asked(w, same, n) = Asked(w, same, n)
  /\ \A t, n : SC!Frame(t, n) = Frame(t, n)
  /\ \A w, f, n : SC!Allowed(w, f, n) <=> Allowed(w, f, n)
  /\ \A w, f : SC!Written(w, f) = Written(w, f)
<1>1. SC!Unconnected = Unconnected
  BY ZenonT(30) DEF SC!Unconnected, Unconnected
<1>2. SC!Connected = Connected
  BY <1>1, Zenon DEF SC!Connected, Connected
<1>3. SC!Codes = Codes /\ SC!Resyncing = Resyncing /\ SC!Fatal = Fatal
  BY Zenon DEF SC!Codes, Codes, SC!Resyncing, Resyncing, SC!Fatal, Fatal, SC!Retried, Retried
<1>4. SC!FrameTypes = FrameTypes
  BY <1>3, Zenon DEF SC!FrameTypes, FrameTypes
<1>5. \A w : SC!Misused(w) = Misused(w)
  BY Zenon DEF SC!Misused, Misused
<1>6. \A w, same, n : SC!Asked(w, same, n) = Asked(w, same, n)
  BY Zenon DEF SC!Asked, Asked
<1>7. \A t, n : SC!Frame(t, n) = Frame(t, n)
  BY Zenon DEF SC!Frame, Frame
<1>8. \A w, code, n : SC!Reportable(w, code, n) <=> Reportable(w, code, n)
  BY <1>3, ZenonT(30) DEF SC!Reportable, Reportable
<1>9. \A w, f, n : SC!Allowed(w, f, n) <=> Allowed(w, f, n)
  BY <1>8 DEF SC!Allowed, Allowed
<1>10. \A w, f : SC!Written(w, f) = Written(w, f)
  BY <1>3, Zenon DEF SC!Written, Written
<1> QED
  BY <1>1, <1>2, <1>4, <1>5, <1>6, <1>7, <1>9, <1>10, Zenon

\* A step of one connection keeps the invariant if that connection agrees with it afterwards.
LEMMA OneConnection ==
  ASSUME SInv, NEW c \in Receivers, NEW s \in Sockets, NEW w \in Wires,
         sock' = [sock EXCEPT ![c] = s], wire' = [wire EXCEPT ![c] = w], running' \in BOOLEAN,
         high' = high, end' = end, \A r \in Receivers : r # c => sub'[r] = sub[r], Inv',
         ConnectionOk(s, w, sub'[c], high)
  PROVE  SInv'
<1>1. SocketTypeOK'
  BY Zenon DEF SInv, SocketInv, SocketTypeOK
<1>2. ASSUME NEW r \in Receivers PROVE ConnectionOk(sock'[r], wire'[r], sub'[r], high)
  <2>1. CASE r = c
    BY <2>1, Zenon DEF SInv, SocketInv, SocketTypeOK
  <2>2. CASE r # c
    <3>1. sock'[r] = sock[r] /\ wire'[r] = wire[r] /\ sub'[r] = sub[r]
      BY <2>2, Zenon DEF SInv, SocketInv, SocketTypeOK
    <3> QED
      BY <3>1, Zenon DEF SInv, SocketInv
  <2> QED
    BY <2>1, <2>2, Zenon
<1> QED
  BY <1>1, <1>2, Zenon DEF SInv, SocketInv

\* The same for a step that leaves the stream and the connection's frames alone.
LEMMA TaskMoves ==
  ASSUME SInv, NEW c \in Receivers, NEW s \in Sockets, Update(c, s), UNCHANGED streamVars,
         ConnectionOk(s, wire[c], sub[c], high)
  PROVE  SInv' /\ Refines
<1>1. /\ sock' = [sock EXCEPT ![c] = s] /\ wire' = wire /\ running' = running
      /\ UNCHANGED <<high, history, phase, end, sub>>
  BY Zenon DEF Update, streamVars
<1>2. wire[c] \in Wires /\ wire' = [wire EXCEPT ![c] = wire[c]] /\ running' \in BOOLEAN
  BY <1>1, Zenon DEF SInv, SocketInv, SocketTypeOK
<1>3. Inv'
  BY <1>1, NextInv, Zenon DEF SInv, vars
<1>4. SInv'
  BY <1>1, <1>2, <1>3, OneConnection, ZenonT(30)
<1> QED
  BY <1>1, <1>4, Zenon DEF Refines

\* What is known of a connection
LEMMA Known ==
  ASSUME SInv, NEW c \in Receivers
  PROVE  /\ sock[c] \in Sockets /\ wire[c] \in Wires /\ ConnectionOk(sock[c], wire[c], sub[c], high)
         /\ high \in Nat /\ high <= MaxSeq /\ sub[c] \in Subscriptions /\ DOMAIN sub = Receivers
         /\ sock = [sock EXCEPT ![c] = sock[c]] /\ running \in BOOLEAN
  BY StreamAssumption DEF SInv, SocketInv, SocketTypeOK, Inv, SubOk

\* A subscription never runs ahead of the newest event.
LEMMA Reaches ==
  ASSUME SInv, NEW c \in Receivers, sub[c].held
  PROVE  Reach(sub[c]) <= high
<1>1. SubOk(sub[c], high, phase, end) /\ high \in Nat /\ end \in Nat /\ end <= high
  BY StreamAssumption DEF SInv, Inv
<1>2. Reach(sub[c]) \in Nat /\ sub[c].reason \in Reasons
  BY <1>1, SubscriptionFields, Zenon DEF SubOk
<1>3. CASE sub[c].registered
  BY <1>1, <1>2, <1>3 DEF SubOk, StatusOk
<1>4. CASE ~sub[c].registered
  BY <1>1, <1>2, <1>4 DEF SubOk, StatusOk, Reasons
<1> QED
  BY <1>3, <1>4, Zenon

\* The stages at which a connection streams
LEMMA StreamStages ==
  ASSUME NEW s, NEW w, NEW n, Streaming(s, w, n)
  PROVE  w.stage \in {"asked", "replay", "snapshot", "live"}
  BY Zenon DEF Streaming, Due

----------------------------------------------------------------------------
\* Logout or expiry of the session changes nothing that the client sees.
LEMMA LostStep ==
  ASSUME SInv, NEW c \in Receivers, SessionLost(c)
  PROVE  SInv' /\ Refines
<1>1. PICK s : s = sock[c]
  BY Zenon
<1>2. /\ s \in Sockets /\ ConnectionOk(s, wire[c], sub[c], high)
  BY <1>1, Known, Zenon
<1>3. PICK t : t = [s EXCEPT !.valid = FALSE]
  BY ZenonT(30)
<1>4. t \in Sockets
  BY <1>2, <1>3, ZenonT(30) DEF Sockets
<1>5. Update(c, t) /\ UNCHANGED streamVars
  BY <1>1, <1>3, Zenon DEF SessionLost, Update
<1>6. /\ t.pc = s.pc /\ t.peer = s.peer /\ t.ctl = s.ctl /\ t.session = s.session /\ t.after = s.after
      /\ t.task = s.task /\ t.result = s.result /\ t.todo = s.todo /\ t.wr = s.wr /\ t.last = s.last
      /\ t.code = s.code /\ t.extra = s.extra /\ t.valid = FALSE
  BY <1>2, <1>3, Zenon DEF Sockets
<1>7. ConnectionOk(t, wire[c], sub[c], high)
  BY <1>2, <1>6 DEF ConnectionOk, PlaceOk, TaskOk, WriteOk, Streaming
<1> QED
  BY <1>4, <1>5, <1>7, TaskMoves, Zenon
\* A connection that stops streaming or waiting, and goes on to report, close or end
LEMMA Leaving ==
  ASSUME NEW s \in Sockets, NEW w \in Wires, NEW u, NEW n, ConnectionOk(s, w, u, n),
         NEW t \in Sockets, NEW v, w.stage \notin {"none", "error", "closed"},
         t.pc \in {"grace", "close", "error"}, t.pc = "error" => Reportable(w, t.code, n),
         t.wr = NoFrame, t.valid = s.valid, t.extra = s.extra, t.peer = s.peer, t.ctl = s.ctl,
         t.session = s.session, t.after = s.after,
         \/ t.task = s.task /\ t.result = s.result /\ v = u /\ s.pc # "stream"
         \/ t.task = "none" /\ ~v.held
  PROVE  ConnectionOk(t, w, v, n)
<1>1. PlaceOk(t, w, n)
  BY Zenon DEF ConnectionOk, PlaceOk
<1>2. WriteOk(t)
  BY Zenon DEF ConnectionOk, WriteOk
<1>3. TaskOk(t, w, v, n)
  BY Zenon DEF ConnectionOk, TaskOk
<1> QED
  BY <1>1, <1>2, <1>3, Zenon DEF ConnectionOk

\* t is s on its way out: it has an error to report that it may report, or closes, or ends.
Departs(t, s, w, n) ==
  \E p \in {"grace", "close", "error"}, code \in Codes \cup {"none", "server_shutdown"} :
    t = [s EXCEPT !.pc = p, !.code = code] /\ (p = "error" => Reportable(w, code, n))

\* Reporting an error that may be reported is a way out.
LEMMA DepartsFailing ==
  ASSUME NEW s \in Sockets, NEW w, NEW n, NEW code, Reportable(w, code, n)
  PROVE  Departs(Failing(s, code), s, w, n)
<1>1. code \in Codes \cup {"none", "server_shutdown"}
  BY Zenon DEF Reportable
<1>2. Failing(s, code) = [s EXCEPT !.pc = "error", !.code = code]
  BY Zenon DEF Failing
<1> QED
  BY <1>1, <1>2, ZenonT(30) DEF Departs

\* So is closing, and so is leaving without a word.
LEMMA DepartsQuietly ==
  ASSUME NEW s \in Sockets, NEW w, NEW n
  PROVE  Departs(Closing(s), s, w, n) /\ Departs([s EXCEPT !.pc = "grace"], s, w, n)
<1>1. [s EXCEPT !.pc = "grace"] = [s EXCEPT !.pc = "grace", !.code = s.code]
  BY ZenonT(30) DEF Sockets
<1>2. s.code \in Codes \cup {"none", "server_shutdown"}
  BY Zenon DEF Sockets
<1>3. Closing(s) = [s EXCEPT !.pc = "close", !.code = "server_shutdown"]
  BY Zenon DEF Closing
<1>4. Departs([s EXCEPT !.pc = "grace"], s, w, n)
  <2>1. "grace" # "error" /\ "grace" \in {"grace", "close", "error"}
    BY Zenon
  <2> QED
    BY <1>1, <1>2, <2>1, ZenonT(30) DEF Departs
<1>5. Departs(Closing(s), s, w, n)
  <2>1. "close" # "error" /\ "close" \in {"grace", "close", "error"}
        /\ "server_shutdown" \in Codes \cup {"none", "server_shutdown"}
    BY Zenon
  <2> QED
    BY <1>3, <2>1, ZenonT(30) DEF Departs
<1> QED
  BY <1>4, <1>5, Zenon

\* The errors that say nothing of the client's frames may always be reported.
LEMMA Unconditional ==
  ASSUME NEW w, NEW n, NEW code \in Retried \cup {"authentication_expired"}
  PROVE  Reportable(w, code, n)
  BY Zenon DEF Reportable, Codes, Fatal, Resyncing, Retried

\* finish_stream_outcome
LEMMA EndedDeparts ==
  ASSUME NEW s \in Sockets, NEW w, NEW n, PlaceOk(s, w, n), Outcome(s) # "none"
  PROVE  Departs(Ended(s, Outcome(s)), s, w, n)
<1>1. CASE Outcome(s) \in {"peer", "transport"}
  BY <1>1, DepartsQuietly, Zenon DEF Ended
<1>2. CASE Outcome(s) = "server_shutdown"
  BY <1>2, DepartsQuietly, ZenonT(30) DEF Ended
<1>3. CASE Outcome(s) \notin {"peer", "transport", "server_shutdown"}
  <2>1. Ended(s, Outcome(s)) = Failing(s, Outcome(s))
    BY <1>3, Zenon DEF Ended
  <2>2. Reportable(w, Outcome(s), n)
    <3>1. CASE Outcome(s) = "authentication_expired"
      BY <3>1, Unconditional, Zenon
    <3>2. CASE Outcome(s) # "authentication_expired"
      <4>1. Outcome(s) = "protocol_error" /\ s.ctl = "protocol"
        BY <1>3, <3>2, Zenon DEF Outcome, Sockets
      <4>2. ~w.clean
        BY <4>1, Zenon DEF PlaceOk
      <4> QED
        BY <4>1, <4>2, Zenon DEF Reportable, Codes, Fatal, Resyncing
    <3> QED
      BY <3>1, <3>2, Zenon
  <2> QED
    BY <2>1, <2>2, DepartsFailing, Zenon
<1> QED
  BY <1>1, <1>2, <1>3, Zenon

\* A connection that has no subscription yet gives up
LEMMA GivesUp ==
  ASSUME SInv, NEW c \in Receivers, sock[c].pc \in {"await", "subscribing", "error"},
         NEW t, Departs(t, sock[c], wire[c], high), Update(c, t), UNCHANGED streamVars
  PROVE  SInv' /\ Refines
<1>1. PICK s : s = sock[c]
  BY Zenon
<1>2. PICK w : w = wire[c]
  BY Zenon
<1>3. s \in Sockets /\ w \in Wires /\ ConnectionOk(s, w, sub[c], high)
  BY <1>1, <1>2, Known, Zenon
<1>4. PICK p \in {"grace", "close", "error"}, code \in Codes \cup {"none", "server_shutdown"} :
        t = [s EXCEPT !.pc = p, !.code = code] /\ (p = "error" => Reportable(w, code, high))
  BY <1>1, <1>2, ZenonT(30) DEF Departs
<1>5. t \in Sockets
  BY <1>3, <1>4, ZenonT(30) DEF Sockets
<1>6. /\ t.pc = p /\ t.code = code /\ t.wr = s.wr /\ t.valid = s.valid /\ t.extra = s.extra /\ t.peer = s.peer
      /\ t.ctl = s.ctl /\ t.session = s.session /\ t.after = s.after /\ t.task = s.task /\ t.result = s.result
  BY <1>3, <1>4, Zenon DEF Sockets
<1>7. w.stage \notin {"none", "error", "closed"} /\ s.wr = NoFrame /\ s.pc # "stream"
  BY <1>1, <1>3, Zenon DEF ConnectionOk, PlaceOk, WriteOk
<1>8. ConnectionOk(t, w, sub[c], high)
  BY <1>3, <1>4, <1>5, <1>6, <1>7, Leaving, ZenonT(30)
<1> QED
  BY <1>2, <1>5, <1>8, TaskMoves, Zenon

\* A connection that streams leaves its subscription
LEMMA Unsubscribes ==
  ASSUME SInv, NEW c \in Receivers, sock[c].pc = "stream",
         NEW t, Departs(t, sock[c], wire[c], high), Leaves(c, t)
  PROVE  SInv' /\ Refines
<1>1. PICK s : s = sock[c]
  BY Zenon
<1>2. PICK w : w = wire[c]
  BY Zenon
<1>3. s \in Sockets /\ w \in Wires /\ ConnectionOk(s, w, sub[c], high)
  BY <1>1, <1>2, Known, Zenon
<1>4. PICK p \in {"grace", "close", "error"}, code \in Codes \cup {"none", "server_shutdown"} :
        t = [s EXCEPT !.pc = p, !.code = code] /\ (p = "error" => Reportable(w, code, high))
  BY <1>1, <1>2, ZenonT(30) DEF Departs
<1>5. PICK x : x = [t EXCEPT !.todo = <<>>, !.wr = NoFrame]
  BY Zenon
<1>6. x \in Sockets
  <2>1. t \in Sockets
    BY <1>3, <1>4, ZenonT(30) DEF Sockets
  <2> QED
    BY <1>5, <2>1, NoSocketType, ZenonT(30) DEF Sockets
<1>7. /\ x.pc = p /\ x.code = code /\ x.wr = NoFrame /\ x.valid = s.valid /\ x.extra = s.extra /\ x.peer = s.peer
      /\ x.ctl = s.ctl /\ x.session = s.session /\ x.after = s.after /\ x.task = s.task /\ x.result = s.result
  BY <1>3, <1>4, <1>5, Zenon DEF Sockets
<1>8. Drop(c) /\ Update(c, x)
  BY <1>5, Zenon DEF Leaves
<1>9. /\ sub' = [sub EXCEPT ![c] = NoSubscription] /\ UNCHANGED <<high, history, phase, end>>
      /\ sock' = [sock EXCEPT ![c] = x] /\ wire' = wire /\ running' = running
  BY <1>8, Zenon DEF Drop, Update
<1>10. Inv'
  BY <1>8, NextInv, Zenon DEF SInv, Next
<1>11. /\ sub'[c] = NoSubscription /\ \A r \in Receivers : r # c => sub'[r] = sub[r]
       /\ wire' = [wire EXCEPT ![c] = w] /\ running' \in BOOLEAN
  BY <1>2, <1>9, Known, Zenon DEF SInv, SocketInv, SocketTypeOK
<1>12. w.stage \notin {"none", "error", "closed"} /\ s.task = "none"
  BY <1>1, <1>3, StreamStages, ZenonT(30) DEF ConnectionOk, PlaceOk, TaskOk, Sockets
<1>13. ConnectionOk(x, w, sub'[c], high)
  <2>1. ~sub'[c].held
    BY <1>11 DEF NoSubscription
  <2> QED
    BY <1>3, <1>4, <1>6, <1>7, <1>12, <2>1, Leaving, Zenon
<1>14. SInv'
  BY <1>3, <1>6, <1>9, <1>10, <1>11, <1>13, OneConnection, ZenonT(30)
<1> QED
  BY <1>9, <1>14, ZenonT(30) DEF Refines

\* receive_subscribe gives up: the session, the drain, the client or its deadline.
LEMMA AwaitFailsStep ==
  ASSUME SInv, NEW c \in Receivers, AwaitFails(c)
  PROVE  SInv' /\ Refines
<1>1. PICK s : s = sock[c]
  BY Zenon
<1>2. PICK w : w = wire[c]
  BY Zenon
<1>3. s \in Sockets /\ w \in Wires /\ ConnectionOk(s, w, sub[c], high)
  BY <1>1, <1>2, Known, Zenon
<1>4. s.pc = "await" /\ UNCHANGED streamVars
  BY <1>1, Zenon DEF AwaitFails
<1>5. PICK t : Update(c, t) /\ Departs(t, s, w, high)
  <2>1. CASE Update(c, Failing(s, "authentication_expired")) \/ Update(c, Failing(s, "subscribe_timeout"))
    <3>1. /\ Reportable(w, "authentication_expired", high) /\ Reportable(w, "subscribe_timeout", high)
      BY Unconditional, Zenon DEF Retried
    <3> QED
      BY <1>3, <2>1, <3>1, DepartsFailing, Zenon
  <2>2. CASE Update(c, Closing(s)) \/ Update(c, [s EXCEPT !.pc = "grace"])
    BY <1>3, <2>2, DepartsQuietly, ZenonT(30)
  <2>3. CASE s.peer = "junk" /\ Update(c, Failing(s, "protocol_error"))
    <3>1. Reportable(w, "protocol_error", high)
      BY <1>3, <2>3, Zenon DEF ConnectionOk, PlaceOk, Reportable, Codes, Fatal, Resyncing
    <3> QED
      BY <1>3, <2>3, <3>1, DepartsFailing, Zenon
  <2> QED
    BY <1>1, <1>2, <2>1, <2>2, <2>3, Zenon DEF AwaitFails
<1> QED
  BY <1>1, <1>2, <1>4, <1>5, GivesUp, ZenonT(30)

\* await_subscription is cut short by the outcome of the connection.
LEMMA AwaitEndsStep ==
  ASSUME SInv, NEW c \in Receivers, AwaitSubscriptionEnds(c)
  PROVE  SInv' /\ Refines
<1>1. /\ sock[c].pc = "subscribing" /\ Outcome(sock[c]) # "none" /\ UNCHANGED streamVars
      /\ Update(c, Ended(sock[c], Outcome(sock[c])))
  BY Zenon DEF AwaitSubscriptionEnds
<1>2. Departs(Ended(sock[c], Outcome(sock[c])), sock[c], wire[c], high)
  BY <1>1, Known, EndedDeparts, Zenon DEF ConnectionOk
<1> QED
  BY <1>1, <1>2, GivesUp, Zenon

\* stream_subscription is cut short by the outcome of the connection.
LEMMA StreamEndsStep ==
  ASSUME SInv, NEW c \in Receivers, StreamEnds(c)
  PROVE  SInv' /\ Refines
<1>1. /\ sock[c].pc = "stream" /\ Outcome(sock[c]) # "none"
      /\ Leaves(c, Ended(sock[c], Outcome(sock[c])))
  BY Zenon DEF StreamEnds, Idle
<1>2. Departs(Ended(sock[c], Outcome(sock[c])), sock[c], wire[c], high)
  BY <1>1, Known, EndedDeparts, Zenon DEF ConnectionOk
<1> QED
  BY <1>1, <1>2, Unsubscribes, Zenon

\* stream_subscription learns that it lagged or that the runtime stopped.
LEMMA LearnsCloseStep ==
  ASSUME SInv, NEW c \in Receivers, StreamLearnsClose(c)
  PROVE  SInv' /\ Refines
<1>1. PICK code \in Retried : sock[c].pc = "stream" /\ Leaves(c, Failing(sock[c], code))
  BY Zenon DEF StreamLearnsClose, Live, Idle, Retried
<1>2. Departs(Failing(sock[c], code), sock[c], wire[c], high)
  BY Known, Unconditional, DepartsFailing, Zenon
<1> QED
  BY <1>1, <1>2, Unsubscribes, Zenon

\* A write fails or times out.
LEMMA WriteFailsStep ==
  ASSUME SInv, NEW c \in Receivers, WriteFails(c)
  PROVE  SInv' /\ Refines
<1>1. sock[c].pc = "stream" /\ Leaves(c, [sock[c] EXCEPT !.pc = "grace"])
  BY Known, Zenon DEF WriteFails, ConnectionOk, WriteOk
<1>2. Departs([sock[c] EXCEPT !.pc = "grace"], sock[c], wire[c], high)
  BY Known, DepartsQuietly, Zenon
<1> QED
  BY <1>1, <1>2, Unsubscribes, Zenon

\* receive_subscribe has read the subscribe frame and spawns the subscribe.
LEMMA AwaitSubscribeStep ==
  ASSUME SInv, NEW c \in Receivers, AwaitSubscribe(c)
  PROVE  SInv' /\ Refines
<1>1. PICK s : s = sock[c]
  BY Zenon
<1>2. s \in Sockets /\ ConnectionOk(s, wire[c], sub[c], high)
  BY <1>1, Known, Zenon
<1>3. PICK t : t = [s EXCEPT !.pc = "subscribing", !.reader = TRUE, !.task = "running"]
  BY Zenon
<1>4. t \in Sockets
  BY <1>2, <1>3, ZenonT(30) DEF Sockets
<1>5. s.pc = "await" /\ wire[c].stage = "asked" /\ Update(c, t) /\ UNCHANGED streamVars
  BY <1>1, <1>3, Zenon DEF AwaitSubscribe
<1>6. /\ t.pc = "subscribing" /\ t.task = "running" /\ t.peer = s.peer /\ t.ctl = s.ctl /\ t.session = s.session
      /\ t.after = s.after /\ t.wr = s.wr /\ t.extra = s.extra /\ t.valid = s.valid
  BY <1>2, <1>3, Zenon DEF Sockets
<1>7. PlaceOk(t, wire[c], high)
  BY <1>2, <1>5, <1>6, Zenon DEF ConnectionOk, PlaceOk
<1>8. TaskOk(t, wire[c], sub[c], high)
  BY <1>2, <1>5, <1>6, Zenon DEF ConnectionOk, TaskOk
<1>9. WriteOk(t)
  BY <1>2, <1>5, <1>6, Zenon DEF ConnectionOk, WriteOk
<1> QED
  BY <1>4, <1>5, <1>7, <1>8, <1>9, TaskMoves, Zenon DEF ConnectionOk

\* The control reader records what the client did.
LEMMA ControlReadsStep ==
  ASSUME SInv, NEW c \in Receivers, ControlReads(c)
  PROVE  SInv' /\ Refines
<1>1. PICK s : s = sock[c]
  BY Zenon
<1>2. s \in Sockets /\ ConnectionOk(s, wire[c], sub[c], high)
  BY <1>1, Known, Zenon
<1>3. PICK x : x = CASE s.peer = "closed" -> "peer" [] s.peer = "junk" -> "protocol" [] OTHER -> "transport"
  BY Zenon
<1>4. x \in {"open", "peer", "protocol", "transport"} /\ (x = "protocol" => s.peer = "junk")
  BY <1>2, <1>3, Zenon DEF Sockets
<1>5. PICK t : t = [s EXCEPT !.ctl = x]
  BY ZenonT(30)
<1>6. t \in Sockets
  BY <1>2, <1>4, <1>5, ZenonT(30) DEF Sockets
<1>7. Update(c, t) /\ UNCHANGED streamVars
  BY <1>1, <1>3, <1>5, Zenon DEF ControlReads
<1>8. /\ t.pc = s.pc /\ t.peer = s.peer /\ t.ctl = x /\ t.session = s.session /\ t.after = s.after
      /\ t.task = s.task /\ t.result = s.result /\ t.todo = s.todo /\ t.wr = s.wr /\ t.last = s.last
      /\ t.code = s.code /\ t.extra = s.extra /\ t.valid = s.valid
  BY <1>2, <1>5, ZenonT(30) DEF Sockets
<1>9. ConnectionOk(t, wire[c], sub[c], high)
  BY <1>2, <1>4, <1>8 DEF ConnectionOk, PlaceOk, TaskOk, WriteOk, Streaming
<1> QED
  BY <1>6, <1>7, <1>9, TaskMoves, Zenon

\* A step in which the subscription of a connection changes, or is left alone
LEMMA SubscriptionMoves ==
  ASSUME SInv, NEW c \in Receivers, NEW s \in Sockets, Update(c, s), [Next]_vars,
         UNCHANGED <<high, end>>, \A r \in Receivers : r # c => sub'[r] = sub[r],
         ConnectionOk(s, wire[c], sub'[c], high)
  PROVE  SInv' /\ Refines
<1>1. sock' = [sock EXCEPT ![c] = s] /\ wire' = wire /\ running' = running
  BY Zenon DEF Update
<1>2. wire[c] \in Wires /\ wire' = [wire EXCEPT ![c] = wire[c]] /\ running' \in BOOLEAN
  BY <1>1, Zenon DEF SInv, SocketInv, SocketTypeOK
<1>3. Inv'
  BY NextInv, Zenon DEF SInv
<1>4. SInv'
  BY <1>1, <1>2, <1>3, OneConnection, ZenonT(30)
<1> QED
  BY <1>1, <1>4, Zenon DEF Refines

\* The receiver, if there is one, is dropped.
LEMMA DropsIfHeld ==
  ASSUME SInv, NEW c \in Receivers, IF sub[c].held THEN Drop(c) ELSE UNCHANGED streamVars
  PROVE  /\ [Next]_vars /\ UNCHANGED <<high, end>> /\ ~sub'[c].held
         /\ \A r \in Receivers : r # c => sub'[r] = sub[r]
<1>1. CASE sub[c].held
  <2>1. Drop(c)
    BY <1>1, Zenon
  <2>2. sub' = [sub EXCEPT ![c] = NoSubscription] /\ UNCHANGED <<high, history, phase, end>>
    BY <2>1, Zenon DEF Drop
  <2>3. sub'[c] = NoSubscription /\ \A r \in Receivers : r # c => sub'[r] = sub[r]
    BY <2>2, Known, Zenon
  <2> QED
    BY <2>1, <2>2, <2>3 DEF Next, NoSubscription
<1>2. CASE ~sub[c].held
  BY <1>2, Zenon DEF streamVars, vars
<1> QED
  BY <1>1, <1>2, ZenonT(30)

\* An aborted subscribe that had not begun leaves nothing behind.
LEMMA TaskAbortedStep ==
  ASSUME SInv, NEW c \in Receivers, TaskAborted(c)
  PROVE  SInv' /\ Refines
<1>1. PICK s : s = sock[c]
  BY Zenon
<1>2. s \in Sockets /\ ConnectionOk(s, wire[c], sub[c], high)
  BY <1>1, Known, Zenon
<1>3. PICK t : t = [s EXCEPT !.task = "none"]
  BY ZenonT(30)
<1>4. t \in Sockets
  BY <1>2, <1>3, ZenonT(30) DEF Sockets
<1>5. s.task = "running" /\ Update(c, t) /\ UNCHANGED streamVars
  BY <1>1, <1>3, Zenon DEF TaskAborted
<1>6. /\ t.pc = s.pc /\ t.peer = s.peer /\ t.ctl = s.ctl /\ t.session = s.session /\ t.after = s.after
      /\ t.task = "none" /\ t.todo = s.todo /\ t.wr = s.wr /\ t.last = s.last
      /\ t.code = s.code /\ t.extra = s.extra /\ t.valid = s.valid
  BY <1>2, <1>3, ZenonT(30) DEF Sockets
<1>7. ConnectionOk(t, wire[c], sub[c], high)
  BY <1>2, <1>5, <1>6, ZenonT(30) DEF ConnectionOk, PlaceOk, TaskOk, WriteOk, Streaming
<1> QED
  BY <1>4, <1>5, <1>7, TaskMoves, Zenon

\* A result that nobody awaits takes its receiver with it.
LEMMA ResultDroppedStep ==
  ASSUME SInv, NEW c \in Receivers, ResultDropped(c)
  PROVE  SInv' /\ Refines
<1>1. PICK s : s = sock[c]
  BY Zenon
<1>2. s \in Sockets /\ ConnectionOk(s, wire[c], sub[c], high)
  BY <1>1, Known, Zenon
<1>3. PICK t : t = [s EXCEPT !.task = "none", !.result = "none"]
  BY Zenon
<1>4. t \in Sockets
  BY <1>2, <1>3, ZenonT(30) DEF Sockets
<1>5. /\ s.task = "done" /\ s.pc # "subscribing" /\ Update(c, t)
      /\ IF sub[c].held THEN Drop(c) ELSE UNCHANGED streamVars
  BY <1>1, <1>3, Zenon DEF ResultDropped
<1>6. /\ t.pc = s.pc /\ t.peer = s.peer /\ t.ctl = s.ctl /\ t.session = s.session /\ t.after = s.after
      /\ t.task = "none" /\ t.todo = s.todo /\ t.wr = s.wr /\ t.last = s.last
      /\ t.code = s.code /\ t.extra = s.extra /\ t.valid = s.valid
  BY <1>2, <1>3, ZenonT(30) DEF Sockets
<1>7. /\ [Next]_vars /\ UNCHANGED <<high, end>> /\ ~sub'[c].held
      /\ \A r \in Receivers : r # c => sub'[r] = sub[r]
  BY <1>5, DropsIfHeld, Zenon
<1>8. ConnectionOk(t, wire[c], sub'[c], high)
  BY <1>2, <1>5, <1>6, <1>7, ZenonT(30) DEF ConnectionOk, PlaceOk, TaskOk, WriteOk, Streaming
<1> QED
  BY <1>4, <1>5, <1>7, <1>8, SubscriptionMoves, ZenonT(30)

\* What ConcreteSessionPort::subscribe answers may be reported to the client it is for.
LEMMA ResultReportable ==
  ASSUME SInv, NEW s \in Sockets, NEW w \in Wires, w.stage = "asked", s.session = w.same, s.after = w.after,
         SubscribeResult(s) # "ok"
  PROVE  Reportable(w, SubscribeResult(s), high)
<1>1. /\ high \in Nat /\ s.after \in Nat /\ w.after \in Nat /\ HistoryOk(history, high) /\ HistoryCapacity \in Nat
      /\ HistoryCapacity >= 1
  BY StreamAssumption DEF SInv, Inv, Sockets, Wires
<1>2. CASE SubscribeResult(s) = "wrong_session"
  <2>1. ~s.session
    BY <1>2, Zenon DEF SubscribeResult
  <2> QED
    BY <1>2, <2>1, Zenon DEF Reportable, Codes, Fatal, Resyncing, Retried
<1>3. CASE SubscribeResult(s) = "stream_unavailable"
  BY <1>3, Unconditional, Zenon DEF Retried
<1>4. CASE SubscribeResult(s) = "future_cursor"
  <2>1. s.after > high
    BY <1>4, Zenon DEF SubscribeResult
  <2> QED
    BY <1>1, <1>4, <2>1 DEF Reportable, Codes, Fatal, Resyncing, Retried
<1>5. CASE SubscribeResult(s) = "history_gap"
  <2>1. s.after <= high /\ ~CursorRetained(s.after)
    BY <1>5, Zenon DEF SubscribeResult
  <2>2. history # <<>> /\ s.after < history[1] - 1 /\ history[1] \in Nat
    <3>1. history # <<>> /\ ~(s.after >= history[1] - 1)
      BY <2>1, Zenon DEF CursorRetained
    <3>2. history[1] \in Nat
      BY <1>1, <3>1, StreamAssumption DEF HistoryOk
    <3> QED
      BY <1>1, <3>1, <3>2
  <2>3. history[1] <= high
    BY <1>1, <2>2 DEF HistoryOk
  <2>4. s.after < high
    BY <1>1, <2>2, <2>3
  <2> QED
    BY <1>5, <2>4, Zenon DEF Reportable, Codes, Fatal, Resyncing, Retried
<1> QED
  BY <1>2, <1>3, <1>4, <1>5 DEF SubscribeResult

\* The blocking subscribe registers a receiver or returns a truthful error.
LEMMA SubscribeRunsStep ==
  ASSUME SInv, NEW c \in Receivers, SubscribeRuns(c)
  PROVE  SInv' /\ Refines
<1>1. PICK s : s = sock[c]
  BY Zenon
<1>2. PICK w : w = wire[c]
  BY Zenon
<1>3. s \in Sockets /\ w \in Wires /\ ConnectionOk(s, w, sub[c], high)
  BY <1>1, <1>2, Known, Zenon
<1>4. PICK result \in {SubscribeResult(s), "subscriber_limit"} :
        /\ s.task = "running"
        /\ IF result = "ok" THEN Subscribe(c, s.after) ELSE UNCHANGED streamVars
        /\ Update(c, [s EXCEPT !.task = "done", !.result = result])
  BY <1>1, ZenonT(30) DEF SubscribeRuns
<1>5. result \in Codes \cup {"ok"}
  BY <1>4, Zenon DEF SubscribeResult, Codes, Resyncing, Retried
<1>6. PICK t : t = [s EXCEPT !.task = "done", !.result = result]
  BY Zenon
<1>7. t \in Sockets
  BY <1>3, <1>5, <1>6, ZenonT(30) DEF Sockets
<1>8. /\ t.pc = s.pc /\ t.peer = s.peer /\ t.ctl = s.ctl /\ t.session = s.session /\ t.after = s.after
      /\ t.task = "done" /\ t.result = result /\ t.wr = s.wr /\ t.last = s.last
      /\ t.code = s.code /\ t.extra = s.extra /\ t.valid = s.valid
  BY <1>3, <1>6, ZenonT(30) DEF Sockets
<1>9. s.pc # "stream" /\ ~sub[c].held
  BY <1>3, <1>4, Zenon DEF ConnectionOk, TaskOk
<1>10. PlaceOk(t, w, high) /\ WriteOk(t)
  BY <1>3, <1>8, <1>9, ZenonT(30) DEF ConnectionOk, PlaceOk, WriteOk
<1>11. CASE result = "ok"
  <2>1. Subscribe(c, s.after) /\ s.after \in 0 .. MaxSeq
    BY <1>3, <1>4, <1>11, ZenonT(30) DEF Sockets
  <2>2. /\ sub'[c].held /\ sub'[c].after = s.after /\ UNCHANGED <<high, end>>
        /\ \A r \in Receivers : r # c => sub'[r] = sub[r]
    BY <2>1, Known, ZenonT(30) DEF Subscribe
  <2>3. [Next]_vars
    BY <2>1, Zenon DEF Next
  <2>4. s.session = TRUE
    <3>1. SubscribeResult(s) = "ok"
      BY <1>4, <1>11, Zenon
    <3> QED
      BY <1>3, <3>1, Zenon DEF SubscribeResult, Sockets
  <2>5. TaskOk(t, w, sub'[c], high)
    BY <1>3, <1>4, <1>8, <1>11, <2>2, <2>4, Zenon DEF ConnectionOk, TaskOk
  <2> QED
    BY <1>2, <1>4, <1>6, <1>7, <1>10, <2>2, <2>3, <2>5, SubscriptionMoves, ZenonT(30) DEF ConnectionOk
<1>12. CASE result # "ok"
  <2>1. UNCHANGED streamVars
    BY <1>4, <1>12, ZenonT(30)
  <2>2. s.pc = "subscribing" => Reportable(w, result, high)
    <3>1. CASE result = "subscriber_limit"
      BY <3>1, Unconditional, ZenonT(30) DEF Retried
    <3>2. CASE result = SubscribeResult(s)
      <4>1. s.pc = "subscribing" => w.stage = "asked" /\ s.session = w.same /\ s.after = w.after
        BY <1>3, ZenonT(30) DEF ConnectionOk, PlaceOk
      <4> QED
        BY <1>3, <1>12, <3>2, <4>1, ResultReportable, Zenon
    <3> QED
      BY <1>4, <3>1, <3>2, Zenon
  <2>3. TaskOk(t, w, sub[c], high)
    BY <1>3, <1>4, <1>5, <1>8, <1>9, <1>12, <2>2, ZenonT(30) DEF ConnectionOk, TaskOk, Codes, Resyncing, Fatal, Retried
  <2> QED
    BY <1>2, <1>4, <1>6, <1>7, <1>10, <2>1, <2>3, TaskMoves, ZenonT(30) DEF ConnectionOk
<1> QED
  BY <1>11, <1>12, Zenon

\* prepare_replay: begin, the events after the cursor, the snapshot and end
LEMMA ReplayFramesAre ==
  ASSUME NEW h \in 0 .. MaxSeq, NEW replay \in Seq(1 .. MaxSeq), NEW after \in Nat, ReplaySound(after, h, replay)
  PROVE  /\ ReplayFrames(h, replay) \in Seq(SocketFrames)
         /\ Len(ReplayFrames(h, replay)) = h - after + 3
         /\ \A i \in 1 .. h - after + 3 : ReplayFrames(h, replay)[i] = ReplayFrame(after, h, h - after + 3 - i)
<1>1. h \in Nat /\ MaxSeq \in Nat /\ Len(replay) \in Nat /\ DOMAIN replay = 1 .. Len(replay)
      /\ after + Len(replay) = h /\ \A i \in 1 .. Len(replay) : replay[i] = after + i
  BY StreamAssumption DEF ReplaySound
<1>2. PICK a : a = <<Frame("begin", h)>>
  BY ZenonT(30)
<1>3. PICK e : e = [i \in DOMAIN replay |-> Frame("event", replay[i])]
  BY ZenonT(30)
<1>4. PICK z : z = <<Frame("snapshot", h), Frame("end", h)>>
  BY ZenonT(30)
<1>5. /\ Frame("begin", h) \in SocketFrames /\ Frame("snapshot", h) \in SocketFrames /\ Frame("end", h) \in SocketFrames
      /\ \A i \in 1 .. Len(replay) : Frame("event", replay[i]) \in SocketFrames
  BY <1>1 DEF Frame, SocketFrames, FrameTypes
<1>6. a \in Seq(SocketFrames) /\ Len(a) = 1 /\ a[1] = Frame("begin", h)
  BY <1>2, <1>5
<1>7. /\ e \in Seq(SocketFrames) /\ Len(e) = Len(replay)
      /\ \A i \in 1 .. Len(replay) : e[i] = Frame("event", after + i)
  BY <1>1, <1>3, <1>5
<1>8. z \in Seq(SocketFrames) /\ Len(z) = 2 /\ z[1] = Frame("snapshot", h) /\ z[2] = Frame("end", h)
  BY <1>4, <1>5
<1>9. PICK ae : ae = a \o e
  BY ZenonT(30)
<1>10. /\ ae \in Seq(SocketFrames) /\ Len(ae) = Len(replay) + 1 /\ ae[1] = Frame("begin", h)
       /\ \A i \in 2 .. Len(replay) + 1 : ae[i] = Frame("event", after + (i - 1))
  <2>1. /\ ae \in Seq(SocketFrames) /\ Len(ae) = Len(a) + Len(e)
        /\ \A i \in 1 .. Len(a) + Len(e) : ae[i] = IF i <= Len(a) THEN a[i] ELSE e[i - Len(a)]
    BY <1>6, <1>7, <1>9, ConcatProperties, ZenonT(30)
  <2>2. /\ Len(ae) = Len(replay) + 1 /\ 1 \in 1 .. Len(a) + Len(e) /\ 1 <= Len(a)
    BY <1>1, <1>6, <1>7, <2>1
  <2>3. ae[1] = Frame("begin", h)
    <3>1. ae[1] = IF 1 <= Len(a) THEN a[1] ELSE e[1 - Len(a)]
      BY <2>1, <2>2, ZenonT(30)
    <3> QED
      BY <1>6, <2>2, <3>1, Zenon
  <2>4. ASSUME NEW i \in 2 .. Len(replay) + 1 PROVE ae[i] = Frame("event", after + (i - 1))
    <3>1. i \in 1 .. Len(a) + Len(e) /\ ~(i <= Len(a)) /\ i - Len(a) = i - 1 /\ i - 1 \in 1 .. Len(replay)
      BY <1>1, <1>6, <1>7
    <3>2. ae[i] = IF i <= Len(a) THEN a[i] ELSE e[i - Len(a)]
      BY <2>1, <3>1, ZenonT(30)
    <3>3. ae[i] = e[i - 1]
      BY <3>1, <3>2, ZenonT(30)
    <3> QED
      BY <1>7, <3>1, <3>3, ZenonT(30)
  <2> QED
    BY <2>1, <2>2, <2>3, <2>4, Zenon
<1>11. PICK all : all = ae \o z
  BY ZenonT(30)
<1>12. all = ReplayFrames(h, replay)
  BY <1>2, <1>3, <1>4, <1>9, <1>11, ZenonT(30) DEF ReplayFrames
<1>13. /\ all \in Seq(SocketFrames) /\ Len(all) = Len(replay) + 3
       /\ \A i \in 1 .. Len(replay) + 3 : all[i] = IF i <= Len(replay) + 1 THEN ae[i] ELSE z[i - (Len(replay) + 1)]
  <2>1. /\ all \in Seq(SocketFrames) /\ Len(all) = Len(ae) + Len(z)
        /\ \A i \in 1 .. Len(ae) + Len(z) : all[i] = IF i <= Len(ae) THEN ae[i] ELSE z[i - Len(ae)]
    BY <1>8, <1>10, <1>11, ConcatProperties, ZenonT(30)
  <2>2. Len(ae) + Len(z) = Len(replay) + 3 /\ Len(ae) = Len(replay) + 1
    BY <1>1, <1>8, <1>10
  <2> QED
    BY <2>1, <2>2, ZenonT(30)
<1>14. ASSUME NEW i \in 1 .. Len(replay) + 3
       PROVE  all[i] = ReplayFrame(after, h, Len(replay) + 3 - i)
  <2>1. CASE i = 1
    BY <1>1, <1>10, <1>13, <2>1 DEF ReplayFrame
  <2>2. CASE i \in 2 .. Len(replay) + 1
    <3>1. all[i] = Frame("event", after + (i - 1))
      BY <1>1, <1>10, <1>13, <2>2
    <3>2. after + (i - 1) = h + 2 - (Len(replay) + 3 - i)
      BY <1>1, <2>2
    <3>3. ReplayFrame(after, h, Len(replay) + 3 - i) = Frame("event", h + 2 - (Len(replay) + 3 - i))
      BY <1>1, <2>2, SMTT(30) DEF ReplayFrame
    <3> QED
      BY <3>1, <3>2, <3>3, ZenonT(30)
  <2>3. CASE i = Len(replay) + 2
    BY <1>1, <1>8, <1>13, <2>3, SMTT(30) DEF ReplayFrame
  <2>4. CASE i = Len(replay) + 3
    BY <1>1, <1>8, <1>13, <2>4 DEF ReplayFrame
  <2> QED
    BY <1>1, <2>1, <2>2, <2>3, <2>4, SMTT(30)
<1>15. h - after + 3 = Len(replay) + 3
  BY <1>1, SMTT(30)
<1>16. \A i \in 1 .. h - after + 3 : all[i] = ReplayFrame(after, h, h - after + 3 - i)
  <2> TAKE i \in 1 .. h - after + 3
  <2>1. i \in 1 .. Len(replay) + 3 /\ h - after + 3 - i = Len(replay) + 3 - i
    BY <1>1, <1>15
  <2> QED
    BY <1>14, <2>1, ZenonT(30)
<1>17. all \in Seq(SocketFrames) /\ Len(all) = h - after + 3
  BY <1>13, <1>15, Zenon
<1> QED
  BY <1>12, <1>16, <1>17, ZenonT(30)

\* await_subscription has the result: the replay begins or the error is reported.
LEMMA SubscribedStep ==
  ASSUME SInv, NEW c \in Receivers, Subscribed(c)
  PROVE  SInv' /\ Refines
<1>1. PICK s : s = sock[c]
  BY Zenon
<1>2. PICK w : w = wire[c]
  BY Zenon
<1>3. PICK u : u = sub[c]
  BY Zenon
<1>4. PICK h : h = u.after + Len(u.got)
  BY Zenon
<1>5. /\ s \in Sockets /\ w \in Wires /\ ConnectionOk(s, w, u, high) /\ u \in Subscriptions
      /\ high \in Nat /\ high <= MaxSeq /\ MaxSeq \in Nat
  BY <1>1, <1>2, <1>3, Known, StreamAssumption, Zenon
<1>6. s.pc = "subscribing" /\ s.task = "done" /\ w.stage = "asked" /\ s.session = w.same /\ s.after = w.after
  BY <1>1, <1>2, <1>5, ZenonT(30) DEF Subscribed, ConnectionOk, PlaceOk
<1>7. CASE s.result = "ok" /\ ReplaySound(u.after, h, u.got)
  <2>1. PICK F : F = ReplayFrames(h, u.got)
    BY ZenonT(30)
  <2>2. PICK t : t = [s EXCEPT !.pc = "stream", !.task = "none", !.result = "none", !.todo = F, !.last = h]
    BY ZenonT(30)
  <2>3. Update(c, t) /\ UNCHANGED streamVars
    BY <1>1, <1>3, <1>4, <1>7, <2>1, <2>2, Zenon DEF Subscribed
  <2>4. u.held /\ u.after = w.after /\ w.same
    BY <1>5, <1>6, <1>7, ZenonT(30) DEF ConnectionOk, TaskOk
  <2>5. /\ u.after \in Nat /\ Len(u.got) \in Nat /\ u.got \in Seq(1 .. MaxSeq) /\ h \in Nat /\ u.after <= h /\ h <= high
        /\ h \in 0 .. MaxSeq
    <3>1. /\ u.after \in Nat /\ Len(u.got) \in Nat /\ Len(u.queue) \in Nat /\ u.got \in Seq(1 .. MaxSeq)
      BY <1>5, SubscriptionFields, ZenonT(30)
    <3>2. Reach(u) <= high
      BY <1>3, <2>4, Reaches, Zenon
    <3> QED
      BY <1>4, <1>5, <3>1, <3>2, SMTT(30) DEF Reach
  <2>6. /\ F \in Seq(SocketFrames) /\ Len(F) = h - w.after + 3
        /\ \A i \in 1 .. h - w.after + 3 : F[i] = ReplayFrame(w.after, h, h - w.after + 3 - i)
    <3>1. /\ ReplayFrames(h, u.got) \in Seq(SocketFrames) /\ Len(ReplayFrames(h, u.got)) = h - u.after + 3
          /\ \A i \in 1 .. h - u.after + 3 :
               ReplayFrames(h, u.got)[i] = ReplayFrame(u.after, h, h - u.after + 3 - i)
      BY <1>7, <2>5, ReplayFramesAre, ZenonT(30)
    <3> QED
      BY <2>1, <2>4, <3>1, ZenonT(30)
  <2>7. t \in Sockets
    BY <1>5, <2>2, <2>5, <2>6, ZenonT(30) DEF Sockets
  <2>8. /\ t.pc = "stream" /\ t.task = "none" /\ t.todo = F /\ t.last = h /\ t.peer = s.peer /\ t.ctl = s.ctl
        /\ t.session = s.session /\ t.after = s.after /\ t.wr = s.wr /\ t.extra = s.extra /\ t.valid = s.valid
    BY <1>5, <2>2, ZenonT(30) DEF Sockets
  <2>9. s.wr = NoFrame
    BY <1>5, <1>6, ZenonT(30) DEF ConnectionOk, WriteOk
  <2>10. Streaming(t, w, high)
    <3>1. Due(w, h, h - w.after + 3)
      BY <1>6, <2>4, <2>5 DEF Due
    <3>2. h - w.after + 3 <= h - w.after + 3 /\ w.after <= h
      BY <2>4, <2>5
    <3>3. /\ Due(w, t.last, Len(t.todo)) /\ Len(t.todo) <= t.last - w.after + 3 /\ w.after <= t.last
          /\ t.last <= high /\ t.wr = NoFrame
      BY <2>5, <2>6, <2>8, <2>9, <3>1, <3>2, ZenonT(30)
    <3>4. \A i \in 1 .. Len(t.todo) : t.todo[i] = ReplayFrame(w.after, t.last, Len(t.todo) - i)
      <4> TAKE i \in 1 .. Len(t.todo)
      <4>1. t.todo = F /\ t.last = h /\ Len(t.todo) = h - w.after + 3
        BY <2>6, <2>8, ZenonT(30)
      <4>2. i \in 1 .. h - w.after + 3
        BY <4>1, Zenon
      <4>3. F[i] = ReplayFrame(w.after, h, h - w.after + 3 - i)
        BY <2>6, <4>2, ZenonT(30)
      <4>4. Len(t.todo) - i = h - w.after + 3 - i
        BY <2>4, <2>5, <4>1, <4>2, SMTT(30)
      <4> QED
        BY <4>1, <4>3, <4>4, ZenonT(30)
    <3> QED
      BY <3>3, <3>4, ZenonT(30) DEF Streaming
  <2>11. PlaceOk(t, w, high)
    BY <1>5, <1>6, <2>8, <2>10, ZenonT(30) DEF ConnectionOk, PlaceOk
  <2>12. TaskOk(t, w, u, high)
    BY <2>4, <2>8, ZenonT(30) DEF TaskOk
  <2>13. WriteOk(t)
    BY <1>5, <2>8, <2>9, ZenonT(30) DEF ConnectionOk, WriteOk
  <2> QED
    BY <1>2, <1>3, <2>3, <2>7, <2>11, <2>12, <2>13, TaskMoves, ZenonT(30) DEF ConnectionOk
<1>8. CASE ~(s.result = "ok" /\ ReplaySound(u.after, h, u.got))
  <2>1. PICK code : code = IF s.result = "ok" THEN "stream_unavailable" ELSE s.result
    BY ZenonT(30)
  <2>2. PICK t : t = [Failing(s, code) EXCEPT !.task = "none", !.result = "none"]
    BY Zenon
  <2>3. Update(c, t) /\ IF sub[c].held THEN Drop(c) ELSE UNCHANGED streamVars
    BY <1>1, <1>3, <1>4, <1>8, <2>1, <2>2, Zenon DEF Subscribed
  <2>4. Reportable(w, code, high)
    <3>1. CASE s.result = "ok"
      BY <2>1, <3>1, Unconditional, Zenon DEF Retried
    <3>2. CASE s.result # "ok"
      BY <1>5, <1>6, <2>1, <3>2, ZenonT(30) DEF ConnectionOk, TaskOk
    <3> QED
      BY <3>1, <3>2, ZenonT(30)
  <2>5. code \in Codes
    BY <2>4, ZenonT(30) DEF Reportable
  <2>6. t = [s EXCEPT !.pc = "error", !.code = code, !.task = "none", !.result = "none"]
    BY <1>5, <2>2, Zenon DEF Failing, Sockets
  <2>7. t \in Sockets
    BY <1>5, <2>5, <2>6, ZenonT(30) DEF Sockets
  <2>8. /\ t.pc = "error" /\ t.code = code /\ t.task = "none" /\ t.peer = s.peer /\ t.ctl = s.ctl
        /\ t.session = s.session /\ t.after = s.after /\ t.wr = s.wr /\ t.extra = s.extra /\ t.valid = s.valid
    BY <1>5, <2>6, ZenonT(30) DEF Sockets
  <2>9. s.wr = NoFrame
    BY <1>5, <1>6, Zenon DEF ConnectionOk, WriteOk
  <2>10. /\ [Next]_vars /\ UNCHANGED <<high, end>> /\ ~sub'[c].held
         /\ \A r \in Receivers : r # c => sub'[r] = sub[r]
    BY <2>3, DropsIfHeld, ZenonT(30)
  <2>11. ConnectionOk(t, w, sub'[c], high)
    BY <1>5, <1>6, <2>4, <2>7, <2>8, <2>9, <2>10, Leaving, ZenonT(30)
  <2> QED
    BY <1>2, <2>3, <2>7, <2>10, <2>11, SubscriptionMoves, ZenonT(30)
<1> QED
  BY <1>7, <1>8, ZenonT(30)

\* The next frame of the replay is taken for writing.
LEMMA StreamReplaysStep ==
  ASSUME SInv, NEW c \in Receivers, StreamReplays(c)
  PROVE  SInv' /\ Refines
<1>1. PICK s : s = sock[c]
  BY ZenonT(30)
<1>2. PICK w : w = wire[c]
  BY Zenon
<1>3. s \in Sockets /\ w \in Wires /\ ConnectionOk(s, w, sub[c], high) /\ MaxSeq \in Nat
  BY <1>1, <1>2, Known, StreamAssumption, Zenon
<1>4. s.pc = "stream" /\ s.wr = NoFrame /\ Outcome(s) = "none" /\ s.todo # <<>>
  BY <1>1, ZenonT(30) DEF StreamReplays, Idle
<1>5. PICK q : q = s.todo
  BY Zenon
<1>6. PICK f : f = Head(q)
  BY ZenonT(30)
<1>7. PICK rest : rest = Tail(q)
  BY ZenonT(30)
<1>8. q \in Seq(SocketFrames) /\ q # <<>>
  BY <1>3, <1>4, <1>5, Zenon DEF Sockets
<1>9. /\ Len(q) \in Nat /\ Len(q) >= 1 /\ f = q[1] /\ f \in SocketFrames
      /\ rest \in Seq(SocketFrames) /\ Len(rest) = Len(q) - 1
      /\ \A i \in 1 .. Len(q) - 1 : rest[i] = q[i + 1]
  BY <1>6, <1>7, <1>8
<1>10. PICK t : t = [s EXCEPT !.wr = f, !.todo = rest]
  BY ZenonT(30)
<1>11. Update(c, t) /\ UNCHANGED streamVars
  BY <1>1, <1>5, <1>6, <1>7, <1>10, Zenon DEF StreamReplays
<1>12. t \in Sockets
  BY <1>3, <1>9, <1>10, ZenonT(30) DEF Sockets
<1>13. /\ t.pc = s.pc /\ t.wr = f /\ t.todo = rest /\ t.last = s.last /\ t.task = s.task /\ t.result = s.result
       /\ t.peer = s.peer /\ t.ctl = s.ctl /\ t.session = s.session /\ t.after = s.after /\ t.extra = s.extra
       /\ t.valid = s.valid
  BY <1>3, <1>10, ZenonT(30) DEF Sockets
<1>14. Streaming(s, w, high) /\ w.after \in Nat /\ s.last \in Nat
  BY <1>3, <1>4 DEF ConnectionOk, PlaceOk, Wires, Sockets
<1>15. /\ w.after <= s.last /\ s.last <= high /\ Len(q) <= s.last - w.after + 3 /\ Due(w, s.last, Len(q))
       /\ \A i \in 1 .. Len(q) : q[i] = ReplayFrame(w.after, s.last, Len(q) - i)
  BY <1>4, <1>5, <1>14, ZenonT(30) DEF Streaming
<1>16. w.stage # "live"
  BY <1>9, <1>15, SMTT(30) DEF Due
<1>17. f = ReplayFrame(w.after, s.last, Len(rest))
  BY <1>9, <1>15
<1>18. f # NoFrame
  BY <1>17, ZenonT(30) DEF ReplayFrame, Frame, NoFrame
<1>19. \A i \in 1 .. Len(rest) : rest[i] = ReplayFrame(w.after, s.last, Len(rest) - i)
  <2> TAKE i \in 1 .. Len(rest)
  <2>1. i \in 1 .. Len(q) - 1 /\ i + 1 \in 1 .. Len(q) /\ Len(q) - (i + 1) = Len(rest) - i
    BY <1>9
  <2> QED
    BY <1>9, <1>15, <2>1, ZenonT(30)
<1>20. Len(rest) + 1 = Len(q)
  BY <1>9
<1>21. Streaming(t, w, high)
  BY <1>13, <1>15, <1>16, <1>17, <1>18, <1>19, <1>20, ZenonT(30) DEF Streaming
<1>22. PlaceOk(t, w, high) /\ TaskOk(t, w, sub[c], high)
  BY <1>3, <1>4, <1>13, <1>21, ZenonT(30) DEF ConnectionOk, PlaceOk, TaskOk
<1>23. WriteOk(t)
  <2>1. s.valid
    BY <1>3, <1>4, ZenonT(30) DEF Outcome, Sockets
  <2> QED
    BY <1>3, <1>4, <1>13, <2>1, ZenonT(30) DEF ConnectionOk, WriteOk
<1> QED
  BY <1>2, <1>11, <1>12, <1>22, <1>23, TaskMoves, ZenonT(30) DEF ConnectionOk

\* The next live event is taken for writing, or the stream has a gap and is given up.
LEMMA StreamSendsLiveStep ==
  ASSUME SInv, NEW c \in Receivers, StreamSendsLive(c)
  PROVE  SInv' /\ Refines
<1>1. PICK s : s = sock[c]
  BY ZenonT(30)
<1>2. PICK w : w = wire[c]
  BY Zenon
<1>3. PICK u : u = sub[c]
  BY Zenon
<1>4. /\ s \in Sockets /\ w \in Wires /\ ConnectionOk(s, w, u, high) /\ u \in Subscriptions
      /\ high \in Nat /\ high <= MaxSeq /\ MaxSeq \in Nat
  BY <1>1, <1>2, <1>3, Known, StreamAssumption, Zenon
<1>5. s.pc = "stream" /\ s.wr = NoFrame /\ Outcome(s) = "none" /\ s.todo = <<>> /\ u.queue # <<>>
  BY <1>1, <1>3, ZenonT(30) DEF StreamSendsLive, Live, Idle
<1>6. CASE Head(u.queue) = s.last + 1
  <2>1. PICK n : n = s.last + 1
    BY ZenonT(30)
  <2>2. Receive(c) /\ Update(c, [s EXCEPT !.wr = Frame("event", n)])
    BY <1>1, <1>3, <1>6, <2>1, Zenon DEF StreamSendsLive
  <2>3. u.held
    BY <1>3, <2>2, ZenonT(30) DEF Receive
  <2>4. n \in Nat /\ n <= high /\ s.last \in Nat
    <3>1. /\ u.after \in Nat /\ Len(u.got) \in Nat /\ Len(u.queue) \in Nat /\ u.queue \in Seq(1 .. MaxSeq)
      BY <1>4, SubscriptionFields, ZenonT(30)
    <3>2. Reach(u) <= high
      BY <1>3, <2>3, Reaches, ZenonT(30)
    <3>3. Len(u.queue) >= 1 /\ Head(u.queue) = u.queue[1]
      BY <1>5, <3>1
    <3>4. u.queue[1] = u.after + Len(u.got) + 1
      <4>1. InOrder(u)
        BY <1>3, ZenonT(30) DEF SInv, Inv, SubOk
      <4>2. 1 \in 1 .. Len(u.queue)
        BY <3>1, <3>3
      <4> QED
        BY <4>1, <4>2, ZenonT(30) DEF InOrder
    <3>5. s.last \in Nat
      BY <1>4 DEF Sockets
    <3> QED
      <4>1. n = u.after + Len(u.got) + 1
        BY <1>6, <2>1, <3>3, <3>4, ZenonT(30)
      <4>2. u.after + Len(u.got) + Len(u.queue) <= high
        BY <3>2, ZenonT(30) DEF Reach
      <4>3. \A a, b, k \in Nat : k >= 1 /\ a + b + k <= high => a + b + 1 \in Nat /\ a + b + 1 <= high
        BY <1>4
      <4>4. u.after + Len(u.got) + 1 \in Nat /\ u.after + Len(u.got) + 1 <= high
        BY <3>1, <3>3, <4>2, <4>3, ZenonT(30)
      <4> QED
        BY <3>5, <4>1, <4>4, ZenonT(30)
  <2>5. PICK f : f = Frame("event", n)
    BY Zenon
  <2>6. f \in SocketFrames /\ f # NoFrame
    BY <1>4, <2>4, <2>5 DEF Frame, SocketFrames, FrameTypes, NoFrame
  <2>7. PICK t : t = [s EXCEPT !.wr = f]
    BY ZenonT(30)
  <2>8. t \in Sockets
    BY <1>4, <2>6, <2>7, ZenonT(30) DEF Sockets
  <2>9. /\ t.pc = s.pc /\ t.wr = f /\ t.todo = s.todo /\ t.last = s.last /\ t.task = s.task /\ t.result = s.result
        /\ t.peer = s.peer /\ t.ctl = s.ctl /\ t.session = s.session /\ t.after = s.after /\ t.extra = s.extra
        /\ t.valid = s.valid
    BY <1>4, <2>7, ZenonT(30) DEF Sockets
  <2>10. Streaming(s, w, high) /\ Len(s.todo) = 0
    BY <1>4, <1>5, ZenonT(30) DEF ConnectionOk, PlaceOk
  <2>11. w.after <= s.last /\ s.last <= high /\ Due(w, s.last, 0) /\ 0 <= s.last - w.after + 3
    BY <1>5, <2>10, ZenonT(30) DEF Streaming
  <2>12. w.stage = "live" /\ s.last < high
    BY <1>4, <2>1, <2>4, <2>11 DEF Due
  <2>13. \A i \in 1 .. 0 : s.todo[i] = ReplayFrame(w.after, s.last, 0 - i)
    OBVIOUS
  <2>14. Streaming(t, w, high)
    BY <2>1, <2>5, <2>9, <2>10, <2>11, <2>12, <2>13, ZenonT(30) DEF Streaming
  <2>15. /\ sub'[c].held = u.held /\ UNCHANGED <<high, end>> /\ \A r \in Receivers : r # c => sub'[r] = sub[r]
    <3>1. PICK v : v = [u EXCEPT !.got = Append(@, Head(u.queue)), !.queue = Tail(@)]
      BY ZenonT(30)
    <3>2. sub' = [sub EXCEPT ![c] = v] /\ UNCHANGED <<high, end>>
      BY <1>3, <2>2, <3>1, Known, ZenonT(30) DEF Receive
    <3>3. v.held = u.held
      BY <1>4, <3>1, ZenonT(30) DEF Subscriptions
    <3> QED
      BY <3>2, <3>3, Known, ZenonT(30)
  <2>16. [Next]_vars
    BY <2>2, ZenonT(30) DEF Next
  <2>17. s.task = "none" /\ s.valid
    BY <1>4, <1>5, ZenonT(30) DEF ConnectionOk, TaskOk, Outcome, Sockets
  <2>18. PlaceOk(t, w, high)
    BY <1>4, <1>5, <2>9, <2>14, ZenonT(30) DEF ConnectionOk, PlaceOk
  <2>19. TaskOk(t, w, sub'[c], high)
    BY <1>5, <2>3, <2>9, <2>15, <2>17, ZenonT(30) DEF TaskOk
  <2>20. WriteOk(t)
    BY <1>4, <1>5, <2>9, <2>17, ZenonT(30) DEF ConnectionOk, WriteOk
  <2> QED
    BY <1>2, <2>2, <2>5, <2>7, <2>8, <2>15, <2>16, <2>18, <2>19, <2>20, SubscriptionMoves, ZenonT(30) DEF ConnectionOk
<1>7. CASE Head(u.queue) # s.last + 1
  <2>1. Leaves(c, Failing(s, "stream_unavailable"))
    BY <1>1, <1>3, <1>7, ZenonT(30) DEF StreamSendsLive
  <2>2. Departs(Failing(s, "stream_unavailable"), s, w, high)
    <3>1. Reportable(w, "stream_unavailable", high)
      BY Unconditional, ZenonT(30) DEF Retried
    <3> QED
      BY <1>4, <3>1, DepartsFailing, ZenonT(30)
  <2> QED
    BY <1>1, <1>2, <1>5, <2>1, <2>2, Unsubscribes, ZenonT(30)
<1> QED
  BY <1>6, <1>7, ZenonT(30)

\* A step that writes a frame: the contract allows it
LEMMA Writes ==
  ASSUME SInv, NEW c \in Receivers, NEW s \in Sockets, NEW f, Emit(c, s, f), UNCHANGED streamVars,
         f.t \in FrameTypes, f.n \in 0 .. MaxSeq, f = Frame(f.t, f.n), Allowed(wire[c], f, high),
         NEW w \in Wires, w = Written(wire[c], f), ConnectionOk(s, w, sub[c], high)
  PROVE  SInv' /\ Refines
<1>1. /\ sock' = [sock EXCEPT ![c] = s] /\ wire' = [wire EXCEPT ![c] = w] /\ running' = running
      /\ UNCHANGED <<high, history, phase, end, sub>>
  <2>1. wire' = [wire EXCEPT ![c] = Written(wire[c], f)]
    BY ZenonT(30) DEF Emit
  <2> QED
    BY <2>1, ZenonT(30) DEF Emit, streamVars
<1>2. Inv'
  BY <1>1, NextInv, Zenon DEF SInv, vars
<1>3. running' \in BOOLEAN
  BY <1>1, Known, ZenonT(30)
<1>4. SInv'
  BY <1>1, <1>2, <1>3, OneConnection, ZenonT(30)
<1>5. SC!Write(c)
  <2>1. PICK t \in FrameTypes, n \in 0 .. MaxSeq : f = Frame(t, n)
    BY ZenonT(30)
  <2>2. Allowed(wire[c], Frame(t, n), high) /\ wire' = [wire EXCEPT ![c] = Written(wire[c], Frame(t, n))]
    BY <1>1, <2>1, Zenon
  <2>3. /\ SC!Allowed(wire[c], SC!Frame(t, n), high)
        /\ wire' = [wire EXCEPT ![c] = SC!Written(wire[c], SC!Frame(t, n))]
        /\ t \in SC!FrameTypes
    BY <2>2, SameFrames, ZenonT(30)
  <2> QED
    BY <1>1, <2>3, ZenonT(30) DEF SC!Write
<1> QED
  BY <1>4, <1>5, Zenon DEF Refines, SC!ContractNext

\* The error that is in fact reported may be reported.
LEMMA SendErrorStep ==
  ASSUME SInv, NEW c \in Receivers, SendError(c)
  PROVE  SInv' /\ Refines
<1>1. PICK s : s = sock[c]
  BY ZenonT(30)
<1>2. PICK w : w = wire[c]
  BY Zenon
<1>3. s \in Sockets /\ w \in Wires /\ ConnectionOk(s, w, sub[c], high) /\ MaxSeq \in Nat
  BY <1>1, <1>2, Known, StreamAssumption, Zenon
<1>4. s.pc = "error" /\ UNCHANGED streamVars
  BY <1>1, ZenonT(30) DEF SendError
<1>5. CASE Update(c, [s EXCEPT !.pc = "grace"]) \/ Update(c, Closing(s))
  <2>1. Departs(Closing(s), s, w, high) /\ Departs([s EXCEPT !.pc = "grace"], s, w, high)
    BY <1>3, DepartsQuietly, ZenonT(30)
  <2> QED
    BY <1>1, <1>2, <1>4, <1>5, <2>1, GivesUp, ZenonT(30)
<1>6. CASE Reported(s) \in Codes /\ Emit(c, [s EXCEPT !.pc = "close", !.code = Reported(s)], Frame(Reported(s), 0))
  <2>1. PICK code : code = Reported(s)
    BY ZenonT(30)
  <2>2. PICK f : f = Frame(code, 0)
    BY Zenon
  <2>3. /\ f.t = code /\ f.n = 0 /\ f = Frame(f.t, f.n) /\ f.t \in FrameTypes /\ f.n \in 0 .. MaxSeq
    BY <1>3, <1>6, <2>1, <2>2, SMTT(30) DEF Frame, FrameTypes
  <2>4. w.stage \notin {"none", "error", "closed"} /\ Reportable(w, s.code, high) /\ (s.ctl = "protocol" => ~w.clean)
    BY <1>3, <1>4, ZenonT(30) DEF ConnectionOk, PlaceOk
  <2>5. Reportable(w, code, high)
    <3>1. CASE code = "authentication_expired"
      BY <3>1, Unconditional, ZenonT(30)
    <3>2. CASE code = "protocol_error" /\ s.ctl = "protocol"
      BY <2>4, <3>2, ZenonT(30) DEF Reportable, Codes, Fatal, Resyncing
    <3>3. CASE code = s.code
      BY <2>4, <3>3, ZenonT(30)
    <3> QED
      BY <1>6, <2>1, <3>1, <3>2, <3>3, ZenonT(30) DEF Reported, Codes, Fatal, Resyncing, Retried
  <2>6. Allowed(w, f, high)
    BY <2>3, <2>4, <2>5, ZenonT(30) DEF Allowed
  <2>7. PICK v : v = [w EXCEPT !.stage = "error"]
    BY ZenonT(30)
  <2>8. Written(w, f) = v
    BY <1>6, <2>1, <2>3, <2>7, Zenon DEF Written, Codes, Fatal, Resyncing, Retried
  <2>9. v \in Wires
    BY <1>3, <2>7, ZenonT(30) DEF Wires
  <2>10. v.stage = "error" /\ v.clean = w.clean
    BY <1>3, <2>7, ZenonT(30) DEF Wires
  <2>11. PICK t : t = [s EXCEPT !.pc = "close", !.code = code]
    BY ZenonT(30)
  <2>12. t \in Sockets
    <3>1. code \in Codes \cup {"none", "server_shutdown"}
      BY <1>6, <2>1, ZenonT(30)
    <3> QED
      BY <1>3, <2>11, <3>1, ZenonT(30) DEF Sockets
  <2>13. /\ t.pc = "close" /\ t.task = s.task /\ t.result = s.result /\ t.wr = s.wr /\ t.peer = s.peer /\ t.ctl = s.ctl
         /\ t.session = s.session /\ t.after = s.after /\ t.extra = s.extra /\ t.valid = s.valid
    BY <1>3, <2>11, ZenonT(30) DEF Sockets
  <2>14. PlaceOk(t, v, high)
    BY <1>3, <2>10, <2>13, ZenonT(30) DEF ConnectionOk, PlaceOk
  <2>15. TaskOk(t, v, sub[c], high)
    BY <1>3, <1>4, <2>10, <2>13, ZenonT(30) DEF ConnectionOk, TaskOk
  <2>16. WriteOk(t)
    BY <1>3, <1>4, <2>13, ZenonT(30) DEF ConnectionOk, WriteOk
  <2>17. Emit(c, t, f)
    BY <1>6, <2>1, <2>2, <2>11, ZenonT(30)
  <2> QED
    BY <1>2, <1>4, <2>3, <2>6, <2>8, <2>9, <2>12, <2>14, <2>15, <2>16, <2>17, Writes, ZenonT(30) DEF ConnectionOk
<1> QED
  BY <1>1, <1>5, <1>6, ZenonT(30) DEF SendError

\* The close frame is written, or cannot be.
LEMMA SendCloseStep ==
  ASSUME SInv, NEW c \in Receivers, SendClose(c)
  PROVE  SInv' /\ Refines
<1>1. PICK s : s = sock[c]
  BY ZenonT(30)
<1>2. PICK w : w = wire[c]
  BY Zenon
<1>3. s \in Sockets /\ w \in Wires /\ ConnectionOk(s, w, sub[c], high) /\ MaxSeq \in Nat
  BY <1>1, <1>2, Known, StreamAssumption, Zenon
<1>4. s.pc = "close" /\ UNCHANGED streamVars
  BY <1>1, ZenonT(30) DEF SendClose
<1>5. PICK t : t = [s EXCEPT !.pc = "grace"]
  BY ZenonT(30)
<1>6. t \in Sockets
  BY <1>3, <1>5, ZenonT(30) DEF Sockets
<1>7. /\ t.pc = "grace" /\ t.task = s.task /\ t.result = s.result /\ t.wr = s.wr /\ t.peer = s.peer /\ t.ctl = s.ctl
      /\ t.session = s.session /\ t.after = s.after /\ t.extra = s.extra /\ t.valid = s.valid
  BY <1>3, <1>5, ZenonT(30) DEF Sockets
<1>8. WriteOk(t)
  BY <1>3, <1>4, <1>7, ZenonT(30) DEF ConnectionOk, WriteOk
<1>9. CASE Update(c, t)
  <2>1. PlaceOk(t, w, high) /\ TaskOk(t, w, sub[c], high)
    BY <1>3, <1>4, <1>7, ZenonT(30) DEF ConnectionOk, PlaceOk, TaskOk
  <2> QED
    BY <1>2, <1>4, <1>6, <1>8, <1>9, <2>1, TaskMoves, ZenonT(30) DEF ConnectionOk
<1>10. ASSUME NEW x \in {"close", "close1012"}, Emit(c, t, Frame(x, 0))
       PROVE  SInv' /\ Refines
  <2>1. PICK f : f = Frame(x, 0)
    BY ZenonT(30)
  <2>2. /\ f.t = x /\ f.n = 0 /\ f = Frame(f.t, f.n) /\ f.t \in FrameTypes /\ f.n \in 0 .. MaxSeq
    BY <1>3, <2>1, SMTT(30) DEF Frame, FrameTypes
  <2>3. w.stage \notin {"none", "closed"}
    BY <1>3, <1>4, ZenonT(30) DEF ConnectionOk, PlaceOk
  <2>4. Allowed(w, f, high)
    BY <2>2, <2>3, ZenonT(30) DEF Allowed
  <2>5. PICK v : v = [w EXCEPT !.stage = "closed"]
    BY ZenonT(30)
  <2>6. Written(w, f) = v
    BY <2>2, <2>5, Zenon DEF Written, Codes, Fatal, Resyncing, Retried
  <2>7. v \in Wires
    BY <1>3, <2>5, ZenonT(30) DEF Wires
  <2>8. v.stage = "closed" /\ v.clean = w.clean
    BY <1>3, <2>5, ZenonT(30) DEF Wires
  <2>9. PlaceOk(t, v, high)
    BY <1>3, <1>7, <2>8, ZenonT(30) DEF ConnectionOk, PlaceOk
  <2>10. TaskOk(t, v, sub[c], high)
    BY <1>3, <1>4, <1>7, <2>8, ZenonT(30) DEF ConnectionOk, TaskOk
  <2> QED
    BY <1>2, <1>4, <1>6, <1>8, <1>10, <2>1, <2>2, <2>4, <2>6, <2>7, <2>9, <2>10, Writes, ZenonT(30) DEF ConnectionOk
<1> QED
  BY <1>1, <1>5, <1>9, <1>10, ZenonT(30) DEF SendClose

\* run_socket returns; a subscribe that goes on keeps what it was asked for.
LEMMA FinishedStep ==
  ASSUME SInv, NEW c \in Receivers, Finished(c)
  PROVE  SInv' /\ Refines
<1>1. PICK s : s = sock[c]
  BY ZenonT(30)
<1>2. s \in Sockets /\ ConnectionOk(s, wire[c], sub[c], high)
  BY <1>1, Known, Zenon
<1>3. PICK t : t = IF s.task = "none" THEN NoSocket
                   ELSE [NoSocket EXCEPT !.task = s.task, !.result = s.result,
                                         !.session = s.session, !.after = s.after]
  BY ZenonT(30)
<1>4. /\ s.pc = "grace" /\ sock' = [sock EXCEPT ![c] = t] /\ wire' = [wire EXCEPT ![c] = Unconnected]
      /\ UNCHANGED <<high, history, phase, end, sub>> /\ running' = running
  BY <1>1, <1>3, Zenon DEF Finished, streamVars
<1>5. t \in Sockets
  <2>1. [NoSocket EXCEPT !.task = s.task, !.result = s.result, !.session = s.session, !.after = s.after] \in Sockets
    <3>1. /\ s.task \in {"none", "running", "done"} /\ s.result \in Codes \cup {"none", "ok"} /\ s.session \in BOOLEAN
          /\ s.after \in 0 .. MaxSeq
      BY <1>2, ZenonT(30) DEF Sockets
    <3> QED
      BY <3>1, NoSocketType, ZenonT(30) DEF Sockets
  <2> QED
    BY <1>3, <2>1, NoSocketType, ZenonT(30)
<1>6. /\ t.pc = "none" /\ t.peer = "quiet" /\ t.ctl = "open" /\ t.wr = NoFrame /\ t.extra = 0 /\ t.task = s.task
      /\ s.task # "none" => t.result = s.result /\ t.session = s.session /\ t.after = s.after
  BY <1>3, ZenonT(30) DEF NoSocket
<1>7. Unconnected.stage = "none"
  BY Zenon DEF Unconnected
<1>8. PlaceOk(t, Unconnected, high) /\ WriteOk(t)
  BY <1>6, <1>7 DEF PlaceOk, WriteOk
<1>9. TaskOk(t, Unconnected, sub[c], high)
  BY <1>2, <1>4, <1>6, <1>7, ZenonT(30) DEF ConnectionOk, TaskOk
<1>10. Inv' /\ running' \in BOOLEAN
  BY <1>4, NextInv, Known, ZenonT(30) DEF SInv, vars
<1>11. SInv'
  BY <1>4, <1>5, <1>8, <1>9, <1>10, WireType, OneConnection, ZenonT(30) DEF ConnectionOk
<1>12. SC!HangUp(c)
  BY <1>4, SameFrames, ZenonT(30) DEF SC!HangUp
<1> QED
  BY <1>11, <1>12, ZenonT(30) DEF Refines, SC!ContractNext

\* A request is upgraded to a connection.
LEMMA UpgradeStep ==
  ASSUME SInv, NEW c \in Receivers, Upgrade(c)
  PROVE  SInv' /\ Refines
<1>1. sock[c] = NoSocket /\ ConnectionOk(sock[c], wire[c], sub[c], high)
  BY Known, Zenon DEF Upgrade
<1>2. PICK t : t = [NoSocket EXCEPT !.pc = "await", !.valid = TRUE]
  BY Zenon
<1>3. /\ sock' = [sock EXCEPT ![c] = t] /\ wire' = [wire EXCEPT ![c] = Connected]
      /\ UNCHANGED <<high, history, phase, end, sub>> /\ running' = running
  BY <1>2, Zenon DEF Upgrade, streamVars
<1>4. t \in Sockets
  BY <1>2, NoSocketType, ZenonT(30) DEF Sockets
<1>5. /\ t.pc = "await" /\ t.peer = "quiet" /\ t.ctl = "open" /\ t.wr = NoFrame /\ t.extra = 0 /\ t.task = "none"
  BY <1>2, ZenonT(30) DEF NoSocket
<1>6. Connected.stage = "open" /\ wire[c].stage = "none" /\ ~sub[c].held
  BY <1>1, SMTT(30) DEF Connected, Unconnected, ConnectionOk, PlaceOk, TaskOk, NoSocket
<1>7. ConnectionOk(t, Connected, sub[c], high)
  BY <1>5, <1>6 DEF ConnectionOk, PlaceOk, TaskOk, WriteOk
<1>8. Inv' /\ running' \in BOOLEAN
  BY <1>3, NextInv, Known, Zenon DEF SInv, vars
<1>9. SInv'
  BY <1>3, <1>4, <1>7, <1>8, WireType, OneConnection, ZenonT(30)
<1>10. SC!Connect(c)
  BY <1>3, <1>6, SameFrames, ZenonT(30) DEF SC!Connect
<1> QED
  BY <1>9, <1>10, ZenonT(30) DEF Refines, SC!ContractNext

\* The client sends its subscribe frame.
LEMMA ClientAsksStep ==
  ASSUME SInv, NEW c \in Receivers, ClientAsks(c)
  PROVE  SInv' /\ Refines
<1>1. PICK s : s = sock[c]
  BY Zenon
<1>2. PICK w : w = wire[c]
  BY Zenon
<1>3. s \in Sockets /\ w \in Wires /\ ConnectionOk(s, w, sub[c], high) /\ running \in BOOLEAN
  BY <1>1, <1>2, Known, Zenon
<1>4. PICK same \in BOOLEAN, n \in 0 .. MaxSeq :
        /\ sock' = [sock EXCEPT ![c].session = same, ![c].after = n]
        /\ wire' = [wire EXCEPT ![c] = Asked(@, same, n)]
  BY ZenonT(30) DEF ClientAsks
<1>5. w.stage = "open" /\ UNCHANGED <<high, history, phase, end, sub>> /\ running' = running
  BY <1>2, Zenon DEF ClientAsks, streamVars
<1>6. PICK t : t = [s EXCEPT !.session = same, !.after = n]
  BY Zenon
<1>7. PICK v : v = [w EXCEPT !.stage = "asked", !.same = same, !.after = n]
  BY Zenon
<1>8. wire' = [wire EXCEPT ![c] = Asked(wire[c], same, n)] /\ Asked(wire[c], same, n) = v
  BY <1>2, <1>4, <1>7, Zenon DEF Asked
<1>9. sock' = [sock EXCEPT ![c] = t]
  BY <1>1, <1>4, <1>6, Known, ZenonT(30)
<1>10. t \in Sockets /\ v \in Wires
  <2>1. t \in Sockets
    BY <1>3, <1>6, ZenonT(30) DEF Sockets
  <2>2. v \in Wires
    BY <1>3, <1>7, ZenonT(30) DEF Wires
  <2> QED
    BY <2>1, <2>2, ZenonT(30)
<1>11. v.stage = "asked" /\ v.same = same /\ v.after = n /\ v.clean = w.clean /\ v.high = w.high /\ v.next = w.next
  BY <1>3, <1>7, ZenonT(30) DEF Wires
<1>12. /\ t.pc = s.pc /\ t.peer = s.peer /\ t.ctl = s.ctl /\ t.session = same /\ t.after = n
       /\ t.task = s.task /\ t.result = s.result /\ t.wr = s.wr
       /\ t.code = s.code /\ t.extra = s.extra /\ t.valid = s.valid
  BY <1>3, <1>6, ZenonT(30) DEF Sockets
<1>13. s.pc \notin {"none", "subscribing", "stream"} /\ s.task = "none"
  <2>1. s.pc # "stream"
    BY <1>3, <1>5, StreamStages, ZenonT(30) DEF ConnectionOk, PlaceOk
  <2> QED
    BY <1>3, <1>5, <2>1, ZenonT(30) DEF ConnectionOk, PlaceOk, TaskOk
<1>14. s.pc = "error" => Reportable(v, s.code, high)
  <2>1. s.pc = "error" => Reportable(w, s.code, high) /\ s.code \notin Resyncing
    BY <1>3, <1>5, ZenonT(30) DEF ConnectionOk, PlaceOk, Reportable
  <2> QED
    BY <1>11, <2>1, ZenonT(30) DEF Reportable, Resyncing
<1>15. PlaceOk(t, v, high)
  BY <1>3, <1>11, <1>12, <1>13, <1>14, ZenonT(30) DEF ConnectionOk, PlaceOk
<1>16. TaskOk(t, v, sub[c], high) /\ WriteOk(t)
  BY <1>3, <1>12, <1>13, ZenonT(30) DEF ConnectionOk, TaskOk, WriteOk
<1>17. Inv'
  BY <1>5, NextInv, ZenonT(30) DEF SInv, vars
<1>18. SInv'
  BY <1>3, <1>5, <1>8, <1>9, <1>10, <1>15, <1>16, <1>17, OneConnection, ZenonT(30) DEF ConnectionOk
<1>19. SC!Ask(c)
  <2>1. wire' = [wire EXCEPT ![c] = SC!Asked(wire[c], same, n)]
    BY <1>8, SameFrames, ZenonT(30)
  <2> QED
    BY <1>2, <1>4, <1>5, <2>1, ZenonT(30) DEF SC!Ask
<1> QED
  BY <1>18, <1>19, ZenonT(30) DEF Refines, SC!ContractNext

\* The client misbehaves, closes or goes away.
LEMMA ClientActsStep ==
  ASSUME SInv, NEW c \in Receivers, ClientActs(c)
  PROVE  SInv' /\ Refines
<1>1. PICK s : s = sock[c]
  BY Zenon
<1>2. PICK w : w = wire[c]
  BY Zenon
<1>3. s \in Sockets /\ w \in Wires /\ ConnectionOk(s, w, sub[c], high) /\ running \in BOOLEAN
  BY <1>1, <1>2, Known, Zenon
<1>4. s.pc # "none" /\ UNCHANGED <<high, history, phase, end, sub>> /\ running' = running
  BY <1>1, ZenonT(30) DEF ClientActs, streamVars
<1>5. Inv'
  BY <1>4, NextInv, Zenon DEF SInv, vars
<1>6. ASSUME NEW p \in {"closed", "junk", "lost"}, sock' = [sock EXCEPT ![c].peer = p], NEW v \in Wires,
             wire' = [wire EXCEPT ![c] = v], v.stage = w.stage, v.same = w.same, v.after = w.after,
             v.high = w.high, v.next = w.next, p = "junk" \/ ~w.clean => ~v.clean
      PROVE  SInv'
  <2>1. PICK t : t = [s EXCEPT !.peer = p]
    BY ZenonT(30)
  <2>2. t \in Sockets
    BY <1>3, <2>1, ZenonT(30) DEF Sockets
  <2>3. sock' = [sock EXCEPT ![c] = t]
    BY <1>1, <1>6, <2>1, Known, Zenon
  <2>4. /\ t.pc = s.pc /\ t.peer = p /\ t.ctl = s.ctl /\ t.session = s.session /\ t.after = s.after
        /\ t.task = s.task /\ t.result = s.result /\ t.todo = s.todo /\ t.wr = s.wr /\ t.last = s.last
        /\ t.code = s.code /\ t.extra = s.extra /\ t.valid = s.valid
    BY <1>3, <2>1, ZenonT(30) DEF Sockets
  <2>5. \A code : Reportable(w, code, high) => Reportable(v, code, high)
    BY <1>6, ZenonT(30) DEF Reportable
  <2>6. Streaming(s, w, high) => Streaming(t, v, high)
    BY <1>6, <2>4, ZenonT(30) DEF Streaming, Due
  <2>7. PlaceOk(t, v, high)
    BY <1>3, <1>6, <2>4, <2>5, <2>6, ZenonT(30) DEF ConnectionOk, PlaceOk
  <2>8. TaskOk(t, v, sub[c], high) /\ WriteOk(t)
    BY <1>3, <1>6, <2>4, <2>5, ZenonT(30) DEF ConnectionOk, TaskOk, WriteOk
  <2> QED
    BY <1>3, <1>4, <1>5, <1>6, <2>2, <2>3, <2>7, <2>8, OneConnection, ZenonT(30) DEF ConnectionOk
<1>7. CASE sock' = [sock EXCEPT ![c].peer = "junk"] /\ wire' = [wire EXCEPT ![c] = Misused(@)]
  <2>1. PICK v : v = [w EXCEPT !.clean = FALSE]
    BY ZenonT(30)
  <2>2. v \in Wires
    BY <1>3, <2>1, ZenonT(30) DEF Wires
  <2>3. /\ v.stage = w.stage /\ v.same = w.same /\ v.after = w.after /\ v.high = w.high /\ v.next = w.next
        /\ v.clean = FALSE
    BY <1>3, <2>1, ZenonT(30) DEF Wires
  <2>4. wire' = [wire EXCEPT ![c] = Misused(wire[c])] /\ Misused(wire[c]) = v
    BY <1>2, <1>7, <2>1, ZenonT(30) DEF Misused
  <2>5. SInv'
    BY <1>6, <1>7, <2>2, <2>3, <2>4, ZenonT(30)
  <2>6. w.stage # "none"
    BY <1>3, <1>4, ZenonT(30) DEF ConnectionOk, PlaceOk
  <2>7. SC!Misuse(c)
    BY <1>2, <1>4, <2>4, <2>6, SameFrames, ZenonT(30) DEF SC!Misuse
  <2> QED
    BY <2>5, <2>7, ZenonT(30) DEF Refines, SC!ContractNext
<1>8. ASSUME NEW p \in {"closed", "lost"}, sock' = [sock EXCEPT ![c].peer = p], wire' = wire
      PROVE  SInv' /\ Refines
  <2>1. wire' = [wire EXCEPT ![c] = w] /\ p \in {"closed", "junk", "lost"} /\ p # "junk"
    BY <1>2, <1>8, ZenonT(30) DEF SInv, SocketInv, SocketTypeOK
  <2>2. SInv'
    BY <1>3, <1>6, <1>8, <2>1, ZenonT(30)
  <2> QED
    BY <1>4, <1>8, <2>2, ZenonT(30) DEF Refines
<1> QED
  BY <1>7, <1>8, ZenonT(30) DEF ClientActs

\* What stream_subscription writes next is allowed, and leaves it where it goes on.
WriteLeads(s, w, n, f, v, l) ==
  /\ f.t \in FrameTypes /\ f.n \in 0 .. MaxSeq /\ f = Frame(f.t, f.n) /\ Allowed(w, f, n)
  /\ v = Written(w, f) /\ v \in Wires /\ v.after = w.after /\ v.clean = w.clean
  /\ v.stage \in {"replay", "snapshot", "live"}
  /\ l = (IF f.t = "event" /\ f.n > s.last THEN f.n ELSE s.last)
  /\ l \in 0 .. MaxSeq /\ w.after <= l /\ l <= n
  /\ Len(s.todo) <= l - w.after + 3 /\ Due(v, l, Len(s.todo))
  /\ \A i \in 1 .. Len(s.todo) : s.todo[i] = ReplayFrame(w.after, l, Len(s.todo) - i)

\* Whatever is being written is the next frame of the replay or the next live event.
LEMMA NextFrame ==
  ASSUME NEW s \in Sockets, NEW w \in Wires, NEW n \in Nat, n <= MaxSeq, Streaming(s, w, n), s.wr # NoFrame
  PROVE  \E v, l : WriteLeads(s, w, n, s.wr, v, l)
<1>1. PICK f : f = s.wr
  BY ZenonT(30)
<1>2. PICK m : m = Len(s.todo)
  BY ZenonT(30)
<1>3. PICK h : h = s.last
  BY Zenon
<1>4. m \in Nat /\ h \in Nat /\ w.after \in Nat /\ w.next \in Nat /\ w.high \in Nat /\ MaxSeq \in Nat
  BY <1>2, <1>3, StreamAssumption DEF Sockets, Wires
<1>5. /\ w.after <= h /\ h <= n
      /\ \A i \in 1 .. m : s.todo[i] = ReplayFrame(w.after, h, m - i)
  BY <1>2, <1>3, ZenonT(30) DEF Streaming
<1>6. CASE w.stage = "live"
  <2>1. f = Frame("event", h + 1) /\ h < n /\ Due(w, h, m)
    BY <1>1, <1>2, <1>3, <1>6, ZenonT(30) DEF Streaming
  <2>2. f.t = "event" /\ f.n = h + 1 /\ f = Frame(f.t, f.n)
    BY <2>1, ZenonT(30) DEF Frame
  <2>3. m = 0 /\ w.high <= h /\ w.next = h + 1
    BY <1>4, <1>6, <2>1, ZenonT(30) DEF Due
  <2>4. PICK v : v = [w EXCEPT !.next = h + 2]
    BY ZenonT(30)
  <2>5. f.n + 1 = h + 2 /\ h + 2 \in 0 .. MaxSeq + 1 /\ h + 1 \in 0 .. MaxSeq /\ h + 1 <= n /\ w.after <= h + 1 /\ h + 1 > h
    BY <1>4, <1>5, <2>1, <2>2
  <2>6. Written(w, f) = v
    BY <2>2, <2>4, <2>5, ZenonT(30) DEF Written, Codes, Fatal, Resyncing, Retried
  <2>7. v \in Wires
    BY <2>4, <2>5, ZenonT(30) DEF Wires
  <2>8. v.after = w.after /\ v.clean = w.clean /\ v.stage = "live" /\ v.high = w.high /\ v.next = h + 2
    BY <1>6, <2>4, ZenonT(30) DEF Wires
  <2>9. Allowed(w, f, n)
    BY <1>6, <2>2, <2>3, <2>5, ZenonT(30) DEF Allowed
  <2>10. Due(v, h + 1, m)
    BY <1>4, <2>3, <2>8 DEF Due
  <2>11. f.t \in FrameTypes
    BY <2>2, ZenonT(30) DEF FrameTypes
  <2>12. m <= (h + 1) - w.after + 3 /\ \A i \in 1 .. m : s.todo[i] = ReplayFrame(w.after, h + 1, m - i)
    BY <1>4, <1>5, <2>3, SMTT(30)
  <2>13. WriteLeads(s, w, n, f, v, h + 1)
    BY <1>2, <1>3, <2>2, <2>5, <2>6, <2>7, <2>8, <2>9, <2>10, <2>11, <2>12, ZenonT(30) DEF WriteLeads
  <2> QED
    BY <1>1, <2>13, ZenonT(30)
<1>7. CASE w.stage # "live"
  <2>1. f = ReplayFrame(w.after, h, m) /\ Due(w, h, m + 1) /\ m + 1 <= h - w.after + 3
    BY <1>1, <1>2, <1>3, <1>7, ZenonT(30) DEF Streaming
  <2>2. h \in 0 .. MaxSeq /\ h + 1 \in 0 .. MaxSeq + 1 /\ m <= h - w.after + 3
    BY <1>4, <1>5, <2>1, SMTT(30)
  <2>3. ASSUME NEW v, v = Written(w, f), v \in Wires, v.after = w.after, v.clean = w.clean,
               v.stage \in {"replay", "snapshot", "live"}, Due(v, h, m), Allowed(w, f, n),
               f.t \in FrameTypes, f.n \in 0 .. MaxSeq, f = Frame(f.t, f.n), f.t = "event" => f.n <= h
        PROVE  WriteLeads(s, w, n, f, v, h)
    <3>1. h = (IF f.t = "event" /\ f.n > s.last THEN f.n ELSE s.last)
      BY <1>3, <1>4, <2>3, SMTT(30)
    <3> QED
      BY <1>2, <1>5, <2>2, <2>3, <3>1, ZenonT(30) DEF WriteLeads
  <2>4. CASE m = 0
    <3>1. f = Frame("end", h)
      BY <2>1, <2>4, ZenonT(30) DEF ReplayFrame
    <3>2. f.t = "end" /\ f.n = h /\ f = Frame(f.t, f.n) /\ f.t \in FrameTypes
      BY <3>1, ZenonT(30) DEF Frame, FrameTypes
    <3>3. w.stage = "snapshot" /\ w.high = h /\ w.next = h + 1
      BY <2>1, <2>4 DEF Due
    <3>4. PICK v : v = [w EXCEPT !.stage = "live"]
      BY ZenonT(30)
    <3>5. v = Written(w, f)
      BY <3>2, <3>4, Zenon DEF Written, Codes, Fatal, Resyncing, Retried
    <3>6. v \in Wires
      BY <3>4, ZenonT(30) DEF Wires
    <3>7. v.after = w.after /\ v.clean = w.clean /\ v.stage = "live" /\ v.high = w.high /\ v.next = w.next
      BY <3>4, ZenonT(30) DEF Wires
    <3>8. Allowed(w, f, n)
      BY <3>2, <3>3, ZenonT(30) DEF Allowed
    <3>9. Due(v, h, m)
      BY <1>4, <2>4, <3>3, <3>7, SMTT(30) DEF Due
    <3>10. WriteLeads(s, w, n, f, v, h)
      BY <2>2, <2>3, <3>2, <3>5, <3>6, <3>7, <3>8, <3>9, ZenonT(30)
    <3> QED
      BY <1>1, <3>10, ZenonT(30)
  <2>5. CASE m = 1
    <3>1. f = Frame("snapshot", h)
      BY <2>1, <2>5 DEF ReplayFrame
    <3>2. f.t = "snapshot" /\ f.n = h /\ f = Frame(f.t, f.n) /\ f.t \in FrameTypes
      BY <3>1, ZenonT(30) DEF Frame, FrameTypes
    <3>3. w.stage = "replay" /\ w.high = h /\ w.next = h + 1
      BY <1>4, <1>5, <2>1, <2>5, SMTT(30) DEF Due
    <3>4. PICK v : v = [w EXCEPT !.stage = "snapshot"]
      BY ZenonT(30)
    <3>5. v = Written(w, f)
      BY <3>2, <3>4, Zenon DEF Written, Codes, Fatal, Resyncing, Retried
    <3>6. v \in Wires
      BY <3>4, ZenonT(30) DEF Wires
    <3>7. v.after = w.after /\ v.clean = w.clean /\ v.stage = "snapshot" /\ v.high = w.high /\ v.next = w.next
      BY <3>4, ZenonT(30) DEF Wires
    <3>8. Allowed(w, f, n)
      BY <3>2, <3>3, ZenonT(30) DEF Allowed
    <3>9. Due(v, h, m)
      BY <1>4, <2>5, <3>3, <3>7, SMTT(30) DEF Due
    <3>10. WriteLeads(s, w, n, f, v, h)
      BY <2>2, <2>3, <3>2, <3>5, <3>6, <3>7, <3>8, <3>9, ZenonT(30)
    <3> QED
      BY <1>1, <3>10, ZenonT(30)
  <2>6. CASE m # 0 /\ m # 1 /\ m = h - w.after + 2
    <3>1. f = Frame("begin", h)
      BY <2>1, <2>6, ZenonT(30) DEF ReplayFrame
    <3>2. f.t = "begin" /\ f.n = h /\ f = Frame(f.t, f.n) /\ f.t \in FrameTypes
      BY <3>1, ZenonT(30) DEF Frame, FrameTypes
    <3>3. w.stage = "asked" /\ w.same
      BY <1>4, <1>5, <2>1, <2>6 DEF Due
    <3>4. PICK v : v = [w EXCEPT !.stage = "replay", !.high = h, !.next = w.after + 1]
      BY ZenonT(30)
    <3>5. v = Written(w, f)
      BY <3>2, <3>4, Zenon DEF Written, Codes, Fatal, Resyncing, Retried
    <3>6. v \in Wires
      <4>1. w.after + 1 \in 0 .. MaxSeq + 1
        BY <1>4, <1>5
      <4> QED
        BY <2>2, <3>4, <4>1, ZenonT(30) DEF Wires
    <3>7. v.after = w.after /\ v.clean = w.clean /\ v.stage = "replay" /\ v.high = h /\ v.next = w.after + 1
      BY <3>4, Zenon DEF Wires
    <3>8. Allowed(w, f, n)
      <4>1. h \in w.after .. n
        BY <1>4, <1>5, SMTT(30)
      <4> QED
        BY <3>2, <3>3, <4>1, Zenon DEF Allowed
    <3>9. Due(v, h, m)
      BY <1>4, <1>5, <2>6, <3>7, SMTT(30) DEF Due
    <3>10. WriteLeads(s, w, n, f, v, h)
      BY <2>2, <2>3, <3>2, <3>5, <3>6, <3>7, <3>8, <3>9, ZenonT(30)
    <3> QED
      BY <1>1, <3>10, ZenonT(30)
  <2>7. CASE m # 0 /\ m # 1 /\ m # h - w.after + 2
    <3>1. PICK k : k = h + 2 - m
      BY ZenonT(30)
    <3>2. k \in Nat /\ k >= 1 /\ k <= h /\ k \in 0 .. MaxSeq /\ k + 1 \in 0 .. MaxSeq + 1 /\ k = h + 3 - (m + 1)
      <4>1. k \in Nat /\ k >= 1 /\ k <= h
        BY <1>4, <1>5, <2>1, <2>7, <3>1, SMTT(30)
      <4>2. h \in Nat /\ m \in Nat /\ MaxSeq \in Nat /\ h <= MaxSeq
        BY <1>4, <1>5, SMTT(30)
      <4> QED
        BY <3>1, <4>1, <4>2, SMTT(30)
    <3>3. f = Frame("event", k)
      BY <2>1, <2>7, <3>1, ZenonT(30) DEF ReplayFrame
    <3>4. f.t = "event" /\ f.n = k /\ f = Frame(f.t, f.n) /\ f.t \in FrameTypes
      BY <3>3, ZenonT(30) DEF Frame, FrameTypes
    <3>5. w.stage = "replay" /\ w.high = h /\ w.next = k
      BY <1>4, <1>5, <2>1, <2>7, <3>2, SMTT(30) DEF Due
    <3>6. PICK v : v = [w EXCEPT !.next = k + 1]
      BY ZenonT(30)
    <3>7. v = Written(w, f)
      BY <3>4, <3>6, Zenon DEF Written, Codes, Fatal, Resyncing, Retried
    <3>8. v \in Wires
      BY <3>2, <3>6, ZenonT(30) DEF Wires
    <3>9. v.after = w.after /\ v.clean = w.clean /\ v.stage = "replay" /\ v.high = h /\ v.next = k + 1
      BY <3>5, <3>6, ZenonT(30) DEF Wires
    <3>10. Allowed(w, f, n)
      BY <3>2, <3>4, <3>5, ZenonT(30) DEF Allowed
    <3>11. Due(v, h, m)
      BY <1>4, <1>5, <2>1, <2>7, <3>2, <3>9, SMTT(30) DEF Due
    <3>12. WriteLeads(s, w, n, f, v, h)
      BY <2>3, <3>2, <3>4, <3>7, <3>8, <3>9, <3>10, <3>11, ZenonT(30)
    <3> QED
      BY <1>1, <3>12, ZenonT(30)
  <2> QED
    BY <2>4, <2>5, <2>6, <2>7, ZenonT(30)
<1> QED
  BY <1>6, <1>7, ZenonT(30)

\* A write completes.
LEMMA WriteDoneStep ==
  ASSUME SInv, NEW c \in Receivers, WriteDone(c)
  PROVE  SInv' /\ Refines
<1>1. PICK s : s = sock[c]
  BY ZenonT(30)
<1>2. PICK w : w = wire[c]
  BY Zenon
<1>3. s \in Sockets /\ w \in Wires /\ ConnectionOk(s, w, sub[c], high) /\ high \in Nat /\ high <= MaxSeq
  BY <1>1, <1>2, Known, Zenon
<1>4. s.wr # NoFrame /\ UNCHANGED streamVars
  BY <1>1, ZenonT(30) DEF WriteDone
<1>5. s.pc = "stream" /\ s.extra = 0 /\ Streaming(s, w, high) /\ s.task = "none" /\ sub[c].held
  BY <1>3, <1>4, ZenonT(30) DEF ConnectionOk, PlaceOk, TaskOk, WriteOk, Sockets
<1>6. PICK f : f = s.wr
  BY ZenonT(30)
<1>7. PICK v, l : WriteLeads(s, w, high, f, v, l)
  BY <1>3, <1>4, <1>5, <1>6, NextFrame, Zenon
<1>8. PICK x : x = IF s.valid THEN 0 ELSE 1
  BY ZenonT(30)
<1>9. PICK t : t = [s EXCEPT !.wr = NoFrame, !.extra = x, !.last = l]
  BY ZenonT(30)
<1>10. Emit(c, t, f)
  <2>1. Emit(c, [s EXCEPT !.wr = NoFrame, !.extra = IF s.valid THEN s.extra ELSE s.extra + 1,
                          !.last = IF f.t = "event" /\ f.n > s.last THEN f.n ELSE s.last], f)
    BY <1>1, <1>6, ZenonT(30) DEF WriteDone
  <2>2. x = IF s.valid THEN s.extra ELSE s.extra + 1
    BY <1>5, <1>8, SMTT(30)
  <2>3. l = IF f.t = "event" /\ f.n > s.last THEN f.n ELSE s.last
    BY <1>7, ZenonT(30) DEF WriteLeads
  <2> QED
    BY <1>9, <2>1, <2>2, <2>3, ZenonT(30)
<1>11. x \in Nat /\ x <= 1 /\ (s.valid => x = 0) /\ l \in 0 .. MaxSeq
  BY <1>7, <1>8 DEF WriteLeads
<1>12. t \in Sockets
  BY <1>3, <1>9, <1>11, NoSocketType, ZenonT(30) DEF Sockets
<1>13. /\ t.pc = s.pc /\ t.wr = NoFrame /\ t.todo = s.todo /\ t.last = l /\ t.task = s.task /\ t.extra = x
       /\ t.peer = s.peer /\ t.ctl = s.ctl /\ t.session = s.session /\ t.after = s.after /\ t.valid = s.valid
  BY <1>3, <1>9, ZenonT(30) DEF Sockets
<1>14. Streaming(t, v, high)
  BY <1>7, <1>13, ZenonT(30) DEF Streaming, WriteLeads
<1>15. PlaceOk(t, v, high)
  BY <1>3, <1>5, <1>7, <1>13, <1>14, ZenonT(30) DEF ConnectionOk, PlaceOk, WriteLeads
<1>16. TaskOk(t, v, sub[c], high)
  BY <1>5, <1>13, ZenonT(30) DEF TaskOk
<1>17. WriteOk(t)
  BY <1>11, <1>13, ZenonT(30) DEF WriteOk
<1>18. /\ f.t \in FrameTypes /\ f.n \in 0 .. MaxSeq /\ f = Frame(f.t, f.n) /\ Allowed(w, f, high)
       /\ v = Written(w, f) /\ v \in Wires
  BY <1>7, ZenonT(30) DEF WriteLeads
<1> QED
  BY <1>2, <1>4, <1>10, <1>12, <1>15, <1>16, <1>17, <1>18, Writes, ZenonT(30) DEF ConnectionOk

\* Events and the end of the runtime leave the connections as they are.
LEMMA RuntimeStep ==
  ASSUME SInv, RuntimeSteps
  PROVE  SInv' /\ Refines
<1>1. /\ high \in Nat /\ MaxSeq \in Nat /\ high <= MaxSeq /\ end \in Nat /\ end <= high
      /\ UNCHANGED <<sock, wire, running>> /\ (AppendEvent \/ Stop) /\ DOMAIN sub = Receivers
  BY StreamAssumption DEF SInv, Inv, RuntimeSteps
<1>2. Inv'
  BY <1>1, NextInv, Zenon DEF SInv, Next
<1>3. /\ high' = high \/ (high < MaxSeq /\ high' = high + 1)
      /\ end' = end \/ end' = high'
  BY <1>1, ZenonT(30) DEF AppendEvent, Stop
<1>4. high' \in Nat /\ high <= high' /\ end' <= high'
  BY <1>1, <1>3
<1>5. ASSUME NEW u \in Subscriptions, NEW k
      PROVE  /\ Sent(u, k).held = u.held /\ Sent(u, k).after = u.after
             /\ Closed(u).held = u.held /\ Closed(u).after = u.after
  BY ZenonT(30) DEF Sent, Closed, Subscriptions
<1>6. ASSUME NEW r \in Receivers
      PROVE  sub'[r].held = sub[r].held /\ sub'[r].after = sub[r].after
  <2>1. sub[r] \in Subscriptions /\ SubOk(sub[r], high, phase, end)
    BY ZenonT(30) DEF SInv, Inv, SubOk
  <2>2. sub'[r] \in {Sent(sub[r], high + 1), Closed(sub[r]), Closed(Sent(sub[r], high + 1))}
    BY <1>1, Zenon DEF AppendEvent, Stop
  <2>3. CASE sub'[r] = Closed(Sent(sub[r], high + 1)) /\ high < MaxSeq
    <3>1. Sent(sub[r], high + 1) \in Subscriptions
      BY <1>1, <2>1, <2>3, SentOk, ZenonT(30) DEF SubOk, SInv, Inv
    <3> QED
      BY <1>5, <2>1, <2>3, <3>1, ZenonT(30)
  <2>4. sub'[r] = Closed(Sent(sub[r], high + 1)) => high < MaxSeq \/ sub'[r] = Sent(sub[r], high + 1)
                                                    \/ sub'[r] = Closed(sub[r])
    BY <1>1, ZenonT(30) DEF AppendEvent, Stop
  <2> QED
    BY <1>5, <2>1, <2>2, <2>3, <2>4, SMTT(30)
<1>7. ASSUME NEW r \in Receivers
      PROVE  ConnectionOk(sock[r], wire[r], sub'[r], high')
  <2>1. PICK s, w : s = sock[r] /\ w = wire[r]
    BY ZenonT(30)
  <2>2. s \in Sockets /\ w \in Wires /\ ConnectionOk(s, w, sub[r], high)
    BY <2>1, Known, Zenon
  <2>3. w.after \in Nat /\ s.last \in Nat
    BY <2>2, <1>1 DEF Wires, Sockets
  <2>4. \A code : Reportable(w, code, high) => Reportable(w, code, high')
    BY <1>1, <1>4, <2>3 DEF Reportable
  <2>5. s.last <= high => s.last <= high'
    BY <1>1, <1>4, <2>3
  <2>6. s.last < high => s.last < high'
    BY <1>1, <1>4, <2>3
  <2>7. Streaming(s, w, high) => Streaming(s, w, high')
    BY <2>5, <2>6, ZenonT(30) DEF Streaming
  <2>8. PlaceOk(s, w, high')
    BY <2>2, <2>4, <2>7, ZenonT(30) DEF ConnectionOk, PlaceOk
  <2>9. TaskOk(s, w, sub'[r], high')
    BY <1>6, <2>2, <2>4, ZenonT(30) DEF ConnectionOk, TaskOk
  <2> QED
    BY <2>1, <2>2, <2>8, <2>9, ZenonT(30) DEF ConnectionOk
<1>8. SInv'
  BY <1>1, <1>2, <1>4, <1>7, ZenonT(30) DEF SInv, SocketInv, SocketTypeOK
<1>9. Refines
  <2>1. CASE high' = high
    BY <1>1, <2>1, ZenonT(30) DEF Refines
  <2>2. CASE high < MaxSeq /\ high' = high + 1
    BY <1>1, <2>2, ZenonT(30) DEF Refines, SC!ContractNext, SC!Publish
  <2> QED
    BY <1>3, <2>1, <2>2, ZenonT(30)
<1> QED
  BY <1>8, <1>9, Zenon

\* Draining, and a step that changes nothing
LEMMA IdleStep ==
  ASSUME SInv, UNCHANGED <<streamVars, sock, wire>>, running' \in BOOLEAN
  PROVE  SInv' /\ Refines
<1>1. UNCHANGED <<high, history, phase, end, sub, sock, wire>>
  BY ZenonT(30) DEF streamVars
<1>2. Inv'
  BY <1>1, NextInv, Zenon DEF SInv, vars
<1> QED
  BY <1>1, <1>2, ZenonT(30) DEF SInv, SocketInv, SocketTypeOK, Refines

\* Initially there is no connection, and no client has seen anything.
LEMMA SocketStart == SocketInit => SInv /\ SC!ContractInit
<1> SUFFICES ASSUME SocketInit PROVE SInv /\ SC!ContractInit
  BY ZenonT(30)
<1>1. /\ high = 0 /\ end = 0 /\ sub = [r \in Receivers |-> NoSubscription] /\ running = TRUE
      /\ sock = [c \in Receivers |-> NoSocket] /\ wire = [c \in Receivers |-> Unconnected]
  BY Zenon DEF SocketInit, Init
<1>2. Inv
  BY InitInv, Zenon DEF SocketInit
<1>3. SocketTypeOK
  BY <1>1, NoSocketType, WireType, ZenonT(30) DEF SocketTypeOK
<1>4. ConnectionOk(NoSocket, Unconnected, NoSubscription, 0)
  <2>1. /\ NoSocket.pc = "none" /\ NoSocket.peer = "quiet" /\ NoSocket.ctl = "open" /\ NoSocket.task = "none"
        /\ NoSocket.wr = NoFrame /\ NoSocket.extra = 0 /\ Unconnected.stage = "none" /\ ~NoSubscription.held
    BY Zenon DEF NoSocket, Unconnected, NoSubscription
  <2>2. 0 <= 1
    OBVIOUS
  <2> QED
    BY <2>1, <2>2, Zenon DEF ConnectionOk, PlaceOk, TaskOk, WriteOk
<1>5. \A c \in Receivers : ConnectionOk(sock[c], wire[c], sub[c], high)
  BY <1>1, <1>4, Zenon
<1>6. SC!ContractInit
  BY <1>1, SameFrames, ZenonT(30) DEF SC!ContractInit
<1> QED
  BY <1>1, <1>2, <1>3, <1>5, <1>6, SMTT(30) DEF SInv, SocketInv

\* Every step keeps the invariant and is one that the contract allows.
LEMMA SocketStep == SInv /\ [SocketNext]_socketVars => SInv' /\ Refines
<1> SUFFICES ASSUME SInv, [SocketNext]_socketVars PROVE SInv' /\ Refines
  BY ZenonT(30)
<1>1. running \in BOOLEAN
  BY Zenon DEF SInv, SocketInv, SocketTypeOK
<1>2. CASE RuntimeSteps
  BY <1>2, RuntimeStep, Zenon
<1>3. CASE DrainBegins \/ UNCHANGED socketVars
  BY <1>1, <1>3, IdleStep, ZenonT(30) DEF DrainBegins, socketVars
<1>4. ASSUME NEW c \in Receivers,
             Upgrade(c) \/ SessionLost(c) \/ ClientAsks(c) \/ ClientActs(c) \/ ControlReads(c)
      PROVE  SInv' /\ Refines
  BY <1>4, UpgradeStep, LostStep, ClientAsksStep, ClientActsStep, ControlReadsStep, ZenonT(30)
<1>5. ASSUME NEW c \in Receivers, SubscribeTask(c)
      PROVE  SInv' /\ Refines
  BY <1>5, SubscribeRunsStep, TaskAbortedStep, ResultDroppedStep, ZenonT(30) DEF SubscribeTask
<1>6. ASSUME NEW c \in Receivers, RunSocket(c)
      PROVE  SInv' /\ Refines
  BY <1>6, AwaitFailsStep, AwaitSubscribeStep, AwaitEndsStep, SubscribedStep, StreamEndsStep, StreamReplaysStep,
     StreamSendsLiveStep, LearnsCloseStep, WriteDoneStep, WriteFailsStep, SendErrorStep, SendCloseStep,
     FinishedStep, ZenonT(30) DEF RunSocket
<1> QED
  BY <1>2, <1>3, <1>4, <1>5, <1>6, ZenonT(30) DEF SocketNext

----------------------------------------------------------------------------
\* In every reachable state each connection, its subscribe task and its subscription agree with
\* what its client has been sent, and the stream is as EventStreamProofs says.
THEOREM SocketInvariant == SocketSpec => []SInv
  BY SocketStart, SocketStep, PTL DEF SocketSpec

\* connection_outcome is checked before every frame: after logout or expiry at most the write
\* that was in progress completes, on any number of connections.
THEOREM RevokedConnectionsFallSilent == SocketSpec => []RevokedAfterOneFrame
<1>1. SInv => RevokedAfterOneFrame
  BY ZenonT(30) DEF SInv, SocketInv, ConnectionOk, WriteOk, RevokedAfterOneFrame
<1> QED
  BY <1>1, SocketInvariant, PTL

\* No subscription outlives its connection: it is streamed from, or the result of a subscribe
\* that is about to be collected or dropped.
THEOREM SubscriptionsAreOwned == SocketSpec => []SubscriptionIsOwned
<1>1. SInv => SubscriptionIsOwned
  BY ZenonT(30) DEF SInv, SocketInv, ConnectionOk, TaskOk, SubscriptionIsOwned
<1> QED
  BY <1>1, SocketInvariant, PTL

\* run_socket, its control reader and the blocking subscribe together implement the contract:
\* begin, the events after the cursor, the snapshot, end and the live events come in order and
\* without a gap, errors are truthful, and only a close follows one.
THEOREM SocketImplementsContract == SocketSpec => ImplementsStreamContract
  BY SocketStart, SocketStep, SocketInvariant, PTL DEF SocketSpec, ImplementsStreamContract, SC!Contract, Refines

=====================================================================================
