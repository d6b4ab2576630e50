-------------------------------- MODULE StreamSocket --------------------------------
(***************************************************************************)
(* The server side of the event stream (apps/control-plane websocket.rs):  *)
(* the upgrade, one run_socket task per connection, its control reader,    *)
(* the blocking subscribe it spawns, and the way a stream is ended.  The   *)
(* receivers of EventStream are the connections, so a connection has at    *)
(* most one subscription.                                                  *)
(*                                                                         *)
(* A write is two steps, because run_socket checks the connection, then    *)
(* awaits the write, and everything else goes on meanwhile.  A frame is    *)
(* its type and numbers.  Pings carry no state and are left out.           *)
(***************************************************************************)
EXTENDS EventStream, StreamFrames

VARIABLES
  sock,     \* per connection: its task, control state and subscribe task
  wire,     \* per connection: what has been written to it, as its client sees it
  running   \* the control plane is not draining

streamVars == <<high, history, phase, end, sub>>

SC == INSTANCE StreamContract

\* peer: what the client has done that nobody has read; reader: the control reader runs;
\* extra: the frames written since the session was lost, which the code does not count
NoSocket ==
  [pc |-> "none", valid |-> FALSE, peer |-> "quiet", ctl |-> "open", reader |-> FALSE,
   session |-> FALSE, after |-> 0, task |-> "none", result |-> "none", todo |-> <<>>,
   wr |-> NoFrame, last |-> 0, code |-> "none", extra |-> 0]

SocketInit ==
  /\ Init
  /\ sock = [c \in Receivers |-> NoSocket] /\ wire = [c \in Receivers |-> Unconnected]
  /\ running = TRUE

Update(c, s) == sock' = [sock EXCEPT ![c] = s] /\ UNCHANGED <<wire, running>>

Emit(c, s, f) ==
  /\ sock' = [sock EXCEPT ![c] = s] /\ wire' = [wire EXCEPT ![c] = Written(@, f)]
  /\ UNCHANGED running

----------------------------------------------------------------------------
(* The client, which may be any program of the operator, and the process around *)

\* The session the connection was authenticated with expires or is logged out.
SessionLost(c) ==
  /\ sock[c].valid /\ sock' = [sock EXCEPT ![c].valid = FALSE]
  /\ UNCHANGED <<streamVars, wire, running>>

DrainBegins ==
  /\ running /\ running' = FALSE
  /\ UNCHANGED <<streamVars, sock, wire>>

\* upgrade, of a request that authenticates and is admitted; any other gets an HTTP answer
Upgrade(c) ==
  /\ sock[c] = NoSocket /\ running
  /\ sock' = [sock EXCEPT ![c] = [NoSocket EXCEPT !.pc = "await", !.valid = TRUE]]
  /\ wire' = [wire EXCEPT ![c] = Connected]
  /\ UNCHANGED <<streamVars, running>>

\* The client sends its subscribe frame, or a frame that is none, or goes away.
ClientAsks(c) ==
  /\ wire[c].stage = "open" /\ sock[c].peer = "quiet"
  /\ \E same \in BOOLEAN, n \in 0 .. MaxSeq :
       /\ sock' = [sock EXCEPT ![c].session = same, ![c].after = n]
       /\ wire' = [wire EXCEPT ![c] = Asked(@, same, n)]
  /\ UNCHANGED <<streamVars, running>>

ClientActs(c) ==
  /\ sock[c].pc # "none" /\ sock[c].peer = "quiet"
  /\ \/ /\ sock' = [sock EXCEPT ![c].peer = "junk"] /\ wire' = [wire EXCEPT ![c] = Misused(@)]
     \/ /\ \E p \in {"closed", "lost"} : sock' = [sock EXCEPT ![c].peer = p]
        /\ UNCHANGED wire
  /\ UNCHANGED <<streamVars, running>>

\* spawn_control_reader: the first thing it sees is recorded, and it returns
ControlReads(c) ==
  /\ sock[c].reader /\ sock[c].ctl = "open" /\ sock[c].peer # "quiet"
  /\ Update(c, [sock[c] EXCEPT !.ctl = CASE sock[c].peer = "closed" -> "peer"
                                         [] sock[c].peer = "junk" -> "protocol"
                                         [] OTHER -> "transport"])
  /\ UNCHANGED streamVars

----------------------------------------------------------------------------
(* receive_subscribe *)

Failing(s, code) == [s EXCEPT !.pc = "error", !.code = code]
Closing(s) == [s EXCEPT !.pc = "close", !.code = "server_shutdown"]

AwaitFails(c) ==
  /\ sock[c].pc = "await"
  /\ \/ /\ ~sock[c].valid /\ Update(c, Failing(sock[c], "authentication_expired"))
     \/ /\ sock[c].valid /\ ~running /\ Update(c, Closing(sock[c]))
     \/ /\ sock[c].peer = "lost" \/ (sock[c].peer = "closed" /\ wire[c].stage = "open")
        /\ Update(c, [sock[c] EXCEPT !.pc = "grace"])
     \/ /\ sock[c].peer = "junk" /\ wire[c].stage = "open" /\ Update(c, Failing(sock[c], "protocol_error"))
     \/ Update(c, Failing(sock[c], "subscribe_timeout"))
  /\ UNCHANGED streamVars

AwaitSubscribe(c) ==
  /\ sock[c].pc = "await" /\ wire[c].stage = "asked"
  /\ Update(c, [sock[c] EXCEPT !.pc = "subscribing", !.reader = TRUE, !.task = "running"])
  /\ UNCHANGED streamVars

----------------------------------------------------------------------------
(* await_subscription and the blocking subscribe *)

\* Mutation: a connection with a valid session is not checked for a drain.
OutcomeWithoutDrain(s) ==
  CASE s.ctl = "peer" -> "peer"
    [] s.ctl = "protocol" -> "protocol_error"
    [] s.ctl = "transport" -> "transport"
    [] s.ctl = "open" /\ ~s.valid -> "authentication_expired"
    [] OTHER -> "none"

\* connection_outcome: the peer first, then the session, then the control plane
Outcome(s) ==
  CASE s.ctl = "peer" -> "peer"
    [] s.ctl = "protocol" -> "protocol_error"
    [] s.ctl = "transport" -> "transport"
    [] s.ctl = "open" /\ ~s.valid -> "authentication_expired"
    [] s.ctl = "open" /\ s.valid /\ ~running -> "server_shutdown"
    [] OTHER -> "none"

\* finish_stream_outcome
Ended(s, outcome) ==
  CASE outcome \in {"peer", "transport"} -> [s EXCEPT !.pc = "grace"]
    [] outcome = "server_shutdown" -> Closing(s)
    [] OTHER -> Failing(s, outcome)

SubscribeResult(s) ==
  CASE ~s.session -> "wrong_session"
    [] s.session /\ phase # "open" -> "stream_unavailable"
    [] s.session /\ phase = "open" /\ s.after > high -> "future_cursor"
    [] s.session /\ phase = "open" /\ s.after <= high /\ ~CursorRetained(s.after) -> "history_gap"
    [] OTHER -> "ok"

\* ConcreteSessionPort::subscribe on the blocking pool, whether or not anyone still waits;
\* clients that are not modelled may hold every slot
SubscribeRuns(c) ==
  \E result \in {SubscribeResult(sock[c]), "subscriber_limit"} :
      /\ sock[c].task = "running"
      /\ result = "subscriber_limit" => SubscribeResult(sock[c]) = "ok"
      /\ IF result = "ok" THEN Subscribe(c, sock[c].after) ELSE UNCHANGED streamVars
      /\ Update(c, [sock[c] EXCEPT !.task = "done", !.result = result])

\* task.abort() stops only a task that has not begun.
TaskAborted(c) ==
  /\ sock[c].task = "running" /\ sock[c].pc # "subscribing"
  /\ Update(c, [sock[c] EXCEPT !.task = "none"])
  /\ UNCHANGED streamVars

\* Mutation: the result of an aborted subscribe stays where it is.
ResultKept(c) ==
  /\ sock[c].task = "done" /\ sock[c].pc # "subscribing"
  /\ Update(c, [sock[c] EXCEPT !.task = "none", !.result = "none"])
  /\ UNCHANGED streamVars

\* The result nobody awaits is dropped, and with it the receiver.
ResultDropped(c) ==
  /\ sock[c].task = "done" /\ sock[c].pc # "subscribing"
  /\ IF sub[c].held THEN Drop(c) ELSE UNCHANGED streamVars
  /\ Update(c, [sock[c] EXCEPT !.task = "none", !.result = "none"])

AwaitSubscriptionEnds(c) ==
  /\ sock[c].pc = "subscribing" /\ Outcome(sock[c]) # "none"
  /\ Update(c, Ended(sock[c], Outcome(sock[c])))
  /\ UNCHANGED streamVars

\* Mutation: the snapshot goes ahead of the events.
ReplayFramesSnapshotFirst(h, replay) ==
  <<Frame("begin", h), Frame("snapshot", h)>>
     \o [i \in DOMAIN replay |-> Frame("event", replay[i])] \o <<Frame("end", h)>>

ReplayFrames(h, replay) ==
  <<Frame("begin", h)>> \o [i \in DOMAIN replay |-> Frame("event", replay[i])]
     \o <<Frame("snapshot", h), Frame("end", h)>>

\* prepare_replay's checks
ReplaySound(after, h, replay) ==
  /\ after + Len(replay) = h
  /\ \A i \in DOMAIN replay : replay[i] = after + i

\* The snapshot's high water is the last event of the replay, taken under the same lock.
Subscribed(c) ==
  LET h == sub[c].after + Len(sub[c].got)
  IN  /\ sock[c].pc = "subscribing" /\ Outcome(sock[c]) = "none" /\ sock[c].task = "done"
      /\ IF sock[c].result = "ok" /\ ReplaySound(sub[c].after, h, sub[c].got)
         THEN /\ Update(c, [sock[c] EXCEPT !.pc = "stream", !.task = "none", !.result = "none",
                              !.todo = ReplayFrames(h, sub[c].got), !.last = h])
              /\ UNCHANGED streamVars
         ELSE /\ Update(c, [Failing(sock[c], IF sock[c].result = "ok" THEN "stream_unavailable"
                                             ELSE sock[c].result)
                              EXCEPT !.task = "none", !.result = "none"])
              /\ IF sub[c].held THEN Drop(c) ELSE UNCHANGED streamVars

----------------------------------------------------------------------------
(* stream_subscription *)

\* Leaving it drops the subscription before the outcome is finished.
Leaves(c, s) ==
  /\ Drop(c)
  /\ Update(c, [s EXCEPT !.todo = <<>>, !.wr = NoFrame])

Idle(c) == sock[c].pc = "stream" /\ sock[c].wr = NoFrame

StreamEnds(c) ==
  /\ Idle(c) /\ Outcome(sock[c]) # "none"
  /\ Leaves(c, Ended(sock[c], Outcome(sock[c])))

\* Mutation: the replay is sent in one go, without a check between its frames.
StreamReplaysUnchecked(c) ==
  /\ Idle(c) /\ sock[c].todo # <<>>
  /\ Update(c, [sock[c] EXCEPT !.wr = Head(sock[c].todo), !.todo = Tail(@)])
  /\ UNCHANGED streamVars

StreamReplays(c) ==
  /\ Idle(c) /\ Outcome(sock[c]) = "none" /\ sock[c].todo # <<>>
  /\ Update(c, [sock[c] EXCEPT !.wr = Head(sock[c].todo), !.todo = Tail(@)])
  /\ UNCHANGED streamVars

Live(c) == Idle(c) /\ Outcome(sock[c]) = "none" /\ sock[c].todo = <<>>

StreamSendsLive(c) ==
  /\ Live(c) /\ sub[c].queue # <<>>
  /\ IF Head(sub[c].queue) = sock[c].last + 1
     THEN /\ Receive(c)
          /\ Update(c, [sock[c] EXCEPT !.wr = Frame("event", Head(sub[c].queue))])
     ELSE Leaves(c, Failing(sock[c], "stream_unavailable"))

\* try_recv reports why the channel is closed
StreamLearnsClose(c) ==
  /\ Live(c) /\ sub[c].queue = <<>> /\ ~sub[c].registered
  /\ Leaves(c, Failing(sock[c], IF sub[c].reason = "lagged" THEN "subscriber_lagged"
                                ELSE "stream_unavailable"))

\* send_text returns: written, or failed or timed out
WriteDone(c) ==
  LET s == sock[c]
      f == s.wr
  IN  /\ f # NoFrame /\ s.peer # "lost"
      /\ Emit(c, [s EXCEPT !.wr = NoFrame, !.extra = IF s.valid THEN @ ELSE @ + 1,
                           !.last = IF f.t = "event" /\ f.n > @ THEN f.n ELSE @], f)
      /\ UNCHANGED streamVars

WriteFails(c) ==
  /\ sock[c].wr # NoFrame
  /\ Leaves(c, [sock[c] EXCEPT !.pc = "grace"])

----------------------------------------------------------------------------
(* fail_before_subscription, fail_after_subscription and the end of run_socket *)

\* What is in fact reported: a later loss of the session or a drain overrides the error.
Reported(s) ==
  CASE s.ctl \in {"peer", "transport"} -> "nothing"
    [] s.ctl \notin {"peer", "transport"} /\ ~s.valid -> "authentication_expired"
    [] s.ctl \notin {"peer", "transport"} /\ s.valid /\ ~running -> "server_shutdown"
    [] s.ctl = "protocol" /\ s.valid /\ running -> "protocol_error"
    [] OTHER -> s.code

SendError(c) ==
  LET code == Reported(sock[c])
  IN  /\ sock[c].pc = "error"
      /\ \/ /\ code = "nothing" /\ Update(c, [sock[c] EXCEPT !.pc = "grace"])
         \/ /\ code = "server_shutdown" /\ Update(c, Closing(sock[c]))
         \/ /\ code \in Codes /\ sock[c].peer # "lost"
            /\ Emit(c, [sock[c] EXCEPT !.pc = "close", !.code = code], Frame(code, 0))
         \/ /\ code \in Codes /\ Update(c, [sock[c] EXCEPT !.pc = "grace"])
      /\ UNCHANGED streamVars

SendClose(c) ==
  /\ sock[c].pc = "close"
  /\ \/ /\ sock[c].peer # "lost"
        /\ Emit(c, [sock[c] EXCEPT !.pc = "grace"],
                Frame(IF sock[c].code = "server_shutdown" THEN "close1012" ELSE "close", 0))
     \/ Update(c, [sock[c] EXCEPT !.pc = "grace"])
  /\ UNCHANGED streamVars

\* finish_reader, and run_socket returns: the admission is dropped, a subscribe may go on
Finished(c) ==
  /\ sock[c].pc = "grace"
  /\ sock' = [sock EXCEPT ![c] =
               IF @.task = "none" THEN NoSocket
               ELSE [NoSocket EXCEPT !.task = sock[c].task, !.result = sock[c].result,
                                     !.session = sock[c].session, !.after = sock[c].after]]
  /\ wire' = [wire EXCEPT ![c] = Unconnected]
  /\ UNCHANGED <<streamVars, running>>

\* The tasks of a connection: run_socket, its control reader, its blocking subscribe.
RunSocket(c) ==
  \/ AwaitFails(c) \/ AwaitSubscribe(c) \/ AwaitSubscriptionEnds(c) \/ Subscribed(c)
  \/ StreamEnds(c) \/ StreamReplays(c) \/ StreamSendsLive(c) \/ StreamLearnsClose(c)
  \/ WriteDone(c) \/ WriteFails(c) \/ SendError(c) \/ SendClose(c) \/ Finished(c)

SubscribeTask(c) == SubscribeRuns(c) \/ TaskAborted(c) \/ ResultDropped(c)

RuntimeSteps ==
  /\ AppendEvent \/ Stop
  /\ UNCHANGED <<sock, wire, running>>

SocketNext ==
  \/ RuntimeSteps \/ DrainBegins
  \/ \E c \in Receivers : Upgrade(c) \/ SessionLost(c) \/ ClientAsks(c) \/ ClientActs(c)
                            \/ RunSocket(c) \/ ControlReads(c) \/ SubscribeTask(c)

socketVars == <<streamVars, sock, wire, running>>

SocketSpec == SocketInit /\ [][SocketNext]_socketVars

\* The tasks are scheduled, and every wait in them has a deadline.
FairSocketSpec ==
  /\ SocketSpec
  /\ \A c \in Receivers : /\ WF_socketVars(RunSocket(c)) /\ WF_socketVars(ControlReads(c))
                          /\ WF_socketVars(SubscribeTask(c))

----------------------------------------------------------------------------
SocketFrames == [t : FrameTypes \cup {"none"}, n : 0 .. MaxSeq]
Wires ==
  [stage : {"none", "open", "asked", "replay", "snapshot", "live", "error", "closed"},
   clean : BOOLEAN, same : BOOLEAN, after : 0 .. MaxSeq, high : 0 .. MaxSeq, next : 0 .. MaxSeq + 1]
Sockets ==
  [pc : {"none", "await", "subscribing", "stream", "error", "close", "grace"}, valid : BOOLEAN,
   peer : {"quiet", "closed", "junk", "lost"}, ctl : {"open", "peer", "protocol", "transport"},
   reader : BOOLEAN, session : BOOLEAN, after : 0 .. MaxSeq, task : {"none", "running", "done"},
   result : Codes \cup {"none", "ok"}, todo : Seq(SocketFrames), wr : SocketFrames, last : 0 .. MaxSeq,
   code : Codes \cup {"none", "server_shutdown"}, extra : Nat]

\* Type invariant of the connections.
SocketTypeOK == sock \in [Receivers -> Sockets] /\ wire \in [Receivers -> Wires] /\ running \in BOOLEAN

\* Every connection writes what the contract allows and nothing else, whatever its client does
\* and whenever its session, the runtime or the control plane ends: the frames come in order,
\* no event is skipped, an error is truthful, and only a close follows it.
ImplementsStreamContract == SC!Contract

\* After logout or expiry a connection completes at most the write that was in progress.
RevokedAfterOneFrame == \A c \in Receivers : sock[c].extra <= 1

\* A subscription belongs to a connection that streams, or to a subscribe whose result has not
\* been collected yet: none outlives its connection and takes a subscriber slot for good.
SubscriptionIsOwned ==
  \A c \in Receivers : sub[c].held => sock[c].pc = "stream" \/ sock[c].task = "done"

\* A connection whose session is lost, whose client is gone or whose server drains comes to
\* its end, and gives its subscription and its admission back.
RevokedConnectionEnds ==
  \A c \in Receivers :
    (sock[c].pc # "none" /\ (~sock[c].valid \/ ~running \/ sock[c].peer # "quiet"))
      ~> (sock[c].pc = "none" /\ ~sub[c].held)

----------------------------------------------------------------------------
\* The frame of the replay of the events after a cursor, up to h, that `left' frames follow
ReplayFrame(after, h, left) ==
  IF left = 0 THEN Frame("end", h)
  ELSE IF left = 1 THEN Frame("snapshot", h)
  ELSE IF left = h - after + 2 THEN Frame("begin", h)
  ELSE Frame("event", h + 2 - left)

\* Where the client is when the last m frames of the replay have yet to be written; when none
\* has, every event up to h has been.
Due(w, h, m) ==
  IF m = 0 THEN w.stage = "live" /\ w.high <= h /\ w.next = h + 1
  ELSE IF m = 1 THEN w.stage = "snapshot" /\ w.high = h /\ w.next = h + 1
  ELSE IF m = h - w.after + 3 THEN w.stage = "asked" /\ w.same
  ELSE w.stage = "replay" /\ w.high = h /\ w.next = h + 3 - m

\* stream_subscription has the rest of the replay in hand, or is past it.
Streaming(s, w, newest) ==
  LET left == Len(s.todo)
      due  == IF s.wr = NoFrame \/ w.stage = "live" THEN left ELSE left + 1
  IN  /\ w.after <= s.last /\ s.last <= newest /\ due <= s.last - w.after + 3
      /\ \A i \in 1 .. left : s.todo[i] = ReplayFrame(w.after, s.last, left - i)
      /\ Due(w, s.last, due)
      /\ s.wr # NoFrame =>
           IF w.stage = "live" THEN s.wr = Frame("event", s.last + 1) /\ s.last < newest
           ELSE s.wr = ReplayFrame(w.after, s.last, left)

\* What the client has seen agrees with where the connection's task is.
PlaceOk(s, w, newest) ==
  /\ s.pc = "none" <=> w.stage = "none"
  /\ s.pc = "await" => w.stage \in {"open", "asked"}
  /\ s.pc = "subscribing" => w.stage = "asked"
  /\ s.pc = "stream" => Streaming(s, w, newest)
  /\ s.pc = "error" => w.stage \notin {"error", "closed"} /\ Reportable(w, s.code, newest)
  /\ s.pc = "close" => w.stage # "closed"
  /\ w.stage = "asked" => s.session = w.same /\ s.after = w.after
  /\ s.peer = "junk" \/ s.ctl = "protocol" => ~w.clean

\* The subscribe task, its result and the subscription agree.
TaskOk(s, w, u, newest) ==
  /\ s.task # "none" => w.stage # "open" /\ s.pc \notin {"await", "stream"}
  /\ s.task = "done" =>
       /\ s.result # "none"
       /\ s.result = "ok" => u.held /\ u.after = s.after /\ s.session
       /\ s.pc = "subscribing" /\ s.result # "ok" => Reportable(w, s.result, newest)
  /\ s.pc = "stream" => u.held
  /\ u.held => s.pc = "stream" \/ (s.task = "done" /\ s.result = "ok")

\* A write begins only under a valid session, so that one may finish without it.
WriteOk(s) ==
  /\ s.extra <= 1
  /\ s.wr # NoFrame => s.pc = "stream"
  /\ s.valid \/ s.wr # NoFrame => s.extra = 0

\* A connection, its subscribe task and its subscription agree with what its client was sent.
ConnectionOk(s, w, u, newest) == PlaceOk(s, w, newest) /\ TaskOk(s, w, u, newest) /\ WriteOk(s)

\* The inductive invariant: every connection agrees with the stream behind it.
SocketInv ==
  SocketTypeOK /\ \A c \in Receivers : ConnectionOk(sock[c], wire[c], sub[c], high)
=====================================================================================
