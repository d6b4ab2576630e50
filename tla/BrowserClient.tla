-------------------------------- MODULE BrowserClient --------------------------------
(***************************************************************************)
(* The browser's controller (apps/control-plane web/p0-client.js) composed *)
(* with the server: refresh, the WebSocket and its frames, the reconnect   *)
(* timer, the cursor kept in session storage, the one HTTP operation at a  *)
(* time, bootstrap and logout; and restarts of the server process, each    *)
(* with a new instance, session and event stream.  What arrives on the     *)
(* WebSocket is any behaviour of StreamContract.                           *)
(*                                                                         *)
(* A step is a task of the browser's event loop.  Every task that advances *)
(* `generation' also cancels the timer and lets go of the socket, so a     *)
(* callback is stale exactly when its socket is no longer the current one, *)
(* and an HTTP answer when its request was aborted.                        *)
(***************************************************************************)
EXTENDS StreamContract, Sequences

CONSTANTS
  Conn,           \* the current connection; one that was let go is not followed
  MaxInFlight,    \* frames the network holds before a write blocks
  MaxLate,        \* aborted requests that have not settled
  MaxInstances    \* server processes, one after the other

ASSUME BrowserAssumption ==
  /\ Conn \in Receivers /\ MaxSeq \in Nat /\ MaxInFlight \in Nat \ {0}
  /\ MaxInstances \in Nat \ {0} /\ MaxLate \in Nat

VARIABLES
  chan,      \* the frames that travel to the current socket
  cookie,    \* the application session of the browser's cookie is valid
  running,   \* the control plane is not draining
  instance,  \* the server process that runs
  br,        \* the controller's variables
  stored     \* the cursor record in session storage

server == <<high, cookie, running, instance>>
socket == <<wire, chan>>
vars == <<server, socket, br, stored>>

NoRecord == [instance |-> 0, seq |-> 0]
NoAnswer == [kind |-> "none", instance |-> 0, high |-> 0]
Lost == Frame("lost", 0)

\* op: the operation that awaits an answer, in the code a suspended call; busy: state.busy;
\* abort: currentAbort is not null; late: requests that were aborted and have not settled;
\* phase, after, highWater: streamState; failed: the last refresh ended without a snapshot
NewController ==
  [op |-> "idle", busy |-> FALSE, abort |-> FALSE, answer |-> NoAnswer, late |-> 0, identity |-> 0,
   last |-> 0, force |-> FALSE, policy |-> "none", socket |-> FALSE, phase |-> "begin", after |-> 0,
   highWater |-> 0, timer |-> FALSE, events |-> <<>>, failed |-> FALSE]

Init ==
  /\ ContractInit /\ chan = <<>>
  /\ cookie = FALSE /\ running = TRUE /\ instance = 1
  /\ br = NewController /\ stored = NoRecord

----------------------------------------------------------------------------
(* What several handlers do *)

\* close(): nothing more is heard of the connection, and the server will find it gone.
LetGo == HangUp(Conn) /\ chan' = <<>>

\* persistCursor and clearStorage; ok: storage works
Persisted(b, ok) == IF ok THEN [instance |-> b.identity, seq |-> b.last] ELSE stored
Cleared(ok) == IF ok THEN NoRecord ELSE stored

\* closeSocket: streamState goes with the socket
Disconnected(b, policy) ==
  [b EXCEPT !.socket = FALSE, !.policy = policy, !.phase = "begin", !.after = 0, !.highWater = 0]

\* beginHttp and request() up to its await
Begun(b, operation) == [b EXCEPT !.op = operation, !.busy = TRUE, !.abort = TRUE]

\* The request of the operation settles: request() gives up its AbortController, and endHttp.
Settled(b) == [b EXCEPT !.op = "idle", !.busy = FALSE, !.abort = FALSE, !.answer = NoAnswer]

\* refresh() up to its first await
StartRefresh(b) ==
  /\ br' = [Begun(Disconnected(b, "none"), "session") EXCEPT !.timer = FALSE, !.failed = FALSE]
  /\ LetGo

\* enterBootstrap: the current request, if any, is aborted; ok: storage works
EnterBootstrap(b, ok) ==
  /\ br' = [NewController EXCEPT !.late = IF b.abort THEN b.late + 1 ELSE b.late]
  /\ stored' = Cleared(ok) /\ LetGo

\* scheduleReconnect
Scheduled(b) ==
  IF b.identity = 0 \/ b.policy = "terminal" THEN b ELSE [b EXCEPT !.timer = TRUE]

\* streamFailure: the socket is asked to close and stays current until it has
StreamFailure(b, policy) ==
  /\ br' = [Disconnected(b, policy) EXCEPT !.socket = TRUE, !.phase = "failed"]
  /\ LetGo

\* handleFailure for a changed state or an ambiguous mutation
Resync(b, ok) == StartRefresh([b EXCEPT !.force = TRUE]) /\ stored' = Cleared(ok)

----------------------------------------------------------------------------
(* refresh *)

\* load, a manual refresh, and the reconnect timer
Refresh ==
  /\ ~br.busy /\ StartRefresh(br)
  /\ UNCHANGED <<cookie, running, instance, stored>>

TimerFires ==
  /\ br.timer /\ ~br.busy /\ StartRefresh(br)
  /\ UNCHANGED <<cookie, running, instance, stored>>

\* The server answers GET session; the answer travels, or is lost.
SessionAnswered ==
  /\ br.op = "session" /\ br.answer = NoAnswer
  /\ br' = [br EXCEPT !.answer =
              [kind |-> IF ~running THEN "error" ELSE IF cookie THEN "snapshot" ELSE "reauth",
               instance |-> instance, high |-> high]]
  /\ UNCHANGED <<server, socket, stored>>

\* An error answer, none in time, or one that does not parse: no reconnect follows.
SessionFails ==
  /\ br.op = "session" /\ br' = [Settled(br) EXCEPT !.failed = TRUE]
  /\ UNCHANGED <<server, socket, stored>>

SessionReauth ==
  /\ br.op = "session" /\ br.answer.kind = "reauth"
  /\ \E ok \in BOOLEAN : EnterBootstrap(Settled(br), ok)
  /\ UNCHANGED server

\* Mutation: a stored cursor is used although storing a later one failed.
StoredFitsUnforced(snapshot) ==
  stored.instance = snapshot.instance /\ stored.seq <= snapshot.high

\* Mutation: the record of another server process is used.
StoredFitsAnyInstance(snapshot) == stored.instance # 0 /\ ~br.force

\* sameStoredIdentity
StoredFits(snapshot) ==
  stored.instance = snapshot.instance /\ stored.seq <= snapshot.high /\ ~br.force

SessionArrives ==
  LET keep == StoredFits(br.answer)
      b == [br EXCEPT !.op = "login", !.answer = NoAnswer, !.identity = br.answer.instance,
                      !.last = IF keep THEN stored.seq ELSE br.answer.high,
                      !.events = IF keep THEN @ ELSE <<>>]
  IN  /\ br.op = "session" /\ br.answer.kind = "snapshot"
      /\ \E ok \in BOOLEAN : br' = [b EXCEPT !.force = ~ok] /\ stored' = Persisted(b, ok)
      /\ UNCHANGED <<server, socket>>

LoginReauth ==
  /\ br.op = "login" /\ ~cookie
  /\ \E ok \in BOOLEAN : EnterBootstrap(Settled(br), ok)
  /\ UNCHANGED server

\* The login status, or its failure, and connect()
LoginArrives ==
  /\ br.op = "login"
  /\ br' = [Settled(br) EXCEPT !.socket = TRUE, !.after = br.last, !.policy = "reconnect"]
  /\ UNCHANGED <<server, socket, stored>>

\* The WebSocket cannot be made.
ConnectThrows ==
  /\ br.op = "login" /\ br' = Scheduled([Settled(br) EXCEPT !.policy = "reconnect"])
  /\ UNCHANGED <<server, socket, stored>>

----------------------------------------------------------------------------
(* Mutations, the diff, bootstrap and logout *)

StartCall ==
  /\ br.identity # 0 /\ ~br.busy /\ br' = Begun(br, "call")
  /\ UNCHANGED <<server, socket, stored>>

\* The operator authenticates when there is no valid session: one at a time is followed.
StartAuthenticate ==
  /\ ~cookie /\ ~br.busy /\ br' = Begun(br, "auth")
  /\ UNCHANGED <<server, socket, stored>>

\* Done or refused; done, with a snapshot that does not apply; not authenticated; changed
\* state or an ambiguous outcome.
CallArrives ==
  /\ br.op = "call"
  /\ \/ /\ br' = Settled(br) /\ UNCHANGED <<socket, cookie, stored>>
     \/ /\ StartRefresh(Settled(br)) /\ UNCHANGED <<cookie, stored>>
     \/ /\ ~cookie /\ \E ok \in BOOLEAN : EnterBootstrap(Settled(br), ok)
        /\ UNCHANGED cookie
     \/ /\ \E ok \in BOOLEAN : Resync(Settled(br), ok)
        /\ UNCHANGED cookie
  /\ UNCHANGED <<high, running, instance>>

\* The call was a logout, and it succeeded.
LogoutArrives ==
  /\ br.op = "call" /\ cookie' = FALSE
  /\ \E ok \in BOOLEAN : EnterBootstrap(Settled(br), ok)
  /\ UNCHANGED <<high, running, instance>>

\* A session is made and its answer arrives; its answer is lost; the bearer is refused;
\* another error.
AuthenticateArrives ==
  /\ br.op = "auth"
  /\ \E ok \in BOOLEAN :
       \/ /\ running /\ cookie' = TRUE
          /\ StartRefresh([Settled(br) EXCEPT !.identity = instance]) /\ stored' = Cleared(ok)
       \/ /\ running /\ cookie' = TRUE /\ Resync(Settled(br), ok)
       \/ /\ EnterBootstrap(Settled(br), ok) /\ UNCHANGED cookie
       \/ /\ br' = Settled(br) /\ UNCHANGED <<socket, cookie, stored>>
  /\ UNCHANGED <<high, running, instance>>

\* An aborted request settles under another generation: its AbortController is not the
\* current one, and discardFinishedHttp ends the wait only if no request is current.
LateSettles ==
  /\ br.late > 0
  /\ br' = [br EXCEPT !.late = @ - 1, !.busy = @ /\ br.abort]
  /\ UNCHANGED <<server, socket, stored>>

----------------------------------------------------------------------------
(* The WebSocket *)

\* The upgrade of a socket that was made: refused, it is closed.
Upgraded ==
  /\ br.socket /\ br.phase = "begin" /\ wire[Conn].stage = "none" /\ chan = <<>>
  /\ IF running /\ cookie THEN Connect(Conn) /\ UNCHANGED chan
     ELSE chan' = <<Lost>> /\ UNCHANGED <<high, wire>>
  /\ UNCHANGED <<cookie, running, instance, br, stored>>

OnOpen ==
  /\ br.socket /\ wire[Conn].stage = "open"
  /\ \/ /\ wire' = [wire EXCEPT ![Conn] = Asked(@, br.identity = instance, br.after)]
        /\ UNCHANGED <<high, chan, br>>
     \/ StreamFailure(br, "refresh")
  /\ UNCHANGED <<cookie, running, instance, stored>>

\* The server writes a frame; a lost session and a drain are not made up.
Arrives ==
  /\ Len(chan) < MaxInFlight
  /\ \E t \in FrameTypes, n \in 0 .. MaxSeq :
       /\ Allowed(wire[Conn], Frame(t, n), high)
       /\ t = "authentication_expired" => ~cookie
       /\ t = "close1012" => ~running
       /\ wire' = [wire EXCEPT ![Conn] = Written(@, Frame(t, n))]
       /\ chan' = Append(chan, Frame(t, n))
  /\ UNCHANGED <<server, br, stored>>

\* The connection breaks, and what was under way is lost.
Breaks ==
  /\ wire[Conn].stage # "none" /\ HangUp(Conn) /\ chan' = <<Lost>>
  /\ UNCHANGED <<cookie, running, instance, br, stored>>

\* The first frame that waits
Incoming(types) == chan # <<>> /\ Head(chan).t \in types

\* A frame is accepted, or it closes the stream and stops reconnecting.
Accepts(valid, b) ==
  /\ IF valid THEN br' = b /\ chan' = Tail(chan) /\ UNCHANGED <<high, wire>>
     ELSE StreamFailure(br, "terminal")
  /\ UNCHANGED <<cookie, running, instance, stored>>

FrameBegin ==
  /\ Incoming({"begin"})
  /\ Accepts(br.phase = "begin" /\ Head(chan).n >= br.after,
             [br EXCEPT !.phase = "replay", !.highWater = Head(chan).n])

FrameSnapshot ==
  /\ Incoming({"snapshot"})
  /\ Accepts(br.phase = "replay" /\ Head(chan).n = br.highWater /\ br.last = br.highWater,
             [br EXCEPT !.phase = "snapshot"])

FrameEnd ==
  /\ Incoming({"end"})
  /\ Accepts(br.phase = "snapshot" /\ Head(chan).n = br.highWater, [br EXCEPT !.phase = "live"])

\* Where the phase allows the event
InPlace(n) ==
  \/ br.phase = "replay" /\ n <= br.highWater
  \/ br.phase = "live" /\ n > br.highWater

\* Out of place it is a protocol error, a duplicate is ignored, the next one is shown and the
\* cursor stored, and behind a gap the snapshot is taken anew.
FrameEvent ==
  LET n == Head(chan).n
      b == [br EXCEPT !.last = n, !.events = Append(@, n)]
  IN  /\ Incoming({"event"})
      /\ \E ok \in BOOLEAN :
           CASE ~InPlace(n) \/ n <= br.last -> Accepts(InPlace(n), br)
             [] InPlace(n) /\ n = br.last + 1 ->
                  /\ br' = [b EXCEPT !.force = @ \/ ~ok] /\ stored' = Persisted(b, ok)
                  /\ chan' = Tail(chan) /\ UNCHANGED <<server, wire>>
             [] InPlace(n) /\ n > br.last + 1 ->
                  /\ StreamFailure([br EXCEPT !.force = TRUE], "refresh") /\ stored' = Cleared(ok)
                  /\ UNCHANGED <<cookie, running, instance>>

\* handleWsError
FrameError ==
  /\ \E ok \in BOOLEAN :
       \/ /\ Incoming({"authentication_expired"}) /\ (br.abort => br.late < MaxLate)
          /\ EnterBootstrap(br, ok)
       \/ /\ Incoming(Resyncing) /\ StreamFailure([br EXCEPT !.force = TRUE], "refresh")
          /\ stored' = Cleared(ok)
       \/ /\ Incoming(Fatal) /\ StreamFailure(br, "terminal") /\ UNCHANGED stored
       \/ /\ Incoming(Retried) /\ StreamFailure(br, "refresh") /\ UNCHANGED stored
  /\ UNCHANGED <<cookie, running, instance>>

\* Mutation: only a close that no error frame announced is followed by a reconnect.
OnCloseReconnectsOnly ==
  /\ br.socket /\ (br.phase = "failed" \/ Incoming({"close", "close1012", "lost"}))
  /\ br' = IF br.policy = "reconnect" THEN Scheduled(Disconnected(br, br.policy))
           ELSE Disconnected(br, br.policy)
  /\ LetGo
  /\ UNCHANGED <<cookie, running, instance, stored>>

\* onclose, of a socket that failed or that the server or the network closed
OnClose ==
  /\ br.socket /\ (br.phase = "failed" \/ Incoming({"close", "close1012", "lost"}))
  /\ br' = Scheduled(Disconnected(br, br.policy))
  /\ LetGo
  /\ UNCHANGED <<cookie, running, instance, stored>>

----------------------------------------------------------------------------
\* dispose() and a new page, which loads; session storage survives.
Reload ==
  /\ StartRefresh(NewController)
  /\ UNCHANGED <<cookie, running, instance, stored>>

Publishes ==
  /\ Publish
  /\ UNCHANGED <<chan, cookie, running, instance, br, stored>>

\* The session expires, or another tab logs out.
Expires ==
  /\ cookie /\ cookie' = FALSE
  /\ UNCHANGED <<high, running, instance, socket, br, stored>>

DrainBegins ==
  /\ running /\ running' = FALSE
  /\ UNCHANGED <<high, cookie, instance, socket, br, stored>>

\* The server process dies and another one starts.
Restart ==
  /\ instance < MaxInstances /\ instance' = instance + 1
  /\ high' = 0 /\ cookie' = FALSE /\ running' = TRUE
  /\ wire' = [wire EXCEPT ![Conn] = Unconnected]
  /\ chan' = IF wire[Conn].stage = "none" THEN chan ELSE <<Lost>>
  /\ UNCHANGED <<br, stored>>

BrowserSteps ==
  \/ Refresh \/ TimerFires \/ SessionFails \/ SessionReauth \/ SessionArrives
  \/ LoginReauth \/ LoginArrives \/ ConnectThrows \/ StartCall \/ StartAuthenticate
  \/ CallArrives \/ LogoutArrives \/ AuthenticateArrives \/ LateSettles \/ Reload
  \/ OnOpen \/ FrameBegin \/ FrameSnapshot \/ FrameEnd \/ FrameEvent \/ FrameError \/ OnClose

ServerSteps ==
  \/ SessionAnswered \/ Upgraded \/ Arrives \/ Breaks
  \/ Publishes \/ Expires \/ DrainBegins \/ Restart

Next == BrowserSteps \/ ServerSteps

Spec == Init /\ [][Next]_vars

----------------------------------------------------------------------------
Sequence == 0 .. MaxSeq
Frames == [t : FrameTypes \cup {"lost"}, n : Sequence]
Wires ==
  [stage : {"none", "open", "asked", "replay", "snapshot", "live", "error", "closed"},
   clean : BOOLEAN, same : BOOLEAN, after : Sequence, high : Sequence, next : 0 .. MaxSeq + 1]
Answers ==
  [kind : {"none", "snapshot", "reauth", "error"}, instance : 0 .. MaxInstances, high : Sequence]
Controllers ==
  [op : {"idle", "session", "login", "call", "auth"}, busy : BOOLEAN, abort : BOOLEAN,
   answer : Answers, late : 0 .. MaxLate,
   identity : 0 .. MaxInstances, last : Sequence, force : BOOLEAN,
   policy : {"none", "reconnect", "refresh", "terminal"}, socket : BOOLEAN,
   phase : {"begin", "replay", "snapshot", "live", "failed"}, after : Sequence, highWater : Sequence,
   timer : BOOLEAN, events : Seq(Sequence), failed : BOOLEAN]

\* Type invariant of the controller and of what it hears.
TypeOK ==
  /\ high \in Sequence /\ wire \in [Receivers -> Wires] /\ chan \in Seq(Frames)
  /\ cookie \in BOOLEAN /\ running \in BOOLEAN /\ instance \in 1 .. MaxInstances
  /\ br \in Controllers /\ stored \in [instance : 0 .. MaxInstances, seq : Sequence]

\* The two ends understand each other: whatever is lost, restarted, expired or not stored, the
\* browser never asks for a future cursor or another session, and the server never sends a
\* frame that the browser takes for a protocol error and after which it would give up.
HonestPeers ==
  /\ br.policy # "terminal"
  /\ wire[Conn].stage = "asked" => wire[Conn].same /\ wire[Conn].after <= high

\* The events on the page are consecutive and end at the cursor, across reconnects, reloads,
\* expired sessions, server restarts and storage that fails: none is skipped or shown twice.
ShownContiguous ==
  \A i \in DOMAIN br.events : br.events[i] = br.last - Len(br.events) + i

\* A page with an identity that is not busy has a socket or a reconnect ahead of it, unless its
\* last refresh failed: then refresh() ends, and only the operator goes on.
NotStranded ==
  br.identity # 0 /\ ~br.busy /\ ~br.failed => br.socket \/ br.timer

\* state.busy is exact, and so is currentAbort: an aborted request that settles late, under the
\* next operation or under none, neither frees the page while that operation awaits its answer,
\* so that a second one could start over it, nor takes from it what a later abort needs; and
\* no ending of an operation leaves the page busy for good.
BusyIsExact == br.busy = (br.op # "idle") /\ br.abort = (br.op # "idle")

----------------------------------------------------------------------------
\* A record, an answer and a cursor of the running process are not ahead of its events; the
\* record is that of the last event on the page, unless the page knows that it may not be.
CursorInv ==
  /\ stored.instance <= instance /\ (stored.instance = instance => stored.seq <= high)
  /\ br.answer.kind = "snapshot" =>
       br.answer.instance \in 1 .. instance /\ (br.answer.instance = instance => br.answer.high <= high)
  /\ br.socket \/ br.op = "login" =>
       br.identity \in 1 .. instance /\ (br.identity = instance => br.last <= high)
  /\ br.force \/ stored.instance = 0 \/ br.events = <<>> \/ stored.seq = br.last

\* While the cookie is valid the page, or the answer on its way to it, is of the running process.
IdentityInv ==
  /\ br.op # "session" => br.answer = NoAnswer
  /\ cookie =>
       /\ br.socket \/ br.op = "login" => br.identity = instance
       /\ br.answer.kind = "snapshot" => br.answer.instance = instance

\* Only the current socket is heard of, and refresh() lets go of it first.
SocketInv ==
  /\ br.op \in {"session", "login"} => ~br.socket
  /\ ~br.socket \/ br.phase = "failed" => chan = <<>> /\ wire[Conn].stage = "none"
  /\ wire[Conn].stage = "none" => chan \in {<<>>, <<Lost>>}
  /\ wire[Conn].stage # "none" => br.identity = instance
  /\ br.socket /\ br.phase = "begin" => br.after = br.last

\* Whoever is not refreshing has a socket or a reconnect ahead, unless the last refresh failed.
AttendedInv ==
  /\ br.identity # 0 /\ br.op \notin {"session", "login"} /\ ~br.failed => br.socket \/ br.timer
  /\ br.policy # "terminal"

\* The connection as the browser has heard of it, and as it was after a frame still on its way
Heard(w) ==
  IF br.phase = "begin"
  THEN [w EXCEPT !.stage = IF w.same THEN "asked" ELSE "open", !.high = 0, !.next = 0]
  ELSE [w EXCEPT !.stage = br.phase, !.next = br.last + 1]

After(w, f) ==
  CASE f.t = "begin" -> [w EXCEPT !.stage = "replay", !.next = w.after + 1]
    [] f.t = "event" -> [w EXCEPT !.stage = IF f.n <= w.high THEN "replay" ELSE "live", !.next = f.n + 1]
    [] f.t = "snapshot" -> [w EXCEPT !.stage = "snapshot", !.next = w.high + 1]
    [] f.t = "end" -> [w EXCEPT !.stage = "live", !.next = w.high + 1]
    [] f.t \in Codes -> [w EXCEPT !.stage = "error"]
    [] OTHER -> [w EXCEPT !.stage = "closed"]

Before(w, i) == IF i = 1 THEN Heard(w) ELSE After(w, chan[i - 1])

\* Every frame on its way was allowed after the one before it, and streamState is where the
\* server was when it wrote the first of them.
InOrder(w) ==
  /\ w.clean /\ w.high <= high
  /\ \A i \in DOMAIN chan :
       Allowed(Before(w, i), chan[i], high) /\ (chan[i].t = "begin" => chan[i].n = w.high)
  /\ LET b == Before(w, Len(chan) + 1) IN w.stage = b.stage /\ w.high = b.high /\ w.next = b.next
  /\ IF br.phase = "begin" THEN w.same => w.after = br.after ELSE w.high = br.highWater
  /\ br.phase = "replay" => br.last <= w.high
  /\ br.phase = "snapshot" => br.last = w.high
  /\ br.phase = "live" => br.last >= w.high

StreamInv == wire[Conn].stage # "none" => InOrder(wire[Conn])

BrowserInv ==
  TypeOK /\ CursorInv /\ IdentityInv /\ SocketInv /\ StreamInv /\ AttendedInv /\ ShownContiguous
    /\ BusyIsExact
======================================================================================
