------------------------------- MODULE BrowserProofs -------------------------------
(***************************************************************************)
(* Proofs that BrowserClient keeps its safety properties for any number of *)
(* events, of frames in flight and of server processes.  BrowserInv is     *)
(* inductive.  At its heart is StreamInv: each frame on its way was        *)
(* allowed, by StreamFrames, where the connection was after the frame      *)
(* before it, and the first one where the browser's streamState is.  So    *)
(* what the browser takes next is always what it expects.                  *)
(***************************************************************************)
EXTENDS BrowserClient, TLAPS

\* The values of closePolicy
Policies == {"none", "reconnect", "refresh", "terminal"}

\* Zero and the empty sequence have their types.
LEMMA Zeros == 0 \in Sequence /\ 0 \in 0 .. MaxInstances /\ <<>> \in Seq(Sequence) /\ <<>> \in Seq(Frames)
  BY BrowserAssumption DEF Sequence

\* closeSocket, and what several handlers make of the controller, are controllers again.
LEMMA DisconnectedType ==
  ASSUME NEW b \in Controllers, NEW p \in Policies
  PROVE  Disconnected(b, p) \in Controllers
  BY Zeros, ZenonT(30) DEF Controllers, Disconnected, Policies

LEMMA BegunType ==
  ASSUME NEW b \in Controllers, NEW operation \in {"session", "call", "auth"}
  PROVE  Begun(b, operation) \in Controllers
  BY ZenonT(30) DEF Controllers, Begun

LEMMA RefreshType ==
  ASSUME NEW b \in Controllers
  PROVE  [Begun(Disconnected(b, "none"), "session") EXCEPT !.timer = FALSE, !.failed = FALSE] \in Controllers
<1>1. PICK d : d = Begun(Disconnected(b, "none"), "session")
  BY Zenon
<1>2. d \in Controllers
  BY <1>1, DisconnectedType, BegunType, Zenon DEF Policies
<1> QED
  BY <1>1, <1>2, ZenonT(30) DEF Controllers

LEMMA FailureType ==
  ASSUME NEW b \in Controllers, NEW p \in Policies
  PROVE  [Disconnected(b, p) EXCEPT !.socket = TRUE, !.phase = "failed"] \in Controllers
<1>1. PICK d : d = Disconnected(b, p)
  BY Zenon
<1>2. d \in Controllers
  BY <1>1, DisconnectedType, Zenon
<1> QED
  BY <1>1, <1>2, ZenonT(30) DEF Controllers

\* The constants have their types.
LEMMA NoAnswerType == NoAnswer \in Answers
  BY Zeros, Zenon DEF NoAnswer, Answers

LEMMA NewControllerType == NewController \in Controllers
<1>1. 0 \in 0 .. MaxLate
  BY BrowserAssumption
<1> QED
  BY <1>1, Zeros, NoAnswerType, ZenonT(30) DEF Controllers, NewController

LEMMA SettledType ==
  ASSUME NEW b \in Controllers
  PROVE  Settled(b) \in Controllers
  BY NoAnswerType, ZenonT(30) DEF Controllers, Settled

LEMMA UnconnectedType == Unconnected \in Wires /\ Connected \in Wires
<1>1. 0 \in 0 .. MaxSeq + 1
  BY BrowserAssumption
<1>2. Unconnected \in Wires
  BY Zeros, <1>1, ZenonT(30) DEF Wires, Unconnected
<1> QED
  BY <1>2, ZenonT(30) DEF Wires, Connected

LEMMA LostType == Lost \in Frames
  BY Zeros, Zenon DEF Lost, Frame, Frames

\* refresh() up to its first await, from any of the handlers that call it: the socket is let go
\* of, and what the page shows stays or is a new page's.
LEMMA RefreshKeeps ==
  ASSUME BrowserInv, NEW b \in Controllers, b.answer = NoAnswer,
         b.events = <<>> \/ (b.events = br.events /\ b.last = br.last),
         cookie' \in BOOLEAN, running' \in BOOLEAN, instance' = instance,
         stored' = NoRecord \/ (stored' = stored /\ (b.force = br.force \/ b.force \/ b.events = <<>>)),
         StartRefresh(b)
  PROVE  BrowserInv'
<1> USE DEF BrowserInv
<1>1. br' \in Controllers
  BY RefreshType, ZenonT(30) DEF StartRefresh
<1>2. /\ br'.op = "session" /\ br'.busy = TRUE /\ br'.abort = TRUE /\ br'.socket = FALSE
      /\ br'.policy = "none" /\ br'.phase = "begin"
      /\ br'.answer = NoAnswer /\ br'.events = b.events /\ br'.last = b.last /\ br'.force = b.force
  BY SMTT(15) DEF StartRefresh, Begun, Disconnected, Controllers
<1>3. high' = high /\ chan' = <<>> /\ wire' \in [Receivers -> Wires] /\ wire'[Conn] = Unconnected
  BY UnconnectedType, BrowserAssumption, Zenon DEF StartRefresh, LetGo, HangUp, TypeOK
<1>4. stored' \in [instance : 0 .. MaxInstances, seq : Sequence]
  BY Zeros DEF TypeOK, NoRecord
<1>5. TypeOK'
  BY <1>1, <1>3, <1>4, Zeros, Zenon DEF TypeOK
<1>6. CursorInv'
  BY <1>2, <1>3, SMTT(15) DEF CursorInv, NoRecord, TypeOK, NoAnswer, Sequence
<1>7. IdentityInv' /\ AttendedInv' /\ BusyIsExact'
  <2>1. IdentityInv' /\ AttendedInv'
    BY <1>2, SMTT(15) DEF IdentityInv, AttendedInv, NoAnswer
  <2>2. BusyIsExact'
    BY <1>2, Zenon DEF BusyIsExact
  <2> QED
    BY <2>1, <2>2, Zenon
<1>8. SocketInv' /\ StreamInv'
  BY <1>2, <1>3, SMTT(15) DEF SocketInv, StreamInv, Unconnected
<1>9. ShownContiguous'
  BY <1>2, SMTT(15) DEF ShownContiguous
<1> QED
  BY <1>5, <1>6, <1>7, <1>8, <1>9, Zenon

\* enterBootstrap() keeps the invariant wherever it is called.
LEMMA BootstrapKeeps ==
  ASSUME BrowserInv, NEW b \in Controllers, b.abort => b.late < MaxLate, NEW ok \in BOOLEAN,
         cookie' \in BOOLEAN, running' \in BOOLEAN, instance' = instance,
         EnterBootstrap(b, ok)
  PROVE  BrowserInv'
<1> USE DEF BrowserInv
<1>1. br' \in Controllers
  <2>1. b.late \in 0 .. MaxLate
    BY Zenon DEF Controllers
  <2>2. PICK late : late = IF b.abort THEN b.late + 1 ELSE b.late
    BY Zenon
  <2>3. late \in 0 .. MaxLate
    BY <2>1, <2>2, BrowserAssumption
  <2> QED
    BY <2>2, <2>3, NewControllerType, ZenonT(30) DEF EnterBootstrap, Controllers
<1>2. /\ br'.op = "idle" /\ br'.busy = FALSE /\ br'.abort = FALSE /\ br'.socket = FALSE
      /\ br'.policy = "none" /\ br'.phase = "begin"
      /\ br'.answer = NoAnswer /\ br'.events = <<>> /\ br'.identity = 0
  BY Zenon DEF EnterBootstrap, NewController
<1>3. high' = high /\ chan' = <<>> /\ wire' \in [Receivers -> Wires] /\ wire'[Conn] = Unconnected
  BY UnconnectedType, BrowserAssumption, Zenon DEF EnterBootstrap, LetGo, HangUp, TypeOK
<1>4. /\ stored' \in [instance : 0 .. MaxInstances, seq : Sequence]
      /\ stored' = NoRecord \/ stored' = stored
  BY Zeros, Zenon DEF TypeOK, EnterBootstrap, Cleared, NoRecord
<1>5. TypeOK'
  BY <1>1, <1>3, <1>4, Zeros, Zenon DEF TypeOK
<1>6. CursorInv'
  BY <1>2, <1>3, <1>4, SMTT(15) DEF CursorInv, NoRecord, TypeOK, NoAnswer, Sequence
<1>7. IdentityInv' /\ AttendedInv' /\ BusyIsExact'
  <2>1. IdentityInv' /\ AttendedInv'
    BY <1>2, SMTT(15) DEF IdentityInv, AttendedInv, NoAnswer
  <2>2. BusyIsExact'
    BY <1>2, Zenon DEF BusyIsExact
  <2> QED
    BY <2>1, <2>2, Zenon
<1>8. SocketInv' /\ StreamInv'
  BY <1>2, <1>3, SMTT(15) DEF SocketInv, StreamInv, Unconnected
<1>9. ShownContiguous'
  BY <1>2, SMTT(15) DEF ShownContiguous
<1> QED
  BY <1>5, <1>6, <1>7, <1>8, <1>9, Zenon

\* streamFailure() with a policy that goes on keeps it too.
LEMMA FailureKeeps ==
  ASSUME BrowserInv, br.socket, NEW b \in Controllers,
         b = br \/ b = [br EXCEPT !.force = TRUE],
         UNCHANGED <<cookie, running, instance>>,
         stored' = stored \/ (stored' = NoRecord /\ b.force),
         StreamFailure(b, "refresh")
  PROVE  BrowserInv'
<1> USE DEF BrowserInv
<1>1. br' \in Controllers
  BY FailureType, ZenonT(30) DEF StreamFailure, Policies
<1>2. /\ br'.op = br.op /\ br'.busy = br.busy /\ br'.abort = br.abort /\ br'.socket = TRUE /\ br'.policy = "refresh"
      /\ br'.phase = "failed" /\ br'.identity = br.identity
      /\ br'.answer = br.answer /\ br'.events = br.events /\ br'.last = br.last
      /\ br'.force = br.force \/ br'.force = TRUE
  BY SMTT(15) DEF StreamFailure, Disconnected, Controllers, TypeOK
<1>3. high' = high /\ chan' = <<>> /\ wire' \in [Receivers -> Wires] /\ wire'[Conn] = Unconnected
  BY UnconnectedType, BrowserAssumption, Zenon DEF StreamFailure, LetGo, HangUp, TypeOK
<1>4. stored' \in [instance : 0 .. MaxInstances, seq : Sequence]
  BY Zeros DEF TypeOK, NoRecord
<1>5. TypeOK'
  BY <1>1, <1>3, <1>4, Zeros, Zenon DEF TypeOK
<1>6. CursorInv'
  BY <1>2, <1>3, SMTT(15) DEF CursorInv, NoRecord, TypeOK, Sequence
<1>7. IdentityInv' /\ AttendedInv' /\ BusyIsExact'
  BY <1>2, ZenonT(30) DEF IdentityInv, AttendedInv, BusyIsExact
<1>8. SocketInv' /\ StreamInv'
  BY <1>2, <1>3, SMTT(15) DEF SocketInv, StreamInv, Unconnected
<1>9. ShownContiguous'
  BY <1>2, SMTT(15) DEF ShownContiguous
<1> QED
  BY <1>5, <1>6, <1>7, <1>8, <1>9, Zenon

\* A step that leaves the connection and streamState alone keeps the stream in order.
LEMMA StreamStays ==
  ASSUME StreamInv, UNCHANGED <<high, wire, chan>>,
         wire[Conn].stage # "none" =>
           /\ br'.phase = br.phase /\ br'.last = br.last
           /\ br'.after = br.after /\ br'.highWater = br.highWater
  PROVE  StreamInv'
<1> SUFFICES ASSUME wire[Conn].stage # "none" PROVE InOrder(wire[Conn])'
  BY Zenon DEF StreamInv
<1>1. PICK w : w = wire[Conn]
  BY Zenon
<1>2. InOrder(w) /\ wire'[Conn] = w
  BY <1>1, Zenon DEF StreamInv
<1>3. \A i : Before(w, i)' = Before(w, i)
  BY ZenonT(30) DEF Before, Heard
<1>4. InOrder(w)'
  BY <1>2, <1>3 DEF InOrder
<1> QED
  BY <1>1, <1>2, <1>4, Zenon

\* A step of the HTTP operation alone, which ends it or begins a call, keeps the page.
LEMMA QuietKeeps ==
  ASSUME BrowserInv, br' \in Controllers, UNCHANGED <<server, socket, stored>>,
         /\ br'.socket = br.socket /\ br'.policy = br.policy /\ br'.phase = br.phase
         /\ br'.after = br.after /\ br'.highWater = br.highWater /\ br'.last = br.last
         /\ br'.identity = br.identity /\ br'.force = br.force /\ br'.events = br.events
         /\ br'.answer = NoAnswer /\ br'.op \in {"idle", "call", "auth"},
         br'.failed \/ (br'.failed = br.failed /\ br'.timer = br.timer /\ br.op \notin {"session", "login"}),
         br'.busy = (br'.op # "idle"), br'.abort = (br'.op # "idle")
  PROVE  BrowserInv'
<1> USE DEF BrowserInv, server, socket
<1>1. TypeOK'
  BY Zenon DEF TypeOK
<1>2. CursorInv'
  BY SMTT(15) DEF CursorInv, NoAnswer
<1>3. IdentityInv' /\ AttendedInv' /\ BusyIsExact'
  BY SMTT(15) DEF IdentityInv, AttendedInv, BusyIsExact, NoAnswer
<1>4. SocketInv'
  BY Zenon DEF SocketInv
<1>5. StreamInv'
  BY StreamStays, Zenon
<1>6. ShownContiguous'
  BY Zenon DEF ShownContiguous
<1> QED
  BY <1>1, <1>2, <1>3, <1>4, <1>5, <1>6, Zenon

----------------------------------------------------------------------------
\* What settling the request in flight leaves.
LEMMA SettledFields ==
  ASSUME BrowserInv, br.op # "idle"
  PROVE  /\ Settled(br) \in Controllers
         /\ Settled(br).op = "idle" /\ Settled(br).busy = FALSE /\ Settled(br).abort = FALSE
         /\ Settled(br).answer = NoAnswer
         /\ Settled(br).socket = br.socket /\ Settled(br).policy = br.policy /\ Settled(br).phase = br.phase
         /\ Settled(br).after = br.after /\ Settled(br).highWater = br.highWater /\ Settled(br).last = br.last
         /\ Settled(br).identity = br.identity /\ Settled(br).force = br.force /\ Settled(br).events = br.events
         /\ Settled(br).failed = br.failed /\ Settled(br).timer = br.timer
<1>1. br \in Controllers
  BY Zenon DEF BrowserInv, TypeOK
<1>2. Settled(br) \in Controllers
  BY <1>1, SettledType, Zenon
<1> QED
  BY <1>1, <1>2, SMTT(15) DEF Settled, Controllers

\* A manual refresh, the reconnect timer and a reload.
LEMMA RefreshSteps ==
  ASSUME BrowserInv, Refresh \/ TimerFires \/ Reload
  PROVE  BrowserInv'
<1>1. cookie' \in BOOLEAN /\ running' \in BOOLEAN /\ instance' = instance /\ stored' = stored /\ br \in Controllers
  BY Zenon DEF Refresh, TimerFires, Reload, BrowserInv, TypeOK
<1>2. CASE Refresh \/ TimerFires
  <2>1. br.busy = FALSE /\ br.abort = FALSE /\ br.answer = NoAnswer /\ StartRefresh(br)
    BY <1>2, Zenon DEF Refresh, TimerFires, BrowserInv, BusyIsExact, IdentityInv
  <2> QED
    BY <1>1, <2>1, RefreshKeeps, Zenon
<1>3. CASE Reload
  <2>1. /\ NewController.busy = FALSE /\ NewController.abort = FALSE /\ NewController.answer = NoAnswer
        /\ NewController.events = <<>>
        /\ NewController \in Controllers
    BY NewControllerType, Zenon DEF NewController
  <2> QED
    BY <1>1, <1>3, <2>1, RefreshKeeps, Zenon DEF Reload
<1> QED
  BY <1>2, <1>3, Zenon

\* The four ways in which the answer to a call is handled.
LEMMA CallSteps ==
  ASSUME BrowserInv, CallArrives
  PROVE  BrowserInv'
<1>1. br.op = "call" /\ high' = high /\ running' = running /\ instance' = instance
      /\ cookie' = cookie /\ running \in BOOLEAN /\ cookie \in BOOLEAN /\ br \in Controllers
  BY ZenonT(30) DEF CallArrives, BrowserInv, TypeOK
<1>2. CASE br' = Settled(br) /\ UNCHANGED <<socket, cookie, stored>>
  BY <1>1, <1>2, SettledFields, QuietKeeps, Zenon DEF server
<1>3. CASE StartRefresh(Settled(br)) /\ UNCHANGED <<cookie, stored>>
  BY <1>1, <1>3, SettledFields, RefreshKeeps, Zenon
<1>4. CASE \E ok \in BOOLEAN : EnterBootstrap(Settled(br), ok)
  BY <1>1, <1>4, SettledFields, BootstrapKeeps, ZenonT(30)
<1>5. ASSUME NEW ok \in BOOLEAN, Resync(Settled(br), ok) PROVE BrowserInv'
  <2>1. PICK b : b = [Settled(br) EXCEPT !.force = TRUE]
    BY ZenonT(30)
  <2>2. Settled(br) \in Controllers
    BY <1>1, SettledFields, Zenon
  <2>3. b \in Controllers
    BY <2>1, <2>2, ZenonT(30) DEF Controllers
  <2>4. /\ b.busy = FALSE /\ b.abort = FALSE /\ b.answer = NoAnswer /\ b.events = br.events
        /\ b.last = br.last /\ b.force = TRUE
    BY <1>1, <2>1, <2>2, SettledFields, Zenon DEF Controllers
  <2>5. StartRefresh(b) /\ (stored' = NoRecord \/ stored' = stored)
    BY <1>5, <2>1, Zenon DEF Resync, Cleared
  <2> QED
    BY <1>1, <2>3, <2>4, <2>5, RefreshKeeps, Zenon
<1> QED
  BY <1>2, <1>3, <1>4, <1>5, ZenonT(30) DEF CallArrives

\* The cookie becomes valid only here, where the socket is let go of and no answer is under way.
LEMMA AuthenticateSteps ==
  ASSUME BrowserInv, AuthenticateArrives
  PROVE  BrowserInv'
<1>1. PICK ok \in BOOLEAN :
       \/ /\ running /\ cookie' = TRUE
          /\ StartRefresh([Settled(br) EXCEPT !.identity = instance]) /\ stored' = Cleared(ok)
       \/ /\ running /\ cookie' = TRUE /\ Resync(Settled(br), ok)
       \/ /\ EnterBootstrap(Settled(br), ok) /\ UNCHANGED cookie
       \/ /\ br' = Settled(br) /\ UNCHANGED <<socket, cookie, stored>>
  BY ZenonT(30) DEF AuthenticateArrives
<1>2. /\ br.op = "auth" /\ high' = high /\ running' = running /\ instance' = instance
      /\ running \in BOOLEAN /\ cookie \in BOOLEAN /\ br \in Controllers /\ instance \in 0 .. MaxInstances
  BY BrowserAssumption DEF AuthenticateArrives, BrowserInv, TypeOK
<1>3. Settled(br) \in Controllers
  BY <1>2, SettledFields, Zenon
<1>4. CASE cookie' = TRUE /\ StartRefresh([Settled(br) EXCEPT !.identity = instance]) /\ stored' = Cleared(ok)
  <2>1. PICK b : b = [Settled(br) EXCEPT !.identity = instance]
    BY ZenonT(30)
  <2>2. b \in Controllers
    BY <1>2, <1>3, <2>1, ZenonT(30) DEF Controllers
  <2>3. /\ b.busy = FALSE /\ b.abort = FALSE /\ b.answer = NoAnswer /\ b.events = br.events
        /\ b.last = br.last /\ b.force = br.force
    BY <1>2, <1>3, <2>1, SettledFields, Zenon DEF Controllers
  <2>4. StartRefresh(b) /\ (stored' = NoRecord \/ stored' = stored)
    BY <1>4, <2>1, Zenon DEF Cleared
  <2> QED
    BY <1>2, <1>4, <2>2, <2>3, <2>4, RefreshKeeps, Zenon
<1>5. CASE cookie' = TRUE /\ Resync(Settled(br), ok)
  <2>1. PICK b : b = [Settled(br) EXCEPT !.force = TRUE]
    BY ZenonT(30)
  <2>2. b \in Controllers
    BY <2>1, <1>3, ZenonT(30) DEF Controllers
  <2>3. /\ b.busy = FALSE /\ b.abort = FALSE /\ b.answer = NoAnswer /\ b.events = br.events
        /\ b.last = br.last /\ b.force = TRUE
    BY <1>2, <1>3, <2>1, SettledFields, Zenon DEF Controllers
  <2>4. StartRefresh(b) /\ (stored' = NoRecord \/ stored' = stored)
    BY <1>5, <2>1, Zenon DEF Resync, Cleared
  <2> QED
    BY <1>2, <1>5, <2>2, <2>3, <2>4, RefreshKeeps, Zenon
<1>6. CASE EnterBootstrap(Settled(br), ok) /\ UNCHANGED cookie
  BY <1>2, <1>6, SettledFields, BootstrapKeeps, ZenonT(30)
<1>7. CASE br' = Settled(br) /\ UNCHANGED <<socket, cookie, stored>>
  BY <1>2, <1>7, SettledFields, QuietKeeps, Zenon DEF server
<1> QED
  BY <1>1, <1>4, <1>5, <1>6, <1>7, ZenonT(30)

\* A request finds the session gone, or a logout succeeds.
LEMMA BootstrapSteps ==
  ASSUME BrowserInv, SessionReauth \/ LoginReauth \/ LogoutArrives
  PROVE  BrowserInv'
<1>1. cookie' \in BOOLEAN /\ running' \in BOOLEAN /\ instance' = instance /\ br.op # "idle"
  BY ZenonT(30) DEF SessionReauth, LoginReauth, LogoutArrives, BrowserInv, TypeOK, server
<1>2. \E ok \in BOOLEAN : EnterBootstrap(Settled(br), ok)
  BY ZenonT(30) DEF SessionReauth, LoginReauth, LogoutArrives
<1> QED
  BY <1>1, <1>2, SettledFields, BootstrapKeeps, ZenonT(30)

\* A call or an authentication begins, and a refresh fails.
LEMMA QuietSteps ==
  ASSUME BrowserInv, StartCall \/ StartAuthenticate \/ SessionFails
  PROVE  BrowserInv'
<1>1. br \in Controllers /\ UNCHANGED <<server, socket, stored>>
  BY Zenon DEF BrowserInv, TypeOK, StartCall, StartAuthenticate, SessionFails
<1>2. CASE StartCall \/ StartAuthenticate
  <2>1. PICK op \in {"call", "auth"} : ~br.busy /\ br' = Begun(br, op)
    BY <1>2, Zenon DEF StartCall, StartAuthenticate
  <2>2. br.op = "idle" /\ br.answer = NoAnswer
    BY <2>1, Zenon DEF BrowserInv, BusyIsExact, IdentityInv
  <2>3. br' \in Controllers
    BY <1>1, <2>1, BegunType, Zenon
  <2>4. /\ br'.socket = br.socket /\ br'.policy = br.policy /\ br'.phase = br.phase
        /\ br'.after = br.after /\ br'.highWater = br.highWater /\ br'.last = br.last
        /\ br'.identity = br.identity /\ br'.force = br.force /\ br'.events = br.events
        /\ br'.answer = NoAnswer /\ br'.op = op /\ br'.failed = br.failed /\ br'.timer = br.timer
        /\ br'.busy = TRUE /\ br'.abort = TRUE
    BY <1>1, <2>1, <2>2, SMTT(15) DEF Begun, Controllers
  <2> QED
    BY <1>1, <2>1, <2>2, <2>3, <2>4, QuietKeeps, Zenon
<1>3. CASE SessionFails
  <2>1. PICK b : b = Settled(br)
    BY Zenon
  <2>2. br.op = "session" /\ br' = [b EXCEPT !.failed = TRUE]
    BY <1>3, <2>1, Zenon DEF SessionFails
  <2>3. b \in Controllers
    BY <2>1, <2>2, SettledFields, Zenon
  <2>4. br' \in Controllers
    BY <2>2, <2>3, ZenonT(30) DEF Controllers
  <2>5. /\ br'.socket = br.socket /\ br'.policy = br.policy /\ br'.phase = br.phase
        /\ br'.after = br.after /\ br'.highWater = br.highWater /\ br'.last = br.last
        /\ br'.identity = br.identity /\ br'.force = br.force /\ br'.events = br.events
        /\ br'.answer = NoAnswer /\ br'.op = "idle" /\ br'.failed = TRUE /\ br'.busy = FALSE /\ br'.abort = FALSE
    BY <2>1, <2>2, <2>3, SettledFields, Zenon DEF Controllers
  <2> QED
    BY <1>1, <2>4, <2>5, QuietKeeps, Zenon
<1> QED
  BY <1>2, <1>3, Zenon

\* An aborted request settles, and leaves the operation that is current as busy as it was.
LEMMA LateStep ==
  ASSUME BrowserInv, LateSettles
  PROVE  BrowserInv'
<1> USE DEF BrowserInv, server, socket
<1>1. PICK late, busy : late = br.late - 1 /\ busy = (br.busy /\ br.abort)
  BY Zenon
<1>2. late \in 0 .. MaxLate
  BY <1>1, BrowserAssumption DEF LateSettles, TypeOK, Controllers
<1>3. busy \in BOOLEAN /\ busy = br.busy
  BY <1>1, Zenon DEF BusyIsExact
<1>4. br \in Controllers /\ br' = [br EXCEPT !.late = late, !.busy = busy] /\ UNCHANGED <<server, socket, stored>>
  BY <1>1, Zenon DEF LateSettles, TypeOK
<1>5. br' \in Controllers
  BY <1>2, <1>3, <1>4, ZenonT(30) DEF Controllers
<1>6. /\ br'.op = br.op /\ br'.busy = br.busy /\ br'.abort = br.abort /\ br'.answer = br.answer
      /\ br'.identity = br.identity /\ br'.last = br.last /\ br'.force = br.force /\ br'.policy = br.policy
      /\ br'.socket = br.socket /\ br'.phase = br.phase /\ br'.after = br.after /\ br'.highWater = br.highWater
      /\ br'.timer = br.timer /\ br'.events = br.events /\ br'.failed = br.failed
  BY <1>3, <1>4, ZenonT(30) DEF Controllers
<1>7. TypeOK'
  BY <1>4, <1>5, Zenon DEF TypeOK
<1>8. CursorInv' /\ IdentityInv' /\ SocketInv'
  <2>1. CursorInv'
    BY <1>4, <1>6, ZenonT(30) DEF CursorInv
  <2>2. IdentityInv' /\ SocketInv'
    BY <1>4, <1>6, ZenonT(30) DEF IdentityInv, SocketInv
  <2> QED
    BY <2>1, <2>2, Zenon
<1>9. AttendedInv' /\ BusyIsExact' /\ ShownContiguous'
  BY <1>4, <1>6, ZenonT(30) DEF AttendedInv, BusyIsExact, ShownContiguous
<1>10. StreamInv'
  BY <1>4, <1>6, StreamStays, Zenon
<1> QED
  BY <1>7, <1>8, <1>9, <1>10, Zenon

\* The server answers GET session with its own instance and newest event.
LEMMA AnsweredStep ==
  ASSUME BrowserInv, SessionAnswered
  PROVE  BrowserInv'
<1> USE DEF BrowserInv, server, socket
<1>1. PICK k \in {"error", "snapshot", "reauth"} :
        /\ br' = [br EXCEPT !.answer = [kind |-> k, instance |-> instance, high |-> high]]
        /\ k = "snapshot" => cookie
  BY Zenon DEF SessionAnswered
<1>2. PICK a : a = [kind |-> k, instance |-> instance, high |-> high]
  BY ZenonT(30)
<1>3. /\ br.op = "session" /\ UNCHANGED <<high, cookie, running, instance, wire, chan, stored>>
      /\ instance \in 0 .. MaxInstances /\ instance \in 1 .. instance
  BY BrowserAssumption DEF SessionAnswered, TypeOK
<1>4. a \in Answers /\ a.kind = k /\ a.instance = instance /\ a.high = high
  BY <1>2, <1>3, Zenon DEF Answers, TypeOK
<1>5. br' = [br EXCEPT !.answer = a]
  BY <1>1, <1>2, Zenon
<1>6. br' \in Controllers
  BY <1>4, <1>5, ZenonT(30) DEF TypeOK, Controllers
<1>7. TypeOK'
  BY <1>3, <1>6, Zenon DEF TypeOK
<1>8. CursorInv' /\ IdentityInv' /\ SocketInv' /\ AttendedInv' /\ BusyIsExact' /\ ShownContiguous'
  BY <1>1, <1>3, <1>4, <1>5, SMTT(15) DEF TypeOK, Sequence, Controllers, CursorInv, IdentityInv, AttendedInv,
     BusyIsExact, SocketInv, ShownContiguous
<1>9. br'.phase = br.phase /\ br'.last = br.last /\ br'.after = br.after /\ br'.highWater = br.highWater
  BY <1>5, ZenonT(30) DEF TypeOK, Controllers
<1>10. StreamInv'
  BY <1>3, <1>9, StreamStays, Zenon
<1> QED
  BY <1>7, <1>8, <1>10, Zenon

\* A snapshot arrives: the page keeps its events only if the stored cursor is theirs.
LEMMA ArrivesStep ==
  ASSUME BrowserInv, SessionArrives
  PROVE  BrowserInv'
<1> USE DEF BrowserInv, server, socket
<1>1. PICK a : a = br.answer
  BY Zenon
<1>2. /\ br \in Controllers /\ br.op = "session" /\ a.kind = "snapshot" /\ a.instance \in 1 .. MaxInstances
      /\ a.high \in Sequence
      /\ UNCHANGED <<high, cookie, running, instance, wire, chan>>
  BY <1>1 DEF SessionArrives, TypeOK, Controllers, Answers, CursorInv, NoAnswer
<1>3. StoredFits(a) => stored.instance = a.instance /\ stored.seq <= a.high /\ ~br.force
  BY Zenon DEF StoredFits
<1>4. PICK last \in Sequence : last = IF StoredFits(a) THEN stored.seq ELSE a.high
  BY <1>2, Zenon DEF TypeOK
<1>5. PICK events \in Seq(Sequence) : events = IF StoredFits(a) THEN br.events ELSE <<>>
  BY <1>2, Zeros, ZenonT(30) DEF Controllers
<1>6. PICK b : b = [br EXCEPT !.op = "login", !.answer = NoAnswer, !.identity = a.instance, !.last = last, !.events = events]
  BY Zenon
<1>7. PICK ok \in BOOLEAN : br' = [b EXCEPT !.force = ~ok] /\ stored' = Persisted(b, ok)
  BY <1>1, <1>4, <1>5, <1>6, ZenonT(30) DEF SessionArrives
<1>8. a.instance \in 0 .. MaxInstances
  BY <1>2
<1>9. b \in Controllers
  BY <1>2, <1>6, <1>8, NoAnswerType, ZenonT(30) DEF Controllers
<1>10. br' \in Controllers
  BY <1>7, <1>9, ZenonT(30) DEF Controllers
<1>11. b.identity = a.instance /\ b.last = last
  BY <1>2, <1>6, Zenon DEF Controllers
<1>12. /\ br'.op = "login" /\ br'.busy = br.busy /\ br'.abort = br.abort
       /\ br'.answer = NoAnswer /\ br'.identity = a.instance
       /\ br'.last = last /\ br'.events = events /\ br'.force = ~ok /\ br'.policy = br.policy
       /\ br'.socket = br.socket /\ br'.phase = br.phase /\ br'.after = br.after /\ br'.highWater = br.highWater
  BY <1>2, <1>6, <1>7, <1>9, SMTT(15) DEF Controllers
<1>13. stored' = IF ok THEN [instance |-> a.instance, seq |-> last] ELSE stored
  BY <1>7, <1>11, Zenon DEF Persisted
<1>14. stored' \in [instance : 0 .. MaxInstances, seq : Sequence]
  BY <1>8, <1>13, Zenon DEF TypeOK
<1>15. TypeOK'
  BY <1>2, <1>10, <1>14, Zenon DEF TypeOK
<1>16. a.instance \in 1 .. instance /\ (a.instance = instance => last <= high)
  <2>1. a.instance \in 1 .. instance /\ (a.instance = instance => a.high <= high)
    BY <1>1, <1>2, Zenon DEF CursorInv
  <2>2. last <= a.high /\ last \in Nat /\ a.high \in Nat /\ high \in Nat
    BY <1>2, <1>3, <1>4, BrowserAssumption DEF Sequence, TypeOK
  <2> QED
    BY <2>1, <2>2
<1>17. CursorInv'
  <2>1. /\ stored'.instance <= instance' /\ (stored'.instance = instance' => stored'.seq <= high')
        /\ br'.force \/ stored'.instance = 0 \/ br'.events = <<>> \/ stored'.seq = br'.last
    <3>1. CASE ok
      BY <1>2, <1>12, <1>13, <1>16, <3>1, SMTT(15)
    <3>2. CASE ~ok
      <4>1. stored' = stored /\ br'.force
        BY <1>12, <1>13, <3>2, Zenon
      <4> QED
        BY <1>2, <4>1, Zenon DEF CursorInv
    <3> QED
      BY <3>1, <3>2, Zenon
  <2>2. br'.answer.kind # "snapshot"
    BY <1>12 DEF NoAnswer
  <2>3. br'.identity \in 1 .. instance' /\ (br'.identity = instance' => br'.last <= high')
    BY <1>2, <1>12, <1>16, Zenon
  <2> QED
    BY <2>1, <2>2, <2>3, Zenon DEF CursorInv
<1>18. IdentityInv' /\ AttendedInv' /\ BusyIsExact'
  BY <1>1, <1>2, <1>12, SMTT(15) DEF IdentityInv, AttendedInv, BusyIsExact, NoAnswer
<1>19. SocketInv'
  BY <1>2, <1>12, Zenon DEF SocketInv
<1>20. StreamInv'
  BY <1>2, <1>12, Zenon DEF SocketInv, StreamInv
<1>21. ShownContiguous'
  <2>1. CASE StoredFits(a)
    <3>1. ~br.force /\ stored.instance # 0
      BY <1>2, <1>3, <2>1
    <3>2. br.events = <<>> \/ stored.seq = br.last
      BY <3>1, Zenon DEF CursorInv
    <3>3. br'.events = br.events /\ br'.last = stored.seq
      BY <1>4, <1>5, <1>12, <2>1, Zenon
    <3> QED
      BY <3>2, <3>3 DEF ShownContiguous
  <2>2. CASE ~StoredFits(a)
    BY <1>5, <1>12, <2>2 DEF ShownContiguous
  <2> QED
    BY <2>1, <2>2, Zenon
<1> QED
  BY <1>15, <1>17, <1>18, <1>19, <1>20, <1>21, Zenon

\* The end of a refresh: a socket is made, or the reconnect timer is set.
LEMMA LoginSteps ==
  ASSUME BrowserInv, LoginArrives \/ ConnectThrows
  PROVE  BrowserInv'
<1> USE DEF BrowserInv, server, socket
<1>1. /\ br \in Controllers /\ br.op = "login" /\ ~br.socket /\ chan = <<>> /\ wire[Conn].stage = "none"
      /\ br.identity \in 1 .. instance
      /\ UNCHANGED <<high, cookie, running, instance, wire, chan, stored>>
  BY Zenon DEF LoginArrives, ConnectThrows, TypeOK, SocketInv, CursorInv
<1>2. PICK b : b = Settled(br)
  BY Zenon
<1>3. /\ b \in Controllers /\ b.op = "idle" /\ b.busy = FALSE /\ b.abort = FALSE /\ b.answer = NoAnswer
      /\ b.socket = br.socket /\ b.phase = br.phase /\ b.last = br.last
      /\ b.identity = br.identity /\ b.force = br.force /\ b.events = br.events
  BY <1>1, <1>2, SettledFields, Zenon
<1>4. \/ br' = [b EXCEPT !.socket = TRUE, !.after = br.last, !.policy = "reconnect"]
      \/ br' = [b EXCEPT !.policy = "reconnect", !.timer = TRUE]
  BY <1>1, <1>2, <1>3, SMTT(15) DEF LoginArrives, ConnectThrows, Scheduled, Controllers, TypeOK
<1>5. br' \in Controllers
  <2>1. br.last \in Sequence
    BY <1>1, Zenon DEF Controllers
  <2>2. CASE br' = [b EXCEPT !.socket = TRUE, !.after = br.last, !.policy = "reconnect"]
    BY <1>3, <2>1, <2>2, ZenonT(30) DEF Controllers
  <2>3. CASE br' = [b EXCEPT !.policy = "reconnect", !.timer = TRUE]
    BY <1>3, <2>3, ZenonT(30) DEF Controllers
  <2> QED
    BY <1>4, <2>2, <2>3, Zenon
<1>6. TypeOK'
  BY <1>1, <1>5, Zenon DEF TypeOK
<1>7. /\ br'.op = "idle" /\ br'.busy = FALSE /\ br'.abort = FALSE
      /\ br'.answer = NoAnswer /\ br'.policy = "reconnect"
      /\ (br'.socket = TRUE /\ br'.after = br.last) \/ (br'.timer = TRUE /\ br'.socket = FALSE)
      /\ br'.phase = br.phase /\ br'.last = br.last
      /\ br'.identity = br.identity /\ br'.force = br.force /\ br'.events = br.events
  <2>1. CASE br' = [b EXCEPT !.socket = TRUE, !.after = br.last, !.policy = "reconnect"]
    BY <1>1, <1>3, <2>1, ZenonT(30) DEF Controllers
  <2>2. CASE br' = [b EXCEPT !.policy = "reconnect", !.timer = TRUE]
    BY <1>1, <1>3, <2>2, ZenonT(30) DEF Controllers
  <2> QED
    BY <1>4, <2>1, <2>2, ZenonT(30)
<1>8. CursorInv' /\ ShownContiguous'
  BY <1>1, <1>7, SMTT(15) DEF CursorInv, NoAnswer, ShownContiguous
<1>9. IdentityInv' /\ AttendedInv' /\ BusyIsExact'
  BY <1>1, <1>7, ZenonT(30) DEF IdentityInv, AttendedInv, BusyIsExact, NoAnswer
<1>10. SocketInv' /\ StreamInv'
  BY <1>1, <1>7, Zenon DEF SocketInv, StreamInv
<1> QED
  BY <1>6, <1>8, <1>9, <1>10, Zenon

\* onclose sets the reconnect timer, since no policy is terminal.
LEMMA CloseStep ==
  ASSUME BrowserInv, OnClose
  PROVE  BrowserInv'
<1> USE DEF BrowserInv
<1>1. /\ br \in Controllers /\ br.socket = TRUE /\ br.identity \in 1 .. instance
      /\ br.policy \in Policies \ {"terminal"}
      /\ UNCHANGED <<cookie, running, instance, stored>> /\ br' = Scheduled(Disconnected(br, br.policy))
  BY Zenon DEF OnClose, TypeOK, CursorInv, AttendedInv, Controllers, Policies
<1>2. PICK b : b = Disconnected(br, br.policy)
  BY Zenon
<1>3. b \in Controllers
  BY <1>1, <1>2, DisconnectedType, Zenon
<1>4. /\ b.op = br.op /\ b.busy = br.busy /\ b.abort = br.abort /\ b.socket = FALSE
      /\ b.policy = br.policy /\ b.phase = "begin"
      /\ b.identity = br.identity /\ b.answer = br.answer /\ b.events = br.events /\ b.last = br.last
      /\ b.force = br.force
  BY <1>1, <1>2, Zenon DEF Disconnected, Controllers
<1>5. br' = [b EXCEPT !.timer = TRUE]
  BY <1>1, <1>2, <1>4 DEF Scheduled, TypeOK
<1>6. br' \in Controllers
  BY <1>3, <1>5, ZenonT(30) DEF Controllers
<1>7. /\ br'.op = br.op /\ br'.busy = br.busy /\ br'.abort = br.abort /\ br'.socket = FALSE
      /\ br'.policy = br.policy /\ br'.phase = "begin"
      /\ br'.identity = br.identity /\ br'.answer = br.answer /\ br'.events = br.events /\ br'.last = br.last
      /\ br'.force = br.force /\ br'.timer = TRUE
  BY <1>3, <1>4, <1>5, Zenon DEF Controllers
<1>8. high' = high /\ chan' = <<>> /\ wire' \in [Receivers -> Wires] /\ wire'[Conn] = Unconnected
  BY UnconnectedType, BrowserAssumption, Zenon DEF OnClose, LetGo, HangUp, TypeOK
<1>9. TypeOK'
  BY <1>1, <1>6, <1>8, Zeros, Zenon DEF TypeOK
<1>10. CursorInv' /\ ShownContiguous'
  BY <1>1, <1>7, <1>8, SMTT(15) DEF CursorInv, SocketInv, ShownContiguous
<1>11. IdentityInv' /\ AttendedInv' /\ BusyIsExact'
  BY <1>1, <1>7, ZenonT(30) DEF IdentityInv, AttendedInv, BusyIsExact, SocketInv
<1>12. SocketInv' /\ StreamInv'
  BY <1>7, <1>8, SMTT(15) DEF SocketInv, StreamInv, Unconnected
<1> QED
  BY <1>9, <1>10, <1>11, <1>12, Zenon

----------------------------------------------------------------------------
\* A frame that is not the end of a broken connection finds both ends in order.
LEMMA FirstFrame ==
  ASSUME BrowserInv, chan # <<>>, Head(chan) # Lost
  PROVE  /\ br.socket /\ br.phase \in {"begin", "replay", "snapshot", "live"}
         /\ wire[Conn].stage # "none" /\ wire[Conn] \in Wires /\ InOrder(wire[Conn])
         /\ Allowed(Heard(wire[Conn]), Head(chan), high)
         /\ Head(chan).t = "begin" => Head(chan).n = wire[Conn].high
         /\ br.identity = instance /\ Head(chan) \in Frames /\ Head(chan) = chan[1]
<1> USE DEF BrowserInv
<1>1. chan \in Seq(Frames) /\ 1 \in DOMAIN chan /\ Head(chan) = chan[1] /\ chan[1] \in Frames
  BY DEF TypeOK
<1>2. chan # <<Lost>>
  BY <1>1
<1>3. wire[Conn].stage # "none"
  BY <1>2, Zenon DEF SocketInv
<1>4. InOrder(wire[Conn]) /\ br.socket /\ br.phase # "failed" /\ br.identity = instance
  BY <1>3, Zenon DEF StreamInv, SocketInv
<1>5. br.phase \in {"begin", "replay", "snapshot", "live"}
  BY <1>4, Zenon DEF TypeOK, Controllers
<1>6. Before(wire[Conn], 1) = Heard(wire[Conn])
  BY Zenon DEF Before
<1>7. /\ Allowed(Before(wire[Conn], 1), chan[1], high)
      /\ chan[1].t = "begin" => chan[1].n = wire[Conn].high
  BY <1>1, <1>4, Zenon DEF InOrder
<1>8. wire[Conn] \in Wires
  BY BrowserAssumption, Zenon DEF TypeOK
<1> QED
  BY <1>1, <1>3, <1>4, <1>5, <1>6, <1>7, <1>8, Zenon

\* The browser takes the first frame and is where the server was after it.
LEMMA FrameTaken ==
  ASSUME BrowserInv, chan # <<>>, Head(chan) # Lost, UNCHANGED <<high, wire>>, chan' = Tail(chan),
         Heard(wire[Conn])' = After(wire[Conn], Head(chan)),
         br'.phase # "begin", wire[Conn].high = br'.highWater,
         br'.phase = "replay" => br'.last <= wire[Conn].high,
         br'.phase = "snapshot" => br'.last = wire[Conn].high,
         br'.phase = "live" => br'.last >= wire[Conn].high
  PROVE  StreamInv'
<1>1. PICK w : w = wire[Conn]
  BY Zenon
<1>2. InOrder(w) /\ chan \in Seq(Frames) /\ Head(chan) = chan[1] /\ wire'[Conn] = w
  BY <1>1, FirstFrame, Zenon DEF BrowserInv, TypeOK
<1>3. /\ chan' \in Seq(Frames) /\ Len(chan') = Len(chan) - 1 /\ Len(chan) \in Nat
      /\ \A i \in 1 .. Len(chan) - 1 : chan'[i] = chan[i + 1]
  BY <1>2
<1>4. \A i \in 1 .. Len(chan) : Before(w, i)' = Before(w, i + 1)
  <2> SUFFICES ASSUME NEW i \in 1 .. Len(chan) PROVE Before(w, i)' = Before(w, i + 1)
    BY Zenon
  <2>1. CASE i = 1
    BY <1>1, <1>2, <2>1 DEF Before
  <2>2. CASE i # 1
    <3>1. chan'[i - 1] = chan[i]
      BY <1>3, <2>2
    <3> QED
      BY <1>3, <2>2, <3>1 DEF Before
  <2> QED
    BY <2>1, <2>2, Zenon
<1>5. /\ \A i \in DOMAIN chan : Allowed(Before(w, i), chan[i], high) /\ (chan[i].t = "begin" => chan[i].n = w.high)
      /\ w.stage = Before(w, Len(chan) + 1).stage /\ w.high = Before(w, Len(chan) + 1).high
      /\ w.next = Before(w, Len(chan) + 1).next /\ w.clean /\ w.high <= high
  BY <1>2, Zenon DEF InOrder
<1>6. \A i \in DOMAIN chan' :
        Allowed(Before(w, i)', chan'[i], high') /\ (chan'[i].t = "begin" => chan'[i].n = w.high)
  <2> SUFFICES ASSUME NEW i \in 1 .. Len(chan) - 1
               PROVE  Allowed(Before(w, i)', chan'[i], high') /\ (chan'[i].t = "begin" => chan'[i].n = w.high)
    BY <1>3
  <2>1. chan'[i] = chan[i + 1] /\ Before(w, i)' = Before(w, i + 1) /\ i + 1 \in DOMAIN chan
    BY <1>2, <1>3, <1>4, SMTT(30)
  <2> QED
    BY <1>5, <2>1, Zenon
<1>7. PICK n \in Nat : n = Len(chan)
  BY <1>3, ZenonT(30)
<1>8. n \in 1 .. Len(chan) /\ Len(chan') + 1 = n /\ Before(w, n)' = Before(w, n + 1)
  BY <1>2, <1>3, <1>4, <1>7
<1>9. /\ w.stage = Before(w, n)'.stage /\ w.high = Before(w, n)'.high /\ w.next = Before(w, n)'.next
  BY <1>5, <1>7, <1>8, Zenon
<1>10. /\ w.stage = Before(w, Len(chan) + 1)'.stage /\ w.high = Before(w, Len(chan) + 1)'.high
       /\ w.next = Before(w, Len(chan) + 1)'.next
  BY <1>8, <1>9, Zenon
<1>11. InOrder(w)'
  BY <1>1, <1>5, <1>6, <1>10, Zenon DEF InOrder
<1> QED
  BY <1>1, <1>2, <1>11, Zenon DEF StreamInv

\* After, frame by frame.
LEMMA AfterFrame ==
  ASSUME NEW w, NEW f
  PROVE  /\ f.t = "begin" => After(w, f) = [w EXCEPT !.stage = "replay", !.next = w.after + 1]
         /\ f.t = "event" =>
              After(w, f) = [w EXCEPT !.stage = IF f.n <= w.high THEN "replay" ELSE "live", !.next = f.n + 1]
         /\ f.t = "snapshot" => After(w, f) = [w EXCEPT !.stage = "snapshot", !.next = w.high + 1]
         /\ f.t = "end" => After(w, f) = [w EXCEPT !.stage = "live", !.next = w.high + 1]
         /\ f.t \in Codes => After(w, f) = [w EXCEPT !.stage = "error"]
         /\ f.t \in {"close", "close1012"} => After(w, f) = [w EXCEPT !.stage = "closed"]
<1>1. \A c \in {"begin", "event", "snapshot", "end", "close", "close1012"} : c \notin Codes
  BY Zenon DEF Codes, Resyncing, Fatal, Retried
<1>2. CASE f.t = "begin"
  BY <1>1, <1>2, Zenon DEF After
<1>3. CASE f.t = "event"
  BY <1>1, <1>3, Zenon DEF After
<1>4. CASE f.t = "snapshot"
  BY <1>1, <1>4, Zenon DEF After
<1>5. CASE f.t = "end"
  BY <1>1, <1>5, Zenon DEF After
<1>6. CASE f.t \in Codes
  BY <1>1, <1>6, Zenon DEF After
<1>7. CASE f.t \in {"close", "close1012"}
  BY <1>1, <1>7, Zenon DEF After
<1> QED
  BY <1>1, <1>2, <1>3, <1>4, <1>5, <1>6, <1>7, Zenon

\* The controller moves on in the stream and shows nothing new.
LEMMA PhaseKeeps ==
  ASSUME BrowserInv, br.socket, NEW ph \in {"replay", "snapshot", "live"}, NEW n \in Sequence,
         br' = [br EXCEPT !.phase = ph, !.highWater = n],
         chan # <<>>, chan' = Tail(chan), wire[Conn].stage # "none",
         UNCHANGED <<high, wire, cookie, running, instance, stored>>, StreamInv'
  PROVE  BrowserInv'
<1> USE DEF BrowserInv
<1>1. br' \in Controllers
  BY ZenonT(30) DEF TypeOK, Controllers
<1>2. chan' \in Seq(Frames)
  BY DEF TypeOK
<1>3. TypeOK'
  BY <1>1, <1>2, Zenon DEF TypeOK
<1>4. CursorInv' /\ IdentityInv' /\ SocketInv' /\ AttendedInv' /\ BusyIsExact' /\ ShownContiguous'
  BY SMTT(15) DEF TypeOK, Controllers, CursorInv, IdentityInv, AttendedInv, BusyIsExact,
                  SocketInv, ShownContiguous
<1> QED
  BY <1>3, <1>4, Zenon

\* replay_begin is in order: it is for the cursor that was sent.
LEMMA BeginStep ==
  ASSUME BrowserInv, FrameBegin
  PROVE  BrowserInv'
<1>1. chan # <<>> /\ Head(chan).t = "begin" /\ Head(chan) # Lost
  BY DEF FrameBegin, Incoming, Lost, Frame
<1>2. PICK w : w = wire[Conn]
  BY Zenon
<1>3. PICK f : f = Head(chan)
  BY Zenon
<1>4. /\ br.socket /\ w.stage # "none" /\ w \in Wires /\ InOrder(w) /\ Allowed(Heard(w), f, high) /\ f.n = w.high
      /\ f \in Frames /\ br \in Controllers /\ f.t = "begin"
  BY <1>1, <1>2, <1>3, FirstFrame, Zenon DEF BrowserInv, TypeOK
<1>5. Heard(w).stage = "asked" /\ Heard(w).same /\ f.n \in Heard(w).after .. high
  BY <1>4, Zenon DEF Allowed, Reportable, Codes, Resyncing, Fatal, Retried
<1>6. br.phase = "begin" /\ w.same
  BY <1>4, <1>5, Zenon DEF Heard, Wires, Controllers
<1>7. Heard(w).after = w.after /\ w.after = br.after /\ br.after = br.last
  BY <1>4, <1>6, Zenon DEF Heard, Wires, InOrder, BrowserInv, SocketInv
<1>8. f.n >= br.after
  BY <1>4, <1>5, <1>7 DEF Wires, Sequence
<1>9. /\ br' = [br EXCEPT !.phase = "replay", !.highWater = f.n] /\ chan' = Tail(chan)
      /\ UNCHANGED <<high, wire, cookie, running, instance, stored>>
  BY <1>3, <1>6, <1>8, Zenon DEF FrameBegin, Accepts
<1>10. br'.phase = "replay" /\ br'.highWater = f.n /\ br'.last = br.last
  BY <1>4, <1>9, Zenon DEF Controllers
<1>11. After(w, f) = [w EXCEPT !.stage = "replay", !.next = w.after + 1]
  BY <1>4, AfterFrame, ZenonT(30)
<1>12. Heard(w)' = [w EXCEPT !.stage = "replay", !.next = br.last + 1]
  BY <1>10, Zenon DEF Heard
<1>13. StreamInv'
  <2>1. Heard(w)' = After(w, f)
    BY <1>7, <1>11, <1>12, ZenonT(30)
  <2>2. br.last <= w.high
    BY <1>4, <1>7, <1>8, Zenon DEF Controllers, Wires, Sequence
  <2> QED
    BY <1>1, <1>2, <1>3, <1>4, <1>9, <1>10, <2>1, <2>2, FrameTaken, Zenon
<1>14. f.n \in Sequence
  BY <1>4, Zenon DEF Frames
<1> QED
  BY <1>1, <1>2, <1>4, <1>9, <1>13, <1>14, PhaseKeeps, ZenonT(30)

\* The snapshot comes when every event up to the high water was shown.
LEMMA SnapshotStep ==
  ASSUME BrowserInv, FrameSnapshot
  PROVE  BrowserInv'
<1>1. chan # <<>> /\ Head(chan).t = "snapshot" /\ Head(chan) # Lost
  BY DEF FrameSnapshot, Incoming, Lost, Frame
<1>2. PICK w : w = wire[Conn]
  BY Zenon
<1>3. PICK f : f = Head(chan)
  BY Zenon
<1>4. /\ br.socket /\ w.stage # "none" /\ w \in Wires /\ InOrder(w) /\ Allowed(Heard(w), f, high)
      /\ f \in Frames /\ br \in Controllers /\ f.t = "snapshot"
  BY <1>1, <1>2, <1>3, FirstFrame, Zenon DEF BrowserInv, TypeOK
<1>5. Heard(w).stage = "replay" /\ f.n = Heard(w).high /\ Heard(w).next = Heard(w).high + 1
  BY <1>4, Zenon DEF Allowed, Reportable, Codes, Resyncing, Fatal, Retried
<1>6. br.phase = "replay"
  BY <1>4, <1>5, Zenon DEF Heard, Wires, Controllers
<1>7. Heard(w).high = w.high /\ Heard(w).next = br.last + 1 /\ w.high = br.highWater
  BY <1>4, <1>6, Zenon DEF Heard, Wires, InOrder
<1>8. f.n = br.highWater /\ br.last = br.highWater
  BY <1>4, <1>5, <1>7 DEF Controllers, Sequence
<1>9. /\ br' = [br EXCEPT !.phase = "snapshot"] /\ chan' = Tail(chan)
      /\ UNCHANGED <<high, wire, cookie, running, instance, stored>>
  BY <1>3, <1>6, <1>8, Zenon DEF FrameSnapshot, Accepts
<1>10. br'.phase = "snapshot" /\ br'.highWater = br.highWater /\ br'.last = br.last
  BY <1>4, <1>9, Zenon DEF Controllers
<1>11. After(w, f) = [w EXCEPT !.stage = "snapshot", !.next = w.high + 1]
  BY <1>4, AfterFrame, ZenonT(30)
<1>12. Heard(w)' = [w EXCEPT !.stage = "snapshot", !.next = br.last + 1]
  BY <1>10, Zenon DEF Heard
<1>13. StreamInv'
  <2>1. Heard(w)' = After(w, f)
    BY <1>7, <1>8, <1>11, <1>12, Zenon
  <2> QED
    BY <1>1, <1>2, <1>3, <1>4, <1>7, <1>8, <1>9, <1>10, <2>1, FrameTaken, Zenon
<1>14. br.highWater \in Sequence /\ br' = [br EXCEPT !.phase = "snapshot", !.highWater = br.highWater]
  BY <1>4, <1>9, ZenonT(30) DEF Controllers
<1> QED
  BY <1>1, <1>2, <1>4, <1>9, <1>13, <1>14, PhaseKeeps, ZenonT(30)

\* replay_end follows the snapshot.
LEMMA EndStep ==
  ASSUME BrowserInv, FrameEnd
  PROVE  BrowserInv'
<1>1. chan # <<>> /\ Head(chan).t = "end" /\ Head(chan) # Lost
  BY DEF FrameEnd, Incoming, Lost, Frame
<1>2. PICK w : w = wire[Conn]
  BY Zenon
<1>3. PICK f : f = Head(chan)
  BY Zenon
<1>4. /\ br.socket /\ w.stage # "none" /\ w \in Wires /\ InOrder(w) /\ Allowed(Heard(w), f, high)
      /\ f \in Frames /\ br \in Controllers /\ f.t = "end"
  BY <1>1, <1>2, <1>3, FirstFrame, Zenon DEF BrowserInv, TypeOK
<1>5. Heard(w).stage = "snapshot" /\ f.n = Heard(w).high
  BY <1>4, Zenon DEF Allowed, Reportable, Codes, Resyncing, Fatal, Retried
<1>6. br.phase = "snapshot"
  BY <1>4, <1>5, Zenon DEF Heard, Wires, Controllers
<1>7. Heard(w).high = w.high /\ w.high = br.highWater /\ br.last = w.high
  BY <1>4, <1>6, Zenon DEF Heard, Wires, InOrder
<1>8. /\ br' = [br EXCEPT !.phase = "live"] /\ chan' = Tail(chan)
      /\ UNCHANGED <<high, wire, cookie, running, instance, stored>>
  BY <1>3, <1>5, <1>6, <1>7, Zenon DEF FrameEnd, Accepts
<1>9. br'.phase = "live" /\ br'.highWater = br.highWater /\ br'.last = br.last
  BY <1>4, <1>8, Zenon DEF Controllers
<1>10. After(w, f) = [w EXCEPT !.stage = "live", !.next = w.high + 1]
  BY <1>4, AfterFrame, ZenonT(30)
<1>11. Heard(w)' = [w EXCEPT !.stage = "live", !.next = br.last + 1]
  BY <1>9, Zenon DEF Heard
<1>12. StreamInv'
  <2>1. Heard(w)' = After(w, f)
    BY <1>7, <1>10, <1>11, Zenon
  <2>2. br.last >= w.high
    BY <1>4, <1>7 DEF Wires, Sequence
  <2> QED
    BY <1>1, <1>2, <1>3, <1>4, <1>7, <1>8, <1>9, <2>1, <2>2, FrameTaken, Zenon
<1>13. br.highWater \in Sequence /\ br' = [br EXCEPT !.phase = "live", !.highWater = br.highWater]
  BY <1>4, <1>8, ZenonT(30) DEF Controllers
<1> QED
  BY <1>1, <1>2, <1>4, <1>8, <1>12, <1>13, PhaseKeeps, ZenonT(30)

\* An event is the next one, neither a duplicate nor behind a gap, and is shown and stored.
LEMMA EventStep ==
  ASSUME BrowserInv, FrameEvent
  PROVE  BrowserInv'
<1> USE DEF BrowserInv
<1>1. chan # <<>> /\ Head(chan).t = "event" /\ Head(chan) # Lost
  BY DEF FrameEvent, Incoming, Lost, Frame
<1>2. PICK w : w = wire[Conn]
  BY Zenon
<1>3. PICK f : f = Head(chan)
  BY Zenon
<1>4. /\ br.socket /\ w.stage # "none" /\ w \in Wires /\ InOrder(w) /\ Allowed(Heard(w), f, high)
      /\ f \in Frames /\ br \in Controllers /\ f.t = "event" /\ br.identity = instance /\ high \in Sequence
  BY <1>1, <1>2, <1>3, FirstFrame, Zenon DEF TypeOK
<1>5. /\ Heard(w).stage \in {"replay", "live"} /\ f.n = Heard(w).next
      /\ Heard(w).stage = "replay" => f.n <= Heard(w).high
      /\ Heard(w).stage = "live" => f.n <= high
  BY <1>4, Zenon DEF Allowed, Reportable, Codes, Resyncing, Fatal, Retried
<1>6. br.phase \in {"replay", "live"} /\ Heard(w).stage = br.phase
  BY <1>4, <1>5, Zenon DEF Heard, Wires, Controllers
<1>7. Heard(w).high = w.high /\ Heard(w).next = br.last + 1 /\ w.high = br.highWater /\ w.high <= high
  BY <1>4, <1>6, Zenon DEF Heard, Wires, InOrder
<1>8. /\ f.n = br.last + 1 /\ f.n \in Sequence /\ br.last \in Nat /\ w.high \in Nat /\ high \in Nat /\ f.n \in Nat
  BY <1>4, <1>5, <1>7, BrowserAssumption DEF Controllers, Wires, Sequence, Frames
<1>9. /\ br.phase = "replay" => f.n <= w.high
      /\ br.phase = "live" => f.n > w.high
      /\ f.n <= high
  <2>1. br.phase = "live" => br.last >= w.high
    BY <1>4, Zenon DEF InOrder
  <2> QED
    BY <1>5, <1>6, <1>7, <1>8, <2>1, SMTT(30)
<1>10. InPlace(f.n)
  BY <1>6, <1>7, <1>9, Zenon DEF InPlace
<1>11. ~(f.n <= br.last) /\ ~(f.n > br.last + 1)
  BY <1>8, SMTT(30)
<1>12. PICK ok \in BOOLEAN :
         /\ br' = [[br EXCEPT !.last = f.n, !.events = Append(br.events, f.n)] EXCEPT !.force = br.force \/ ~ok]
         /\ stored' = Persisted([br EXCEPT !.last = f.n, !.events = Append(br.events, f.n)], ok)
         /\ chan' = Tail(chan) /\ UNCHANGED <<server, wire>>
  BY <1>3, <1>4, <1>8, <1>10, <1>11, ZenonT(30) DEF FrameEvent, Controllers
<1>13. PICK b : b = [br EXCEPT !.last = f.n, !.events = Append(br.events, f.n)]
  BY Zenon
<1>14. br.events \in Seq(Sequence) /\ Append(br.events, f.n) \in Seq(Sequence)
  BY <1>4, <1>8 DEF Controllers
<1>15. b \in Controllers
  BY <1>4, <1>8, <1>13, <1>14, ZenonT(30) DEF Controllers
<1>16. br' = [b EXCEPT !.force = br.force \/ ~ok] /\ stored' = Persisted(b, ok)
  BY <1>12, <1>13, Zenon
<1>17. br' \in Controllers
  BY <1>15, <1>16, ZenonT(30) DEF Controllers
<1>18. /\ b.op = br.op /\ b.busy = br.busy /\ b.abort = br.abort /\ b.socket = br.socket
       /\ b.policy = br.policy /\ b.phase = br.phase
       /\ b.identity = br.identity /\ b.answer = br.answer /\ b.highWater = br.highWater /\ b.after = br.after
       /\ b.timer = br.timer /\ b.failed = br.failed /\ b.last = f.n /\ b.events = Append(br.events, f.n)
  <2>1. PICK events : events = Append(br.events, f.n)
    BY ZenonT(30)
  <2>2. b = [br EXCEPT !.last = f.n, !.events = events]
    BY <1>13, <2>1, Zenon
  <2>3. /\ b.op = br.op /\ b.busy = br.busy /\ b.abort = br.abort /\ b.socket = br.socket
        /\ b.policy = br.policy /\ b.phase = br.phase
        /\ b.identity = br.identity /\ b.answer = br.answer /\ b.highWater = br.highWater /\ b.after = br.after
        /\ b.timer = br.timer /\ b.failed = br.failed /\ b.last = f.n /\ b.events = events
    BY <1>4, <2>2, ZenonT(30) DEF Controllers
  <2> QED
    BY <2>1, <2>3, Zenon
<1>19. /\ br'.op = br.op /\ br'.busy = br.busy /\ br'.abort = br.abort /\ br'.socket = br.socket
       /\ br'.policy = br.policy /\ br'.phase = br.phase
       /\ br'.identity = br.identity /\ br'.answer = br.answer /\ br'.highWater = br.highWater
       /\ br'.timer = br.timer /\ br'.failed = br.failed /\ br'.last = f.n /\ br'.events = Append(br.events, f.n)
  BY <1>15, <1>16, <1>18, Zenon DEF Controllers
<1>20. br'.force \/ ok
  BY <1>15, <1>16, ZenonT(30) DEF Controllers
<1>21. stored' = IF ok THEN [instance |-> instance, seq |-> f.n] ELSE stored
  BY <1>4, <1>16, <1>18, Zenon DEF Persisted
<1>22. chan' \in Seq(Frames) /\ UNCHANGED <<high, wire, cookie, running, instance>>
  BY <1>1, <1>12 DEF TypeOK, server
<1>23. instance \in 0 .. MaxInstances /\ instance \in 1 .. instance
  BY BrowserAssumption DEF TypeOK
<1>24. stored' \in [instance : 0 .. MaxInstances, seq : Sequence]
  BY <1>8, <1>21, <1>23, Zenon DEF TypeOK
<1>25. TypeOK'
  BY <1>17, <1>22, <1>24, Zenon DEF TypeOK
<1>26. CursorInv'
  <2>1. stored'.instance <= instance' /\ (stored'.instance = instance' => stored'.seq <= high')
    BY <1>9, <1>21, <1>22, <1>23, SMTT(30) DEF CursorInv
  <2>2. br'.answer.kind = "snapshot" =>
          br'.answer.instance \in 1 .. instance' /\ (br'.answer.instance = instance' => br'.answer.high <= high')
    BY <1>19, <1>22, Zenon DEF CursorInv
  <2>3. br'.identity \in 1 .. instance' /\ br'.last <= high'
    BY <1>4, <1>9, <1>19, <1>22, <1>23, Zenon
  <2>4. br'.force \/ stored'.seq = br'.last
    BY <1>19, <1>20, <1>21, Zenon
  <2> QED
    BY <2>1, <2>2, <2>3, <2>4, Zenon DEF CursorInv
<1>27. IdentityInv' /\ AttendedInv' /\ BusyIsExact'
  BY <1>19, <1>22, Zenon DEF IdentityInv, AttendedInv, BusyIsExact
<1>28. SocketInv'
  BY <1>2, <1>4, <1>6, <1>19, <1>22, Zenon DEF SocketInv
<1>29. ShownContiguous'
  <2>1. PICK old \in Seq(Sequence) : old = br.events
    BY <1>14, Zenon
  <2>2. /\ Len(old) \in Nat /\ Len(br'.events) = Len(old) + 1 /\ DOMAIN br'.events = 1 .. Len(old) + 1
        /\ br'.events[Len(old) + 1] = f.n
        /\ \A i \in 1 .. Len(old) : br'.events[i] = old[i]
    BY <1>8, <1>19, <2>1
  <2>3. \A i \in 1 .. Len(old) : old[i] = br.last - Len(old) + i
    BY <2>1 DEF ShownContiguous
  <2> SUFFICES ASSUME NEW i \in 1 .. Len(old) + 1
               PROVE  br'.events[i] = f.n - (Len(old) + 1) + i
    BY <1>19, <2>2, Zenon DEF ShownContiguous
  <2>4. CASE i = Len(old) + 1
    BY <1>8, <2>2, <2>4
  <2>5. CASE i \in 1 .. Len(old)
    BY <1>8, <2>2, <2>3, <2>5
  <2> QED
    BY <2>2, <2>4, <2>5
<1>30. After(w, f) = [w EXCEPT !.stage = br.phase, !.next = f.n + 1]
  <2>1. After(w, f) = [w EXCEPT !.stage = IF f.n <= w.high THEN "replay" ELSE "live", !.next = f.n + 1]
    BY <1>4, AfterFrame, ZenonT(30)
  <2>2. (IF f.n <= w.high THEN "replay" ELSE "live") = br.phase
    BY <1>6, <1>8, <1>9
  <2> QED
    BY <2>1, <2>2, ZenonT(30)
<1>31. Heard(w)' = [w EXCEPT !.stage = br.phase, !.next = f.n + 1]
  BY <1>6, <1>19, Zenon DEF Heard
<1>32. StreamInv'
  <2>1. Heard(w)' = After(w, f)
    BY <1>30, <1>31, Zenon
  <2>2. /\ br'.phase # "begin" /\ w.high = br'.highWater /\ br'.phase # "snapshot"
        /\ br'.phase = "replay" => br'.last <= w.high
        /\ br'.phase = "live" => br'.last >= w.high
    BY <1>6, <1>7, <1>8, <1>9, <1>19
  <2> QED
    BY <1>1, <1>2, <1>3, <1>12, <1>22, <2>1, <2>2, FrameTaken, Zenon
<1> QED
  BY <1>25, <1>26, <1>27, <1>28, <1>29, <1>32, Zenon

\* No error frame is fatal: the browser sent nothing but its subscribe.
LEMMA ErrorStep ==
  ASSUME BrowserInv, FrameError
  PROVE  BrowserInv'
<1>1. PICK ok \in BOOLEAN :
       \/ Incoming({"authentication_expired"}) /\ (br.abort => br.late < MaxLate) /\ EnterBootstrap(br, ok)
       \/ /\ Incoming(Resyncing) /\ StreamFailure([br EXCEPT !.force = TRUE], "refresh")
          /\ stored' = Cleared(ok)
       \/ Incoming(Fatal) /\ StreamFailure(br, "terminal") /\ UNCHANGED stored
       \/ Incoming(Retried) /\ StreamFailure(br, "refresh") /\ UNCHANGED stored
  BY Zenon DEF FrameError
<1>2. /\ UNCHANGED <<cookie, running, instance>> /\ cookie \in BOOLEAN /\ running \in BOOLEAN /\ br \in Controllers
  BY Zenon DEF FrameError, BrowserInv, TypeOK
<1>3. CASE (br.abort => br.late < MaxLate) /\ EnterBootstrap(br, ok)
  BY <1>2, <1>3, BootstrapKeeps, ZenonT(30)
<1>4. ASSUME ~((br.abort => br.late < MaxLate) /\ EnterBootstrap(br, ok)) PROVE BrowserInv'
  <2>1. chan # <<>> /\ Head(chan).t \in Codes /\ Head(chan) # Lost
    BY <1>1, <1>4 DEF Incoming, Codes, Resyncing, Fatal, Retried, Lost, Frame
  <2>2. /\ br.socket /\ wire[Conn] \in Wires /\ wire[Conn].clean /\ Allowed(Heard(wire[Conn]), Head(chan), high)
    BY <2>1, FirstFrame, Zenon DEF InOrder
  <2>3. Heard(wire[Conn]).clean
    BY <2>2, Zenon DEF Heard, Wires
  <2>4. Head(chan).t \notin Fatal
    BY <2>1, <2>2, <2>3, Zenon DEF Allowed, Reportable, Codes, Resyncing, Fatal, Retried
  <2>5. CASE StreamFailure([br EXCEPT !.force = TRUE], "refresh") /\ stored' = Cleared(ok)
    <3>1. PICK b : b = [br EXCEPT !.force = TRUE]
      BY ZenonT(30)
    <3>2. b \in Controllers
      BY <1>2, <3>1, ZenonT(30) DEF Controllers
    <3>3. b.force
      BY <1>2, <3>1, ZenonT(30) DEF Controllers
    <3>4. stored' = stored \/ stored' = NoRecord
      BY <2>5, Zenon DEF Cleared
    <3> QED
      BY <1>2, <2>2, <2>5, <3>1, <3>2, <3>3, <3>4, FailureKeeps, ZenonT(30)
  <2>6. CASE StreamFailure(br, "refresh") /\ UNCHANGED stored
    BY <1>2, <2>2, <2>6, FailureKeeps, Zenon
  <2> QED
    BY <1>1, <1>4, <2>4, <2>5, <2>6, Zenon DEF Incoming
<1> QED
  BY <1>3, <1>4, Zenon

----------------------------------------------------------------------------
\* The controller and its cursor stay; the connection, while there is one, stays in order.
LEMMA ServerKeeps ==
  ASSUME BrowserInv, UNCHANGED <<br, stored, instance>>, running' \in BOOLEAN, cookie' \in BOOLEAN,
         cookie' => cookie, high' \in Sequence, high' >= high,
         wire' \in [Receivers -> Wires], chan' \in Seq(Frames),
         ~br.socket \/ br.phase = "failed" => chan' = <<>> /\ wire'[Conn].stage = "none",
         wire'[Conn].stage = "none" => chan' \in {<<>>, <<Lost>>},
         wire'[Conn].stage # "none" => br.identity = instance,
         StreamInv'
  PROVE  BrowserInv'
<1> USE DEF BrowserInv
<1>1. TypeOK'
  BY Zenon DEF TypeOK
<1>2. CursorInv'
  <2>1. \A n \in Sequence : n <= high => n <= high'
    BY BrowserAssumption DEF TypeOK, Sequence
  <2>2. /\ stored.seq \in Sequence /\ br.last \in Sequence /\ br.answer.high \in Sequence
    BY Zenon DEF TypeOK, Controllers, Answers
  <2> QED
    BY <2>1, <2>2, Zenon DEF CursorInv
<1>3. IdentityInv' /\ AttendedInv' /\ BusyIsExact' /\ ShownContiguous'
  BY Zenon DEF IdentityInv, AttendedInv, BusyIsExact, ShownContiguous
<1>4. SocketInv'
  BY Zenon DEF SocketInv
<1> QED
  BY <1>1, <1>2, <1>3, <1>4, Zenon

\* The session expires, or a drain begins.
LEMMA FlagSteps ==
  ASSUME BrowserInv, Expires \/ DrainBegins
  PROVE  BrowserInv'
<1>1. /\ UNCHANGED <<br, stored, instance, high, wire, chan>> /\ running' \in BOOLEAN /\ cookie' \in BOOLEAN
      /\ cookie' => cookie
  <2>1. CASE Expires
    BY <2>1, ZenonT(30) DEF Expires, BrowserInv, TypeOK, socket
  <2>2. CASE DrainBegins
    BY <2>2, ZenonT(30) DEF DrainBegins, BrowserInv, TypeOK, socket
  <2> QED
    BY <2>1, <2>2, Zenon
<1>2. StreamInv'
  BY <1>1, StreamStays, Zenon DEF BrowserInv
<1>3. high \in Sequence /\ high >= high /\ wire \in [Receivers -> Wires] /\ chan \in Seq(Frames)
  BY BrowserAssumption DEF BrowserInv, TypeOK, Sequence
<1> QED
  BY <1>1, <1>2, <1>3, ServerKeeps, Zenon DEF BrowserInv, SocketInv

\* A frame that may be written may be written after further events.
LEMMA AllowedLater ==
  ASSUME NEW w \in Wires, NEW f, NEW m \in Nat, NEW n \in Nat, m <= n, f.n \in Nat, Allowed(w, f, m)
  PROVE  Allowed(w, f, n)
<1>1. w.after \in Nat /\ w.next \in Nat /\ w.high \in Nat
  BY BrowserAssumption DEF Wires, Sequence
<1>2. Reportable(w, f.t, m) => Reportable(w, f.t, n)
  BY <1>1 DEF Reportable
<1> QED
  BY <1>1, <1>2 DEF Allowed

\* The connection at each frame is one.
LEMMA BeforeType ==
  ASSUME BrowserInv, NEW w \in Wires, br.phase # "failed", NEW i \in 1 .. Len(chan) + 1
  PROVE  Before(w, i) \in Wires
<1> USE DEF BrowserInv
<1>1. br \in Controllers /\ chan \in Seq(Frames) /\ br.last + 1 \in 0 .. MaxSeq + 1 /\ w.high + 1 \in 0 .. MaxSeq + 1
      /\ w.after + 1 \in 0 .. MaxSeq + 1 /\ 0 \in 0 .. MaxSeq + 1
  <2>1. br \in Controllers /\ chan \in Seq(Frames)
    BY Zenon DEF TypeOK
  <2>2. br.last \in Sequence /\ w.high \in Sequence /\ w.after \in Sequence
    BY <2>1, Zenon DEF Controllers, Wires
  <2> QED
    BY <2>1, <2>2, BrowserAssumption, SMTT(30) DEF Sequence
<1>2. Heard(w) \in Wires
  <2>1. CASE br.phase = "begin"
    BY <1>1, <2>1, Zeros, ZenonT(30) DEF Heard, Wires
  <2>2. CASE br.phase \in {"replay", "snapshot", "live"}
    BY <1>1, <2>2, Zeros, ZenonT(30) DEF Heard, Wires
  <2> QED
    BY <1>1, <2>1, <2>2, Zenon DEF Controllers
<1>3. CASE i = 1
  BY <1>2, <1>3, Zenon DEF Before
<1>4. CASE i # 1
  <2>1. PICK f \in Frames : f = chan[i - 1]
    BY <1>1, <1>4
  <2>2. f.n + 1 \in 0 .. MaxSeq + 1
    BY BrowserAssumption DEF Frames, Sequence
  <2>3. After(w, f) \in Wires
    <3>1. CASE f.t = "begin"
      <4>1. After(w, f) = [w EXCEPT !.stage = "replay", !.next = w.after + 1]
        BY <3>1, AfterFrame, ZenonT(30)
      <4> QED
        BY <1>1, <4>1, ZenonT(30) DEF Wires
    <3>2. CASE f.t = "event"
      <4>1. PICK st \in {"replay", "live"} : After(w, f) = [w EXCEPT !.stage = st, !.next = f.n + 1]
        BY <3>2, AfterFrame, ZenonT(30)
      <4> QED
        BY <2>2, <4>1, ZenonT(30) DEF Wires
    <3>3. CASE f.t = "snapshot"
      <4>1. After(w, f) = [w EXCEPT !.stage = "snapshot", !.next = w.high + 1]
        BY <3>3, AfterFrame, ZenonT(30)
      <4> QED
        BY <1>1, <4>1, ZenonT(30) DEF Wires
    <3>4. CASE f.t = "end"
      <4>1. After(w, f) = [w EXCEPT !.stage = "live", !.next = w.high + 1]
        BY <3>4, AfterFrame, ZenonT(30)
      <4> QED
        BY <1>1, <4>1, ZenonT(30) DEF Wires
    <3>5. CASE f.t \in Codes
      <4>1. After(w, f) = [w EXCEPT !.stage = "error"]
        BY <3>5, AfterFrame, ZenonT(30)
      <4> QED
        BY <4>1, ZenonT(30) DEF Wires
    <3>6. CASE f.t \in {"close", "close1012"}
      <4>1. After(w, f) = [w EXCEPT !.stage = "closed"]
        BY <3>6, AfterFrame, ZenonT(30)
      <4> QED
        BY <4>1, ZenonT(30) DEF Wires
    <3>7. CASE f.t = "lost"
      <4>1. After(w, f) = [w EXCEPT !.stage = "closed"]
        BY <3>7, Zenon DEF After, Codes, Resyncing, Fatal, Retried
      <4> QED
        BY <4>1, ZenonT(30) DEF Wires
    <3> QED
      BY <3>1, <3>2, <3>3, <3>4, <3>5, <3>6, <3>7, Zenon DEF Frames, FrameTypes
  <2> QED
    BY <1>4, <2>1, <2>3, Zenon DEF Before
<1> QED
  BY <1>3, <1>4, Zenon

\* A new event.
LEMMA PublishStep ==
  ASSUME BrowserInv, Publishes
  PROVE  BrowserInv'
<1>1. /\ UNCHANGED <<br, stored, instance, wire, chan, running, cookie>>
      /\ high \in Nat /\ high' = high + 1 /\ high' \in Sequence /\ high' >= high
      /\ wire \in [Receivers -> Wires] /\ chan \in Seq(Frames) /\ running \in BOOLEAN /\ cookie \in BOOLEAN
  BY BrowserAssumption DEF Publishes, Publish, BrowserInv, TypeOK, Sequence
<1>2. StreamInv'
  <2> SUFFICES ASSUME wire[Conn].stage # "none" PROVE InOrder(wire[Conn])'
    BY <1>1, Zenon DEF StreamInv
  <2>1. PICK w : w = wire[Conn]
    BY Zenon
  <2>2. InOrder(w) /\ w \in Wires /\ wire'[Conn] = w /\ br.phase # "failed"
    BY <1>1, <2>1, BrowserAssumption, Zenon DEF BrowserInv, StreamInv, SocketInv
  <2>3. \A i : Before(w, i)' = Before(w, i)
    BY <1>1, Zenon DEF Before, Heard
  <2>4. ASSUME NEW i \in DOMAIN chan PROVE Allowed(Before(w, i), chan[i], high + 1)
    <3>1. Before(w, i) \in Wires /\ Allowed(Before(w, i), chan[i], high)
      BY <1>1, <2>2, BeforeType DEF InOrder
    <3>2. chan[i].n \in Nat
      <4>1. chan[i] \in Frames
        BY <1>1
      <4> QED
        BY <4>1, BrowserAssumption DEF Frames, Sequence
    <3> QED
      BY <1>1, <3>1, <3>2, AllowedLater
  <2>5. w.high <= high + 1
    BY <1>1, <2>2, BrowserAssumption, SMTT(30) DEF InOrder, Wires, Sequence
  <2>6. InOrder(w)'
    BY <1>1, <2>2, <2>3, <2>4, <2>5, ZenonT(30) DEF InOrder
  <2> QED
    BY <2>1, <2>2, <2>6, Zenon
<1> QED
  BY <1>1, <1>2, ServerKeeps, Zenon DEF BrowserInv, SocketInv

\* The connection breaks.
LEMMA BreakStep ==
  ASSUME BrowserInv, Breaks
  PROVE  BrowserInv'
<1>1. /\ UNCHANGED <<br, stored, instance, high, running, cookie>> /\ running \in BOOLEAN /\ cookie \in BOOLEAN
      /\ high \in Sequence /\ high >= high /\ wire[Conn].stage # "none"
  BY BrowserAssumption DEF Breaks, HangUp, BrowserInv, TypeOK, Sequence
<1>2. /\ wire' \in [Receivers -> Wires] /\ wire'[Conn].stage = "none" /\ chan' = <<Lost>> /\ chan' \in Seq(Frames)
  BY UnconnectedType, LostType, BrowserAssumption DEF Breaks, HangUp, BrowserInv, TypeOK, Unconnected
<1>3. br.socket /\ br.phase # "failed"
  BY <1>1, Zenon DEF BrowserInv, SocketInv
<1>4. StreamInv'
  BY <1>2, Zenon DEF StreamInv
<1> QED
  BY <1>1, <1>2, <1>3, <1>4, ServerKeeps, Zenon

\* The upgrade: a valid cookie is one of the running process, so the page is.
LEMMA UpgradeStep ==
  ASSUME BrowserInv, Upgraded
  PROVE  BrowserInv'
<1>1. /\ UNCHANGED <<br, stored, instance, high, running, cookie>> /\ running \in BOOLEAN /\ cookie \in BOOLEAN
      /\ high \in Sequence /\ high >= high /\ br.socket /\ br.phase = "begin" /\ chan = <<>>
      /\ wire \in [Receivers -> Wires] /\ wire[Conn].stage = "none"
  BY BrowserAssumption DEF Upgraded, Connect, BrowserInv, TypeOK, Sequence
<1>2. CASE running /\ cookie
  <2>1. wire' = [wire EXCEPT ![Conn] = Connected] /\ chan' = <<>>
    BY <1>1, <1>2, Zenon DEF Upgraded, Connect
  <2>2. wire' \in [Receivers -> Wires] /\ wire'[Conn] = Connected
    BY <1>1, <2>1, UnconnectedType, BrowserAssumption, Zenon
  <2>3. PICK w : w = Connected
    BY Zenon
  <2>4. w.stage = "open" /\ w.clean /\ w.same = FALSE /\ w.high = 0 /\ w.next = 0 /\ w \in Wires
    BY <2>3, UnconnectedType, Zenon DEF Connected, Unconnected
  <2>5. br.identity = instance
    BY <1>1, <1>2, Zenon DEF BrowserInv, IdentityInv
  <2>6. Heard(w)'.stage = "open" /\ Heard(w)'.high = 0 /\ Heard(w)'.next = 0
    BY <1>1, <2>4, Zenon DEF Heard, Wires
  <2>7. Before(w, 1)' = Heard(w)'
    BY Zenon DEF Before
  <2>8. InOrder(w)'
    BY <1>1, <2>1, <2>4, <2>6, <2>7, BrowserAssumption DEF InOrder, Sequence
  <2>9. StreamInv'
    BY <2>2, <2>3, <2>8, Zenon DEF StreamInv
  <2> QED
    BY <1>1, <2>1, <2>2, <2>3, <2>4, <2>5, <2>9, Zeros, ServerKeeps, Zenon
<1>3. CASE ~(running /\ cookie)
  <2>1. wire' = wire /\ chan' = <<Lost>> /\ chan' \in Seq(Frames)
    BY <1>3, LostType DEF Upgraded
  <2>2. StreamInv'
    BY <1>1, <2>1, Zenon DEF StreamInv
  <2> QED
    BY <1>1, <2>1, <2>2, ServerKeeps, Zenon
<1> QED
  BY <1>2, <1>3, Zenon

\* The process that starts has an instance that no cursor names.
LEMMA RestartStep ==
  ASSUME BrowserInv, Restart
  PROVE  BrowserInv'
<1> USE DEF BrowserInv
<1>1. /\ UNCHANGED <<br, stored>> /\ instance \in Nat /\ instance' = instance + 1 /\ instance' \in 1 .. MaxInstances
      /\ high' = 0 /\ cookie' = FALSE /\ running' = TRUE
  BY BrowserAssumption DEF Restart, TypeOK
<1>2. /\ wire' \in [Receivers -> Wires] /\ wire'[Conn].stage = "none"
      /\ chan' = (IF wire[Conn].stage = "none" THEN chan ELSE <<Lost>>) /\ chan' \in Seq(Frames)
  BY UnconnectedType, LostType, BrowserAssumption DEF Restart, TypeOK, Unconnected
<1>3. TypeOK'
  BY <1>1, <1>2, Zeros, ZenonT(30) DEF TypeOK
<1>4. CursorInv'
  BY <1>1, SMTT(15) DEF CursorInv, TypeOK, Controllers, Answers
<1>5. IdentityInv' /\ AttendedInv' /\ BusyIsExact' /\ ShownContiguous'
  BY <1>1, ZenonT(30) DEF IdentityInv, AttendedInv, BusyIsExact, ShownContiguous
<1>6. SocketInv' /\ StreamInv'
  BY <1>1, <1>2, Zenon DEF SocketInv, StreamInv
<1> QED
  BY <1>3, <1>4, <1>5, <1>6, Zenon

\* The subscribe names the session that the server runs, and the cursor of the page.
LEMMA OpenStep ==
  ASSUME BrowserInv, OnOpen
  PROVE  BrowserInv'
<1>1. /\ UNCHANGED <<stored, instance, running, cookie>> /\ running \in BOOLEAN /\ cookie \in BOOLEAN
      /\ high \in Sequence /\ high >= high /\ br.socket /\ br \in Controllers
      /\ wire \in [Receivers -> Wires] /\ wire[Conn].stage = "open" /\ chan \in Seq(Frames)
  BY BrowserAssumption DEF OnOpen, BrowserInv, TypeOK, Sequence
<1>2. CASE StreamFailure(br, "refresh")
  BY <1>1, <1>2, FailureKeeps, Zenon
<1>3. ASSUME wire' = [wire EXCEPT ![Conn] = Asked(wire[Conn], br.identity = instance, br.after)],
             UNCHANGED <<high, chan, br>>
      PROVE  BrowserInv'
  <2>1. PICK w : w = wire[Conn]
    BY Zenon
  <2>2. w \in Wires /\ w.stage = "open" /\ InOrder(w) /\ br.identity = instance /\ br.phase # "failed"
    BY <1>1, <2>1, BrowserAssumption, Zenon DEF BrowserInv, StreamInv, SocketInv
  <2>3. chan = <<>> /\ br.phase = "begin" /\ w.high = 0 /\ w.next = 0 /\ w.clean
    <3>1. chan = <<>>
      <4> SUFFICES ASSUME chan # <<>> PROVE FALSE
        BY Zenon
      <4>1. PICK f : f = chan[Len(chan)]
        BY Zenon
      <4>2. Before(w, Len(chan) + 1) = After(w, f)
        BY <1>1, <4>1 DEF Before
      <4>3. After(w, f).stage # "open"
        BY <2>2, Zenon DEF After, Wires
      <4> QED
        BY <2>2, <4>2, <4>3, Zenon DEF InOrder
    <3>2. Before(w, Len(chan) + 1) = Heard(w)
      BY <3>1 DEF Before
    <3>3. w.stage = Heard(w).stage /\ w.high = Heard(w).high /\ w.next = Heard(w).next /\ w.clean
      BY <2>2, <3>2, Zenon DEF InOrder
    <3>4. br.phase = "begin"
      BY <1>1, <2>2, <3>3, Zenon DEF Heard, Wires, Controllers
    <3> QED
      BY <2>2, <3>1, <3>3, <3>4, Zenon DEF Heard, Wires
  <2>4. PICK u : u = Asked(w, TRUE, br.after)
    BY ZenonT(30)
  <2>5. u \in Wires
    BY <1>1, <2>2, <2>4, ZenonT(30) DEF Asked, Wires, Controllers
  <2>6. u.stage = "asked" /\ u.same /\ u.after = br.after /\ u.high = 0 /\ u.next = 0 /\ u.clean
    BY <2>2, <2>3, <2>4, Zenon DEF Asked, Wires
  <2>7. wire' \in [Receivers -> Wires] /\ wire'[Conn] = u
    BY <1>1, <1>3, <2>1, <2>2, <2>4, <2>5, BrowserAssumption, ZenonT(30)
  <2>8. Heard(u)'.stage = "asked" /\ Heard(u)'.high = 0 /\ Heard(u)'.next = 0
    BY <1>3, <2>3, <2>5, <2>6, Zenon DEF Heard, Wires
  <2>9. Before(u, 1)' = Heard(u)'
    BY Zenon DEF Before
  <2>10. InOrder(u)'
    BY <1>1, <1>3, <2>3, <2>6, <2>8, <2>9, BrowserAssumption DEF InOrder, Sequence
  <2>11. StreamInv'
    BY <2>7, <2>10, Zenon DEF StreamInv
  <2> QED
    BY <1>1, <1>3, <2>2, <2>3, <2>6, <2>7, <2>11, Zeros, ServerKeeps, Zenon
<1> QED
  BY <1>2, <1>3, Zenon DEF OnOpen

\* What Allowed looks at
SameWire(u, v) ==
  /\ u.stage = v.stage /\ u.clean = v.clean /\ u.same = v.same /\ u.after = v.after /\ u.high = v.high
  /\ u.stage \in {"replay", "live"} => u.next = v.next

\* What may be written depends on that alone.
LEMMA SameAllowed ==
  ASSUME NEW u, NEW v, NEW f, NEW n, SameWire(u, v), Allowed(u, f, n)
  PROVE  Allowed(v, f, n)
  BY DEF SameWire, Allowed, Reportable

\* What After leaves of the connection.
LEMMA AfterFields ==
  ASSUME NEW w \in Wires, NEW f
  PROVE  /\ After(w, f).clean = w.clean /\ After(w, f).same = w.same /\ After(w, f).after = w.after
         /\ After(w, f).high = w.high
         /\ After(w, f).stage \in {"replay", "snapshot", "live", "error", "closed"}
         /\ After(w, f).stage = "live" => After(w, f).next = w.high + 1 \/ (~(f.n <= w.high) /\ After(w, f).next = f.n + 1)
         /\ After(w, f).stage = "snapshot" => After(w, f).next = w.high + 1
  BY SMTT(15) DEF After, Wires

\* What the client sent is the same at every frame.
LEMMA BeforeFields ==
  ASSUME NEW w \in Wires, NEW i
  PROVE  /\ Before(w, i).clean = w.clean /\ Before(w, i).same = w.same /\ Before(w, i).after = w.after
<1>1. /\ Heard(w).clean = w.clean /\ Heard(w).same = w.same /\ Heard(w).after = w.after
  BY Zenon DEF Heard, Wires
<1> QED
  BY <1>1, AfterFields, Zenon DEF Before

\* Where the server is, from what it has written.
LEMMA WhereItIs ==
  ASSUME BrowserInv, NEW w, w = wire[Conn], w.stage # "none"
  PROVE  /\ w \in Wires /\ InOrder(w) /\ br.phase # "failed" /\ br.socket /\ br.identity = instance
         /\ w.stage = "asked" => chan = <<>> /\ br.phase = "begin" /\ w.same /\ w.after = br.last
         /\ w.stage = "snapshot" => w.next = w.high + 1
         /\ w.stage = "live" => w.next > w.high
<1>1. w \in Wires /\ InOrder(w) /\ br.phase # "failed" /\ br.socket /\ br.identity = instance
  BY BrowserAssumption, Zenon DEF BrowserInv, TypeOK, StreamInv, SocketInv
<1>2. chan \in Seq(Frames) /\ br \in Controllers
  BY Zenon DEF BrowserInv, TypeOK
<1>3. PICK b : b = Before(w, Len(chan) + 1)
  BY Zenon
<1>4. w.stage = b.stage /\ w.high = b.high /\ w.next = b.next
  BY <1>1, <1>3, Zenon DEF InOrder
<1>5. /\ w.high \in Nat /\ br.last \in Nat /\ br.phase \in {"begin", "replay", "snapshot", "live"}
  BY <1>1, <1>2, BrowserAssumption DEF Wires, Controllers, Sequence
<1>6. CASE chan = <<>>
  <2>1. b = Heard(w)
    BY <1>3, <1>6 DEF Before
  <2>2. CASE br.phase = "begin"
    <3>1. w.stage \in {"asked", "open"} /\ (w.stage = "asked" => w.same)
      BY <1>1, <1>4, <2>1, <2>2, Zenon DEF Heard, Wires
    <3>2. w.same => w.after = br.after
      BY <1>1, <2>2, Zenon DEF InOrder
    <3>3. br.after = br.last
      BY <1>1, <2>2, Zenon DEF BrowserInv, SocketInv
    <3> QED
      BY <1>1, <1>6, <2>2, <3>1, <3>2, <3>3, Zenon
  <2>3. CASE br.phase # "begin"
    <3>1. w.stage = br.phase /\ w.next = br.last + 1
      BY <1>1, <1>4, <2>1, <2>3, Zenon DEF Heard, Wires
    <3>2. /\ br.phase = "snapshot" => br.last = w.high
          /\ br.phase = "live" => br.last >= w.high
      BY <1>1, Zenon DEF InOrder
    <3> QED
      BY <1>1, <1>5, <2>3, <3>1, <3>2
  <2> QED
    BY <2>2, <2>3, Zenon
<1>7. CASE chan # <<>>
  <2>1. PICK f : f = chan[Len(chan)]
    BY Zenon
  <2>2. b = After(w, f) /\ f \in Frames
    BY <1>2, <1>3, <1>7, <2>1 DEF Before
  <2>3. f.n \in Nat
    BY <2>2, BrowserAssumption, SMTT(30) DEF Frames, Sequence
  <2>4. /\ w.stage # "asked"
        /\ w.stage = "snapshot" => w.next = w.high + 1
        /\ w.stage = "live" => w.next = w.high + 1 \/ (~(f.n <= w.high) /\ w.next = f.n + 1)
    BY <1>1, <1>4, <2>2, AfterFields, Zenon
  <2> QED
    BY <1>1, <1>5, <2>3, <2>4
<1> QED
  BY <1>6, <1>7, Zenon

\* A frame that may be written leaves the connection where After says.
LEMMA WrittenFields ==
  ASSUME NEW w \in Wires, NEW f \in [t : FrameTypes, n : Sequence], NEW m \in Sequence, Allowed(w, f, m),
         w.stage = "snapshot" => w.next = w.high + 1,
         w.stage = "live" => w.next > w.high
  PROVE  LET u == Written(w, f) IN
         /\ u \in Wires /\ u.stage # "none" /\ w.stage # "none"
         /\ u.clean = w.clean /\ u.same = w.same /\ u.after = w.after
         /\ f.t = "begin" => u.high = f.n /\ w.stage = "asked" /\ f.n <= m
         /\ f.t # "begin" => u.high = w.high
         /\ u.stage = After(u, f).stage /\ u.high = After(u, f).high /\ u.next = After(u, f).next
<1>1. /\ f.n \in Nat /\ w.high \in Nat /\ w.after \in Nat /\ w.next \in Nat /\ m \in Nat /\ f.n \in Sequence
      /\ f.n + 1 \in 0 .. MaxSeq + 1 /\ w.after + 1 \in 0 .. MaxSeq + 1
  BY BrowserAssumption DEF Wires, Sequence
<1>2. \A c \in {"begin", "event", "snapshot", "end", "close", "close1012"} : c \notin Codes
  BY Zenon DEF Codes, Resyncing, Fatal, Retried
<1>3. PICK u : u = Written(w, f)
  BY Zenon
<1>4. w.stage # "none"
  BY Zenon DEF Allowed
<1>5. CASE f.t = "begin"
  <2>1. w.stage = "asked" /\ f.n <= m
    BY <1>1, <1>2, <1>5 DEF Allowed, Reportable
  <2>2. u = [w EXCEPT !.stage = "replay", !.high = f.n, !.next = w.after + 1]
    BY <1>2, <1>3, <1>5, Zenon DEF Written
  <2>3. u \in Wires
    BY <1>1, <2>2, ZenonT(30) DEF Wires
  <2>4. /\ u.stage = "replay" /\ u.clean = w.clean /\ u.same = w.same /\ u.after = w.after /\ u.high = f.n
        /\ u.next = w.after + 1
    BY <2>2, Zenon DEF Wires
  <2>5. After(u, f).stage = "replay" /\ After(u, f).high = u.high /\ After(u, f).next = u.after + 1
    <3>1. After(u, f) = [u EXCEPT !.stage = "replay", !.next = u.after + 1]
      BY <1>5, AfterFrame, ZenonT(30)
    <3> QED
      BY <2>3, <3>1, Zenon DEF Wires
  <2> QED
    BY <1>3, <1>4, <1>5, <2>1, <2>3, <2>4, <2>5, Zenon
<1>6. CASE f.t = "event"
  <2>1. \/ w.stage = "replay" /\ f.n <= w.high
        \/ w.stage = "live" /\ f.n > w.high
    BY <1>1, <1>2, <1>6, Zenon DEF Allowed, Reportable
  <2>2. u = [w EXCEPT !.next = f.n + 1]
    BY <1>2, <1>3, <1>6, Zenon DEF Written
  <2>3. u \in Wires
    BY <1>1, <2>2, ZenonT(30) DEF Wires
  <2>4. /\ u.stage = w.stage /\ u.clean = w.clean /\ u.same = w.same /\ u.after = w.after /\ u.high = w.high
        /\ u.next = f.n + 1
    BY <2>2, Zenon DEF Wires
  <2>5. /\ After(u, f).stage = (IF f.n <= u.high THEN "replay" ELSE "live")
        /\ After(u, f).high = u.high /\ After(u, f).next = f.n + 1
    <3>1. After(u, f) = [u EXCEPT !.stage = IF f.n <= u.high THEN "replay" ELSE "live", !.next = f.n + 1]
      BY <1>6, AfterFrame, ZenonT(30)
    <3> QED
      BY <2>3, <3>1, Zenon DEF Wires
  <2>6. After(u, f).stage = u.stage
    BY <1>1, <2>1, <2>4, <2>5, SMTT(30)
  <2> QED
    BY <1>3, <1>4, <1>6, <2>3, <2>4, <2>5, <2>6, Zenon
<1>7. CASE f.t = "snapshot"
  <2>1. w.next = w.high + 1
    BY <1>1, <1>2, <1>7, Zenon DEF Allowed, Reportable
  <2>2. u = [w EXCEPT !.stage = "snapshot"]
    BY <1>2, <1>3, <1>7, Zenon DEF Written
  <2>3. u \in Wires
    BY <2>2, ZenonT(30) DEF Wires
  <2>4. /\ u.stage = "snapshot" /\ u.clean = w.clean /\ u.same = w.same /\ u.after = w.after /\ u.high = w.high
        /\ u.next = w.next
    BY <2>2, Zenon DEF Wires
  <2>5. After(u, f).stage = "snapshot" /\ After(u, f).high = u.high /\ After(u, f).next = u.high + 1
    <3>1. After(u, f) = [u EXCEPT !.stage = "snapshot", !.next = u.high + 1]
      BY <1>7, AfterFrame, ZenonT(30)
    <3> QED
      BY <2>3, <3>1, Zenon DEF Wires
  <2> QED
    BY <1>3, <1>4, <1>7, <2>1, <2>3, <2>4, <2>5, Zenon
<1>8. CASE f.t = "end"
  <2>1. w.next = w.high + 1
    BY <1>1, <1>2, <1>8, Zenon DEF Allowed, Reportable
  <2>2. u = [w EXCEPT !.stage = "live"]
    BY <1>2, <1>3, <1>8, Zenon DEF Written
  <2>3. u \in Wires
    BY <2>2, ZenonT(30) DEF Wires
  <2>4. /\ u.stage = "live" /\ u.clean = w.clean /\ u.same = w.same /\ u.after = w.after /\ u.high = w.high
        /\ u.next = w.next
    BY <2>2, Zenon DEF Wires
  <2>5. After(u, f).stage = "live" /\ After(u, f).high = u.high /\ After(u, f).next = u.high + 1
    <3>1. After(u, f) = [u EXCEPT !.stage = "live", !.next = u.high + 1]
      BY <1>8, AfterFrame, ZenonT(30)
    <3> QED
      BY <2>3, <3>1, Zenon DEF Wires
  <2> QED
    BY <1>3, <1>4, <1>8, <2>1, <2>3, <2>4, <2>5, Zenon
<1>9. CASE f.t \in Codes \cup {"close", "close1012"}
  <2>1. PICK st \in {"error", "closed"} : u = [w EXCEPT !.stage = st] /\ (st = "error" <=> f.t \in Codes)
    BY <1>2, <1>3, <1>9, Zenon DEF Written
  <2>2. u \in Wires
    BY <2>1, ZenonT(30) DEF Wires
  <2>3. /\ u.stage = st /\ u.clean = w.clean /\ u.same = w.same /\ u.after = w.after /\ u.high = w.high
        /\ u.next = w.next
    BY <2>1, Zenon DEF Wires
  <2>4. After(u, f) = [u EXCEPT !.stage = st]
    <3>1. CASE f.t \in Codes
      <4>1. After(u, f) = [u EXCEPT !.stage = "error"]
        BY <3>1, AfterFrame, ZenonT(30)
      <4> QED
        BY <2>1, <3>1, <4>1, ZenonT(30)
    <3>2. CASE f.t \in {"close", "close1012"}
      BY <1>2, <2>1, <3>2, AfterFrame, ZenonT(30)
    <3> QED
      BY <1>9, <3>1, <3>2, Zenon
  <2>5. After(u, f).stage = st /\ After(u, f).high = u.high /\ After(u, f).next = u.next
    BY <2>2, <2>4, Zenon DEF Wires
  <2> QED
    BY <1>2, <1>3, <1>4, <1>9, <2>2, <2>3, <2>5, Zenon
<1> QED
  BY <1>5, <1>6, <1>7, <1>8, <1>9, Zenon DEF FrameTypes

\* The frames on their way stay in order when the server writes another one.
LEMMA WriteStep ==
  ASSUME BrowserInv, Arrives
  PROVE  BrowserInv'
<1>1. PICK t \in FrameTypes, n \in Sequence :
        /\ Allowed(wire[Conn], Frame(t, n), high)
        /\ wire' = [wire EXCEPT ![Conn] = Written(wire[Conn], Frame(t, n))]
        /\ chan' = Append(chan, Frame(t, n))
  BY ZenonT(30) DEF Arrives, Sequence
<1>2. /\ UNCHANGED <<br, stored, instance, high, running, cookie>> /\ running \in BOOLEAN /\ cookie \in BOOLEAN
      /\ high \in Sequence /\ high >= high /\ wire \in [Receivers -> Wires] /\ chan \in Seq(Frames)
  BY BrowserAssumption DEF Arrives, server, BrowserInv, TypeOK, Sequence
<1>3. PICK f : f = Frame(t, n)
  BY Zenon
<1>4. f \in [t : FrameTypes, n : Sequence] /\ f \in Frames
  BY <1>3, Zenon DEF Frame, Frames
<1>5. PICK w : w = wire[Conn]
  BY Zenon
<1>6. PICK u : u = Written(w, f)
  BY Zenon
<1>7. Allowed(w, f, high) /\ wire' = [wire EXCEPT ![Conn] = u] /\ chan' = Append(chan, f)
  BY <1>1, <1>3, <1>5, <1>6, Zenon
<1>8. w.stage # "none"
  BY <1>7, Zenon DEF Allowed
<1>9. /\ w \in Wires /\ InOrder(w) /\ br.phase # "failed" /\ br.socket /\ br.identity = instance
      /\ w.stage = "asked" => chan = <<>> /\ br.phase = "begin" /\ w.same /\ w.after = br.last
      /\ w.stage = "snapshot" => w.next = w.high + 1
      /\ w.stage = "live" => w.next > w.high
  BY <1>5, <1>8, WhereItIs, Zenon
<1>10. /\ u \in Wires /\ u.stage # "none"
       /\ u.clean = w.clean /\ u.same = w.same /\ u.after = w.after
       /\ f.t = "begin" => u.high = f.n /\ w.stage = "asked" /\ f.n <= high
       /\ f.t # "begin" => u.high = w.high
       /\ u.stage = After(u, f).stage /\ u.high = After(u, f).high /\ u.next = After(u, f).next
  BY <1>2, <1>4, <1>6, <1>7, <1>9, WrittenFields, ZenonT(30)
<1>11. /\ wire' \in [Receivers -> Wires] /\ wire'[Conn] = u
       /\ chan' \in Seq(Frames) /\ chan' # <<>>
  BY <1>2, <1>4, <1>7, <1>10, BrowserAssumption
<1>12. PICK len \in Nat : len = Len(chan)
  BY <1>2
<1>13. /\ Len(chan') = len + 1 /\ chan'[len + 1] = f /\ DOMAIN chan' = 1 .. len + 1 /\ DOMAIN chan = 1 .. len
       /\ \A i \in 1 .. len : chan'[i] = chan[i]
  BY <1>2, <1>7, <1>12, SMTT(30)
<1>14. /\ w.clean /\ w.high <= high /\ w.stage = Before(w, len + 1).stage /\ w.high = Before(w, len + 1).high
       /\ w.next = Before(w, len + 1).next
       /\ \A i \in 1 .. len : Allowed(Before(w, i), chan[i], high) /\ (chan[i].t = "begin" => chan[i].n = w.high)
  BY <1>9, <1>12, <1>13, Zenon DEF InOrder
<1>15. f.t = "begin" => len = 0 /\ br.phase = "begin"
  BY <1>2, <1>9, <1>10, <1>12
<1>16. \A i \in 1 .. len + 1 : SameWire(Before(w, i), Before(u, i)')
  <2> SUFFICES ASSUME NEW i \in 1 .. len + 1 PROVE SameWire(Before(w, i), Before(u, i)')
    BY Zenon
  <2>1. CASE i = 1
    <3>1. Before(w, i) = Heard(w) /\ Before(u, i)' = Heard(u)'
      BY <2>1, Zenon DEF Before
    <3>2. CASE br.phase = "begin"
      BY <1>2, <1>9, <1>10, <3>1, <3>2 DEF Heard, SameWire, Wires
    <3>3. CASE br.phase # "begin"
      BY <1>2, <1>9, <1>10, <1>15, <3>1, <3>3 DEF Heard, SameWire, Wires
    <3> QED
      BY <3>2, <3>3, Zenon
  <2>2. CASE i # 1
    <3>1. PICK g : g = chan[i - 1]
      BY Zenon
    <3>2. Before(w, i) = After(w, g) /\ Before(u, i)' = After(u, g) /\ f.t # "begin"
      BY <1>13, <1>15, <2>2, <3>1 DEF Before
    <3>3. SameWire(After(w, g), After(u, g))
      BY <1>9, <1>10, <3>2, SMTT(15) DEF After, SameWire, Wires
    <3> QED
      BY <3>2, <3>3, Zenon
  <2> QED
    BY <2>1, <2>2, Zenon
<1>17. Allowed(Before(u, len + 1)', f, high)
  <2>1. SameWire(w, Before(w, len + 1))
    BY <1>9, <1>14, BeforeFields, ZenonT(30) DEF SameWire
  <2>2. Allowed(Before(w, len + 1), f, high)
    BY <1>7, <2>1, SameAllowed, Zenon
  <2> QED
    BY <1>16, <2>2, SameAllowed, SMTT(30)
<1>18. \A i \in 1 .. len : Allowed(Before(u, i)', chan[i], high)
  BY <1>14, <1>16, SameAllowed
<1>19. \A i \in DOMAIN chan' :
         Allowed(Before(u, i)', chan'[i], high') /\ (chan'[i].t = "begin" => chan'[i].n = u.high)
  <2> SUFFICES ASSUME NEW i \in 1 .. len + 1
               PROVE  Allowed(Before(u, i)', chan'[i], high') /\ (chan'[i].t = "begin" => chan'[i].n = u.high)
    BY <1>13, Zenon
  <2>1. CASE i = len + 1
    BY <1>2, <1>10, <1>13, <1>17, <2>1, Zenon
  <2>2. CASE i \in 1 .. len
    BY <1>2, <1>10, <1>13, <1>14, <1>15, <1>18, <2>2
  <2> QED
    BY <2>1, <2>2
<1>20. PICK k \in Nat : k = len + 2
  BY <1>12
<1>21. Len(chan') + 1 = k /\ Before(u, k)' = After(u, f)
  BY <1>13, <1>20, SMTT(30) DEF Before
<1>22. /\ u.stage = Before(u, Len(chan) + 1)'.stage /\ u.high = Before(u, Len(chan) + 1)'.high
       /\ u.next = Before(u, Len(chan) + 1)'.next
  BY <1>10, <1>21, Zenon
<1>23. u.high <= high
  BY <1>10, <1>14, Zenon
<1>24. /\ IF br.phase = "begin" THEN u.same => u.after = br.after ELSE u.high = br.highWater
       /\ br.phase = "replay" => br.last <= u.high
       /\ br.phase = "snapshot" => br.last = u.high
       /\ br.phase = "live" => br.last >= u.high
  BY <1>9, <1>10, <1>15, Zenon DEF InOrder
<1>25. InOrder(u)'
  BY <1>2, <1>10, <1>14, <1>19, <1>22, <1>23, <1>24, ZenonT(30) DEF InOrder
<1>26. StreamInv'
  BY <1>11, <1>25, Zenon DEF StreamInv
<1> QED
  BY <1>2, <1>9, <1>10, <1>11, <1>26, ServerKeeps, Zenon

----------------------------------------------------------------------------
\* A page before its first load.
LEMMA InitOk == Init => BrowserInv
<1> SUFFICES ASSUME Init PROVE BrowserInv
  BY Zenon
<1>1. /\ high = 0 /\ wire = [c \in Receivers |-> Unconnected] /\ chan = <<>> /\ cookie = FALSE /\ running = TRUE
      /\ instance = 1 /\ br = NewController /\ stored = NoRecord
  BY Zenon DEF Init, ContractInit
<1>2. wire[Conn].stage = "none" /\ wire \in [Receivers -> Wires]
  BY <1>1, BrowserAssumption, UnconnectedType, Zenon DEF Unconnected
<1>3. TypeOK
  <2>1. stored \in [instance : 0 .. MaxInstances, seq : Sequence] /\ instance \in 1 .. MaxInstances
    BY <1>1, Zeros, BrowserAssumption, SMTT(30) DEF NoRecord
  <2> QED
    BY <1>1, <1>2, <2>1, Zeros, NewControllerType, ZenonT(30) DEF TypeOK
<1>4. /\ br.op = "idle" /\ br.busy = FALSE /\ br.abort = FALSE /\ br.socket = FALSE
      /\ br.policy = "none" /\ br.phase = "begin"
      /\ br.answer = NoAnswer /\ br.events = <<>> /\ br.identity = 0
  BY <1>1, Zenon DEF NewController
<1>5. CursorInv /\ IdentityInv /\ AttendedInv /\ BusyIsExact /\ ShownContiguous
  <2>1. CursorInv /\ IdentityInv /\ AttendedInv /\ ShownContiguous
    BY <1>1, <1>4, SMTT(15) DEF CursorInv, IdentityInv, AttendedInv, ShownContiguous, NoAnswer, NoRecord
  <2>2. BusyIsExact
    BY <1>4, Zenon DEF BusyIsExact
  <2> QED
    BY <2>1, <2>2, Zenon
<1>6. SocketInv /\ StreamInv
  BY <1>1, <1>2, <1>4, Zenon DEF SocketInv, StreamInv
<1> QED
  BY <1>3, <1>5, <1>6, Zenon DEF BrowserInv

\* Nothing happens.
LEMMA StutterOk ==
  ASSUME BrowserInv, UNCHANGED vars
  PROVE  BrowserInv'
<1>1. UNCHANGED <<high, cookie, running, instance, wire, chan, br, stored>>
  BY Zenon DEF vars, server, socket
<1>2. StreamInv'
  BY <1>1, StreamStays, Zenon DEF BrowserInv
<1>3. TypeOK' /\ CursorInv' /\ IdentityInv' /\ SocketInv'
  BY <1>1, SMTT(30) DEF BrowserInv, TypeOK, CursorInv, IdentityInv, SocketInv
<1>4. AttendedInv' /\ BusyIsExact' /\ ShownContiguous'
  BY <1>1, ZenonT(30) DEF BrowserInv, AttendedInv, BusyIsExact, ShownContiguous
<1> QED
  BY <1>2, <1>3, <1>4, Zenon DEF BrowserInv

\* BrowserInv holds in every state of the browser and the server: the cursors, the socket, the
\* frames on their way and the page agree, for any number of events, frames in flight and
\* server processes.
THEOREM BrowserInvariant == Spec => []BrowserInv
<1>1. ASSUME BrowserInv, Next PROVE BrowserInv'
  <2>1. CASE BrowserSteps
    BY <1>1, <2>1, RefreshSteps, CallSteps, AuthenticateSteps, BootstrapSteps, QuietSteps, LateStep, ArrivesStep,
       LoginSteps, CloseStep, BeginStep, SnapshotStep, EndStep, EventStep, ErrorStep, OpenStep, Zenon
       DEF BrowserSteps
  <2>2. CASE ServerSteps
    BY <1>1, <2>2, AnsweredStep, FlagSteps, PublishStep, BreakStep, UpgradeStep, RestartStep, WriteStep, Zenon
       DEF ServerSteps
  <2> QED
    BY <1>1, <2>1, <2>2, Zenon DEF Next
<1>2. BrowserInv /\ [Next]_vars => BrowserInv'
  BY <1>1, StutterOk, Zenon
<1> QED
  BY <1>2, InitOk, PTL DEF Spec

\* The browser never asks for a future cursor or another session, and no frame of the server
\* makes it give up, whatever is lost, restarted, expired or not stored.
THEOREM PeersAreHonest == Spec => []HonestPeers
<1>1. BrowserInv => HonestPeers
  <2> SUFFICES ASSUME BrowserInv PROVE HonestPeers
    BY Zenon
  <2>1. br.policy # "terminal"
    BY Zenon DEF BrowserInv, AttendedInv
  <2>2. ASSUME wire[Conn].stage = "asked" PROVE wire[Conn].same /\ wire[Conn].after <= high
    BY <2>2, WhereItIs, Zenon DEF BrowserInv, CursorInv
  <2> QED
    BY <2>1, <2>2, Zenon DEF HonestPeers
<1> QED
  BY <1>1, BrowserInvariant, PTL

\* The events on the page are consecutive and end at its cursor, across reconnects, reloads,
\* restarts of the server and storage that fails.
THEOREM ShownIsContiguous == Spec => []ShownContiguous
<1>1. BrowserInv => ShownContiguous
  BY Zenon DEF BrowserInv
<1> QED
  BY <1>1, BrowserInvariant, PTL

\* A page with an identity that is not busy has a socket or a reconnect ahead of it, unless its
\* last refresh failed.
THEOREM NobodyIsStranded == Spec => []NotStranded
<1>1. BrowserInv => NotStranded
  BY Zenon DEF BrowserInv, AttendedInv, BusyIsExact, NotStranded
<1> QED
  BY <1>1, BrowserInvariant, PTL

\* state.busy is set, and currentAbort is there, exactly while an operation awaits its answer,
\* however late the requests settle that enterBootstrap() aborted: beginHttp() never admits a
\* second operation, and no operation leaves the page busy behind it.
THEOREM OneOperationAtATime == Spec => []BusyIsExact
<1>1. BrowserInv => BusyIsExact
  BY Zenon DEF BrowserInv
<1> QED
  BY <1>1, BrowserInvariant, PTL
====================================================================================
