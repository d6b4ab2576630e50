-------------------------------- MODULE ControlPlane --------------------------------
(***************************************************************************)
(* The control plane's request handling (apps/control-plane/src/state.rs   *)
(* and routes.rs): application sessions and their leases, the lifecycle    *)
(* that admits requests and drains them for shutdown, and run_prepared,    *)
(* which lets the first request of a key execute and the others wait.      *)
(*                                                                         *)
(* Sessions, registry and lifecycle have a mutex each; a step here is what *)
(* is done under one of them.  An admission (RequestAdmission) is shared   *)
(* by the HTTP handler and the detached worker; the last of them to let go *)
(* drops it, first its lifecycle count, then its session lease.  A request *)
(* that is refused before it holds anything is not a step.  Time is left   *)
(* out: a session expires at some moment.                                  *)
(***************************************************************************)
EXTENDS Idempotency

CONSTANTS
  Requests,         \* HTTP requests
  Callers,          \* callers of P0ControlPlane::shutdown
  MaxIssued,        \* bound of the sessions issued
  MaxAppSessions,   \* MAX_APP_SESSIONS (4)
  ResponseBytes     \* sizes of a response

ASSUME ControlAssumption ==
  /\ IsFiniteSet(Requests) /\ MaxIssued \in Nat /\ MaxAppSessions \in Nat
  /\ ResponseBytes \subseteq Nat

VARIABLES
  app,    \* AppSessionRegistry: the sessions by number
  issued, \* issuance_seq
  reg,    \* Idempotency
  req,    \* per request: its HTTP handler, its worker, its admission
  life,   \* Lifecycle: phase, active and the result
  shut    \* per caller of shutdown: where it is; and the calls made below

vars == <<app, issued, reg, req, life, shut>>

SessionNumbers == 1 .. MaxIssued

\* "serve" stands for every read and stream: it holds an admission and takes no key;
\* "call" for every mutation other than logout.
Kinds == {"logout", "call", "serve"}

NoSession == [present |-> FALSE, expired |-> FALSE, invalidated |-> FALSE, active |-> 0]

NewRequest ==
  [pc |-> "new", kind |-> "serve", sess |-> 0, key |-> {}, work |-> "none", disp |-> Retain, adm |-> "none"]

\* Nothing of it matters any more.
GoneRequest == [NewRequest EXCEPT !.pc = "left", !.adm = "gone"]

Init ==
  /\ app = [s \in SessionNumbers |-> NoSession] /\ issued = 0
  /\ reg = EmptyRegistry
  /\ req = [r \in Requests |-> NewRequest]
  /\ life = [phase |-> "running", active |-> 0, result |-> "none"]
  /\ shut = [at |-> [c \in Callers |-> "idle"], answer |-> [c \in Callers |-> "none"],
             session |-> 0, login |-> 0]

----------------------------------------------------------------------------
\* The clock reaches expires_at of a session.
Expire(s) ==
  /\ app[s].present /\ ~app[s].expired
  /\ app' = [app EXCEPT ![s].expired = TRUE] /\ UNCHANGED <<issued, reg, req, life, shut>>

\* Mutation: a session is pruned although requests hold a lease of it.
PrunedSessionsInUse ==
  [s \in SessionNumbers |->
    IF app[s].present /\ (app[s].invalidated \/ app[s].expired) THEN NoSession ELSE app[s]]

\* AppSessionRegistry::prune_expired
PrunedSessions ==
  [s \in SessionNumbers |->
    LET dead == app[s].present /\ (app[s].invalidated \/ app[s].expired)
    IN  IF dead /\ app[s].active = 0 THEN NoSession
        ELSE [app[s] EXCEPT !.invalidated = @ \/ dead]]

\* A cookie that is refused, or app_session_is_valid, prunes and nothing else.
Prune == app' = PrunedSessions /\ UNCHANGED <<issued, reg, req, life, shut>>

\* The HTTP handler of r is done or its connection is gone; a worker, if any, goes on.
Leave(r) == req' = [req EXCEPT ![r].pc = "left"]

\* bootstrap_session: the request is admitted without a lease,
BootstrapAdmit(r) ==
  /\ req[r].pc = "new" /\ life.phase = "running" /\ issued < MaxIssued
  /\ life' = [life EXCEPT !.active = @ + 1]
  /\ req' = [req EXCEPT ![r].pc = "bootstrap", ![r].adm = "held"]
  /\ UNCHANGED <<app, issued, reg, shut>>

\* and create_app_session issues a session, unless too many are valid.
CreateAppSession(r) ==
  /\ req[r].pc = "bootstrap" /\ Leave(r)
  /\ IF /\ issued < MaxIssued
        /\ Cardinality({t \in SessionNumbers :
             PrunedSessions[t].present /\ ~PrunedSessions[t].invalidated}) < MaxAppSessions
     THEN /\ issued' = issued + 1
          /\ app' = [PrunedSessions EXCEPT ![issued'] = [NoSession EXCEPT !.present = TRUE]]
     ELSE app' = PrunedSessions /\ UNCHANGED issued
  /\ UNCHANGED <<reg, life, shut>>

\* require_running and authenticate_cookie
Authenticate(r, kind, s, k) ==
  /\ (kind = "serve") = (k = {})
  /\ req[r].pc = "new" /\ life.phase = "running"
  /\ PrunedSessions[s].present /\ ~PrunedSessions[s].invalidated
  /\ app' = [PrunedSessions EXCEPT ![s].active = @ + 1]
  /\ req' = [req EXCEPT ![r].pc = "leased", ![r].kind = kind, ![r].sess = s, ![r].key = k,
                        ![r].adm = "lease"]
  /\ UNCHANGED <<issued, reg, life, shut>>

\* Lifecycle::admit; a lease without an admission is dropped again
Admit(r) ==
  /\ req[r].pc = "leased"
  /\ IF life.phase = "running"
     THEN /\ life' = [life EXCEPT !.active = @ + 1]
          /\ req' = [req EXCEPT ![r].pc = "prepared", ![r].adm = "held"]
     ELSE /\ req' = [req EXCEPT ![r].pc = "left", ![r].adm = "drop_lease"]
          /\ UNCHANGED life
  /\ UNCHANGED <<app, issued, reg, shut>>

\* Origin, instance, key or body are refused; a read is answered or a stream ends.  A
\* stream may go on as long as its session is valid and the control plane is running.
EndPrepared(r) ==
  /\ req[r].pc = "prepared" /\ Leave(r) /\ UNCHANGED <<app, issued, reg, life, shut>>

KeyOf(r) == CHOOSE k \in req[r].key : TRUE

\* RequestIdentity: the route, and the session for a logout
IdentityOf(r) == [kind |-> req[r].kind, sess |-> IF req[r].kind = "logout" THEN req[r].sess ELSE 0]

\* Idempotency::admit: join the entry or be refused,
JoinEntry(r, pruned) ==
  /\ req[r].pc = "prepared" /\ req[r].kind # "serve" /\ KeyOf(r) \in Present(pruned)
  /\ IF pruned.entry[KeyOf(r)].id = IdentityOf(r)
     THEN reg' = Joined(pruned, KeyOf(r)) /\ req' = [req EXCEPT ![r].pc = "look"]
     ELSE reg' = pruned /\ Leave(r)
  /\ UNCHANGED <<app, issued, life, shut>>

\* or install a new entry and spawn its worker, if there is room.
InstallEntry(r, pruned) ==
  /\ req[r].pc = "prepared" /\ req[r].kind # "serve" /\ KeyOf(r) \notin Present(pruned)
  /\ LET room == WithCapacity(pruned)
     IN IF HasRoom(room)
        THEN /\ reg' = Inserted(room, KeyOf(r), IdentityOf(r))
             /\ req' = [req EXCEPT ![r].pc = "look", ![r].work = "run"]
        ELSE reg' = room /\ Leave(r)
  /\ UNCHANGED <<app, issued, life, shut>>

----------------------------------------------------------------------------
\* IdempotencyWaiter::response.  The notification is subscribed to before the entry is
\* looked at, so a completion in between still wakes the waiter: it looks again.
Look(r) ==
  /\ req[r].pc = "look"
  /\ LET e == reg.entry[KeyOf(r)]
     IN \/ e.state = "absent" /\ Leave(r) /\ UNCHANGED reg
        \/ e.state = "in_flight" /\ req' = [req EXCEPT ![r].pc = "sleep"] /\ UNCHANGED reg
        \/ e.state = "complete" /\ Leave(r) /\ reg' = Left(reg, KeyOf(r))
  /\ UNCHANGED <<app, issued, life, shut>>

\* Mutation: a disconnect gives the admission up although the worker goes on.
DisconnectEndsAdmission(r) ==
  /\ req[r].pc \in {"look", "sleep"}
  /\ reg' = Left(reg, KeyOf(r))
  /\ req' = [req EXCEPT ![r].pc = "left", ![r].adm = "drop_lease"]
  /\ life' = [life EXCEPT !.active = @ - 1] /\ UNCHANGED <<app, issued, shut>>

\* The client is gone: only the waiter is dropped.
Disconnect(r) ==
  /\ req[r].pc \in {"look", "sleep"}
  /\ reg' = Left(reg, KeyOf(r)) /\ Leave(r)
  /\ UNCHANGED <<app, issued, life, shut>>

----------------------------------------------------------------------------
\* execute_mutation in the worker.  Logout invalidates its own session, if it is still
\* there; device login is cached until its code expires, every other answer, and every
\* error, without a limit.
Execute(r) ==
  /\ req[r].work = "run"
  /\ \/ /\ req[r].kind = "logout"
        /\ app' = [app EXCEPT ![req[r].sess].invalidated = @ \/ app[req[r].sess].present]
        /\ req' = [req EXCEPT ![r].work = "commit", ![r].disp = RemoveAfterAuthSession(req[r].sess)]
     \/ /\ req[r].kind = "call" /\ UNCHANGED app
        /\ \E disp \in {Retain, ExpireAt} :
             req' = [req EXCEPT ![r].work = "commit", ![r].disp = disp]
  /\ UNCHANGED <<issued, reg, life, shut>>

\* Mutation: the sleeping waiters are not notified.
CommitSilently(r, bytes) ==
  /\ req[r].work = "commit"
  /\ reg' = Completed(reg, KeyOf(r), bytes, req[r].disp)
  /\ req' = [req EXCEPT ![r].work = "end"]
  /\ UNCHANGED <<app, issued, life, shut>>

\* complete, with notify_waiters
Commit(r, bytes) ==
  /\ req[r].work = "commit"
  /\ reg' = Completed(reg, KeyOf(r), bytes, req[r].disp)
  /\ req' = [q \in Requests |->
       [req[q] EXCEPT !.work = IF q = r THEN "end" ELSE @,
                      !.pc = IF @ = "sleep" /\ req[q].key = req[r].key THEN "look" ELSE @]]
  /\ UNCHANGED <<app, issued, life, shut>>

\* The last reference to the admission is dropped: ActiveOperation first (a bootstrap holds
\* nothing else, and its request is used again),
DropAdmission(r) ==
  /\ req[r].adm = "held" /\ req[r].pc = "left" /\ req[r].work \in {"none", "end"}
  /\ life' = [life EXCEPT !.active = @ - 1]
  /\ req' = [req EXCEPT ![r] = IF @.sess = 0 THEN NewRequest ELSE [@ EXCEPT !.adm = "drop_lease"]]
  /\ UNCHANGED <<app, issued, reg, shut>>

\* then AppSessionLease: release_app_session under the sessions' mutex,
DropLease(r) ==
  /\ req[r].adm = "drop_lease"
  /\ LET s == req[r].sess
         last == app[s].present => app[s].invalidated /\ app[s].active = 1
     IN /\ app' = IF ~app[s].present THEN app
                 ELSE [app EXCEPT ![s] = IF last THEN NoSession
                                         ELSE [app[s] EXCEPT !.active = app[s].active - 1]]
        /\ req' = [req EXCEPT ![r] = IF last THEN [@ EXCEPT !.adm = "drop_replay"] ELSE GoneRequest]
  /\ UNCHANGED <<issued, reg, life, shut>>

\* and release_auth_session under the registry's.
DropReplay(r) ==
  /\ req[r].adm = "drop_replay"
  /\ reg' = ReleasedAuthSession(reg, req[r].sess)
  /\ req' = [req EXCEPT ![r] = GoneRequest] /\ UNCHANGED <<app, issued, life, shut>>

----------------------------------------------------------------------------
\* Mutation: a second caller leads as well.
BeginShutdownTwice(c) ==
  /\ shut.at[c] = "idle"
  /\ \/ /\ life.phase # "complete" /\ life' = [life EXCEPT !.phase = "draining"]
        /\ shut' = [shut EXCEPT !.at[c] = "drain"]
     \/ /\ life.phase = "complete" /\ UNCHANGED life
        /\ shut' = [shut EXCEPT !.at[c] = "join"]
  /\ UNCHANGED <<app, issued, reg, req>>

\* begin_shutdown: the first caller latches the shutdown and drains, the others join it.
BeginShutdown(c) ==
  /\ shut.at[c] = "idle"
  /\ \/ /\ life.phase = "running" /\ life' = [life EXCEPT !.phase = "draining"]
        /\ shut' = [shut EXCEPT !.at[c] = "drain"]
     \/ /\ life.phase # "running" /\ UNCHANGED life
        /\ shut' = [shut EXCEPT !.at[c] = "join"]
  /\ UNCHANGED <<app, issued, reg, req>>

\* The leader goes on when nothing is admitted any more.
Drained(c) ==
  /\ shut.at[c] = "drain" /\ life.active = 0
  /\ shut' = [shut EXCEPT !.at[c] = "session"]
  /\ UNCHANGED <<app, issued, reg, req, life>>

\* session.shutdown and login.shutdown_cleanup; the first failure is the result.
ShutdownSession(c, ok) ==
  /\ shut.at[c] = "session"
  /\ shut' = [shut EXCEPT !.at[c] = "login", !.session = @ + 1,
                          !.answer[c] = IF ok THEN "ok" ELSE "Session"]
  /\ UNCHANGED <<app, issued, reg, req, life>>

ShutdownLogin(c, ok) ==
  /\ shut.at[c] = "login"
  /\ shut' = [shut EXCEPT !.at[c] = "clear_sessions", !.login = @ + 1,
                          !.answer[c] = IF ok \/ @ # "ok" THEN @ ELSE "Login"]
  /\ UNCHANGED <<app, issued, reg, req, life>>

ClearSessions(c) ==
  /\ shut.at[c] = "clear_sessions" /\ app' = [s \in SessionNumbers |-> NoSession]
  /\ shut' = [shut EXCEPT !.at[c] = "clear_registry"]
  /\ UNCHANGED <<issued, reg, req, life>>

\* Idempotency::clear and force_complete
ClearRegistry(c) ==
  /\ shut.at[c] = "clear_registry" /\ reg' = EmptyRegistry
  /\ shut' = [shut EXCEPT !.at[c] = "returned"]
  /\ life' = [life EXCEPT !.phase = "complete", !.result = shut.answer[c]]
  /\ UNCHANGED <<app, issued, req>>

JoinShutdown(c) ==
  /\ shut.at[c] = "join" /\ life.phase = "complete"
  /\ shut' = [shut EXCEPT !.at[c] = "returned", !.answer[c] = life.result]
  /\ UNCHANGED <<app, issued, reg, req, life>>

----------------------------------------------------------------------------
Arrive(r) ==
  \E kind \in Kinds, s \in SessionNumbers, k \in {{}} \cup {{key} : key \in Keys} :
    Authenticate(r, kind, s, k)

\* Steps a request takes by itself once it was let in
Handle(r) ==
  \/ CreateAppSession(r) \/ Admit(r) \/ Look(r)
  \/ \E pruned \in PrunedVariants(reg) : JoinEntry(r, pruned) \/ InstallEntry(r, pruned)
  \/ Execute(r) \/ \E bytes \in ResponseBytes : Commit(r, bytes)
  \/ DropAdmission(r) \/ DropLease(r) \/ DropReplay(r)

Lead(c) ==
  \/ Drained(c) \/ \E ok \in BOOLEAN : ShutdownSession(c, ok) \/ ShutdownLogin(c, ok)
  \/ ClearSessions(c) \/ ClearRegistry(c) \/ JoinShutdown(c)

Next ==
  \/ Prune \/ \E s \in SessionNumbers : Expire(s)
  \/ \E r \in Requests :
       BootstrapAdmit(r) \/ Arrive(r) \/ Handle(r) \/ EndPrepared(r) \/ Disconnect(r)
  \/ \E c \in Callers : BeginShutdown(c) \/ Lead(c)

Spec == Init /\ [][Next]_vars

\* Handlers, workers and shutdown run on, lower calls return; a stream ends once the
\* control plane is not running (it polls).
Progress ==
  \/ \E r \in Requests : Handle(r) \/ (EndPrepared(r) /\ life.phase # "running")
  \/ \E c \in Callers : Lead(c)

----------------------------------------------------------------------------
Waiting(r) == req[r].pc \in {"look", "sleep"}

Executing(r) == req[r].work \in {"run", "commit"}

Holders(s) ==
  {r \in Requests : req[r].sess = s /\ req[r].adm \in {"lease", "held", "drop_lease", "drop_replay"}}

Leases(s) == {r \in Holders(s) : req[r].adm # "drop_replay"}

Sessions == [present : BOOLEAN, expired : BOOLEAN, invalidated : BOOLEAN, active : Nat]

Dispositions == {Retain, ExpireAt} \cup {RemoveAfterAuthSession(s) : s \in SessionNumbers}

Entries ==
  [state : {"absent", "in_flight", "complete"}, id : [kind : Kinds \cup {"none"}, sess : 0 .. MaxIssued],
   bytes : Nat, waiters : Nat, seq : Nat, disp : Dispositions]

RequestStates ==
  [pc : {"new", "bootstrap", "leased", "prepared", "look", "sleep", "left"}, kind : Kinds,
   sess : 0 .. MaxIssued, key : {{}} \cup {{k} : k \in Keys}, work : {"none", "run", "commit", "end"},
   disp : Dispositions, adm : {"none", "lease", "held", "drop_lease", "drop_replay", "gone"}]

\* The shutdown has drained the admissions and works below.
PastDrain == {"session", "login", "clear_sessions", "clear_registry"}

ShutdownResults == {"none", "ok", "Session", "Login"}

\* Type invariant.
TypeOK ==
  /\ issued \in 0 .. MaxIssued /\ app \in [SessionNumbers -> Sessions]
  /\ reg \in [entry : [Keys -> Entries], total : Nat, seq : Nat]
  /\ req \in [Requests -> RequestStates]
  /\ life \in [phase : {"running", "draining", "complete"}, active : Nat, result : ShutdownResults]
  /\ shut \in [at : [Callers -> {"idle", "join", "drain", "returned"} \cup PastDrain],
               answer : [Callers -> ShutdownResults], session : Nat, login : Nat]

\* Nobody waits for an entry that is not there: from its admission until it has its answer
\* or disconnects, a request's entry is neither evicted, expired, released nor cleared, and
\* is the entry of its own identity; the entry counts exactly those who wait for it.
WaitersKnown(g) ==
  /\ \A r \in Requests : Waiting(r) => g.entry[KeyOf(r)].id = IdentityOf(r)
  /\ \A k \in Keys : g.entry[k].waiters = Cardinality({r \in Requests : Waiting(r) /\ KeyOf(r) = k})

WaitersRemembered == WaitersKnown(reg)

\* A command is executed by one worker at a time, for the entry of its own identity, and an
\* entry is in flight exactly as long as its worker has not committed: no eviction, retry or
\* shutdown lets a second execution of the same key start beside it.
WorkersKnown(g) ==
  /\ \A r \in Requests : Executing(r) => g.entry[KeyOf(r)].id = IdentityOf(r)
  /\ \A r, q \in Requests : Executing(r) /\ Executing(q) /\ KeyOf(r) = KeyOf(q) => r = q
  /\ \A k \in Keys : g.entry[k].state = "in_flight" <=> \E r \in Requests : Executing(r) /\ KeyOf(r) = k

OneWorkerPerKey == WorkersKnown(reg)

\* The bytes the registry accounts for are those of the entries it holds, through evictions,
\* expiries, completions and releases: an error would starve admission or lift the limit.
BytesCounted(g) == g.total = BytesOf(g, Present(g))

BytesExact == BytesCounted(reg)

\* When the lower runtimes are shut down, no worker is executing and no request is
\* admitted: the count of the lifecycle is exact, however handlers, workers and
\* disconnects interleave with the shutdown.
DrainedBeforeLower ==
  /\ life.active = Cardinality({r \in Requests : req[r].adm = "held"})
  /\ \A c \in Callers : shut.at[c] \in PastDrain =>
       \A r \in Requests : ~Executing(r) /\ ~Waiting(r)

\* However many callers, the lower runtimes are each shut down once, also when the first
\* fails, and every caller gets the same result.
ShutdownRunsOnce ==
  /\ shut.session <= 1 /\ shut.login <= 1
  /\ \A c \in Callers : shut.at[c] = "returned" =>
       shut.session = 1 /\ shut.login = 1 /\ shut.answer[c] = life.result

\* A cached logout response is gone when its session is: whoever could still replay it
\* holds a lease of that session or is about to remove it.
LogoutForgotten ==
  \A k \in Keys, s \in SessionNumbers :
    reg.entry[k].state = "complete" /\ reg.entry[k].disp = RemoveAfterAuthSession(s) =>
      Holders(s) # {}

\* A session stays in the registry as long as a request holds a lease of it, and counts
\* exactly those, until shutdown clears the registry.
LeasesExact ==
  \A s \in SessionNumbers :
    IF app[s].present THEN app[s].active = Cardinality(Leases(s))
    ELSE Leases(s) = {} \/ life.phase # "running"

----------------------------------------------------------------------------
\* What a request holds fits where its handler and its worker are.
RequestOk(q) ==
  /\ q.kind = "serve" <=> q.key = {}
  /\ q.kind # "serve" => q.sess # 0
  /\ q.work # "none" => q.kind # "serve" /\ q.pc \in {"look", "sleep", "left"}
  /\ q.work \in {"run", "commit"} => q.adm = "held"
  /\ q.work = "commit" =>
       IF q.kind = "logout" THEN q.disp = RemoveAfterAuthSession(q.sess) ELSE q.disp \in {Retain, ExpireAt}
  /\ q.pc = "new" <=> q.adm = "none"
  /\ q.pc = "new" => q.sess = 0
  /\ q.pc = "bootstrap" => q.adm = "held" /\ q.sess = 0
  /\ q.pc = "leased" <=> q.adm = "lease"
  /\ q.pc \in {"prepared", "look", "sleep"} => q.adm = "held" /\ q.sess # 0
  /\ q.pc \in {"look", "sleep"} => q.kind # "serve"
  /\ q.adm \in {"lease", "drop_lease", "drop_replay"} => q.sess # 0
  /\ q.adm \in {"drop_lease", "drop_replay", "gone"} => q.pc = "left" /\ q.work \in {"none", "end"}

\* Sessions are numbered as they are issued, and an invalidated one stays so: whoever logged
\* one out and has not answered yet finds it invalidated or gone.
SessionsOk ==
  /\ \A s \in SessionNumbers : app[s].present => s <= issued
  /\ \A r \in Requests :
       /\ req[r].sess <= issued
       /\ req[r].work = "commit" /\ req[r].kind = "logout" /\ app[req[r].sess].present =>
            app[req[r].sess].invalidated

\* One caller leads the shutdown, step by step; nothing is admitted once it has drained.
ShutdownOk ==
  /\ life.phase = "running" =>
       shut.session = 0 /\ shut.login = 0 /\ \A c \in Callers : shut.at[c] = "idle"
  /\ life.phase = "draining" =>
       \E c \in Callers :
         /\ shut.at[c] \in {"drain"} \cup PastDrain
         /\ \A d \in Callers \ {c} : shut.at[d] \in {"idle", "join"}
         /\ shut.session = (IF shut.at[c] \in {"drain", "session"} THEN 0 ELSE 1)
         /\ shut.login = (IF shut.at[c] \in {"drain", "session", "login"} THEN 0 ELSE 1)
         /\ shut.at[c] \in PastDrain => life.active = 0
  /\ life.phase = "complete" =>
       /\ shut.session = 1 /\ shut.login = 1 /\ life.active = 0
       /\ \A c \in Callers : \/ shut.at[c] \in {"idle", "join"}
                             \/ shut.at[c] = "returned" /\ shut.answer[c] = life.result

ActiveExact == life.active = Cardinality({r \in Requests : req[r].adm = "held"})

\* A registry that agrees with its requests and sessions.  A cached logout is of a session
\* that was invalidated and that somebody still holds.
RegistryOk(g) ==
  /\ g \in [entry : [Keys -> Entries], total : Nat, seq : Nat]
  /\ \A k \in Keys : g.entry[k].state = "absent" => g.entry[k] = NoEntry
  /\ BytesCounted(g) /\ WaitersKnown(g) /\ WorkersKnown(g)
  /\ \A k \in Keys, s \in SessionNumbers :
       g.entry[k].state = "complete" /\ g.entry[k].disp = RemoveAfterAuthSession(s) =>
         /\ g.entry[k].id = [kind |-> "logout", sess |-> s]
         /\ app[s].present => app[s].invalidated
         /\ Holders(s) # {}

\* The inductive invariant of requests, sessions, registry and shutdown, with the types.
ControlInv ==
  /\ TypeOK /\ \A r \in Requests : RequestOk(req[r])
  /\ SessionsOk /\ LeasesExact /\ ShutdownOk /\ ActiveExact /\ RegistryOk(reg)

\* Nobody is left behind: as long as a request waits, an admission is held or a shutdown
\* has not returned, something goes on by itself.  A completion is never missed between
\* looking at an entry and going to sleep, and the drain never waits for a request that
\* waits for the drain.
NothingStuck ==
  \/ ENABLED Progress
  \/ /\ \A r \in Requests : ~Waiting(r) /\ req[r].adm \in {"none", "gone"}
     /\ \A c \in Callers : shut.at[c] \in {"idle", "returned"}
  \/ life.phase = "running" /\ \E r \in Requests : req[r].pc = "prepared"
=====================================================================================
