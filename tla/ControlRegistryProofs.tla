-------------------------------- MODULE ControlRegistryProofs --------------------------------
(******************************************************************************)
(* What a step does to the registry of idempotent commands, and from that,    *)
(* with the facts of ControlPlaneProofs about requests, sessions and shutdown,*)
(* that ControlInv is an invariant, and the properties that follow from it.   *)
(******************************************************************************)
EXTENDS ControlPlaneProofs

----------------------------------------------------------------------------
(* The registry *)

LEMMA KeySame ==
  ASSUME NEW q \in Requests, req'[q].key = req[q].key
  PROVE  KeyOf(q)' = KeyOf(q)
BY Zenon DEF KeyOf

LEMMA IdentitySame ==
  ASSUME NEW q \in Requests, req'[q].kind = req[q].kind, req'[q].sess = req[q].sess
  PROVE  IdentityOf(q)' = IdentityOf(q)
BY Zenon DEF IdentityOf

SameCommand(q) == req'[q].key = req[q].key /\ req'[q].kind = req[q].kind /\ req'[q].sess = req[q].sess

\* A cached logout is of an invalidated session that somebody holds.
Remembered(g, k, s) ==
  g.entry[k].state = "complete" /\ g.entry[k].disp = RemoveAfterAuthSession(s)

\* Who waits and who executes is unchanged.
LEMMA RegistryFrame ==
  ASSUME NEW g, RegistryOk(g), reg' = g,
         \A q \in Requests : /\ Waiting(q)' <=> Waiting(q)
                             /\ Executing(q)' <=> Executing(q)
                             /\ Waiting(q) \/ Executing(q) => SameCommand(q),
         \A k \in Keys, s \in SessionNumbers : Remembered(g, k, s) =>
           (app'[s].present => app'[s].invalidated) /\ Holders(s)' # {}
  PROVE  RegistryOk(reg)'
<1>1. ASSUME NEW q \in Requests, Waiting(q) \/ Executing(q)
      PROVE  KeyOf(q)' = KeyOf(q) /\ IdentityOf(q)' = IdentityOf(q)
  BY <1>1, KeySame, IdentitySame, Zenon DEF SameCommand
<1>2. \A k \in Keys : {q \in Requests : Waiting(q)' /\ KeyOf(q)' = k} = {q \in Requests : Waiting(q) /\ KeyOf(q) = k}
  BY <1>1, Zenon
<1>3. WaitersKnown(reg)'
  BY <1>1, <1>2, Zenon DEF RegistryOk, WaitersKnown
<1>4. WorkersKnown(reg)'
  BY <1>1 DEF RegistryOk, WorkersKnown
<1>5. BytesCounted(reg)'
  BY Zenon DEF RegistryOk, BytesCounted
<1> QED BY <1>3, <1>4, <1>5, Zenon DEF RegistryOk, Remembered

\* Leases are not taken from anybody and no session becomes valid again.
LEMMA RegistryKept ==
  ASSUME NEW g, RegistryOk(g), reg' = g,
         \A q \in Requests : /\ Waiting(q)' <=> Waiting(q)
                             /\ Executing(q)' <=> Executing(q)
                             /\ Waiting(q) \/ Executing(q) => SameCommand(q),
         \A s \in SessionNumbers :
           /\ Holders(s) \subseteq Holders(s)'
           /\ app'[s].present => app[s].present /\ (app[s].invalidated => app'[s].invalidated)
  PROVE  RegistryOk(reg)'
<1>1. \A k \in Keys, s \in SessionNumbers : Remembered(g, k, s) =>
        (app'[s].present => app'[s].invalidated) /\ Holders(s)' # {}
  BY ZenonT(30) DEF RegistryOk, Remembered
<1> QED BY <1>1, RegistryFrame, Zenon

\* Whoever waits has an entry.
LEMMA WaiterHasEntry ==
  ASSUME RequestsOk, NEW g, RegistryOk(g), NEW r \in Requests, Waiting(r)
  PROVE  /\ KeyOf(r) \in Keys /\ KeyOf(r) \in Present(g) /\ g.entry[KeyOf(r)].id = IdentityOf(r)
         /\ g.entry[KeyOf(r)].waiters = Cardinality(WaitersOf(KeyOf(r)))
         /\ Cardinality(WaitersOf(KeyOf(r))) >= 1
<1>1. req[r].kind # "serve" /\ req[r].kind \in Kinds
  BY Zenon DEF RequestsOk, RequestStates, RequestOk, Waiting
<1>2. KeyOf(r) \in Keys
  BY <1>1, KeyOfMutation, Zenon
<1>3. g.entry[KeyOf(r)].id = IdentityOf(r) /\ g.entry[KeyOf(r)].waiters = Cardinality(WaitersOf(KeyOf(r)))
  BY <1>2, Zenon DEF RegistryOk, WaitersKnown, WaitersOf
<1>4. IdentityOf(r) # NoIdentity
  BY <1>1, Zenon DEF IdentityOf, NoIdentity, Kinds
<1>5. KeyOf(r) \in Present(g)
  BY <1>2, <1>3, <1>4 DEF RegistryOk, Present, NoEntry
<1>6. Cardinality(WaitersOf(KeyOf(r))) >= 1
  BY CountOneLess, ZenonT(30) DEF WaitersOf
<1> QED BY <1>2, <1>3, <1>5, <1>6, Zenon

\* Whoever executes has an entry in flight.
LEMMA WorkerHasEntry ==
  ASSUME RequestsOk, NEW g, RegistryOk(g), NEW r \in Requests, Executing(r)
  PROVE  /\ KeyOf(r) \in Keys /\ g.entry[KeyOf(r)].id = IdentityOf(r)
         /\ g.entry[KeyOf(r)].state = "in_flight"
<1>1. KeyOf(r) \in Keys
  BY KeyOfMutation, Zenon DEF RequestsOk, RequestOk, Executing
<1> QED BY <1>1, Zenon DEF RegistryOk, WorkersKnown

\* A registry with one entry changed and the bytes adjusted
LEMMA OneEntryChanged ==
  ASSUME NEW g \in Registries, BytesCounted(g), NEW k \in Keys, NEW e \in Entries, e.state # "absent",
         \A j \in Keys : g.entry[j].state = "absent" => g.entry[j] = NoEntry,
         NEW h \in Registries, h.entry[k] = e, \A j \in Keys \ {k} : h.entry[j] = g.entry[j],
         h.total = g.total + e.bytes - g.entry[k].bytes
  PROVE  BytesCounted(h)
<1> DEFINE P == Present(g) \ {k}
<1>1. g.entry \in [Keys -> Entries] /\ P \in SUBSET Keys
  BY Zenon DEF Registries, Present
<1>2. Present(h) = P \cup {k} /\ P \cap {k} = {}
  BY <1>1, Zenon DEF Present
<1> HIDE DEF P
<1>3. \A j \in P : h.entry[j].bytes = g.entry[j].bytes
  BY <1>1, <1>2, Zenon
<1>4. BytesOf(h, P) = BytesOf(g, P)
  BY <1>3, BytesSame
<1>5. BytesOf(h, P \cup {k}) = BytesOf(h, P) + BytesOf(h, {k})
  BY <1>1, <1>2, BytesAdd
<1>6. BytesOf(h, {k}) = e.bytes /\ e.bytes \in Nat
  BY BytesOfOne, Zenon DEF Entries
<1>7. BytesOf(g, Present(g)) = BytesOf(g, P) + g.entry[k].bytes
  <2>1. CASE k \in Present(g)
    <3>1. Present(g) = P \cup {k}
      BY <2>1, Zenon DEF P
    <3>2. BytesOf(g, P \cup {k}) = BytesOf(g, P) + BytesOf(g, {k})
      BY <1>1, <1>2, BytesAdd
    <3> QED BY <3>1, <3>2, BytesOfOne, Zenon
  <2>2. CASE k \notin Present(g)
    <3>1. Present(g) = P /\ g.entry[k].bytes = 0
      BY <2>2 DEF P, Present, NoEntry
    <3>2. BytesOf(g, P) \in Nat
      BY <1>1, BytesFinite, Zenon
    <3> QED BY <3>1, <3>2
  <2> QED BY <2>1, <2>2, Zenon
<1>8. BytesOf(g, P) \in Nat /\ g.entry[k].bytes \in Nat
  BY <1>1, BytesFinite, Zenon DEF Entries
<1> QED BY <1>2, <1>4, <1>5, <1>6, <1>7, <1>8 DEF BytesCounted

\* One entry of g changes to e, for the requests of its key.
EntryChanges(g, k, e) ==
  /\ e \in Entries /\ e.state # "absent"
  /\ reg' \in Registries /\ reg'.entry[k] = e /\ \A j \in Keys \ {k} : reg'.entry[j] = g.entry[j]
  /\ reg'.total = g.total + e.bytes - g.entry[k].bytes
  /\ \A s \in SessionNumbers : e.state = "complete" /\ e.disp = RemoveAfterAuthSession(s) =>
       /\ e.id = [kind |-> "logout", sess |-> s]
       /\ app[s].present => app[s].invalidated
       /\ Holders(s) # {}

CommandsKept == app' = app /\ \A q \in Requests : SameCommand(q) /\ req'[q].adm = req[q].adm

RequestsOfKeyMove(k, e) ==
  /\ \A q \in Requests : KeyOf(q) # k => (Waiting(q)' <=> Waiting(q)) /\ (Executing(q)' <=> Executing(q))
  /\ e.waiters = Cardinality({q \in Requests : Waiting(q)' /\ KeyOf(q) = k})
  /\ \A q \in Requests : (Waiting(q)' \/ Executing(q)') /\ KeyOf(q) = k => e.id = IdentityOf(q)
  /\ e.state = "in_flight" <=> \E q \in Requests : Executing(q)' /\ KeyOf(q) = k
  /\ \A p, q \in Requests : Executing(p)' /\ Executing(q)' /\ KeyOf(p) = k /\ KeyOf(q) = k => p = q

LEMMA OneEntryStep ==
  ASSUME RequestsOk, NEW g, RegistryOk(g), NEW k \in Keys, NEW e,
         EntryChanges(g, k, e), CommandsKept, RequestsOfKeyMove(k, e)
  PROVE  RegistryOk(reg)'
<1>1. \A q \in Requests : KeyOf(q)' = KeyOf(q) /\ IdentityOf(q)' = IdentityOf(q)
  BY KeySame, IdentitySame, Zenon DEF CommandsKept, SameCommand
<1>2. \A s \in SessionNumbers : Holders(s)' = Holders(s)
  BY Zenon DEF CommandsKept, Holders, SameCommand
<1>3. g \in Registries /\ BytesCounted(g) /\ \A j \in Keys : g.entry[j].state = "absent" => g.entry[j] = NoEntry
  BY Zenon DEF RegistryOk, Registries
<1>4. BytesCounted(reg)'
  <2>1. BytesCounted(reg')
    BY <1>3, OneEntryChanged, ZenonT(30) DEF EntryChanges
  <2> QED BY <2>1, Zenon DEF BytesCounted
<1>5. ASSUME NEW j \in Keys
      PROVE  reg'.entry[j].waiters = Cardinality({q \in Requests : Waiting(q)' /\ KeyOf(q)' = j})
  <2>1. CASE j = k
    <3>1. {q \in Requests : Waiting(q)' /\ KeyOf(q)' = j} = {q \in Requests : Waiting(q)' /\ KeyOf(q) = k}
      BY <1>1, <2>1, Zenon
    <3> QED BY <2>1, <3>1, Zenon DEF EntryChanges, RequestsOfKeyMove
  <2>2. CASE j # k
    <3>1. {q \in Requests : Waiting(q)' /\ KeyOf(q)' = j} = {q \in Requests : Waiting(q) /\ KeyOf(q) = j}
      BY <1>1, <2>2, Zenon DEF RequestsOfKeyMove
    <3> QED BY <2>2, <3>1 DEF EntryChanges, RegistryOk, WaitersKnown
  <2> QED BY <2>1, <2>2, Zenon
<1>6. ASSUME NEW q \in Requests, Waiting(q)' PROVE reg'.entry[KeyOf(q)'].id = IdentityOf(q)'
  <2>1. CASE KeyOf(q) = k
    BY <1>1, <1>6, <2>1 DEF EntryChanges, RequestsOfKeyMove
  <2>2. CASE KeyOf(q) # k
    <3>1. Waiting(q)
      BY <1>6, <2>2, Zenon DEF RequestsOfKeyMove
    <3>2. KeyOf(q) \in Keys /\ g.entry[KeyOf(q)].id = IdentityOf(q)
      BY <3>1, WaiterHasEntry, Zenon
    <3> QED BY <1>1, <2>2, <3>2, Zenon DEF EntryChanges
  <2> QED BY <2>1, <2>2, Zenon
<1>7. WaitersKnown(reg)'
  BY <1>5, <1>6, Zenon DEF WaitersKnown
<1>8. ASSUME NEW p \in Requests, NEW q \in Requests, Executing(p)', Executing(q)', KeyOf(p)' = KeyOf(q)'
      PROVE  p = q
  BY <1>1, <1>8 DEF RequestsOfKeyMove, RegistryOk, WorkersKnown
<1>9. ASSUME NEW j \in Keys
      PROVE  reg'.entry[j].state = "in_flight" <=> \E q \in Requests : Executing(q)' /\ KeyOf(q)' = j
  <2>1. CASE j = k
    BY <1>1, <2>1, ZenonT(30) DEF EntryChanges, RequestsOfKeyMove
  <2>2. CASE j # k
    <3>1. g.entry[j].state = "in_flight" <=> \E q \in Requests : Executing(q) /\ KeyOf(q) = j
      BY Zenon DEF RegistryOk, WorkersKnown
    <3> QED BY <1>1, <2>2, <3>1, SMTT(30) DEF EntryChanges, RequestsOfKeyMove
  <2> QED BY <2>1, <2>2, Zenon
<1>10. ASSUME NEW q \in Requests, Executing(q)' PROVE reg'.entry[KeyOf(q)'].id = IdentityOf(q)'
  <2>1. CASE KeyOf(q) = k
    BY <1>1, <1>10, <2>1, ZenonT(30) DEF EntryChanges, RequestsOfKeyMove
  <2>2. CASE KeyOf(q) # k
    <3>1. Executing(q)
      BY <1>10, <2>2, Zenon DEF RequestsOfKeyMove
    <3>2. KeyOf(q) \in Keys /\ g.entry[KeyOf(q)].id = IdentityOf(q)
      BY <3>1, WorkerHasEntry, Zenon
    <3> QED BY <1>1, <2>2, <3>2, Zenon DEF EntryChanges
  <2> QED BY <2>1, <2>2, Zenon
<1>13. WorkersKnown(reg)'
  BY <1>8, <1>9, <1>10, Zenon DEF WorkersKnown
<1>11. \A j \in Keys : reg'.entry[j].state = "absent" => reg'.entry[j] = NoEntry
  BY <1>3, Zenon DEF EntryChanges
<1>12. ASSUME NEW j \in Keys, NEW s \in SessionNumbers,
              reg'.entry[j].state = "complete", reg'.entry[j].disp = RemoveAfterAuthSession(s)
       PROVE  /\ reg'.entry[j].id = [kind |-> "logout", sess |-> s]
              /\ app'[s].present => app'[s].invalidated
              /\ Holders(s)' # {}
  <2>1. CASE j = k
    BY <1>2, <1>12, <2>1, Zenon DEF EntryChanges, CommandsKept
  <2>2. CASE j # k
    BY <1>2, <1>12, <2>2 DEF EntryChanges, CommandsKept, RegistryOk
  <2> QED BY <2>1, <2>2, Zenon
<1> QED BY <1>4, <1>7, <1>11, <1>12, <1>13, ZenonT(30) DEF EntryChanges, RegistryOk, Registries

\* A handler that does not wait leaves.
LEMMA LeaveKeeps ==
  ASSUME RequestsOk, NEW g, RegistryOk(g), reg' = g, NEW r \in Requests, ~Waiting(r), Leave(r), app' = app
  PROVE  RegistryOk(reg)'
<1>1. \A q \in Requests : /\ SameCommand(q) /\ req'[q].adm = req[q].adm /\ req'[q].work = req[q].work
                          /\ IF q = r THEN req'[q].pc = "left" ELSE req'[q].pc = req[q].pc
  BY DEF RequestsOk, RequestStates, SameCommand, Leave
<1>2. \A q \in Requests : (Waiting(q)' <=> Waiting(q)) /\ (Executing(q)' <=> Executing(q))
  BY <1>1, Zenon DEF Waiting, Executing
<1>3. \A s \in SessionNumbers : Holders(s)' = Holders(s)
  BY <1>1, Zenon DEF Holders, SameCommand
<1> QED BY <1>1, <1>2, <1>3, RegistryKept, Zenon

\* A request joins an entry, or is refused.
LEMMA JoinEntryKeeps ==
  ASSUME RequestsOk, NEW g, RegistryOk(g), NEW r \in Requests, JoinEntry(r, g)
  PROVE  RegistryOk(reg)'
<1>0. /\ ~Waiting(r) /\ req[r].kind # "serve" /\ KeyOf(r) \in Present(g) /\ app' = app
      /\ \/ g.entry[KeyOf(r)].id = IdentityOf(r) /\ reg' = Joined(g, KeyOf(r)) /\ req' = [req EXCEPT ![r].pc = "look"]
         \/ reg' = g /\ Leave(r)
  BY Zenon DEF JoinEntry, Waiting
<1>left. CASE reg' = g /\ Leave(r)
  BY <1>0, <1>left, LeaveKeeps, Zenon
<1>join. CASE g.entry[KeyOf(r)].id = IdentityOf(r) /\ reg' = Joined(g, KeyOf(r)) /\ req' = [req EXCEPT ![r].pc = "look"]
  <2>1. PICK k \in Keys : k = KeyOf(r)
    BY <1>0, KeyOfMutation, Zenon
  <2>2. /\ g \in Registries /\ g.entry[k] \in Entries /\ g.entry[k].state # "absent"
        /\ req \in [Requests -> RequestStates]
    BY <1>0, <2>1, Zenon DEF RegistryOk, Registries, Present, RequestsOk
  <2> DEFINE e == [g.entry[k] EXCEPT !.waiters = g.entry[k].waiters + 1]
  <2>3. /\ e \in Entries /\ e.state = g.entry[k].state /\ e.id = g.entry[k].id /\ e.bytes = g.entry[k].bytes
        /\ e.disp = g.entry[k].disp /\ e.waiters = g.entry[k].waiters + 1
    BY <2>2 DEF Entries
  <2>4. reg' = [g EXCEPT !.entry = [g.entry EXCEPT ![k] = e]]
    BY <1>join, <2>1, <2>2, Zenon DEF Joined, Registries
  <2> HIDE DEF e
  <2>5. /\ reg' \in Registries /\ reg'.entry[k] = e /\ (\A j \in Keys \ {k} : reg'.entry[j] = g.entry[j])
        /\ reg'.total = g.total
    BY <2>2, <2>3, <2>4, Zenon DEF Registries
  <2>6. /\ \A q \in Requests : /\ SameCommand(q) /\ req'[q].adm = req[q].adm /\ req'[q].work = req[q].work
                               /\ q # r => req'[q] = req[q]
        /\ req'[r].pc = "look"
    BY <1>join, <2>2, ZenonT(30) DEF RequestStates, SameCommand
  <2>7. \A q \in Requests : (Executing(q)' <=> Executing(q)) /\ (Waiting(q)' <=> (Waiting(q) \/ q = r))
    BY <2>6, Zenon DEF Executing, Waiting
  <2>8. e.waiters = Cardinality({q \in Requests : Waiting(q)' /\ KeyOf(q) = k})
    <3>1. {q \in Requests : Waiting(q)' /\ KeyOf(q) = k} = WaitersOf(k) \cup {r}
      BY <2>1, <2>7, Zenon DEF WaitersOf
    <3>2. Cardinality(WaitersOf(k) \cup {r}) = Cardinality(WaitersOf(k)) + 1
      BY <1>0, CountOneMore, Zenon DEF WaitersOf
    <3>3. g.entry[k].waiters = Cardinality(WaitersOf(k))
      BY Zenon DEF WaitersOf, RegistryOk, WaitersKnown
    <3> QED BY <2>3, <3>1, <3>2, <3>3, Zenon
  <2>9. \A q \in Requests : (Waiting(q)' \/ Executing(q)') /\ KeyOf(q) = k => e.id = IdentityOf(q)
    BY <1>join, <2>1, <2>3, <2>7, SMTT(30) DEF RegistryOk, WaitersKnown, WorkersKnown
  <2>10. /\ e.state = "in_flight" <=> \E q \in Requests : Executing(q)' /\ KeyOf(q) = k
         /\ \A p, q \in Requests : Executing(p)' /\ Executing(q)' /\ KeyOf(p) = k /\ KeyOf(q) = k => p = q
    BY <2>3, <2>7, ZenonT(30) DEF RegistryOk, WorkersKnown
  <2>11. \A s \in SessionNumbers : e.state = "complete" /\ e.disp = RemoveAfterAuthSession(s) =>
           /\ e.id = [kind |-> "logout", sess |-> s]
           /\ app[s].present => app[s].invalidated
           /\ Holders(s) # {}
    BY <2>3, ZenonT(30) DEF RegistryOk
  <2>12. \A q \in Requests : KeyOf(q) # k => (Waiting(q)' <=> Waiting(q)) /\ (Executing(q)' <=> Executing(q))
    BY <2>1, <2>7, Zenon
  <2>13. reg'.total = g.total + e.bytes - g.entry[k].bytes /\ e.state # "absent"
    BY <2>2, <2>3, <2>5 DEF Registries, Entries
  <2>14. EntryChanges(g, k, e)
    BY <2>3, <2>5, <2>11, <2>13, Zenon DEF EntryChanges
  <2>15. CommandsKept
    BY <1>0, <2>6, Zenon DEF CommandsKept
  <2>16. RequestsOfKeyMove(k, e)
    BY <2>8, <2>9, <2>10, <2>12, Zenon DEF RequestsOfKeyMove
  <2> QED BY <2>14, <2>15, <2>16, OneEntryStep, Zenon
<1> QED BY <1>0, <1>left, <1>join, Zenon

\* make_capacity brings nothing back.
LEMMA CapacityAbsent ==
  ASSUME NEW g, NEW k \in Keys, k \notin Present(g)
  PROVE  k \notin Present(WithCapacity(g))
<1>1. ASSUME NEW K PROVE k \notin Present(Without(g, K))
  BY Zenon DEF Present, Without, NoEntry
<1> QED BY <1>1, Zenon DEF WithCapacity, EvictedUntil, Evicted

\* A request installs an entry and its worker, or is refused.
LEMMA InstallEntryKeeps ==
  ASSUME RequestsOk, NEW f, RegistryOk(f), NEW r \in Requests, InstallEntry(r, f)
  PROVE  RegistryOk(reg)'
<1> DEFINE g == WithCapacity(f)
<1>0. /\ ~Waiting(r) /\ req[r].pc = "prepared" /\ req[r].kind # "serve" /\ KeyOf(r) \notin Present(f) /\ app' = app
      /\ \/ reg' = Inserted(g, KeyOf(r), IdentityOf(r)) /\ req' = [req EXCEPT ![r].pc = "look", ![r].work = "run"]
         \/ reg' = g /\ Leave(r)
  BY Zenon DEF InstallEntry, Waiting
<1>g. RegistryOk(g)
  BY WithCapacityKeeps, Zenon
<1>1. PICK k \in Keys : k = KeyOf(r)
  BY <1>0, KeyOfMutation, Zenon
<1>2. k \notin Present(g)
  BY <1>0, <1>1, CapacityAbsent, Zenon
<1> HIDE DEF g
<1>left. CASE reg' = g /\ Leave(r)
  BY <1>0, <1>g, <1>left, LeaveKeeps, Zenon
<1>new. CASE reg' = Inserted(g, KeyOf(r), IdentityOf(r)) /\ req' = [req EXCEPT ![r].pc = "look", ![r].work = "run"]
  <2>1. g \in Registries /\ g.entry[k] = NoEntry /\ req \in [Requests -> RequestStates] /\ RequestOk(req[r])
    BY <1>g, <1>2, Zenon DEF RegistryOk, Registries, Present, RequestsOk
  <2> DEFINE e == [state |-> "in_flight", id |-> IdentityOf(r), bytes |-> RequestBytes, waiters |-> 1,
                   seq |-> 0, disp |-> Retain]
  <2>3. IdentityOf(r) \in [kind : Kinds \cup {"none"}, sess : 0 .. MaxIssued]
    BY <2>1, ControlAssumption DEF IdentityOf, RequestStates
  <2>4. e \in Entries
    <3>1. Retain \in Dispositions
      BY Zenon DEF Dispositions
    <3> QED BY <2>3, <3>1, RegistryAssumption, Zenon DEF Entries
  <2>5. reg' = [g EXCEPT !.entry = [g.entry EXCEPT ![k] = e], !.total = g.total + RequestBytes]
    BY <1>new, <1>1, <2>1, Zenon DEF Inserted, Registries
  <2>6. /\ e.state = "in_flight" /\ e.id = IdentityOf(r) /\ e.waiters = 1 /\ e.bytes = RequestBytes
        /\ g.entry[k].bytes = 0 /\ g.entry[k].waiters = 0 /\ g.entry[k].state = "absent"
    BY <2>1 DEF NoEntry
  <2> HIDE DEF e
  <2>7. EntryChanges(g, k, e)
    <3>1. reg' \in Registries /\ reg'.entry[k] = e /\ \A j \in Keys \ {k} : reg'.entry[j] = g.entry[j]
      <4>1. g.entry \in [Keys -> Entries] /\ g.total + RequestBytes \in Nat
        BY <2>1, RegistryAssumption DEF Registries
      <4>2. reg'.entry = [g.entry EXCEPT ![k] = e]
        BY <2>1, <2>5, Zenon DEF Registries
      <4>3. reg' \in Registries
        BY <2>1, <2>4, <2>5, <4>1, ZenonT(30) DEF Registries
      <4> QED BY <4>1, <4>2, <4>3, Zenon
    <3>2. reg'.total = g.total + RequestBytes
      BY <2>1, <2>5, Zenon DEF Registries
    <3>3. reg'.total = g.total + e.bytes - g.entry[k].bytes
      BY <2>1, <2>6, <3>2, RegistryAssumption DEF Registries
    <3> QED BY <2>4, <2>6, <3>1, <3>3, Zenon DEF EntryChanges
  <2>8. /\ \A q \in Requests : /\ SameCommand(q) /\ req'[q].adm = req[q].adm
                               /\ q # r => req'[q] = req[q]
        /\ req'[r].pc = "look" /\ req'[r].work = "run"
    BY <1>new, <2>1 DEF RequestStates, SameCommand
  <2>9. CommandsKept
    BY <1>0, <2>8, Zenon DEF CommandsKept
  <2>10. \A q \in Requests : (Executing(q)' <=> (Executing(q) \/ q = r)) /\ (Waiting(q)' <=> (Waiting(q) \/ q = r))
    BY <2>8, Zenon DEF Executing, Waiting
  <2>11. \A q \in Requests : KeyOf(q) = k => ~Waiting(q) /\ ~Executing(q)
    <3>1. WaitersKnown(g) /\ WorkersKnown(g)
      BY <1>g, Zenon DEF RegistryOk
    <3> QED BY <2>6, <3>1, Unwaited, Zenon DEF WorkersKnown
  <2>12. e.waiters = Cardinality({q \in Requests : Waiting(q)' /\ KeyOf(q) = k})
    <3>1. {q \in Requests : Waiting(q)' /\ KeyOf(q) = k} = {r}
      BY <1>1, <2>10, <2>11, Zenon
    <3> QED BY <2>6, <3>1, FS_Singleton, ZenonT(30)
  <2>13. RequestsOfKeyMove(k, e)
    BY <1>1, <2>6, <2>10, <2>11, <2>12, Zenon DEF RequestsOfKeyMove
  <2> QED BY <1>g, <2>7, <2>9, <2>13, OneEntryStep, Zenon
<1> QED BY <1>0, <1>left, <1>new, Zenon

\* A waiter goes, with its answer or without.
LEMMA LeftKeeps ==
  ASSUME RequestsOk, RegistryOk(reg), NEW r \in Requests, Waiting(r), Leave(r), app' = app,
         reg' = Left(reg, KeyOf(r))
  PROVE  RegistryOk(reg)'
<1>1. PICK k \in Keys : k = KeyOf(r)
  BY WaiterHasEntry, Zenon
<1>2. /\ reg \in Registries /\ reg.entry[k] \in Entries /\ reg.entry[k].state # "absent"
      /\ req \in [Requests -> RequestStates] /\ k \in Present(reg)
      /\ reg.entry[k].waiters = Cardinality(WaitersOf(k)) /\ Cardinality(WaitersOf(k)) >= 1
  BY <1>1, WaiterHasEntry, ZenonT(30) DEF RegistryOk, Registries, Present, RequestsOk
<1> DEFINE e == [reg.entry[k] EXCEPT !.waiters = reg.entry[k].waiters - 1]
<1>3. /\ e \in Entries /\ e.state = reg.entry[k].state /\ e.id = reg.entry[k].id /\ e.bytes = reg.entry[k].bytes
      /\ e.disp = reg.entry[k].disp /\ e.waiters = reg.entry[k].waiters - 1
  BY <1>2 DEF Entries
<1>4. reg' = [reg EXCEPT !.entry = [reg.entry EXCEPT ![k] = e]]
  BY <1>1, <1>2, Zenon DEF Left, Registries
<1> HIDE DEF e
<1>5. EntryChanges(reg, k, e)
  <2>1. /\ reg' \in Registries /\ reg'.entry[k] = e /\ (\A j \in Keys \ {k} : reg'.entry[j] = reg.entry[j])
        /\ reg'.total = reg.total
    BY <1>2, <1>3, <1>4 DEF Registries
  <2>2. reg'.total = reg.total + e.bytes - reg.entry[k].bytes
    BY <1>2, <1>3, <2>1, SMTT(30) DEF Registries, Entries
  <2>3. \A s \in SessionNumbers : e.state = "complete" /\ e.disp = RemoveAfterAuthSession(s) =>
           /\ e.id = [kind |-> "logout", sess |-> s]
           /\ app[s].present => app[s].invalidated
           /\ Holders(s) # {}
    BY <1>3, ZenonT(30) DEF RegistryOk
  <2> QED BY <1>2, <1>3, <2>1, <2>2, <2>3, Zenon DEF EntryChanges
<1>6. /\ \A q \in Requests : /\ SameCommand(q) /\ req'[q].adm = req[q].adm /\ req'[q].work = req[q].work
                             /\ q # r => req'[q] = req[q]
      /\ req'[r].pc = "left"
  BY <1>2 DEF RequestStates, SameCommand, Leave
<1>7. CommandsKept
  BY <1>6, Zenon DEF CommandsKept
<1>8. \A q \in Requests : (Executing(q)' <=> Executing(q)) /\ (Waiting(q)' <=> (Waiting(q) /\ q # r))
  BY <1>6, Zenon DEF Executing, Waiting
<1>9. e.waiters = Cardinality({q \in Requests : Waiting(q)' /\ KeyOf(q) = k})
  <2>1. {q \in Requests : Waiting(q)' /\ KeyOf(q) = k} = WaitersOf(k) \ {r} /\ r \in WaitersOf(k)
    BY <1>1, <1>8, Zenon DEF WaitersOf
  <2>2. Cardinality(WaitersOf(k) \ {r}) = Cardinality(WaitersOf(k)) - 1
    BY <2>1, CountOneLess, Zenon DEF WaitersOf
  <2> QED BY <1>2, <1>3, <2>1, <2>2, ZenonT(30)
<1>10. RequestsOfKeyMove(k, e)
  <2>1. \A q \in Requests : (Waiting(q)' \/ Executing(q)') /\ KeyOf(q) = k => e.id = IdentityOf(q)
    BY <1>3, <1>8, Zenon DEF RegistryOk, WaitersKnown, WorkersKnown
  <2>2. /\ e.state = "in_flight" <=> \E q \in Requests : Executing(q)' /\ KeyOf(q) = k
        /\ \A p, q \in Requests : Executing(p)' /\ Executing(q)' /\ KeyOf(p) = k /\ KeyOf(q) = k => p = q
    BY <1>3, <1>8, ZenonT(30) DEF RegistryOk, WorkersKnown
  <2>3. \A q \in Requests : KeyOf(q) # k => (Waiting(q)' <=> Waiting(q)) /\ (Executing(q)' <=> Executing(q))
    BY <1>1, <1>8, Zenon
  <2> QED BY <1>9, <2>1, <2>2, <2>3, Zenon DEF RequestsOfKeyMove
<1> QED BY <1>5, <1>7, <1>10, OneEntryStep, Zenon

\* complete: the entry is completed, and others may be evicted before or after it alike.
LEMMA CompletedShape ==
  ASSUME NEW g \in Registries, NEW k \in Keys, g.entry[k].state = "in_flight", NEW bytes \in Nat, NEW disp
  PROVE  \E K \in SUBSET Removable(g) :
           LET w == Without(g, K)
               e == Done(g.entry[k], bytes, disp, g.seq + 1)
           IN  /\ k \notin K
               /\ Completed(g, k, bytes, disp)
                    = [entry |-> [w.entry EXCEPT ![k] = e], total |-> w.total + bytes, seq |-> g.seq + 1]
<1> DEFINE e == Done(g.entry[k], bytes, disp, g.seq + 1)
           c == [entry |-> [g.entry EXCEPT ![k] = e], total |-> g.total + bytes, seq |-> g.seq + 1]
<1>1. PICK n : Completed(g, k, bytes, disp) = Evicted(c, {k}, n)
  BY ZenonT(30) DEF Completed, EvictedUntil
<1>2. PICK K \in SUBSET Evictable(c, {k}) : Completed(g, k, bytes, disp) = Without(c, K)
  BY <1>1, ZenonT(30) DEF Evicted
<1> HIDE DEF e
<1>3. g.entry \in [Keys -> Entries] /\ g.total \in Nat
  BY Zenon DEF Registries
<1>4. \A j \in Keys \ {k} : c.entry[j] = g.entry[j]
  BY <1>3, Zenon
<1>5. K \in SUBSET Removable(g) /\ k \notin K /\ K \in SUBSET Keys
  BY <1>2, <1>4, Zenon DEF Evictable, Present, Removable
<1>6. BytesOf(c, K) = BytesOf(g, K) /\ BytesOf(g, K) \in Nat
  <2>1. \A j \in K : c.entry[j].bytes = g.entry[j].bytes
    BY <1>4, <1>5, Zenon
  <2> HIDE DEF c
  <2> QED BY <1>5, <2>1, BytesSame, BytesFinite, ZenonT(30)
<1>7. [j \in Keys |-> IF j \in K THEN NoEntry ELSE c.entry[j]]
        = [[j \in Keys |-> IF j \in K THEN NoEntry ELSE g.entry[j]] EXCEPT ![k] = e]
  BY <1>3, <1>5, ZenonT(30)
<1>8. c.total - BytesOf(c, K) = (g.total - BytesOf(g, K)) + bytes
  BY <1>3, <1>6
<1>9. Without(c, K) = [entry |-> [Without(g, K).entry EXCEPT ![k] = e], total |-> Without(g, K).total + bytes,
                       seq |-> g.seq + 1]
  BY <1>7, <1>8, ZenonT(30) DEF Without
<1> QED BY <1>2, <1>5, <1>9, Zenon DEF e

LEMMA DoneFacts ==
  ASSUME NEW x \in Entries, NEW disp \in Dispositions, NEW bytes \in Nat, NEW n \in Nat
  PROVE  /\ Done(x, bytes, disp, n) \in Entries /\ Done(x, bytes, disp, n).state = "complete"
         /\ Done(x, bytes, disp, n).id = x.id /\ Done(x, bytes, disp, n).disp = disp
         /\ Done(x, bytes, disp, n).bytes = x.bytes + bytes /\ Done(x, bytes, disp, n).waiters = x.waiters
<1>1. x.bytes + bytes \in Nat
  BY DEF Entries
<1> QED BY <1>1, Zenon DEF Entries, Done

\* A worker commits and wakes the sleeping waiters.
LEMMA CommitKeeps ==
  ASSUME RequestsOk, SessionsInv, RegistryOk(reg), NEW r \in Requests, NEW bytes \in ResponseBytes,
         Commit(r, bytes)
  PROVE  RegistryOk(reg)'
<1>1. /\ Executing(r) /\ req[r].work = "commit" /\ app' = app /\ bytes \in Nat
      /\ reg \in Registries /\ req \in [Requests -> RequestStates] /\ RequestOk(req[r])
  BY ControlAssumption, ZenonT(30) DEF Commit, Executing, RegistryOk, Registries, RequestsOk
<1>2. PICK k \in Keys : k = KeyOf(r) /\ reg.entry[k].state = "in_flight" /\ reg.entry[k].id = IdentityOf(r)
  BY <1>1, WorkerHasEntry, Zenon
<1>3. PICK disp \in Dispositions : disp = req[r].disp
  BY <1>1, Zenon DEF RequestStates
<1> DEFINE e == Done(reg.entry[k], bytes, disp, reg.seq + 1)
<1>4. PICK K \in SUBSET Removable(reg) :
        /\ k \notin K
        /\ Completed(reg, k, bytes, disp)
             = [entry |-> [Without(reg, K).entry EXCEPT ![k] = e], total |-> Without(reg, K).total + bytes,
                seq |-> reg.seq + 1]
  BY <1>1, <1>2, CompletedShape, ZenonT(30)
<1>5. PICK g : g = Without(reg, K)
  BY Zenon
<1>6. RegistryOk(g) /\ g \in Registries /\ g.entry[k] = reg.entry[k]
  <2>1. RegistryOk(g)
    BY <1>4, <1>5, WithoutKeeps, Zenon
  <2>2. g.entry[k] = reg.entry[k]
    BY <1>4, <1>5, Zenon DEF Without
  <2> QED BY <2>1, <2>2, Zenon DEF RegistryOk, Registries
<1>7. reg' = [entry |-> [g.entry EXCEPT ![k] = e], total |-> g.total + bytes, seq |-> reg.seq + 1]
  BY <1>2, <1>3, <1>4, <1>5, ZenonT(30) DEF Commit
<1>8. /\ e \in Entries /\ e.state = "complete" /\ e.id = reg.entry[k].id /\ e.disp = disp
      /\ e.bytes = reg.entry[k].bytes + bytes /\ e.waiters = reg.entry[k].waiters
  <2>1. reg.entry[k] \in Entries
    BY <1>1, Zenon DEF Registries
  <2>2. PICK n \in Nat : n = reg.seq + 1
    BY <1>1 DEF Registries
  <2>3. e = Done(reg.entry[k], bytes, disp, n)
    BY <2>2, Zenon
  <2> HIDE DEF e
  <2> QED BY <1>1, <2>1, <2>3, DoneFacts
<1> HIDE DEF e
<1>9. /\ \A q \in Requests : /\ SameCommand(q) /\ req'[q].adm = req[q].adm
                             /\ req'[q].work = IF q = r THEN "end" ELSE req[q].work
                             /\ req'[q].pc \in {"look", "sleep"} <=> req[q].pc \in {"look", "sleep"}
  BY <1>1, ZenonT(30) DEF Commit, RequestStates, SameCommand
<1>10. CommandsKept
  BY <1>1, <1>9, Zenon DEF CommandsKept
<1>11. \A q \in Requests : (Waiting(q)' <=> Waiting(q)) /\ (Executing(q)' <=> (Executing(q) /\ q # r))
  BY <1>9, Zenon DEF Waiting, Executing
<1>12. \A s \in SessionNumbers : disp = RemoveAfterAuthSession(s) =>
         /\ reg.entry[k].id = [kind |-> "logout", sess |-> s]
         /\ app[s].present => app[s].invalidated
         /\ Holders(s) # {}
  <2> SUFFICES ASSUME NEW s \in SessionNumbers, disp = RemoveAfterAuthSession(s)
               PROVE  /\ reg.entry[k].id = [kind |-> "logout", sess |-> s]
                      /\ app[s].present => app[s].invalidated
                      /\ Holders(s) # {}
    BY Zenon
  <2>1. disp.kind = "RemoveAfterAuthSession" /\ disp.sess = s
    BY Zenon DEF RemoveAfterAuthSession
  <2>2. req[r].kind = "logout"
    BY <1>1, <1>3, <2>1, SMTT(30) DEF RequestOk, Retain, ExpireAt
  <2>3. req[r].sess = s
    BY <1>1, <1>3, <2>1, <2>2, SMTT(30) DEF RequestOk, RemoveAfterAuthSession
  <2>4. r \in Holders(s)
    BY <1>1, <2>3, Zenon DEF RequestOk, Holders
  <2>5. app[s].present => app[s].invalidated
    BY <1>1, <2>2, <2>3, Zenon DEF SessionsInv, SessionsOk
  <2> QED BY <1>2, <2>2, <2>3, <2>4, <2>5, Zenon DEF IdentityOf
<1>13. EntryChanges(g, k, e)
  <2>1. g.entry \in [Keys -> Entries] /\ g.total \in Nat /\ reg.seq + 1 \in Nat /\ e.bytes \in Nat
        /\ g.entry[k].bytes \in Nat
    BY <1>1, <1>6, <1>8, SMTT(30) DEF Registries, Entries
  <2>2. reg'.entry = [g.entry EXCEPT ![k] = e] /\ reg'.total = g.total + bytes
    BY <1>7, Zenon
  <2>3. reg' \in Registries
    BY <1>1, <1>7, <1>8, <2>1, SMTT(30) DEF Registries
  <2>4. reg'.total = g.total + e.bytes - g.entry[k].bytes
    BY <1>1, <1>6, <1>8, <2>1, <2>2, SMTT(30)
  <2>5. reg'.entry[k] = e /\ \A j \in Keys \ {k} : reg'.entry[j] = g.entry[j]
    BY <2>1, <2>2, Zenon
  <2> QED BY <1>8, <1>12, <2>3, <2>4, <2>5, Zenon DEF EntryChanges
<1>14. RequestsOfKeyMove(k, e)
  <2>1. \A q \in Requests : ~(Executing(q)' /\ KeyOf(q) = k)
    BY <1>1, <1>2, <1>11, ZenonT(30) DEF RegistryOk, WorkersKnown
  <2>2. \A q \in Requests : Waiting(q)' /\ KeyOf(q) = k => e.id = IdentityOf(q)
    BY <1>8, <1>11, ZenonT(30) DEF RegistryOk, WaitersKnown
  <2>3. e.waiters = Cardinality({q \in Requests : Waiting(q)' /\ KeyOf(q) = k})
    <3>1. {q \in Requests : Waiting(q)' /\ KeyOf(q) = k} = {q \in Requests : Waiting(q) /\ KeyOf(q) = k}
      BY <1>11, Zenon
    <3> QED BY <1>8, <3>1, ZenonT(30) DEF RegistryOk, WaitersKnown
  <2>4. \A q \in Requests : KeyOf(q) # k => (Waiting(q)' <=> Waiting(q)) /\ (Executing(q)' <=> Executing(q))
    BY <1>2, <1>11, Zenon
  <2>5. e.state # "in_flight"
    BY <1>8, Zenon
  <2> QED BY <2>1, <2>2, <2>3, <2>4, <2>5, ZenonT(30) DEF RequestsOfKeyMove
<1> QED BY <1>6, <1>10, <1>13, <1>14, OneEntryStep, Zenon

\* An empty registry is in order when nobody waits or executes.
LEMMA EmptyIsOk ==
  ASSUME \A q \in Requests : ~Waiting(q) /\ ~Executing(q)
  PROVE  RegistryOk(EmptyRegistry)
<1>1. NoEntry \in Entries
  BY ControlAssumption DEF NoEntry, Entries, NoIdentity, Dispositions
<1>2. EmptyRegistry \in Registries /\ \A k \in Keys : EmptyRegistry.entry[k] = NoEntry
  BY <1>1, Zenon DEF EmptyRegistry, Registries
<1>3. Present(EmptyRegistry) = {}
  BY <1>2 DEF Present, NoEntry
<1>4. BytesIn(EmptyRegistry, {}) = {}
  BY Zenon DEF BytesIn
<1>5. BytesCounted(EmptyRegistry)
  <2>1. BytesOf(EmptyRegistry, {}) = 0
    BY <1>4, FS_EmptySet, Zenon DEF BytesOf
  <2> QED BY <1>3, <2>1, Zenon DEF BytesCounted, EmptyRegistry
<1>6. WaitersKnown(EmptyRegistry)
  <2>1. \A k \in Keys : {r \in Requests : Waiting(r) /\ KeyOf(r) = k} = {}
    BY Zenon
  <2>2. \A k \in Keys : EmptyRegistry.entry[k].waiters = 0
    BY <1>2 DEF NoEntry
  <2> QED BY <2>1, <2>2, FS_EmptySet, Zenon DEF WaitersKnown
<1>7. WorkersKnown(EmptyRegistry)
  BY <1>2 DEF WorkersKnown, NoEntry
<1> QED BY <1>2, <1>5, <1>6, <1>7, SMTT(30) DEF RegistryOk, Registries, NoEntry

\* The session is released and what it could still replay is removed: whoever waits for a
\* logout of it holds a lease of it.
LEMMA DropReplayKeeps ==
  ASSUME RequestsOk, RegistryOk(reg), NEW r \in Requests, DropReplay(r)
  PROVE  RegistryOk(reg)'
<1>1. /\ req \in [Requests -> RequestStates] /\ RequestOk(req[r]) /\ req[r].adm = "drop_replay"
      /\ req' = [req EXCEPT ![r] = GoneRequest] /\ app' = app /\ reg' = ReleasedAuthSession(reg, req[r].sess)
  BY Zenon DEF RequestsOk, DropReplay
<1>2. PICK t \in SessionNumbers : t = req[r].sess
  BY <1>1, SMTT(30) DEF RequestOk, RequestStates, SessionNumbers
<1> DEFINE K == {k \in Present(reg) : /\ reg.entry[k].state = "complete" /\ reg.entry[k].waiters = 0
                                      /\ reg.entry[k].disp = RemoveAfterAuthSession(t)}
<1>3. reg' = Without(reg, K) /\ K \in SUBSET Removable(reg)
  BY <1>1, <1>2, Zenon DEF ReleasedAuthSession, Removable, Present
<1>4. RegistryOk(Without(reg, K))
  BY <1>3, WithoutKeeps, Zenon
<1>5. /\ \A q \in Requests \ {r} : req'[q] = req[q]
      /\ req'[r].pc = "left" /\ req'[r].work = "none" /\ req[r].pc = "left" /\ req[r].work \in {"none", "end"}
  BY <1>1, Zenon DEF RequestOk, GoneRequest, NewRequest
<1>6. \A q \in Requests : /\ Waiting(q)' <=> Waiting(q)
                          /\ Executing(q)' <=> Executing(q)
                          /\ Waiting(q) \/ Executing(q) => SameCommand(q)
  BY <1>5, Zenon DEF Waiting, Executing, SameCommand
<1>7. ASSUME NEW k \in Keys, NEW s \in SessionNumbers, Remembered(Without(reg, K), k, s)
      PROVE  (app'[s].present => app'[s].invalidated) /\ Holders(s)' # {}
  <2>1. k \notin K /\ Without(reg, K).entry[k] = reg.entry[k]
    BY <1>7, ZenonT(30) DEF Remembered, Without, NoEntry
  <2>2. reg.entry[k].state = "complete" /\ reg.entry[k].disp = RemoveAfterAuthSession(s)
    BY <1>7, <2>1, ZenonT(30) DEF Remembered
  <2>3. /\ app[s].present => app[s].invalidated
        /\ Holders(s) # {} /\ reg.entry[k].id = [kind |-> "logout", sess |-> s]
    BY <2>2, Zenon DEF RegistryOk
  <2>4. CASE s # t
    <3>1. r \notin Holders(s)
      BY <1>2, <2>4, Zenon DEF Holders
    <3> QED BY <1>1, <1>5, <2>3, <3>1, ZenonT(30) DEF Holders
  <2>5. CASE s = t
    <3>1. reg.entry[k].waiters # 0
      BY <2>1, <2>2, <2>5, Zenon DEF Present
    <3>2. Cardinality(WaitersOf(k)) # 0
      BY <3>1, Zenon DEF RegistryOk, WaitersKnown, WaitersOf
    <3>3. PICK q \in Requests : Waiting(q) /\ KeyOf(q) = k
      BY <3>2, CountOfNone, Zenon DEF WaitersOf
    <3>4. IdentityOf(q) = [kind |-> "logout", sess |-> s]
      BY <2>3, <3>3, Zenon DEF RegistryOk, WaitersKnown
    <3>5. IdentityOf(q).kind = req[q].kind /\ (req[q].kind = "logout" => IdentityOf(q).sess = req[q].sess)
      BY Zenon DEF IdentityOf
    <3>6. req[q].sess = s
      BY <3>4, <3>5, SMTT(30)
    <3>7. q # r /\ req[q].adm = "held"
      BY <1>5, <3>3, Zenon DEF Waiting, RequestsOk, RequestOk
    <3> QED BY <1>1, <1>5, <2>3, <3>6, <3>7, Zenon DEF Holders
  <2> QED BY <2>4, <2>5, Zenon
<1> HIDE DEF K
<1> QED BY <1>3, <1>4, <1>6, <1>7, RegistryFrame, Zenon

\* A lease is dropped: when somebody logged out of the session, another holds it still.
LEMMA DropLeaseKeeps ==
  ASSUME RequestsOk, SessionsInv, RegistryOk(reg), NEW r \in Requests, DropLease(r)
  PROVE  RegistryOk(reg)'
<1>1. /\ req \in [Requests -> RequestStates] /\ RequestOk(req[r]) /\ req[r].adm = "drop_lease"
      /\ reg' = reg /\ app \in [SessionNumbers -> Sessions]
  BY Zenon DEF RequestsOk, DropLease, SessionsInv
<1>2. PICK t \in SessionNumbers : t = req[r].sess
  BY <1>1 DEF RequestOk, RequestStates, SessionNumbers
<1> DEFINE last == app[t].present => app[t].invalidated /\ app[t].active = 1
<1>3. /\ \A q \in Requests \ {r} : req'[q] = req[q]
      /\ req'[r].pc = "left" /\ req'[r].work \in {"none", "end"}
      /\ req[r].pc = "left" /\ req[r].work \in {"none", "end"}
      /\ last => req'[r].sess = t /\ req'[r].adm = "drop_replay"
  <2>1. /\ GoneRequest.pc = "left" /\ GoneRequest.work = "none"
        /\ req' = [req EXCEPT ![r] = IF last THEN [req[r] EXCEPT !.adm = "drop_replay"] ELSE GoneRequest]
    BY <1>2, Zenon DEF DropLease, GoneRequest, NewRequest
  <2>2. req[r].pc = "left" /\ req[r].work \in {"none", "end"}
    BY <1>1, Zenon DEF RequestOk
  <2> HIDE DEF last
  <2> QED BY <1>1, <1>2, <2>1, <2>2, Zenon DEF RequestStates
<1>4. \A s \in SessionNumbers \ {t} : app'[s] = app[s]
  BY <1>1, <1>2, Zenon DEF DropLease
<1>5. app'[t].present => app[t].present /\ ~last /\ app'[t].invalidated = app[t].invalidated
  <2>1. app' = IF ~app[t].present THEN app
               ELSE [app EXCEPT ![t] = IF last THEN NoSession ELSE [app[t] EXCEPT !.active = app[t].active - 1]]
    BY <1>2, Zenon DEF DropLease
  <2>2. CASE ~app[t].present
    BY <2>1, <2>2, Zenon
  <2>3. CASE app[t].present /\ last
    <3>1. app'[t] = NoSession
      BY <1>1, <2>1, <2>3, Zenon
    <3> QED BY <3>1 DEF NoSession
  <2>4. CASE app[t].present /\ ~last
    <3>1. app'[t] = [app[t] EXCEPT !.active = app[t].active - 1] /\ app[t] \in Sessions
      BY <1>1, <2>1, <2>4, Zenon
    <3> QED BY <2>4, <3>1, Zenon DEF Sessions
  <2> QED BY <2>2, <2>3, <2>4, Zenon
<1>6. \A q \in Requests : /\ Waiting(q)' <=> Waiting(q)
                          /\ Executing(q)' <=> Executing(q)
                          /\ Waiting(q) \/ Executing(q) => SameCommand(q)
  BY <1>3, Zenon DEF Waiting, Executing, SameCommand
<1>7. ASSUME NEW k \in Keys, NEW s \in SessionNumbers, Remembered(reg, k, s)
      PROVE  (app'[s].present => app'[s].invalidated) /\ Holders(s)' # {}
  <2>1. (app[s].present => app[s].invalidated) /\ Holders(s) # {}
    BY <1>7, ZenonT(30) DEF RegistryOk, Remembered
  <2>2. CASE s # t
    <3>1. r \notin Holders(s)
      BY <1>2, <2>2, Zenon DEF Holders
    <3> QED BY <1>3, <1>4, <2>1, <2>2, <3>1, ZenonT(30) DEF Holders
  <2>3. CASE s = t /\ last
    <3>1. r \in Holders(s)'
      BY <1>3, <2>3, Zenon DEF Holders
    <3> QED BY <1>5, <2>3, <3>1, Zenon
  <2>4. CASE s = t /\ ~last
    <3>1. app[s].present /\ app[s].invalidated /\ app[s].active # 1
      BY <2>1, <2>4, Zenon
    <3>2. app[s].active = Cardinality(Leases(s))
      BY <3>1, Zenon DEF SessionsInv, LeasesExact
    <3>3. Leases(s) # {r}
      BY <3>1, <3>2, FS_Singleton, Zenon
    <3>4. r \in Leases(s)
      BY <1>1, <1>2, <2>4, Zenon DEF Leases, Holders
    <3>5. PICK q \in Leases(s) : q # r
      BY <3>3, <3>4, Zenon
    <3>6. q \in Holders(s)'
      BY <1>3, <3>5, Zenon DEF Leases, Holders
    <3> QED BY <1>5, <2>1, <2>4, <3>6, Zenon
  <2> QED BY <2>2, <2>3, <2>4, Zenon
<1> QED BY <1>1, <1>6, <1>7, RegistryFrame, Zenon

\* The registry through the steps of a request
LEMMA RegistryStep ==
  ASSUME RequestsOk, SessionsInv, RegistryOk(reg), NEW r \in Requests,
         BootstrapAdmit(r) \/ Arrive(r) \/ Handle(r) \/ EndPrepared(r) \/ Disconnect(r)
  PROVE  RegistryOk(reg)'
<1>1. /\ req \in [Requests -> RequestStates] /\ app \in [SessionNumbers -> Sessions] /\ RequestOk(req[r])
  BY ZenonT(30) DEF RequestsOk, SessionsInv
<1>2. ASSUME app' = app, reg' = reg, \A q \in Requests \ {r} : req'[q] = req[q],
             ~Waiting(r), ~Waiting(r)', ~Executing(r), ~Executing(r)',
             \A s \in SessionNumbers : r \in Holders(s) => r \in Holders(s)'
      PROVE  RegistryOk(reg)'
  <2>1. \A q \in Requests : /\ Waiting(q)' <=> Waiting(q)
                            /\ Executing(q)' <=> Executing(q)
                            /\ Waiting(q) \/ Executing(q) => SameCommand(q)
    BY <1>2, Zenon DEF Waiting, Executing, SameCommand
  <2>2. \A s \in SessionNumbers : Holders(s) \subseteq Holders(s)'
    BY <1>2, Zenon DEF Holders
  <2> QED BY <1>2, <2>1, <2>2, RegistryKept, Zenon
<1>3. CASE BootstrapAdmit(r)
  <2>1. /\ \A q \in Requests \ {r} : req'[q] = req[q]
        /\ req'[r].pc = "bootstrap" /\ req'[r].work = req[r].work /\ req[r].pc = "new"
        /\ req[r].work = "none" /\ req[r].sess = 0
    BY <1>1, <1>3, ZenonT(30) DEF BootstrapAdmit, RequestStates, RequestOk
  <2>2. ~Waiting(r) /\ ~Waiting(r)' /\ ~Executing(r) /\ ~Executing(r)'
    BY <2>1, Zenon DEF Waiting, Executing
  <2>3. \A s \in SessionNumbers : r \notin Holders(s)
    BY <2>1 DEF Holders, SessionNumbers
  <2> QED BY <1>2, <1>3, <2>1, <2>2, <2>3, ZenonT(30) DEF BootstrapAdmit
<1>4. CASE Admit(r)
  <2>1. /\ \A q \in Requests \ {r} : req'[q] = req[q]
        /\ req'[r].pc \in {"prepared", "left"} /\ req'[r].work = req[r].work /\ req[r].pc = "leased"
        /\ req'[r].sess = req[r].sess /\ req'[r].adm \in {"held", "drop_lease"}
    BY <1>1, <1>4, SMTT(30) DEF Admit, RequestStates
  <2>2. req[r].work = "none"
    BY <1>1, <2>1, Zenon DEF RequestOk
  <2>3. ~Waiting(r) /\ ~Waiting(r)' /\ ~Executing(r) /\ ~Executing(r)'
    BY <2>1, <2>2, Zenon DEF Waiting, Executing
  <2>4. \A s \in SessionNumbers : r \in Holders(s) => r \in Holders(s)'
    BY <2>1, Zenon DEF Holders
  <2> QED BY <1>2, <1>4, <2>1, <2>3, <2>4, Zenon DEF Admit
<1>5. CASE DropAdmission(r)
  <2>1. /\ \A q \in Requests \ {r} : req'[q] = req[q]
        /\ req[r].pc = "left" /\ req[r].work \in {"none", "end"}
    BY <1>1, <1>5, Zenon DEF DropAdmission
  <2>2. req'[r] = IF req[r].sess = 0 THEN NewRequest ELSE [req[r] EXCEPT !.adm = "drop_lease"]
    BY <1>1, <1>5, Zenon DEF DropAdmission
  <2>3. CASE req[r].sess = 0
    <3>1. req'[r].pc = "new" /\ req'[r].work = "none"
      BY <2>2, <2>3 DEF NewRequest
    <3>2. \A s \in SessionNumbers : r \notin Holders(s)
      BY <2>3 DEF Holders, SessionNumbers
    <3>3. ~Waiting(r) /\ ~Waiting(r)' /\ ~Executing(r) /\ ~Executing(r)'
      BY <2>1, <3>1, Zenon DEF Waiting, Executing
    <3> QED BY <1>2, <1>5, <2>1, <3>2, <3>3, Zenon DEF DropAdmission
  <2>4. CASE req[r].sess # 0
    <3>1. /\ req'[r].pc = "left" /\ req'[r].work = req[r].work /\ req'[r].sess = req[r].sess
          /\ req'[r].adm = "drop_lease"
      BY <1>1, <2>1, <2>2, <2>4, SMTT(30) DEF RequestStates
    <3>2. \A s \in SessionNumbers : r \in Holders(s) => r \in Holders(s)'
      BY <3>1, Zenon DEF Holders
    <3>3. ~Waiting(r) /\ ~Waiting(r)' /\ ~Executing(r) /\ ~Executing(r)'
      BY <2>1, <3>1, Zenon DEF Waiting, Executing
    <3> QED BY <1>2, <1>5, <2>1, <3>2, <3>3, Zenon DEF DropAdmission
  <2> QED BY <2>3, <2>4, Zenon
<1>6. CASE EndPrepared(r)
  BY <1>6, LeaveKeeps, Zenon DEF EndPrepared, Waiting
<1>7. CASE Disconnect(r)
  BY <1>7, LeftKeeps, Zenon DEF Disconnect, Waiting
<1>8. CASE Look(r)
  <2>1. Waiting(r) /\ app' = app
    BY <1>8, Zenon DEF Look, Waiting
  <2>2. KeyOf(r) \in Present(reg)
    BY <2>1, WaiterHasEntry, Zenon
  <2>3. CASE Leave(r) /\ reg' = Left(reg, KeyOf(r))
    BY <2>1, <2>3, LeftKeeps, Zenon
  <2>4. CASE req' = [req EXCEPT ![r].pc = "sleep"] /\ reg' = reg
    <3>1. \A q \in Requests : /\ SameCommand(q) /\ req'[q].adm = req[q].adm /\ req'[q].work = req[q].work
                              /\ IF q = r THEN req'[q].pc = "sleep" ELSE req'[q].pc = req[q].pc
      BY <1>1, <2>4, ZenonT(30) DEF RequestStates, SameCommand
    <3>2. \A q \in Requests : (Waiting(q)' <=> Waiting(q)) /\ (Executing(q)' <=> Executing(q))
      BY <2>1, <3>1, Zenon DEF Waiting, Executing
    <3>3. \A s \in SessionNumbers : Holders(s)' = Holders(s)
      BY <3>1, Zenon DEF Holders, SameCommand
    <3> QED BY <2>1, <2>4, <3>1, <3>2, <3>3, RegistryKept, Zenon
  <2> QED BY <1>8, <2>2, <2>3, <2>4, Zenon DEF Look, Present
<1>9. CASE Execute(r)
  <2>1. \A q \in Requests : /\ SameCommand(q) /\ req'[q].adm = req[q].adm /\ req'[q].pc = req[q].pc
                            /\ IF q = r THEN req[q].work = "run" /\ req'[q].work = "commit"
                                        ELSE req'[q].work = req[q].work
    BY <1>1, <1>9, SMTT(30) DEF Execute, RequestStates, SameCommand
  <2>2. \A q \in Requests : (Waiting(q)' <=> Waiting(q)) /\ (Executing(q)' <=> Executing(q))
    BY <2>1, Zenon DEF Waiting, Executing
  <2>3. \A s \in SessionNumbers : Holders(s)' = Holders(s)
    BY <2>1 DEF Holders, SameCommand
  <2>4. \A s \in SessionNumbers : app'[s].present = app[s].present /\ (app[s].invalidated => app'[s].invalidated)
    BY <1>1, <1>9 DEF Execute, Sessions
  <2> QED BY <1>9, <2>1, <2>2, <2>3, <2>4, RegistryKept, Zenon DEF Execute
<1>10. CASE Arrive(r)
  <2>1. PICK kind \in Kinds, t \in SessionNumbers, k \in {{}} \cup {{key} : key \in Keys} :
          Authenticate(r, kind, t, k)
    BY <1>10, ZenonT(30) DEF Arrive
  <2>2. /\ \A q \in Requests \ {r} : req'[q] = req[q]
        /\ req'[r].pc = "leased" /\ req'[r].work = req[r].work /\ req[r].pc = "new"
        /\ reg' = reg /\ app' = [PrunedSessions EXCEPT ![t].active = @ + 1]
    BY <1>1, <2>1 DEF Authenticate, RequestStates
  <2>3. req[r].work = "none" /\ req[r].adm = "none"
    BY <1>1, <2>2, Zenon DEF RequestOk
  <2>4. \A q \in Requests : /\ Waiting(q)' <=> Waiting(q)
                            /\ Executing(q)' <=> Executing(q)
                            /\ Waiting(q) \/ Executing(q) => SameCommand(q)
    BY <2>2, <2>3, Zenon DEF Waiting, Executing, SameCommand
  <2>5. \A s \in SessionNumbers : Holders(s) \subseteq Holders(s)'
    BY <2>2, <2>3, Zenon DEF Holders
  <2>6. \A s \in SessionNumbers : /\ app'[s].present = PrunedSessions[s].present
                                  /\ app'[s].invalidated = PrunedSessions[s].invalidated
    BY <1>1, <2>2, PrunedSessionsFacts DEF Sessions
  <2> QED BY <1>1, <2>2, <2>4, <2>5, <2>6, PrunedSessionsFacts, RegistryKept, SMTT(30)
<1>11. CASE CreateAppSession(r)
  <2>1. \A q \in Requests : /\ SameCommand(q) /\ req'[q].adm = req[q].adm /\ req'[q].work = req[q].work
                            /\ req'[q].pc = IF q = r THEN "left" ELSE req[q].pc
    BY <1>1, <1>11, ZenonT(30) DEF CreateAppSession, Leave, RequestStates, SameCommand
  <2>2. \A q \in Requests : (Waiting(q)' <=> Waiting(q)) /\ (Executing(q)' <=> Executing(q))
    BY <1>11, <2>1, Zenon DEF CreateAppSession, Waiting, Executing
  <2>3. \A s \in SessionNumbers : Holders(s)' = Holders(s)
    BY <2>1, Zenon DEF Holders, SameCommand
  <2>4. \A s \in SessionNumbers : Holders(s) # {} => s # issued + 1
    BY <1>1, SMTT(30) DEF SessionsInv, SessionsOk, Holders, RequestStates
  <2>5. ASSUME NEW k \in Keys, NEW s \in SessionNumbers, Remembered(reg, k, s)
        PROVE  (app'[s].present => app'[s].invalidated) /\ Holders(s)' # {}
    <3>1. (app[s].present => app[s].invalidated) /\ Holders(s) # {}
      BY <2>5, ZenonT(30) DEF RegistryOk, Remembered
    <3>2. s # issued + 1
      BY <2>4, <3>1, Zenon
    <3>3. app'[s] = PrunedSessions[s]
      BY <1>1, <1>11, <3>2, PrunedSessionsFacts, Zenon DEF CreateAppSession
    <3> QED BY <1>1, <2>3, <3>1, <3>3, PrunedSessionsFacts, Zenon
  <2> QED BY <1>11, <2>1, <2>2, <2>5, RegistryFrame, Zenon DEF CreateAppSession
<1>12. ASSUME NEW g \in PrunedVariants(reg), JoinEntry(r, g) \/ InstallEntry(r, g) PROVE RegistryOk(reg)'
  BY <1>12, PrunedKeeps, JoinEntryKeeps, InstallEntryKeeps, Zenon
<1> QED BY <1>3, <1>4, <1>5, <1>6, <1>7, <1>8, <1>9, <1>10, <1>11, <1>12, CommitKeeps, DropLeaseKeeps,
        DropReplayKeeps, Zenon DEF Handle

\* The registry through the other steps
LEMMA RegistryAside ==
  ASSUME RequestsOk, LifeInv, SessionsInv, RegistryOk(reg),
         \/ Prune \/ \E s \in SessionNumbers : Expire(s)
         \/ \E c \in Callers : BeginShutdown(c) \/ Lead(c)
  PROVE  RegistryOk(reg)'
<1>1. app \in [SessionNumbers -> Sessions]
  BY Zenon DEF SessionsInv
<1>2. req' = req
  BY ZenonT(30) DEF Prune, Expire, BeginShutdown, Lead, Drained, ShutdownSession, ShutdownLogin, ClearSessions,
    ClearRegistry, JoinShutdown
<1>3. /\ \A q \in Requests : /\ Waiting(q)' <=> Waiting(q)
                             /\ Executing(q)' <=> Executing(q)
                             /\ Waiting(q) \/ Executing(q) => SameCommand(q)
      /\ \A s \in SessionNumbers : Holders(s) \subseteq Holders(s)'
  BY <1>2, Zenon DEF Waiting, Executing, SameCommand, Holders
<1>4. CASE Prune
  BY <1>1, <1>3, <1>4, PrunedSessionsFacts, RegistryKept, Zenon DEF Prune
<1>5. ASSUME NEW s \in SessionNumbers, Expire(s) PROVE RegistryOk(reg)'
  <2>1. \A t \in SessionNumbers : app'[t].present = app[t].present /\ app'[t].invalidated = app[t].invalidated
    BY <1>1, <1>5, Zenon DEF Expire, Sessions
  <2> QED BY <1>3, <1>5, <2>1, RegistryKept, Zenon DEF Expire
<1>6. ASSUME NEW c \in Callers, ClearSessions(c) PROVE RegistryOk(reg)'
  <2>1. \A t \in SessionNumbers : ~app'[t].present
    BY <1>6, Zenon DEF ClearSessions, NoSession
  <2> QED BY <1>3, <1>6, <2>1, RegistryKept, Zenon DEF ClearSessions
<1>7. ASSUME NEW c \in Callers, ClearRegistry(c) PROVE RegistryOk(reg)'
  <2>1. life.active = 0
    BY <1>7, Zenon DEF ClearRegistry, LifeInv, LifeOk, ShutdownOk, PastDrain
  <2>2. HeldBy = {}
    BY <2>1, CountOfNone, Zenon DEF LifeInv, HeldBy
  <2>3. \A q \in Requests : ~Waiting(q) /\ ~Executing(q)
    BY <2>2, Zenon DEF RequestsOk, RequestOk, Waiting, Executing, HeldBy
  <2>4. RegistryOk(EmptyRegistry) /\ reg' = EmptyRegistry /\ app' = app
    BY <1>7, <2>3, EmptyIsOk, Zenon DEF ClearRegistry
  <2> QED BY <1>3, <2>4, RegistryKept, Zenon
<1>8. ASSUME NEW c \in Callers, BeginShutdown(c) \/ Lead(c), ~ClearSessions(c), ~ClearRegistry(c)
      PROVE  RegistryOk(reg)'
  <2>1. app' = app /\ reg' = reg
    BY <1>8, ZenonT(30) DEF BeginShutdown, Lead, Drained, ShutdownSession, ShutdownLogin, JoinShutdown
  <2> QED BY <1>3, <2>1, RegistryKept, Zenon
<1> QED BY <1>4, <1>5, <1>6, <1>7, <1>8, Zenon

----------------------------------------------------------------------------
(* The invariant and what follows from it *)

LEMMA ControlParts == ControlInv <=> RequestsOk /\ LifeInv /\ SessionsInv /\ RegistryOk(reg)
BY ZenonT(30) DEF ControlInv, TypeOK, RequestsOk, LifeInv, LifeOk, ShutOk, Places, SessionsInv, ActiveExact, HeldBy,
  RegistryOk

LEMMA ControlPartsNext ==
  ASSUME RequestsOk', LifeInv', SessionsInv', RegistryOk(reg)'
  PROVE  ControlInv'
BY ZenonT(30) DEF ControlInv, TypeOK, RequestsOk, LifeInv, LifeOk, ShutOk, Places, SessionsInv, ActiveExact, HeldBy,
  RegistryOk

LEMMA ControlInitially == Init => ControlInv
<1> SUFFICES ASSUME Init PROVE ControlInv
  BY Zenon
<1>1. RequestsOk
  <2>1. \A r \in Requests : req[r] = NewRequest
    BY Zenon DEF Init
  <2> QED BY <2>1, NewIsOk, Zenon DEF Init, RequestsOk, OkRequest
<1>2. NewRequest.adm = "none" /\ NewRequest.pc = "new" /\ NewRequest.work = "none" /\ NewRequest.sess = 0
  BY Zenon DEF NewRequest
<1>3. \A r \in Requests : req[r].adm = "none" /\ ~Waiting(r) /\ ~Executing(r) /\ req[r].sess = 0
                          /\ req[r].work = "none"
  BY <1>2, Zenon DEF Init, Waiting, Executing
<1>4. LifeInv
  <2>1. HeldBy = {}
    BY <1>3, Zenon DEF HeldBy
  <2>2. Cardinality(HeldBy) = 0
    BY <2>1, FS_EmptySet, Zenon
  <2>3. LifeOk /\ ShutOk
    BY Zenon DEF Init, LifeOk, ShutOk, Places, ShutdownResults
  <2>4. ShutdownOk
    BY Zenon DEF Init, ShutdownOk
  <2> QED BY <2>2, <2>3, <2>4, Zenon DEF Init, LifeInv
<1>5. SessionsInv
  <2>1. NoSession \in Sessions /\ ~NoSession.present
    BY Zenon DEF NoSession, Sessions
  <2>2. \A s \in SessionNumbers : Leases(s) = {}
    BY <1>3, Zenon DEF Leases, Holders
  <2>3. issued \in 0 .. MaxIssued /\ app \in [SessionNumbers -> Sessions]
    BY <2>1, ControlAssumption, SMTT(30) DEF Init
  <2>4. \A s \in SessionNumbers : ~app[s].present
    BY <2>1, Zenon DEF Init
  <2>5. SessionsOk
    BY <1>3, <2>4, SMTT(30) DEF Init, SessionsOk
  <2> QED BY <2>2, <2>3, <2>4, <2>5, Zenon DEF SessionsInv, LeasesExact
<1>6. RegistryOk(reg)
  BY <1>3, EmptyIsOk, Zenon DEF Init
<1> QED BY <1>1, <1>4, <1>5, <1>6, ControlParts, Zenon

LEMMA ControlStutters == ControlInv /\ UNCHANGED vars => ControlInv'
<1> SUFFICES ASSUME ControlInv, UNCHANGED vars PROVE ControlInv'
  BY Zenon
<1>1. RequestsOk /\ LifeInv /\ SessionsInv /\ RegistryOk(reg)
  BY ControlParts, Zenon
<1>2. req' = req /\ life' = life /\ shut' = shut /\ app' = app /\ issued' = issued /\ reg' = reg
  BY Zenon DEF vars
<1>3. RequestsOk' /\ LifeInv'
  BY <1>1, <1>2, ZenonT(30) DEF RequestsOk, LifeInv, LifeOk, ShutOk, ShutdownOk, HeldBy
<1>4. SessionsInv'
  BY <1>1, <1>2, Zenon DEF SessionsInv, SessionsOk, LeasesExact, Leases, Holders
<1>5. RegistryOk(reg)'
  <2>1. \A q \in Requests : /\ Waiting(q)' <=> Waiting(q)
                            /\ Executing(q)' <=> Executing(q)
                            /\ SameCommand(q)
    BY <1>2, Zenon DEF Waiting, Executing, SameCommand
  <2>2. \A s \in SessionNumbers : Holders(s)' = Holders(s)
    BY <1>2, Zenon DEF Holders
  <2> QED BY <1>1, <1>2, <2>1, <2>2, RegistryKept, Zenon
<1> QED BY <1>3, <1>4, <1>5, ControlPartsNext, Zenon

LEMMA ControlStep == ControlInv /\ Next => ControlInv'
<1> SUFFICES ASSUME ControlInv, Next PROVE ControlInv'
  BY Zenon
<1>1. RequestsOk /\ LifeInv /\ SessionsInv /\ RegistryOk(reg)
  BY ControlParts, Zenon
<1>2. ASSUME NEW r \in Requests,
             BootstrapAdmit(r) \/ Arrive(r) \/ Handle(r) \/ EndPrepared(r) \/ Disconnect(r)
      PROVE  ControlInv'
  BY <1>1, <1>2, RequestsStep, AdmissionsCounted, SessionsStep, RegistryStep, ControlPartsNext, Zenon
<1>3. ASSUME NEW c \in Callers, BeginShutdown(c) \/ Lead(c)
      PROVE  ControlInv'
  <2>1. req' = req
    BY <1>3, ZenonT(30) DEF BeginShutdown, Lead, Drained, ShutdownSession, ShutdownLogin, ClearSessions, ClearRegistry,
      JoinShutdown
  <2>2. RequestsOk'
    BY <1>1, <2>1, Zenon DEF RequestsOk
  <2> QED BY <1>1, <1>3, <2>2, ShutdownStep, SessionsAside, RegistryAside, ControlPartsNext, ZenonT(30)
<1>4. CASE Prune \/ \E s \in SessionNumbers : Expire(s)
  <2>1. req' = req /\ life' = life /\ shut' = shut
    BY <1>4, Zenon DEF Prune, Expire
  <2>2. RequestsOk' /\ LifeInv'
    BY <1>1, <2>1, ZenonT(30) DEF RequestsOk, LifeInv, LifeOk, ShutOk, ShutdownOk, HeldBy
  <2>3. SessionsInv' /\ RegistryOk(reg)'
    BY <1>1, <1>4, SessionsAside, RegistryAside, Zenon
  <2> QED BY <1>1, <2>2, <2>3, ControlPartsNext, Zenon
<1> QED BY <1>2, <1>3, <1>4, Zenon DEF Next

\* ControlInv holds in every reachable state, for any finite sets of requests and keys, any
\* callers of shutdown and any limits: requests, leases, registry and lifecycle agree through
\* every interleaving of handlers, workers, disconnects and shutdown.
THEOREM ControlInvariant == Spec => []ControlInv
BY ControlInitially, ControlStep, ControlStutters, PTL DEF Spec

\* Nobody waits for an entry that is not there, and an entry counts exactly those who wait.
THEOREM WaitersAreRemembered == Spec => []WaitersRemembered
<1>1. ControlInv => WaitersRemembered
  BY Zenon DEF ControlInv, RegistryOk, WaitersRemembered
<1> QED BY <1>1, ControlInvariant, PTL

\* A key is executed by one worker at a time, and its entry is in flight exactly as long.
THEOREM WorkerIsAlone == Spec => []OneWorkerPerKey
<1>1. ControlInv => OneWorkerPerKey
  BY Zenon DEF ControlInv, RegistryOk, OneWorkerPerKey
<1> QED BY <1>1, ControlInvariant, PTL

\* The bytes accounted for are those of the entries held.
THEOREM BytesAreExact == Spec => []BytesExact
<1>1. ControlInv => BytesExact
  BY Zenon DEF ControlInv, RegistryOk, BytesExact
<1> QED BY <1>1, ControlInvariant, PTL

\* A cached logout response is gone when nobody holds its session any more.
THEOREM LogoutIsForgotten == Spec => []LogoutForgotten
<1>1. ControlInv => LogoutForgotten
  BY ZenonT(30) DEF ControlInv, RegistryOk, LogoutForgotten
<1> QED BY <1>1, ControlInvariant, PTL

\* A session counts exactly the requests that hold a lease of it.
THEOREM LeasesAreExact == Spec => []LeasesExact
<1>1. ControlInv => LeasesExact
  BY Zenon DEF ControlInv
<1> QED BY <1>1, ControlInvariant, PTL

\* Below the drain nothing executes and nobody waits; the lifecycle's count is exact.
THEOREM DrainedFirst == Spec => []DrainedBeforeLower
<1>1. ControlInv => DrainedBeforeLower
  <2> SUFFICES ASSUME ControlInv PROVE DrainedBeforeLower
    BY Zenon
  <2>1. RequestsOk /\ LifeInv
    BY ControlParts, Zenon
  <2>2. life.active = Cardinality({r \in Requests : req[r].adm = "held"})
    BY Zenon DEF ControlInv, ActiveExact
  <2>3. ASSUME NEW c \in Callers, shut.at[c] \in PastDrain
        PROVE  \A r \in Requests : ~Executing(r) /\ ~Waiting(r)
    <3>1. life.active = 0
      BY <2>1, <2>3, Zenon DEF LifeInv, LifeOk, ShutdownOk, PastDrain
    <3>2. HeldBy = {}
      BY <2>1, <3>1, CountOfNone, Zenon DEF LifeInv, HeldBy
    <3> QED BY <2>1, <3>2, Zenon DEF RequestsOk, RequestOk, Waiting, Executing, HeldBy
  <2> QED BY <2>2, <2>3, Zenon DEF DrainedBeforeLower
<1> QED BY <1>1, ControlInvariant, PTL

\* The lower runtimes are shut down at most once each, and every caller that returned has
\* the one result.
THEOREM ShutdownIsOnce == Spec => []ShutdownRunsOnce
<1>1. ControlInv => ShutdownRunsOnce
  <2> SUFFICES ASSUME ControlInv PROVE ShutdownRunsOnce
    BY Zenon
  <2>1. LifeInv
    BY ControlParts, Zenon
  <2>2. CASE life.phase = "running"
    BY <2>1, <2>2 DEF LifeInv, ShutdownOk, ShutdownRunsOnce
  <2>3. CASE life.phase = "draining"
    <3>1. shut.session \in {0, 1} /\ shut.login \in {0, 1}
      BY <2>1, <2>3, Zenon DEF LifeInv, ShutdownOk
    <3>2. \A c \in Callers : shut.at[c] # "returned"
      BY <2>1, <2>3, Zenon DEF LifeInv, ShutdownOk, PastDrain
    <3> QED BY <3>1, <3>2, SMTT(30) DEF ShutdownRunsOnce
  <2>4. CASE life.phase = "complete"
    BY <2>1, <2>4 DEF LifeInv, ShutdownOk, ShutdownRunsOnce
  <2> QED BY <2>1, <2>2, <2>3, <2>4, Zenon DEF LifeInv, LifeOk
<1> QED BY <1>1, ControlInvariant, PTL
=====================================================================================
