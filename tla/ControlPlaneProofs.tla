-------------------------------- MODULE ControlPlaneProofs --------------------------------
(***************************************************************************)
(* ControlInv is an invariant of the control plane, for any finite sets of *)
(* requests and keys, any number of callers and any limits; from it follow *)
(* what the registry, the sessions, the drain and the shutdown promise.    *)
(***************************************************************************)
EXTENDS ControlPlane, FiniteSetTheorems, TLAPS

Registries == [entry : [Keys -> Entries], total : Nat, seq : Nat]

----------------------------------------------------------------------------
(* The bytes of a set of entries *)

\* The bytes of finitely many entries are finitely many.
LEMMA BytesFinite ==
  ASSUME NEW g \in Registries, NEW K \in SUBSET Keys
  PROVE  IsFiniteSet(BytesIn(g, K)) /\ BytesOf(g, K) \in Nat
<1> DEFINE F == [k \in K |-> {k} \X (1 .. g.entry[k].bytes)]
           T == {{k} \X (1 .. g.entry[k].bytes) : k \in K}
<1>1. IsFiniteSet(K)
  BY FS_Subset, RegistryAssumption, Zenon
<1>2. F \in Surjection(K, T)
  BY Zenon DEF Surjection
<1>3. IsFiniteSet(T)
  BY <1>1, <1>2, FS_Surjection, Zenon
<1>4. ASSUME NEW k \in K PROVE IsFiniteSet({k} \X (1 .. g.entry[k].bytes))
  <2>1. g.entry[k].bytes \in Int
    BY DEF Registries, Entries
  <2>2. IsFiniteSet(1 .. g.entry[k].bytes)
    BY <2>1, FS_Interval
  <2> QED BY <2>2, FS_Singleton, FS_Product, ZenonT(30)
<1>5. IsFiniteSet(UNION T)
  BY <1>3, <1>4, FS_UNION, ZenonT(30)
<1> QED BY <1>5, FS_CardinalityType, Zenon DEF BytesIn, BytesOf

\* The bytes of one entry are its size.
LEMMA BytesOfOne ==
  ASSUME NEW g \in Registries, NEW k \in Keys
  PROVE  BytesOf(g, {k}) = g.entry[k].bytes
<1>1. g.entry[k].bytes \in Nat
  BY Zenon DEF Registries, Entries
<1>2. BytesIn(g, {k}) = {k} \X (1 .. g.entry[k].bytes)
  BY Zenon DEF BytesIn
<1>3. ASSUME NEW n \in Nat PROVE Cardinality({k} \X (1 .. n)) = n
  <2>1. IsFiniteSet(1 .. n) /\ Cardinality(1 .. n) = IF 1 > n THEN 0 ELSE n - 1 + 1
    BY FS_Interval
  <2>2. Cardinality(1 .. n) = n
    BY <2>1
  <2>3. IsFiniteSet({k}) /\ Cardinality({k}) = 1
    BY FS_Singleton, ZenonT(30)
  <2>4. Cardinality({k} \X (1 .. n)) = Cardinality({k}) * Cardinality(1 .. n)
    BY <2>1, <2>3, FS_Product, Zenon
  <2> QED BY <2>2, <2>3, <2>4
<1> QED BY <1>1, <1>2, <1>3, ZenonT(30) DEF BytesOf

\* The bytes of disjoint sets of entries add up.
LEMMA BytesAdd ==
  ASSUME NEW g \in Registries, NEW K \in SUBSET Keys, NEW L \in SUBSET Keys, K \cap L = {}
  PROVE  BytesOf(g, K \cup L) = BytesOf(g, K) + BytesOf(g, L)
<1>1. BytesIn(g, K \cup L) = BytesIn(g, K) \cup BytesIn(g, L)
  BY Zenon DEF BytesIn
<1>2. BytesIn(g, K) \cap BytesIn(g, L) = {}
  BY DEF BytesIn
<1>3. IsFiniteSet(BytesIn(g, K)) /\ IsFiniteSet(BytesIn(g, L))
  BY BytesFinite, Zenon
<1>4. BytesOf(g, K) \in Nat /\ BytesOf(g, L) \in Nat
  BY BytesFinite, Zenon
<1>5. Cardinality(BytesIn(g, K) \cup BytesIn(g, L))
        = Cardinality(BytesIn(g, K)) + Cardinality(BytesIn(g, L))
            - Cardinality(BytesIn(g, K) \cap BytesIn(g, L))
  BY <1>3, FS_Union, Zenon
<1>6. Cardinality(BytesIn(g, K) \cap BytesIn(g, L)) = 0
  BY <1>2, FS_EmptySet, Zenon
<1>7. Cardinality(BytesIn(g, K) \cup BytesIn(g, L)) = BytesOf(g, K) + BytesOf(g, L) - 0
  BY <1>5, <1>6, Zenon DEF BytesOf
<1>8. BytesOf(g, K \cup L) = Cardinality(BytesIn(g, K) \cup BytesIn(g, L))
  BY <1>1, Zenon DEF BytesOf
<1> QED BY <1>4, <1>7, <1>8

\* They depend on those entries' sizes alone.
LEMMA BytesSame ==
  ASSUME NEW g, NEW h, NEW K, \A k \in K : g.entry[k].bytes = h.entry[k].bytes
  PROVE  BytesOf(g, K) = BytesOf(h, K)
<1>1. BytesIn(g, K) = BytesIn(h, K)
  BY Zenon DEF BytesIn
<1> QED BY <1>1, Zenon DEF BytesOf

----------------------------------------------------------------------------
(* Requests, keys and counts *)

RequestsOk == req \in [Requests -> RequestStates] /\ \A r \in Requests : RequestOk(req[r])

\* A mutation carries one key.
LEMMA KeyOfMutation ==
  ASSUME RequestsOk, NEW r \in Requests, req[r].kind # "serve"
  PROVE  KeyOf(r) \in Keys /\ req[r].key = {KeyOf(r)}
<1>1. PICK k \in Keys : req[r].key = {k}
  BY Zenon DEF RequestsOk, RequestStates, RequestOk
<1> QED BY <1>1, Zenon DEF KeyOf

\* A count of requests: empty, one more, one less.
LEMMA CountOfNone ==
  ASSUME NEW S \in SUBSET Requests
  PROVE  IsFiniteSet(S) /\ Cardinality(S) \in Nat /\ (Cardinality(S) = 0 <=> S = {})
<1>1. IsFiniteSet(S)
  BY FS_Subset, ControlAssumption, Zenon
<1> QED BY <1>1, FS_EmptySet, FS_CardinalityType, Zenon

LEMMA CountOneMore ==
  ASSUME NEW S \in SUBSET Requests, NEW r \in Requests, r \notin S
  PROVE  Cardinality(S \cup {r}) = Cardinality(S) + 1
BY CountOfNone, FS_AddElement, Zenon

LEMMA CountOneLess ==
  ASSUME NEW S \in SUBSET Requests, NEW r \in S
  PROVE  Cardinality(S \ {r}) = Cardinality(S) - 1 /\ Cardinality(S) >= 1
<1>1. Cardinality(S \ {r}) = Cardinality(S) - 1
  BY CountOfNone, FS_RemoveElement, Zenon
<1>2. Cardinality(S) # 0 /\ Cardinality(S) \in Nat
  BY CountOfNone, Zenon
<1> QED BY <1>1, <1>2

WaitersOf(k) == {r \in Requests : Waiting(r) /\ KeyOf(r) = k}

\* Nobody waits for an entry without waiters.
LEMMA Unwaited ==
  ASSUME NEW g, WaitersKnown(g), NEW k \in Keys, g.entry[k].waiters = 0,
         NEW r \in Requests, Waiting(r)
  PROVE  KeyOf(r) # k
<1>1. Cardinality(WaitersOf(k)) = 0
  BY Zenon DEF WaitersKnown, WaitersOf
<1>2. WaitersOf(k) = {}
  BY <1>1, CountOfNone, Zenon DEF WaitersOf
<1> QED BY <1>2, Zenon DEF WaitersOf

----------------------------------------------------------------------------
(* What is removed from the registry *)

Removable(g) == {k \in Keys : g.entry[k].state = "complete" /\ g.entry[k].waiters = 0}

\* Removing entries that are complete and that nobody waits for leaves the registry in order:
\* so do expiry, eviction and the release of an application session.
LEMMA WithoutKeeps ==
  ASSUME RequestsOk, NEW g, RegistryOk(g), NEW K \in SUBSET Removable(g)
  PROVE  RegistryOk(Without(g, K))
<1> DEFINE h == Without(g, K)
<1>1. g \in Registries /\ K \in SUBSET Keys /\ K \subseteq Present(g)
  BY Zenon DEF RegistryOk, Registries, Removable, Present
<1>2. h = [entry |-> [k \in Keys |-> IF k \in K THEN NoEntry ELSE g.entry[k]],
           total |-> g.total - BytesOf(g, K), seq |-> g.seq]
  BY Zenon DEF Without
<1>3. Present(h) = Present(g) \ K
  BY <1>1, <1>2 DEF Present, NoEntry
<1>4. h.total = BytesOf(g, Present(g) \ K) /\ h.total \in Nat
  <2>1. Present(g) = (Present(g) \ K) \cup K /\ Present(g) \in SUBSET Keys
    BY <1>1, Zenon DEF Present
  <2>2. BytesOf(g, Present(g)) = BytesOf(g, Present(g) \ K) + BytesOf(g, K)
    BY <1>1, <2>1, BytesAdd
  <2>3. BytesOf(g, Present(g) \ K) \in Nat /\ BytesOf(g, K) \in Nat
    BY <1>1, <2>1, BytesFinite, Zenon
  <2>4. g.total = BytesOf(g, Present(g))
    BY Zenon DEF RegistryOk, BytesCounted
  <2>5. h.total = g.total - BytesOf(g, K)
    BY <1>2
  <2> QED BY <2>2, <2>3, <2>4, <2>5
<1>5. BytesCounted(h)
  <2>1. \A k \in Present(g) \ K : g.entry[k].bytes = h.entry[k].bytes
    BY <1>2 DEF Present
  <2>2. BytesOf(g, Present(g) \ K) = BytesOf(h, Present(g) \ K)
    BY <2>1, BytesSame, Zenon
  <2> QED BY <1>3, <1>4, <2>2, Zenon DEF BytesCounted
<1>6. h \in Registries
  <2>1. NoEntry \in Entries
    BY ControlAssumption DEF NoEntry, Entries, NoIdentity, Dispositions
  <2> QED BY <1>1, <1>2, <1>4, <2>1 DEF Registries
<1>7. WaitersKnown(h)
  <2>1. ASSUME NEW r \in Requests, Waiting(r) PROVE h.entry[KeyOf(r)].id = IdentityOf(r)
    <3>1. KeyOf(r) \in Keys
      BY <2>1, KeyOfMutation, Zenon DEF Waiting, RequestsOk, RequestOk
    <3>2. KeyOf(r) \notin K
      BY <2>1, Unwaited, ZenonT(30) DEF RegistryOk, Removable
    <3> QED BY <1>2, <2>1, <3>1, <3>2 DEF RegistryOk, WaitersKnown
  <2>2. \A k \in Keys : h.entry[k].waiters = g.entry[k].waiters
    BY <1>2 DEF Removable, NoEntry
  <2> QED BY <2>1, <2>2, Zenon DEF RegistryOk, WaitersKnown
<1>8. WorkersKnown(h)
  <2>1. \A k \in Keys : h.entry[k].state = "in_flight" <=> g.entry[k].state = "in_flight"
    BY <1>2 DEF Removable, NoEntry
  <2>2. ASSUME NEW r \in Requests, Executing(r) PROVE h.entry[KeyOf(r)].id = IdentityOf(r)
    <3>1. KeyOf(r) \in Keys
      BY <2>2, KeyOfMutation, Zenon DEF Executing, RequestsOk, RequestOk
    <3>2. KeyOf(r) \notin K
      BY <2>2, <3>1, Zenon DEF RegistryOk, WorkersKnown, Removable
    <3> QED BY <1>2, <2>2, <3>1, <3>2 DEF RegistryOk, WorkersKnown
  <2> QED BY <2>1, <2>2, Zenon DEF RegistryOk, WorkersKnown
<1>9. ASSUME NEW k \in Keys, h.entry[k].state # "absent" PROVE h.entry[k] = g.entry[k]
  BY <1>2, <1>9 DEF NoEntry
<1>10. \A k \in Keys : h.entry[k].state = "absent" => h.entry[k] = NoEntry
  BY <1>2 DEF RegistryOk, NoEntry
<1> QED BY <1>5, <1>6, <1>7, <1>8, <1>9, <1>10 DEF RegistryOk, Registries

\* Expiry and eviction remove such entries only.
LEMMA PrunedKeeps ==
  ASSUME RequestsOk, NEW g, RegistryOk(g), NEW h \in PrunedVariants(g)
  PROVE  RegistryOk(h)
<1>1. PICK K \in SUBSET Removable(g) : h = Without(g, K)
  BY Zenon DEF PrunedVariants, Present, Removable
<1> QED BY <1>1, WithoutKeeps, Zenon

LEMMA EvictedKeeps ==
  ASSUME RequestsOk, NEW g, RegistryOk(g), NEW P, NEW n
  PROVE  RegistryOk(Evicted(g, P, n))
<1>1. PICK K \in SUBSET Removable(g) : Evicted(g, P, n) = Without(g, K)
  BY ZenonT(30) DEF Evicted, Evictable, Present, Removable
<1> QED BY <1>1, WithoutKeeps, Zenon

LEMMA WithCapacityKeeps ==
  ASSUME RequestsOk, NEW g, RegistryOk(g)
  PROVE  RegistryOk(WithCapacity(g))
BY EvictedKeeps, Zenon DEF WithCapacity, EvictedUntil

----------------------------------------------------------------------------
(* What a request holds *)

OkRequest(q) == q \in RequestStates /\ RequestOk(q)

\* One request moves to a state that is in order.
LEMMA OneMoves ==
  ASSUME RequestsOk, NEW r \in Requests, NEW q, OkRequest(q), req' = [req EXCEPT ![r] = q]
  PROVE  RequestsOk'
<1>1. req' \in [Requests -> RequestStates]
  BY Zenon DEF RequestsOk, OkRequest
<1>2. ASSUME NEW p \in Requests PROVE RequestOk(req'[p])
  BY Zenon DEF RequestsOk, OkRequest
<1> QED BY <1>1, <1>2, Zenon DEF RequestsOk

LEMMA NewIsOk == OkRequest(NewRequest) /\ OkRequest(GoneRequest)
<1>1. Retain \in Dispositions /\ 0 \in 0 .. MaxIssued /\ "serve" \in Kinds
  BY ControlAssumption, SMTT(30) DEF Dispositions, Kinds
<1>2. OkRequest(NewRequest)
  BY <1>1, Zenon DEF OkRequest, RequestStates, RequestOk, NewRequest
<1>3. /\ NewRequest.kind = "serve" /\ NewRequest.key = {} /\ NewRequest.sess = 0
      /\ NewRequest.work = "none"
  BY Zenon DEF NewRequest
<1>4. ASSUME NEW q, OkRequest(q), q.kind = "serve", q.key = {}, q.sess = 0, q.work = "none"
      PROVE  OkRequest([q EXCEPT !.pc = "left", !.adm = "gone"])
  BY <1>4, ZenonT(30) DEF OkRequest, RequestStates, RequestOk
<1> QED BY <1>2, <1>3, <1>4, ZenonT(30) DEF GoneRequest

LEMMA LeftIsOk ==
  ASSUME NEW q, OkRequest(q), q.pc \in {"bootstrap", "prepared", "look", "sleep"}
  PROVE  OkRequest([q EXCEPT !.pc = "left"])
BY ZenonT(30) DEF OkRequest, RequestStates, RequestOk

LEMMA RequestsStep ==
  ASSUME RequestsOk, NEW r \in Requests,
         BootstrapAdmit(r) \/ Arrive(r) \/ Handle(r) \/ EndPrepared(r) \/ Disconnect(r)
  PROVE  RequestsOk'
<1> DEFINE q == req[r]
<1>0. OkRequest(q)
  BY ZenonT(30) DEF RequestsOk, OkRequest
<1>left. ASSUME q.pc \in {"bootstrap", "prepared", "look", "sleep"}, Leave(r) PROVE RequestsOk'
  <2>1. req' = [req EXCEPT ![r] = [q EXCEPT !.pc = "left"]]
    BY <1>left, Zenon DEF Leave
  <2>2. OkRequest([q EXCEPT !.pc = "left"])
    BY <1>0, <1>left, LeftIsOk, Zenon
  <2> QED BY <2>1, <2>2, OneMoves, ZenonT(30)
<1>new. ASSUME q.pc = "new" PROVE q.kind = "serve" /\ q.sess = 0 /\ q.key = {} /\ q.work = "none"
  BY <1>0, <1>new, Zenon DEF OkRequest, RequestOk
<1>1. CASE BootstrapAdmit(r)
  <2>1. req' = [req EXCEPT ![r] = [q EXCEPT !.pc = "bootstrap", !.adm = "held"]]
    BY <1>1, ZenonT(30) DEF BootstrapAdmit
  <2>2. OkRequest([q EXCEPT !.pc = "bootstrap", !.adm = "held"])
    BY <1>0, <1>1, <1>new, ZenonT(30) DEF BootstrapAdmit, OkRequest, RequestStates, RequestOk
  <2> QED BY <2>1, <2>2, OneMoves, ZenonT(30)
<1>2. CASE Arrive(r)
  <2>1. PICK kind \in Kinds, s \in SessionNumbers, k \in {{}} \cup {{key} : key \in Keys} :
          Authenticate(r, kind, s, k)
    BY <1>2, Zenon DEF Arrive
  <2> DEFINE p == [q EXCEPT !.pc = "leased", !.kind = kind, !.sess = s, !.key = k, !.adm = "lease"]
  <2>2. req' = [req EXCEPT ![r] = p]
    BY <2>1, ZenonT(30) DEF Authenticate
  <2>3. OkRequest(p)
    <3>1. q.work = "none" /\ q \in RequestStates
      BY <1>0, <1>new, <2>1, Zenon DEF Authenticate, OkRequest
    <3>2. (kind = "serve" <=> k = {}) /\ s \in 0 .. MaxIssued /\ s # 0
      BY <2>1, ControlAssumption DEF Authenticate, SessionNumbers
    <3> QED BY <3>1, <3>2, ZenonT(30) DEF OkRequest, RequestStates, RequestOk
  <2> QED BY <2>2, <2>3, OneMoves, ZenonT(30)
<1>3. CASE Admit(r)
  <2>1. CASE life.phase = "running"
    <3>1. req' = [req EXCEPT ![r] = [q EXCEPT !.pc = "prepared", !.adm = "held"]]
      BY <1>3, <2>1, ZenonT(30) DEF Admit
    <3>2. OkRequest([q EXCEPT !.pc = "prepared", !.adm = "held"])
      BY <1>0, <1>3, ZenonT(30) DEF Admit, OkRequest, RequestStates, RequestOk
    <3> QED BY <3>1, <3>2, OneMoves, ZenonT(30)
  <2>2. CASE life.phase # "running"
    <3>1. req' = [req EXCEPT ![r] = [q EXCEPT !.pc = "left", !.adm = "drop_lease"]]
      BY <1>3, <2>2, ZenonT(30) DEF Admit
    <3>2. OkRequest([q EXCEPT !.pc = "left", !.adm = "drop_lease"])
      BY <1>0, <1>3, ZenonT(30) DEF Admit, OkRequest, RequestStates, RequestOk
    <3> QED BY <3>1, <3>2, OneMoves, ZenonT(30)
  <2> QED BY <2>1, <2>2, Zenon
<1>look. ASSUME q.pc = "prepared", q.kind # "serve", req' = [req EXCEPT ![r].pc = "look"] PROVE RequestsOk'
  <2>1. req' = [req EXCEPT ![r] = [q EXCEPT !.pc = "look"]]
    BY <1>look, Zenon
  <2>2. OkRequest([q EXCEPT !.pc = "look"])
    BY <1>0, <1>look, Zenon DEF OkRequest, RequestStates, RequestOk
  <2> QED BY <2>1, <2>2, OneMoves, ZenonT(30)
<1>4. ASSUME NEW pruned, JoinEntry(r, pruned) PROVE RequestsOk'
  BY <1>left, <1>look, <1>4, Zenon DEF JoinEntry
<1>5. ASSUME NEW pruned, InstallEntry(r, pruned) PROVE RequestsOk'
  <2>1. CASE req' = [req EXCEPT ![r].pc = "look", ![r].work = "run"]
    <3>1. req' = [req EXCEPT ![r] = [q EXCEPT !.pc = "look", !.work = "run"]]
      BY <2>1, ZenonT(30)
    <3>2. OkRequest([q EXCEPT !.pc = "look", !.work = "run"])
      BY <1>0, <1>5, ZenonT(30) DEF InstallEntry, OkRequest, RequestStates, RequestOk
    <3> QED BY <3>1, <3>2, OneMoves, ZenonT(30)
  <2> QED BY <1>left, <1>5, <2>1, Zenon DEF InstallEntry
<1>6. CASE Look(r)
  <2>1. CASE req' = [req EXCEPT ![r].pc = "sleep"]
    <3>1. req' = [req EXCEPT ![r] = [q EXCEPT !.pc = "sleep"]]
      BY <2>1, Zenon
    <3>2. OkRequest([q EXCEPT !.pc = "sleep"])
      BY <1>0, <1>6, Zenon DEF Look, OkRequest, RequestStates, RequestOk
    <3> QED BY <3>1, <3>2, OneMoves, ZenonT(30)
  <2> QED BY <1>left, <1>6, <2>1, Zenon DEF Look
<1>7. CASE Execute(r)
  <2>1. PICK disp \in Dispositions :
          /\ req' = [req EXCEPT ![r].work = "commit", ![r].disp = disp]
          /\ IF q.kind = "logout" THEN disp = RemoveAfterAuthSession(q.sess) ELSE disp \in {Retain, ExpireAt}
    <3>1. q.kind = "logout" => RemoveAfterAuthSession(q.sess) \in Dispositions
      BY <1>0 DEF OkRequest, RequestOk, RequestStates, Dispositions, SessionNumbers
    <3> QED BY <1>7, <3>1, Zenon DEF Execute, Dispositions
  <2>2. req' = [req EXCEPT ![r] = [q EXCEPT !.work = "commit", !.disp = disp]]
    BY <2>1, ZenonT(30)
  <2>3. OkRequest([q EXCEPT !.work = "commit", !.disp = disp])
    BY <1>0, <1>7, <2>1, ZenonT(30) DEF Execute, OkRequest, RequestStates, RequestOk
  <2> QED BY <2>2, <2>3, OneMoves, ZenonT(30)
<1>8. ASSUME NEW bytes, Commit(r, bytes) PROVE RequestsOk'
  <2>1. ASSUME NEW p \in Requests PROVE OkRequest(req'[p])
    <3>1. OkRequest(req[p]) /\ (p = r => req[p].work = "commit")
      BY <1>8, ZenonT(30) DEF RequestsOk, OkRequest, Commit
    <3>2. PICK w, c :
            /\ req'[p] = [req[p] EXCEPT !.work = w, !.pc = c]
            /\ w = req[p].work \/ (w = "end" /\ req[p].work = "commit")
            /\ c = req[p].pc \/ (c = "look" /\ req[p].pc = "sleep")
      BY <1>8, <3>1, ZenonT(30) DEF Commit
    <3> QED BY <3>1, <3>2, ZenonT(30) DEF OkRequest, RequestStates, RequestOk
  <2>2. req' = [p \in Requests |-> req'[p]]
    BY <1>8, ZenonT(30) DEF Commit
  <2> QED BY <2>1, <2>2, Zenon DEF RequestsOk, OkRequest
<1>9. CASE DropAdmission(r)
  <2>1. CASE q.sess = 0
    <3>1. req' = [req EXCEPT ![r] = NewRequest]
      BY <1>9, <2>1, Zenon DEF DropAdmission
    <3> QED BY <3>1, NewIsOk, OneMoves, ZenonT(30)
  <2>2. CASE q.sess # 0
    <3>1. req' = [req EXCEPT ![r] = [q EXCEPT !.adm = "drop_lease"]]
      BY <1>9, <2>2, Zenon DEF DropAdmission
    <3>2. OkRequest([q EXCEPT !.adm = "drop_lease"])
      BY <1>0, <1>9, <2>2, Zenon DEF DropAdmission, OkRequest, RequestStates, RequestOk
    <3> QED BY <3>1, <3>2, OneMoves, ZenonT(30)
  <2> QED BY <2>1, <2>2, Zenon
<1>10. CASE DropLease(r)
  <2>1. PICK last \in BOOLEAN : req' = [req EXCEPT ![r] = IF last THEN [@ EXCEPT !.adm = "drop_replay"] ELSE GoneRequest]
    BY <1>10, ZenonT(30) DEF DropLease
  <2>2. CASE last
    <3>1. req' = [req EXCEPT ![r] = [q EXCEPT !.adm = "drop_replay"]]
      BY <2>1, <2>2, Zenon
    <3>2. OkRequest([q EXCEPT !.adm = "drop_replay"])
      BY <1>0, <1>10, Zenon DEF DropLease, OkRequest, RequestStates, RequestOk
    <3> QED BY <3>1, <3>2, OneMoves, ZenonT(30)
  <2>3. CASE ~last
    BY <2>1, <2>3, NewIsOk, OneMoves, ZenonT(30)
  <2> QED BY <2>1, <2>2, <2>3, Zenon
<1>11. CASE DropReplay(r)
  BY <1>11, NewIsOk, OneMoves, ZenonT(30) DEF DropReplay
<1>12. CASE CreateAppSession(r)
  BY <1>left, <1>12, Zenon DEF CreateAppSession
<1>13. CASE EndPrepared(r)
  BY <1>left, <1>13, Zenon DEF EndPrepared
<1>14. CASE Disconnect(r)
  BY <1>left, <1>14, Zenon DEF Disconnect
<1> QED BY <1>1, <1>2, <1>3, <1>4, <1>5, <1>6, <1>7, <1>8, <1>9, <1>10, <1>11, <1>12, <1>13, <1>14, Zenon
        DEF Handle

----------------------------------------------------------------------------
(* The lifecycle *)

HeldBy == {r \in Requests : req[r].adm = "held"}

LifeOk == life \in [phase : {"running", "draining", "complete"}, active : Nat, result : ShutdownResults]

Places == {"idle", "join", "drain", "returned"} \cup PastDrain

ShutOk == shut \in [at : [Callers -> Places],
                    answer : [Callers -> ShutdownResults], session : Nat, login : Nat]

LifeInv == LifeOk /\ ShutOk /\ ShutdownOk /\ life.active = Cardinality(HeldBy)

\* An admission is counted when it is given, and only while the control plane is running;
\* when it is dropped nothing is past the drain.
LEMMA AdmissionsCounted ==
  ASSUME RequestsOk, LifeInv, NEW r \in Requests,
         BootstrapAdmit(r) \/ Arrive(r) \/ Handle(r) \/ EndPrepared(r) \/ Disconnect(r)
  PROVE  LifeInv'
<1>1. shut' = shut
  BY ZenonT(30) DEF BootstrapAdmit, Arrive, Authenticate, Handle, EndPrepared, Disconnect, CreateAppSession, Admit,
    Look, JoinEntry, InstallEntry, Execute, Commit, DropAdmission, DropLease, DropReplay
<1>2. CASE life' = life /\ HeldBy' = HeldBy
  BY <1>1, <1>2, Zenon DEF LifeInv, LifeOk, ShutOk, ShutdownOk
<1>3. ASSUME life.phase = "running", life' = [life EXCEPT !.active = @ + 1], req[r].adm # "held",
             HeldBy' = HeldBy \cup {r}
      PROVE  LifeInv'
  <2>1. Cardinality(HeldBy') = Cardinality(HeldBy) + 1
    BY <1>3, CountOneMore, Zenon DEF HeldBy
  <2>2. life'.active = life.active + 1 /\ life'.phase = "running" /\ LifeOk'
    BY <1>3 DEF LifeInv, LifeOk
  <2> QED BY <1>1, <1>3, <2>1, <2>2, Zenon DEF LifeInv, ShutOk, ShutdownOk
<1>4. ASSUME life' = [life EXCEPT !.active = @ - 1], req[r].adm = "held", HeldBy' = HeldBy \ {r}
      PROVE  LifeInv'
  <2>1. Cardinality(HeldBy') = Cardinality(HeldBy) - 1 /\ Cardinality(HeldBy) >= 1
    BY <1>4, CountOneLess, Zenon DEF HeldBy
  <2>2. /\ life'.active = life.active - 1 /\ life'.phase = life.phase /\ life'.result = life.result
        /\ life.active >= 1 /\ LifeOk'
    BY <1>4, <2>1 DEF LifeInv, LifeOk
  <2> QED BY <1>1, <1>4, <2>1, <2>2 DEF LifeInv, ShutOk, ShutdownOk
<1>5. ASSUME \A q \in Requests : req'[q].adm = "held" <=> req[q].adm = "held"
      PROVE  HeldBy' = HeldBy
  BY <1>5, Zenon DEF HeldBy
<1>6. req \in [Requests -> RequestStates] /\ RequestOk(req[r])
  BY Zenon DEF RequestsOk
<1>7. CASE BootstrapAdmit(r)
  <2>1. req[r].adm # "held" /\ HeldBy' = HeldBy \cup {r}
    BY <1>6, <1>7, ZenonT(30) DEF BootstrapAdmit, HeldBy, RequestOk, RequestStates
  <2> QED BY <1>3, <1>7, <2>1, Zenon DEF BootstrapAdmit
<1>8. CASE Arrive(r)
  <2>1. PICK kind, s, k : Authenticate(r, kind, s, k)
    BY <1>8, Zenon DEF Arrive
  <2>2. \A q \in Requests : req'[q].adm = "held" <=> req[q].adm = "held"
    BY <1>6, <2>1, ZenonT(30) DEF Authenticate, RequestOk, RequestStates
  <2> QED BY <1>2, <1>5, <2>1, <2>2, ZenonT(30) DEF Authenticate
<1>9. CASE Admit(r)
  <2>1. CASE life.phase = "running"
    <3>1. req[r].adm # "held" /\ HeldBy' = HeldBy \cup {r}
      BY <1>6, <1>9, <2>1 DEF Admit, HeldBy, RequestOk, RequestStates
    <3> QED BY <1>3, <1>9, <2>1, <3>1, Zenon DEF Admit
  <2>2. CASE life.phase # "running"
    <3>1. \A q \in Requests : req'[q].adm = "held" <=> req[q].adm = "held"
      BY <1>6, <1>9, <2>2, ZenonT(30) DEF Admit, RequestOk, RequestStates
    <3> QED BY <1>2, <1>5, <1>9, <2>2, <3>1, Zenon DEF Admit
  <2> QED BY <2>1, <2>2, Zenon
<1>10. CASE DropAdmission(r)
  <2>1. req[r].adm = "held" /\ HeldBy' = HeldBy \ {r}
    BY <1>6, <1>10, Zenon DEF DropAdmission, HeldBy, RequestStates, NewRequest
  <2> QED BY <1>4, <1>10, <2>1, Zenon DEF DropAdmission
<1>11. CASE DropLease(r) \/ DropReplay(r)
  <2>1. \A q \in Requests : req'[q].adm = "held" <=> req[q].adm = "held"
    <3>1. GoneRequest.adm = "gone"
      BY Zenon DEF GoneRequest, NewRequest
    <3>2. PICK a : /\ a \in {GoneRequest, [req[r] EXCEPT !.adm = "drop_replay"]}
                   /\ req' = [req EXCEPT ![r] = a] /\ req[r].adm \in {"drop_lease", "drop_replay"}
      BY <1>11, Zenon DEF DropLease, DropReplay
    <3>3. a.adm # "held"
      BY <1>6, <3>1, <3>2, Zenon DEF RequestStates
    <3> QED BY <1>6, <3>2, <3>3, Zenon
  <2> QED BY <1>2, <1>5, <1>11, <2>1, Zenon DEF DropLease, DropReplay
<1>12. CASE CreateAppSession(r) \/ EndPrepared(r) \/ Disconnect(r) \/ Look(r) \/ Execute(r)
  <2>1. \A q \in Requests : req'[q].adm = req[q].adm
    BY <1>6, <1>12 DEF CreateAppSession, EndPrepared, Disconnect, Look, Execute, Leave, RequestStates
  <2> QED BY <1>2, <1>5, <1>12, <2>1, Zenon DEF CreateAppSession, EndPrepared, Disconnect, Look, Execute
<1>13. ASSUME NEW g, JoinEntry(r, g) \/ InstallEntry(r, g) PROVE LifeInv'
  <2>1. \A q \in Requests : req'[q].adm = req[q].adm
    BY <1>6, <1>13, SMTT(30) DEF JoinEntry, InstallEntry, Leave, RequestStates
  <2> QED BY <1>2, <1>5, <1>13, <2>1, Zenon DEF JoinEntry, InstallEntry
<1>14. ASSUME NEW bytes, Commit(r, bytes) PROVE LifeInv'
  <2>1. \A q \in Requests : req'[q].adm = req[q].adm
    BY <1>6, <1>14, ZenonT(30) DEF Commit, RequestStates
  <2> QED BY <1>2, <1>5, <1>14, <2>1, ZenonT(30) DEF Commit
<1> QED BY <1>7, <1>8, <1>9, <1>10, <1>11, <1>12, <1>13, <1>14, Zenon DEF Handle

\* One caller drains and shuts down below; the others join it.
LEMMA ShutdownStep ==
  ASSUME LifeInv, NEW c \in Callers, BeginShutdown(c) \/ Lead(c)
  PROVE  LifeInv'
<1> DEFINE lead(d) == shut.at[d] \in {"drain"} \cup PastDrain
<1>1. HeldBy' = HeldBy
  BY ZenonT(30) DEF BeginShutdown, Lead, Drained, ShutdownSession, ShutdownLogin, ClearSessions, ClearRegistry,
    JoinShutdown, HeldBy
<1>2. CASE BeginShutdown(c)
  <2>1. LifeOk' /\ ShutOk'
    BY <1>2 DEF BeginShutdown, LifeInv, LifeOk, ShutOk, Places
  <2>2. CASE life.phase = "running"
    <3>1. /\ life'.phase = "draining" /\ life'.active = life.active /\ shut'.at[c] = "drain"
          /\ shut'.session = 0 /\ shut'.login = 0 /\ \A d \in Callers \ {c} : shut'.at[d] = "idle"
      BY <1>2, <2>2 DEF BeginShutdown, LifeInv, LifeOk, ShutOk, ShutdownOk
    <3>2. ShutdownOk'
      BY <3>1, Zenon DEF ShutdownOk, PastDrain
    <3> QED BY <1>1, <2>1, <3>1, <3>2, Zenon DEF LifeInv
  <2>3. CASE life.phase # "running"
    <3>1. life' = life /\ shut' = [shut EXCEPT !.at[c] = "join"] /\ shut.at[c] = "idle"
      BY <1>2, <2>3, Zenon DEF BeginShutdown
    <3>2. /\ shut'.at[c] = "join" /\ shut'.session = shut.session /\ shut'.login = shut.login
          /\ shut'.answer = shut.answer /\ \A d \in Callers \ {c} : shut'.at[d] = shut.at[d]
      BY <3>1, Zenon DEF LifeInv, ShutOk
    <3>3. ShutdownOk'
      BY <2>3, <3>1, <3>2 DEF LifeInv, ShutdownOk, PastDrain
    <3> QED BY <1>1, <2>1, <3>1, <3>3, Zenon DEF LifeInv
  <2> QED BY <2>2, <2>3, Zenon
<1>3. CASE JoinShutdown(c)
  <2>1. LifeOk' /\ ShutOk'
    BY <1>3, ZenonT(30) DEF JoinShutdown, LifeInv, LifeOk, ShutOk, Places
  <2>2. /\ life' = life /\ life.phase = "complete" /\ shut'.at[c] = "returned" /\ shut'.answer[c] = life.result
        /\ shut'.session = shut.session /\ shut'.login = shut.login
        /\ \A d \in Callers \ {c} : shut'.at[d] = shut.at[d] /\ shut'.answer[d] = shut.answer[d]
    BY <1>3, Zenon DEF JoinShutdown, LifeInv, ShutOk
  <2>3. ShutdownOk'
    BY <2>2, ZenonT(30) DEF LifeInv, ShutdownOk
  <2> QED BY <1>1, <2>1, <2>2, <2>3, Zenon DEF LifeInv
<1>4. ASSUME lead(c)
      PROVE  /\ life.phase = "draining" /\ \A d \in Callers \ {c} : shut.at[d] \in {"idle", "join"}
             /\ shut.session = (IF shut.at[c] \in {"drain", "session"} THEN 0 ELSE 1)
             /\ shut.login = (IF shut.at[c] \in {"drain", "session", "login"} THEN 0 ELSE 1)
             /\ shut.at[c] \in PastDrain => life.active = 0
  BY <1>4, Zenon DEF LifeInv, LifeOk, ShutdownOk, PastDrain
<1>5. ASSUME lead(c), ShutOk', life' = life, shut'.at[c] \in PastDrain, life.active = 0,
             shut'.session = (IF shut'.at[c] \in {"drain", "session"} THEN 0 ELSE 1),
             shut'.login = (IF shut'.at[c] \in {"drain", "session", "login"} THEN 0 ELSE 1),
             \A d \in Callers \ {c} : shut'.at[d] = shut.at[d]
      PROVE  LifeInv'
  <2>1. LifeOk'
    BY <1>5, Zenon DEF LifeInv, LifeOk
  <2>2. ShutdownOk'
    BY <1>4, <1>5, Zenon DEF ShutdownOk
  <2> QED BY <1>1, <1>5, <2>1, <2>2, Zenon DEF LifeInv
<1>7. CASE Drained(c)
  <2>1. ShutOk' /\ lead(c) /\ shut'.at[c] = "session" /\ \A d \in Callers \ {c} : shut'.at[d] = shut.at[d]
    BY <1>7, Zenon DEF Drained, LifeInv, ShutOk, Places, PastDrain
  <2>2. shut'.session = 0 /\ shut'.login = 0
    BY <1>4, <1>7, <2>1, Zenon DEF Drained, LifeInv, ShutOk
  <2> QED BY <1>5, <1>7, <2>1, <2>2, Zenon DEF Drained, PastDrain
<1>8. ASSUME NEW ok \in BOOLEAN, ShutdownSession(c, ok) PROVE LifeInv'
  <2>1. PICK a \in ShutdownResults :
          shut' = [shut EXCEPT !.at[c] = "login", !.session = @ + 1, !.answer[c] = a]
    BY <1>8, ZenonT(30) DEF ShutdownSession, ShutdownResults
  <2>2. ShutOk' /\ lead(c) /\ shut'.at[c] = "login" /\ \A d \in Callers \ {c} : shut'.at[d] = shut.at[d]
    <3>1. lead(c)
      BY <1>8, Zenon DEF ShutdownSession, PastDrain
    <3>2. ShutOk'
      <4>1. "login" \in Places /\ "clear_sessions" \in Places
        BY Zenon DEF Places, PastDrain
      <4>2. shut'.at \in [Callers -> Places] /\ shut'.answer \in [Callers -> ShutdownResults]
        BY <2>1, <4>1, Zenon DEF LifeInv, ShutOk
      <4>3. shut'.session \in Nat /\ shut'.login \in Nat
        BY <2>1 DEF LifeInv, ShutOk
      <4>4. shut' = [at |-> shut'.at, answer |-> shut'.answer, session |-> shut'.session, login |-> shut'.login]
        BY <2>1, ZenonT(30) DEF LifeInv, ShutOk
      <4> QED BY <4>2, <4>3, <4>4, Zenon DEF ShutOk
    <3>3. shut'.at[c] = "login" /\ \A d \in Callers \ {c} : shut'.at[d] = shut.at[d]
      BY <2>1, Zenon DEF LifeInv, ShutOk
    <3> QED BY <3>1, <3>2, <3>3, Zenon
  <2>3. shut'.session = 1 /\ shut'.login = 0 /\ life.active = 0
    BY <1>4, <1>8, <2>1, <2>2 DEF ShutdownSession, LifeInv, ShutOk, Places, PastDrain
  <2> QED BY <1>5, <1>8, <2>2, <2>3, Zenon DEF ShutdownSession, PastDrain
<1>9. ASSUME NEW ok \in BOOLEAN, ShutdownLogin(c, ok) PROVE LifeInv'
  <2>1. PICK a \in ShutdownResults :
          shut' = [shut EXCEPT !.at[c] = "clear_sessions", !.login = @ + 1, !.answer[c] = a]
    <3>1. shut.answer[c] \in ShutdownResults
      BY Zenon DEF LifeInv, ShutOk
    <3> QED BY <1>9, <3>1, ZenonT(30) DEF ShutdownLogin, ShutdownResults
  <2>2. ShutOk' /\ lead(c) /\ shut'.at[c] = "clear_sessions" /\ \A d \in Callers \ {c} : shut'.at[d] = shut.at[d]
    <3>1. lead(c)
      BY <1>9, Zenon DEF ShutdownLogin, PastDrain
    <3>2. ShutOk'
      <4>1. "login" \in Places /\ "clear_sessions" \in Places
        BY Zenon DEF Places, PastDrain
      <4>2. shut'.at \in [Callers -> Places] /\ shut'.answer \in [Callers -> ShutdownResults]
        BY <2>1, <4>1, Zenon DEF LifeInv, ShutOk
      <4>3. shut'.session \in Nat /\ shut'.login \in Nat
        BY <2>1 DEF LifeInv, ShutOk
      <4>4. shut' = [at |-> shut'.at, answer |-> shut'.answer, session |-> shut'.session, login |-> shut'.login]
        BY <2>1, ZenonT(30) DEF LifeInv, ShutOk
      <4> QED BY <4>2, <4>3, <4>4, Zenon DEF ShutOk
    <3>3. shut'.at[c] = "clear_sessions" /\ \A d \in Callers \ {c} : shut'.at[d] = shut.at[d]
      BY <2>1, Zenon DEF LifeInv, ShutOk
    <3> QED BY <3>1, <3>2, <3>3, Zenon
  <2>3. shut'.session = 1 /\ shut'.login = 1 /\ life.active = 0
    BY <1>4, <1>9, <2>1, <2>2 DEF ShutdownLogin, LifeInv, ShutOk, Places, PastDrain
  <2> QED BY <1>5, <1>9, <2>2, <2>3, Zenon DEF ShutdownLogin, PastDrain
<1>10. CASE ClearSessions(c)
  <2>1. ShutOk' /\ lead(c) /\ shut'.at[c] = "clear_registry" /\ \A d \in Callers \ {c} : shut'.at[d] = shut.at[d]
    BY <1>10, Zenon DEF ClearSessions, LifeInv, ShutOk, Places, PastDrain
  <2>2. shut'.session = 1 /\ shut'.login = 1 /\ life.active = 0
    BY <1>4, <1>10, <2>1, Zenon DEF ClearSessions, LifeInv, ShutOk, Places, PastDrain
  <2> QED BY <1>5, <1>10, <2>1, <2>2, Zenon DEF ClearSessions, PastDrain
<1>6. CASE ClearRegistry(c)
  <2>1. LifeOk' /\ ShutOk'
    BY <1>6, ZenonT(30) DEF ClearRegistry, LifeInv, LifeOk, ShutOk, Places
  <2>2. /\ lead(c) /\ shut.at[c] = "clear_registry" /\ life'.phase = "complete" /\ life'.active = life.active
        /\ life'.result = shut.answer[c] /\ shut'.at[c] = "returned" /\ shut'.answer = shut.answer
        /\ shut'.session = shut.session /\ shut'.login = shut.login
        /\ \A d \in Callers \ {c} : shut'.at[d] = shut.at[d]
    BY <1>6, Zenon DEF ClearRegistry, LifeInv, LifeOk, ShutOk, PastDrain
  <2>3. ShutdownOk'
    BY <1>4, <2>2, Zenon DEF ShutdownOk, PastDrain
  <2> QED BY <1>1, <2>1, <2>2, <2>3, Zenon DEF LifeInv
<1> QED BY <1>2, <1>3, <1>6, <1>7, <1>8, <1>9, <1>10, Zenon DEF Lead

----------------------------------------------------------------------------
(* Application sessions and their leases *)

SessionsInv == issued \in 0 .. MaxIssued /\ app \in [SessionNumbers -> Sessions] /\ SessionsOk /\ LeasesExact

\* prune_expired invalidates, and removes only what nobody holds.
LEMMA PrunedSessionsFacts ==
  ASSUME app \in [SessionNumbers -> Sessions]
  PROVE  /\ PrunedSessions \in [SessionNumbers -> Sessions]
         /\ \A s \in SessionNumbers :
              /\ PrunedSessions[s].present =>
                   /\ app[s].present /\ PrunedSessions[s].active = app[s].active
                   /\ app[s].invalidated => PrunedSessions[s].invalidated
              /\ app[s].present /\ ~PrunedSessions[s].present => app[s].active = 0
<1> SUFFICES ASSUME NEW s \in SessionNumbers
             PROVE  /\ PrunedSessions[s] \in Sessions
                    /\ PrunedSessions[s].present =>
                         /\ app[s].present /\ PrunedSessions[s].active = app[s].active
                         /\ app[s].invalidated => PrunedSessions[s].invalidated
                    /\ app[s].present /\ ~PrunedSessions[s].present => app[s].active = 0
  BY ZenonT(30) DEF PrunedSessions
<1> DEFINE dead == app[s].present /\ (app[s].invalidated \/ app[s].expired)
<1>1. app[s] \in Sessions /\ dead \in BOOLEAN
  BY Zenon DEF Sessions
<1>2. CASE dead /\ app[s].active = 0
  <2>1. PrunedSessions[s] = NoSession
    BY <1>2, Zenon DEF PrunedSessions
  <2> QED BY <1>2, <2>1 DEF Sessions, NoSession
<1>3. CASE ~(dead /\ app[s].active = 0)
  <2>1. PrunedSessions[s] = [app[s] EXCEPT !.invalidated = app[s].invalidated \/ dead]
    BY <1>3, Zenon DEF PrunedSessions
  <2> HIDE DEF dead
  <2> QED BY <1>1, <2>1, Zenon DEF Sessions
<1> QED BY <1>2, <1>3, Zenon

\* The leases are the same, and a session keeps its count as long as it is there.
LEMMA SessionsFrame ==
  ASSUME SessionsInv, issued' = issued, app' \in [SessionNumbers -> Sessions],
         life.phase # "running" => life'.phase # "running",
         \A s \in SessionNumbers :
           /\ Leases(s)' = Leases(s)
           /\ app'[s].present =>
                /\ app[s].present /\ app'[s].active = app[s].active
                /\ app[s].invalidated => app'[s].invalidated
           /\ app[s].present /\ ~app'[s].present => app[s].active = 0,
         \A q \in Requests :
           /\ req'[q].sess = req[q].sess \/ req'[q].sess = 0
           /\ req'[q].work = "commit" /\ req'[q].kind = "logout" =>
                /\ req[q].work = "commit" /\ req[q].kind = "logout"
                /\ req'[q].sess = req[q].sess /\ req[q].sess \in SessionNumbers
  PROVE  SessionsInv'
<1>1. ASSUME NEW s \in SessionNumbers, ~app'[s].present PROVE Leases(s)' = {} \/ life'.phase # "running"
  <2>1. CASE app[s].present
    <3>1. Cardinality(Leases(s)) = 0
      BY <1>1, <2>1, Zenon DEF SessionsInv, LeasesExact
    <3>2. Leases(s) = {}
      BY <3>1, CountOfNone, Zenon DEF Leases, Holders
    <3> QED BY <3>2, Zenon
  <2>2. CASE ~app[s].present
    BY <2>2, Zenon DEF SessionsInv, LeasesExact
  <2> QED BY <2>1, <2>2, Zenon
<1>2. ASSUME NEW s \in SessionNumbers, app'[s].present PROVE app'[s].active = Cardinality(Leases(s)')
  BY <1>2, Zenon DEF SessionsInv, LeasesExact
<1>3. LeasesExact'
  BY <1>1, <1>2, Zenon DEF LeasesExact
<1>4. \A s \in SessionNumbers : app'[s].present => s <= issued'
  BY Zenon DEF SessionsInv, SessionsOk
<1>5. \A q \in Requests : req'[q].sess <= issued'
  BY DEF SessionsInv, SessionsOk
<1>6. ASSUME NEW q \in Requests, req'[q].work = "commit", req'[q].kind = "logout", app'[req'[q].sess].present
      PROVE  app'[req'[q].sess].invalidated
  BY <1>6, Zenon DEF SessionsInv, SessionsOk
<1> QED BY <1>3, <1>4, <1>5, <1>6, Zenon DEF SessionsInv, SessionsOk

\* What happens to sessions and requests besides the steps of a request
LEMMA SessionsAside ==
  ASSUME RequestsOk, LifeInv, SessionsInv,
         \/ Prune \/ \E s \in SessionNumbers : Expire(s)
         \/ \E c \in Callers : BeginShutdown(c) \/ Lead(c)
  PROVE  SessionsInv'
<1>1. /\ req \in [Requests -> RequestStates] /\ app \in [SessionNumbers -> Sessions]
      /\ \A q \in Requests : req[q].kind = "logout" => req[q].sess \in SessionNumbers
  BY DEF RequestsOk, RequestOk, RequestStates, SessionsInv, SessionNumbers
<1>2. ASSUME req' = req PROVE \A s \in SessionNumbers : Leases(s)' = Leases(s)
  BY <1>2, Zenon DEF Leases, Holders
<1>3. CASE Prune
  BY <1>1, <1>2, <1>3, PrunedSessionsFacts, SessionsFrame, Zenon DEF Prune
<1>4. ASSUME NEW s \in SessionNumbers, Expire(s) PROVE SessionsInv'
  <2>1. app' \in [SessionNumbers -> Sessions] /\ issued' = issued /\ req' = req /\ life' = life
    BY <1>1, <1>4, ZenonT(30) DEF Expire, Sessions
  <2>2. \A t \in SessionNumbers : /\ app'[t].present = app[t].present /\ app'[t].active = app[t].active
                                  /\ app'[t].invalidated = app[t].invalidated
    BY <1>1, <1>4, Zenon DEF Expire, Sessions
  <2> QED BY <1>1, <1>2, <2>1, <2>2, SessionsFrame, Zenon
<1>5. ASSUME NEW c \in Callers, BeginShutdown(c) \/ Lead(c), ~ClearSessions(c) PROVE SessionsInv'
  <2>1. app' = app /\ issued' = issued /\ req' = req
    BY <1>5, ZenonT(30) DEF BeginShutdown, Lead, Drained, ShutdownSession, ShutdownLogin, ClearRegistry, JoinShutdown
  <2>2. life.phase # "running" => life'.phase # "running"
    BY <1>5, ZenonT(30) DEF BeginShutdown, Lead, Drained, ShutdownSession, ShutdownLogin, ClearRegistry, JoinShutdown,
      LifeInv, LifeOk
  <2> QED BY <1>1, <1>2, <2>1, <2>2, SessionsFrame, Zenon
<1>6. ASSUME NEW c \in Callers, ClearSessions(c) PROVE SessionsInv'
  <2>1. /\ app' \in [SessionNumbers -> Sessions] /\ \A s \in SessionNumbers : ~app'[s].present
        /\ issued' = issued /\ req' = req /\ life' = life
    BY <1>6, Zenon DEF ClearSessions, Sessions, NoSession
  <2>2. life.phase # "running"
    BY <1>6, Zenon DEF ClearSessions, LifeInv, ShutdownOk
  <2>3. LeasesExact'
    BY <2>1, <2>2, Zenon DEF LeasesExact
  <2>4. SessionsOk'
    BY <1>1, <2>1, Zenon DEF SessionsInv, SessionsOk
  <2> QED BY <2>1, <2>3, <2>4, Zenon DEF SessionsInv
<1> QED BY <1>3, <1>4, <1>5, <1>6, Zenon

\* A request's steps that give, take and keep leases
LEMMA SessionsStep ==
  ASSUME RequestsOk, LifeInv, SessionsInv, NEW r \in Requests,
         BootstrapAdmit(r) \/ Arrive(r) \/ Handle(r) \/ EndPrepared(r) \/ Disconnect(r)
  PROVE  SessionsInv'
<1>1. /\ req \in [Requests -> RequestStates] /\ app \in [SessionNumbers -> Sessions]
      /\ \A q \in Requests : req[q].kind = "logout" => req[q].sess \in SessionNumbers
      /\ issued \in 0 .. MaxIssued /\ RequestOk(req[r])
  BY SMTT(30) DEF RequestsOk, RequestOk, RequestStates, SessionsInv, SessionNumbers
<1>2. life'.phase = life.phase
  BY ZenonT(30) DEF BootstrapAdmit, Arrive, Authenticate, Handle, EndPrepared, Disconnect, CreateAppSession, Admit,
    Look, JoinEntry, InstallEntry, Execute, Commit, DropAdmission, DropLease, DropReplay, LifeInv, LifeOk
<1>same. ASSUME app' = app, issued' = issued,
                \A q \in Requests : /\ req'[q].sess = req[q].sess /\ req'[q].kind = req[q].kind
                                    /\ req'[q].adm = req[q].adm
                                    /\ req'[q].work = "commit" => req[q].work = "commit"
         PROVE  SessionsInv'
  <2>1. \A s \in SessionNumbers : Leases(s)' = Leases(s)
    BY <1>same, Zenon DEF Leases, Holders
  <2> QED BY <1>1, <1>2, <1>same, <2>1, SessionsFrame, ZenonT(30)
<1>3. CASE EndPrepared(r) \/ Disconnect(r) \/ Look(r)
  <2>1. \A q \in Requests : /\ req'[q].sess = req[q].sess /\ req'[q].kind = req[q].kind
                            /\ req'[q].adm = req[q].adm /\ req'[q].work = req[q].work
    BY <1>1, <1>3 DEF EndPrepared, Disconnect, Look, Leave, RequestStates
  <2> QED BY <1>3, <1>same, <2>1, Zenon DEF EndPrepared, Disconnect, Look
<1>4. ASSUME NEW g, JoinEntry(r, g) \/ InstallEntry(r, g) PROVE SessionsInv'
  <2>1. \A q \in Requests : /\ req'[q].sess = req[q].sess /\ req'[q].kind = req[q].kind
                            /\ req'[q].adm = req[q].adm /\ (req'[q].work = "commit" => req[q].work = "commit")
    BY <1>1, <1>4, SMTT(30) DEF JoinEntry, InstallEntry, Leave, RequestStates
  <2> QED BY <1>4, <1>same, <2>1, Zenon DEF JoinEntry, InstallEntry
<1>5. ASSUME NEW bytes, Commit(r, bytes) PROVE SessionsInv'
  <2>1. \A q \in Requests : /\ req'[q].sess = req[q].sess /\ req'[q].kind = req[q].kind
                            /\ req'[q].adm = req[q].adm /\ (req'[q].work = "commit" => req[q].work = "commit")
    BY <1>1, <1>5, ZenonT(30) DEF Commit, RequestStates
  <2> QED BY <1>5, <1>same, <2>1, ZenonT(30) DEF Commit
<1>moves. ASSUME app' = app, issued' = issued, NEW a, req' = [req EXCEPT ![r] = a],
                 a.adm \in {"lease", "held", "drop_lease"} <=> req[r].adm \in {"lease", "held", "drop_lease"},
                 a.sess = req[r].sess, a.work # "commit"
          PROVE  SessionsInv'
  <2>1. \A q \in Requests : q # r => req'[q] = req[q]
    BY <1>1, <1>moves, Zenon
  <2>2. req'[r] = a
    BY <1>1, <1>moves, Zenon
  <2>3. \A s \in SessionNumbers : Leases(s)' = Leases(s)
    BY <1>moves, <2>1, <2>2 DEF Leases, Holders
  <2> QED BY <1>1, <1>2, <1>moves, <2>1, <2>2, <2>3, SessionsFrame, Zenon
<1>6. CASE BootstrapAdmit(r)
  <2>1. \A s \in SessionNumbers : Leases(s)' = Leases(s)
    BY <1>1, <1>6 DEF BootstrapAdmit, Leases, Holders, RequestOk, RequestStates, SessionNumbers
  <2>2. \A q \in Requests : /\ req'[q].sess = req[q].sess /\ req'[q].kind = req[q].kind
                            /\ req'[q].work = req[q].work
    BY <1>1, <1>6, ZenonT(30) DEF BootstrapAdmit, RequestStates
  <2> QED BY <1>1, <1>2, <1>6, <2>1, <2>2, SessionsFrame, ZenonT(30) DEF BootstrapAdmit
<1>7. CASE Admit(r)
  <2>1. PICK a : /\ req' = [req EXCEPT ![r] = a] /\ a.adm \in {"held", "drop_lease"}
                 /\ a.sess = req[r].sess /\ a.work = req[r].work
    BY <1>1, <1>7 DEF Admit, RequestStates
  <2>2. req[r].adm = "lease" /\ req[r].work # "commit"
    BY <1>1, <1>7, Zenon DEF Admit, RequestOk
  <2> QED BY <1>7, <1>moves, <2>1, <2>2, ZenonT(30) DEF Admit
<1>8. CASE DropAdmission(r)
  <2>1. CASE req[r].sess # 0
    <3> DEFINE a == [req[r] EXCEPT !.adm = "drop_lease"]
    <3>1. req' = [req EXCEPT ![r] = a]
      BY <1>8, <2>1, Zenon DEF DropAdmission
    <3>2. a.adm = "drop_lease" /\ a.sess = req[r].sess /\ a.work = req[r].work
      BY <1>1, ZenonT(30) DEF RequestStates
    <3> HIDE DEF a
    <3> QED BY <1>8, <1>moves, <3>1, <3>2, ZenonT(30) DEF DropAdmission
  <2>2. CASE req[r].sess = 0
    <3>1. req' = [req EXCEPT ![r] = NewRequest]
      BY <1>8, <2>2, Zenon DEF DropAdmission
    <3>2. \A q \in Requests \ {r} : req'[q] = req[q]
      BY <1>1, <3>1, Zenon
    <3>3. req'[r].sess = 0 /\ req'[r].work = "none"
      BY <1>1, <3>1, Zenon DEF NewRequest
    <3>4. \A s \in SessionNumbers : Leases(s)' = Leases(s)
      BY <2>2, <3>2, <3>3 DEF Leases, Holders, SessionNumbers
    <3> QED BY <1>1, <1>2, <1>8, <3>2, <3>3, <3>4, SessionsFrame, Zenon DEF DropAdmission
  <2> QED BY <2>1, <2>2, Zenon
<1>9. CASE DropReplay(r)
  <2>1. req' = [req EXCEPT ![r] = GoneRequest]
    BY <1>9, Zenon DEF DropReplay
  <2>2. \A q \in Requests \ {r} : req'[q] = req[q]
    BY <1>1, <2>1, Zenon
  <2>3. req'[r].sess = 0 /\ req'[r].work = "none" /\ req[r].adm = "drop_replay"
    BY <1>1, <1>9, <2>1, ZenonT(30) DEF DropReplay, GoneRequest, NewRequest
  <2>4. \A s \in SessionNumbers : Leases(s)' = Leases(s)
    BY <2>2, <2>3 DEF Leases, Holders, SessionNumbers
  <2> QED BY <1>1, <1>2, <1>9, <2>2, <2>3, <2>4, SessionsFrame, Zenon DEF DropReplay
<1>10. CASE Execute(r)
  <2> DEFINE t == req[r].sess
  <2>1. \A q \in Requests : /\ req'[q].sess = req[q].sess /\ req'[q].kind = req[q].kind
                            /\ req'[q].adm = req[q].adm /\ (q # r => req'[q].work = req[q].work)
    BY <1>1, <1>10, SMTT(30) DEF Execute, RequestStates
  <2>2. \A s \in SessionNumbers : Leases(s)' = Leases(s)
    BY <2>1, Zenon DEF Leases, Holders
  <2>3. app' \in [SessionNumbers -> Sessions] /\ issued' = issued
    BY <1>1, <1>10 DEF Execute, Sessions
  <2>4. \A s \in SessionNumbers : /\ app'[s].present = app[s].present /\ app'[s].active = app[s].active
                                  /\ app[s].invalidated => app'[s].invalidated
    BY <1>1, <1>10 DEF Execute, Sessions
  <2>5. req[r].kind = "logout" /\ app[t].present => app'[t].invalidated
    BY <1>1, <1>10, SMTT(30) DEF Execute, Sessions
  <2>6. LeasesExact'
    BY <1>2, <2>2, <2>4, Zenon DEF SessionsInv, LeasesExact
  <2>7. SessionsOk'
    BY <1>1, <2>1, <2>3, <2>4, <2>5 DEF SessionsInv, SessionsOk
  <2> QED BY <1>1, <2>3, <2>6, <2>7, Zenon DEF SessionsInv
<1>11. CASE CreateAppSession(r)
  <2>0. \A q \in Requests : /\ req'[q].sess = req[q].sess /\ req'[q].kind = req[q].kind
                            /\ req'[q].adm = req[q].adm /\ req'[q].work = req[q].work
    BY <1>1, <1>11, ZenonT(30) DEF CreateAppSession, Leave, RequestStates
  <2>1. \A s \in SessionNumbers : Leases(s)' = Leases(s)
    BY <2>0, Zenon DEF Leases, Holders
  <2>2. CASE app' = PrunedSessions /\ issued' = issued
    BY <1>1, <1>2, <2>0, <2>1, <2>2, PrunedSessionsFacts, SessionsFrame, ZenonT(30)
  <2>3. ASSUME issued < MaxIssued, issued' = issued + 1,
               app' = [PrunedSessions EXCEPT ![issued + 1] = [NoSession EXCEPT !.present = TRUE]]
        PROVE  SessionsInv'
    <3> DEFINE n == issued + 1
    <3>1. n \in SessionNumbers /\ issued' \in 0 .. MaxIssued
      BY <1>1, <2>3, ControlAssumption DEF SessionNumbers
    <3>2. /\ [NoSession EXCEPT !.present = TRUE] \in Sessions
          /\ [NoSession EXCEPT !.present = TRUE].active = 0
      BY ZenonT(30) DEF NoSession, Sessions
    <3>3. /\ app' \in [SessionNumbers -> Sessions] /\ app'[n].active = 0
          /\ \A s \in SessionNumbers \ {n} : app'[s] = PrunedSessions[s]
      BY <1>1, <2>3, <3>1, <3>2, PrunedSessionsFacts, Zenon
    <3>4. Leases(n) = {}
      BY <1>1 DEF SessionsInv, SessionsOk, Leases, Holders, RequestStates
    <3>5. \A q \in Requests : req[q].sess # n
      BY <1>1 DEF SessionsInv, SessionsOk, RequestStates
    <3>6. ASSUME NEW s \in SessionNumbers
          PROVE  IF app'[s].present THEN app'[s].active = Cardinality(Leases(s)')
                 ELSE Leases(s)' = {} \/ life'.phase # "running"
      <4>1. CASE s = n
        BY <2>1, <3>1, <3>3, <3>4, <4>1, CountOfNone, FS_EmptySet, Zenon
      <4>2. CASE s # n /\ (app'[s].present \/ ~app[s].present)
        BY <1>1, <1>2, <2>1, <3>3, <4>2, PrunedSessionsFacts, ZenonT(30) DEF SessionsInv, LeasesExact
      <4>3. CASE s # n /\ app[s].present /\ ~app'[s].present
        <5>1. Cardinality(Leases(s)) = 0
          BY <1>1, <3>3, <4>3, PrunedSessionsFacts, Zenon DEF SessionsInv, LeasesExact
        <5> QED BY <2>1, <4>3, <5>1, CountOfNone, Zenon DEF Leases, Holders
      <4> QED BY <4>1, <4>2, <4>3, Zenon
    <3>7. LeasesExact'
      BY <3>6, Zenon DEF LeasesExact
    <3>8. \A s \in SessionNumbers : app'[s].present => s <= issued'
      BY <1>1, <2>3, <3>3, PrunedSessionsFacts DEF SessionsInv, SessionsOk, SessionNumbers
    <3>9. ASSUME NEW q \in Requests
          PROVE  /\ req'[q].sess <= issued'
                 /\ req'[q].work = "commit" /\ req'[q].kind = "logout" /\ app'[req'[q].sess].present =>
                      app'[req'[q].sess].invalidated
      <4>1. req[q].sess <= issued /\ req[q].sess \in Int
        BY <1>1 DEF SessionsInv, SessionsOk, RequestStates
      <4>2. CASE req[q].kind = "logout"
        <5>1. req[q].sess \in SessionNumbers /\ app'[req[q].sess] = PrunedSessions[req[q].sess]
          BY <1>1, <3>3, <3>5, <4>2, ZenonT(30)
        <5> QED BY <1>1, <2>0, <2>3, <4>1, <5>1, PrunedSessionsFacts, SMTT(30) DEF SessionsInv, SessionsOk
      <4> QED BY <1>1, <2>0, <2>3, <4>1, <4>2
    <3> QED BY <3>1, <3>3, <3>7, <3>8, <3>9, Zenon DEF SessionsInv, SessionsOk
  <2> QED BY <1>11, <2>2, <2>3, ZenonT(30) DEF CreateAppSession
<1>12. CASE Arrive(r)
  <2>1. PICK kind \in Kinds, s \in SessionNumbers, k \in {{}} \cup {{key} : key \in Keys} :
          Authenticate(r, kind, s, k)
    BY <1>12, Zenon DEF Arrive
  <2>2. /\ PrunedSessions[s].present /\ issued' = issued /\ req[r].adm = "none"
        /\ app' = [PrunedSessions EXCEPT ![s].active = @ + 1]
    BY <1>1, <2>1, Zenon DEF Authenticate, RequestOk
  <2>3. /\ app' \in [SessionNumbers -> Sessions]
        /\ app'[s].active = PrunedSessions[s].active + 1 /\ app'[s].present
        /\ \A t \in SessionNumbers : /\ app'[t].present = PrunedSessions[t].present
                                     /\ app'[t].invalidated = PrunedSessions[t].invalidated
                                     /\ t # s => app'[t].active = PrunedSessions[t].active
    BY <1>1, <2>2, PrunedSessionsFacts, SMTT(30) DEF Sessions
  <2>4. /\ \A q \in Requests \ {r} : req'[q] = req[q]
        /\ req'[r].sess = s /\ req'[r].adm = "lease" /\ req'[r].work = req[r].work
    BY <1>1, <2>1 DEF Authenticate, RequestStates
  <2>5. Leases(s)' = Leases(s) \cup {r} /\ r \notin Leases(s)
    BY <2>2, <2>4, ZenonT(30) DEF Leases, Holders
  <2>6. \A t \in SessionNumbers \ {s} : Leases(t)' = Leases(t)
    BY <2>2, <2>4 DEF Leases, Holders
  <2>7. ASSUME NEW t \in SessionNumbers
        PROVE  IF app'[t].present THEN app'[t].active = Cardinality(Leases(t)')
               ELSE Leases(t)' = {} \/ life'.phase # "running"
    <3>1. CASE t = s
      <4>1. Cardinality(Leases(s)') = Cardinality(Leases(s)) + 1
        BY <2>5, CountOneMore, Zenon DEF Leases, Holders
      <4>2. PrunedSessions[s].active = Cardinality(Leases(s))
        BY <1>1, <2>2, PrunedSessionsFacts, Zenon DEF SessionsInv, LeasesExact
      <4> QED BY <2>3, <3>1, <4>1, <4>2, Zenon
    <3>2. CASE t # s /\ (app'[t].present \/ ~app[t].present)
      BY <1>1, <1>2, <2>3, <2>6, <3>2, PrunedSessionsFacts, SMTT(30) DEF SessionsInv, LeasesExact
    <3>3. CASE t # s /\ app[t].present /\ ~app'[t].present
      <4>1. Cardinality(Leases(t)) = 0
        BY <1>1, <2>3, <3>3, PrunedSessionsFacts, ZenonT(30) DEF SessionsInv, LeasesExact
      <4> QED BY <2>6, <3>3, <4>1, CountOfNone, SMTT(30) DEF Leases, Holders
    <3> QED BY <3>1, <3>2, <3>3, Zenon
  <2>8. LeasesExact'
    BY <2>7, Zenon DEF LeasesExact
  <2>9. s <= issued /\ \A t \in SessionNumbers : app'[t].present => t <= issued'
    BY <1>1, <2>2, <2>3, PrunedSessionsFacts, Zenon DEF SessionsInv, SessionsOk
  <2>10. req[r].work # "commit"
    BY <1>1, <2>2, Zenon DEF RequestOk
  <2>11. ASSUME NEW q \in Requests
         PROVE  /\ req'[q].sess <= issued'
                /\ req'[q].work = "commit" /\ req'[q].kind = "logout" /\ app'[req'[q].sess].present =>
                     app'[req'[q].sess].invalidated
    <3>1. CASE q = r
      BY <2>2, <2>4, <2>9, <2>10, <3>1, Zenon
    <3>2. CASE q # r
      BY <1>1, <2>2, <2>3, <2>4, <3>2, PrunedSessionsFacts, SMTT(30) DEF SessionsInv, SessionsOk
    <3> QED BY <3>1, <3>2, Zenon
  <2> QED BY <1>1, <2>2, <2>3, <2>8, <2>9, <2>11, Zenon DEF SessionsInv, SessionsOk
<1>13. CASE DropLease(r)
  <2>0. PICK s \in SessionNumbers : s = req[r].sess
    BY <1>1, <1>13 DEF DropLease, RequestOk, RequestStates, SessionNumbers
  <2> DEFINE last == app[s].present => app[s].invalidated /\ app[s].active = 1
  <2>1. s \in SessionNumbers /\ r \in Leases(s) /\ issued' = issued
    BY <1>13, <2>0, Zenon DEF DropLease, Leases, Holders
  <2>2. /\ \A q \in Requests \ {r} : req'[q] = req[q]
        /\ req'[r].adm \in {"drop_replay", "gone"} /\ req'[r].sess \in {0, s} /\ req'[r].work # "commit"
    <3>1. GoneRequest.adm = "gone" /\ GoneRequest.sess = 0 /\ GoneRequest.work = "none"
      BY Zenon DEF GoneRequest, NewRequest
    <3>2. PICK a : /\ a \in {GoneRequest, [req[r] EXCEPT !.adm = "drop_replay"]}
                   /\ req' = [req EXCEPT ![r] = a]
      BY <1>13, ZenonT(30) DEF DropLease
    <3>3. req[r].work # "commit"
      BY <1>1, <1>13, Zenon DEF DropLease, RequestOk
    <3> QED BY <1>1, <2>0, <3>1, <3>2, <3>3 DEF RequestStates
  <2>3. Leases(s)' = Leases(s) \ {r} /\ \A t \in SessionNumbers \ {s} : Leases(t)' = Leases(t)
    BY <2>0, <2>1, <2>2, ZenonT(30) DEF Leases, Holders, SessionNumbers
  <2>4. Cardinality(Leases(s)') = Cardinality(Leases(s)) - 1 /\ Cardinality(Leases(s)) >= 1
    BY <2>1, <2>3, CountOneLess, ZenonT(30) DEF Leases, Holders
  <2>5. app[s].present => app[s].active = Cardinality(Leases(s))
    BY <2>1, Zenon DEF SessionsInv, LeasesExact
  <2>6. PICK a : /\ app' = [app EXCEPT ![s] = a] /\ a \in Sessions
                 /\ IF ~app[s].present \/ last THEN ~a.present
                    ELSE /\ a.present /\ a.active = app[s].active - 1
                         /\ a.invalidated = app[s].invalidated
    <3>1. NoSession \in Sessions /\ ~NoSession.present
      BY Zenon DEF NoSession, Sessions
    <3>2. CASE ~app[s].present
      <4>1. app' = [app EXCEPT ![s] = app[s]]
        BY <1>1, <1>13, <2>0, <3>2, Zenon DEF DropLease
      <4> QED BY <1>1, <2>1, <3>2, <4>1, ZenonT(30)
    <3>3. CASE app[s].present /\ last
      <4>1. app' = [app EXCEPT ![s] = NoSession]
        BY <1>13, <2>0, <3>3, ZenonT(30) DEF DropLease
      <4> QED BY <3>1, <3>3, <4>1, ZenonT(30)
    <3>4. CASE app[s].present /\ ~last
      <4> DEFINE b == [app[s] EXCEPT !.active = app[s].active - 1]
      <4>1. app' = [app EXCEPT ![s] = b]
        BY <1>13, <2>0, <3>4, ZenonT(30) DEF DropLease
      <4>2. app[s] \in Sessions /\ app[s].active >= 1
        BY <1>1, <2>1, <2>4, <2>5, <3>4, Zenon
      <4>3. b \in Sessions /\ b.present = app[s].present /\ b.active = app[s].active - 1
            /\ b.invalidated = app[s].invalidated
        BY <4>2 DEF Sessions
      <4> HIDE DEF b
      <4> QED BY <3>4, <4>1, <4>3, ZenonT(30)
    <3> QED BY <3>2, <3>3, <3>4, Zenon
  <2>7. /\ app' \in [SessionNumbers -> Sessions] /\ app'[s] = a
        /\ \A t \in SessionNumbers \ {s} : app'[t] = app[t]
    BY <1>1, <2>1, <2>6, Zenon
  <2>8. IF app'[s].present THEN app'[s].active = Cardinality(Leases(s)')
        ELSE Leases(s)' = {} \/ life'.phase # "running"
    <3>1. CASE app'[s].present
      BY <2>4, <2>5, <2>6, <2>7, <3>1, Zenon
    <3>2. CASE ~app'[s].present /\ app[s].present
      <4>1. Cardinality(Leases(s)') = 0
        BY <2>4, <2>5, <2>6, <2>7, <3>2, SMTT(30)
      <4> QED BY <2>3, <3>2, <4>1, CountOfNone, Zenon DEF Leases, Holders
    <3>3. CASE ~app'[s].present /\ ~app[s].present
      BY <1>2, <2>1, <3>3, Zenon DEF SessionsInv, LeasesExact
    <3> QED BY <3>1, <3>2, <3>3, Zenon
  <2>9. LeasesExact'
    BY <1>2, <2>3, <2>7, <2>8, ZenonT(30) DEF SessionsInv, LeasesExact
  <2>10. \A t \in SessionNumbers : /\ app'[t].present => app[t].present
                                   /\ app'[t].present /\ app[t].invalidated => app'[t].invalidated
    BY <2>6, <2>7, Zenon
  <2>11. ASSUME NEW q \in Requests
         PROVE  /\ req'[q].sess <= issued'
                /\ req'[q].work = "commit" /\ req'[q].kind = "logout" /\ app'[req'[q].sess].present =>
                     app'[req'[q].sess].invalidated
    <3>1. CASE q = r
      BY <1>1, <2>0, <2>1, <2>2, <3>1, SMTT(30) DEF SessionsInv, SessionsOk, SessionNumbers
    <3>2. CASE q # r
      BY <1>1, <2>1, <2>2, <2>10, <3>2, ZenonT(30) DEF SessionsInv, SessionsOk
    <3> QED BY <3>1, <3>2, Zenon
  <2> QED BY <1>1, <2>1, <2>7, <2>9, <2>10, <2>11, ZenonT(30) DEF SessionsInv, SessionsOk
<1> QED BY <1>3, <1>4, <1>5, <1>6, <1>7, <1>8, <1>9, <1>10, <1>11, <1>12, <1>13, Zenon DEF Handle
=====================================================================================
