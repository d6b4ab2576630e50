-------------------------------- MODULE Idempotency --------------------------------
(***************************************************************************)
(* The idempotency registry of the control plane (idempotency.rs), as      *)
(* operators on its state.  Every one of them runs under the registry's    *)
(* mutex, so a caller applies it in one step.                              *)
(*                                                                         *)
(* A registry is its entries by key, the bytes accounted for and the       *)
(* completion sequence.  Every request counts RequestBytes; the size of a  *)
(* response is chosen by the caller, its content is left out: an entry is  *)
(* given one once.                                                         *)
(***************************************************************************)
EXTENDS Integers, FiniteSets, FiniteSetsExt

CONSTANTS
  Keys,          \* command ids
  MaxEntries,    \* MAX_ENTRIES (128)
  MaxBytes,      \* MAX_STORAGE_BYTES (8 MiB)
  RequestBytes   \* identity.storage_bytes()

ASSUME RegistryAssumption ==
  IsFiniteSet(Keys) /\ MaxEntries \in Nat /\ MaxBytes \in Nat /\ RequestBytes \in Nat

\* CacheDisposition; the deadline is left out
Retain == [kind |-> "Retain", sess |-> 0]
ExpireAt == [kind |-> "ExpireAt", sess |-> 0]
RemoveAfterAuthSession(s) == [kind |-> "RemoveAfterAuthSession", sess |-> s]

NoIdentity == [kind |-> "none", sess |-> 0]

NoEntry ==
  [state |-> "absent", id |-> NoIdentity, bytes |-> 0, waiters |-> 0, seq |-> 0, disp |-> Retain]

EmptyRegistry == [entry |-> [k \in Keys |-> NoEntry], total |-> 0, seq |-> 0]

Present(reg) == {k \in Keys : reg.entry[k].state # "absent"}

\* The bytes of a set of entries, each told apart by its key and its place: to count them is
\* to add the sizes up.
BytesIn(reg, keys) == UNION {{k} \X (1 .. reg.entry[k].bytes) : k \in keys}
BytesOf(reg, keys) == Cardinality(BytesIn(reg, keys))

\* Mutation: the response's bytes are forgotten.
WithoutRequestBytesOnly(reg, keys) ==
  [entry |-> [k \in Keys |-> IF k \in keys THEN NoEntry ELSE reg.entry[k]],
   total |-> reg.total - RequestBytes * Cardinality(keys), seq |-> reg.seq]

\* Registry::remove, for a set of keys
Without(reg, keys) ==
  [entry |-> [k \in Keys |-> IF k \in keys THEN NoEntry ELSE reg.entry[k]],
   total |-> reg.total - BytesOf(reg, keys), seq |-> reg.seq]

\* prune_expired: what it may leave, depending on the deadlines that have passed
PrunedVariants(reg) ==
  {Without(reg, keys) : keys \in SUBSET {k \in Present(reg) :
    /\ reg.entry[k].state = "complete" /\ reg.entry[k].waiters = 0
    /\ reg.entry[k].disp = ExpireAt}}

\* Mutation: an entry somebody waits for may be evicted.
EvictableWaitedFor(reg, protected) ==
  {k \in Present(reg) \ protected : reg.entry[k].state = "complete"}

\* Mutation: an entry whose command still runs may be evicted.
EvictableInFlight(reg, protected) ==
  {k \in Present(reg) \ protected : reg.entry[k].waiters = 0}

\* oldest_completed chooses among these, by completion sequence
Evictable(reg, protected) ==
  {k \in Present(reg) \ protected : reg.entry[k].state = "complete" /\ reg.entry[k].waiters = 0}

\* The n oldest of them removed
Evicted(reg, protected, n) ==
  LET keys == Evictable(reg, protected)
  IN  Without(reg, {k \in keys :
        Cardinality({j \in keys : reg.entry[j].seq < reg.entry[k].seq}) < n})

Removals(reg, protected) == 0 .. Cardinality(Evictable(reg, protected))

\* Entries are removed one by one until enough are, or none is left to remove.
EvictedUntil(reg, protected, enough) ==
  Evicted(reg, protected, IF enough = {} THEN Max(Removals(reg, protected)) ELSE Min(enough))

HasRoom(reg) ==
  Cardinality(Present(reg)) < MaxEntries /\ reg.total + RequestBytes <= MaxBytes

\* make_capacity; what was evicted stays evicted even if the request is refused
WithCapacity(reg) ==
  EvictedUntil(reg, {}, {n \in Removals(reg, {}) : HasRoom(Evicted(reg, {}, n))})

\* admit: a new entry; one more waiter for an entry of the same identity
Inserted(reg, k, id) ==
  [reg EXCEPT !.entry[k] = [state |-> "in_flight", id |-> id, bytes |-> RequestBytes, waiters |-> 1,
                            seq |-> 0, disp |-> Retain],
              !.total = @ + RequestBytes]

Joined(reg, k) == [reg EXCEPT !.entry[k].waiters = @ + 1]

\* take_response and Drop of a waiter, when the entry is there
Left(reg, k) == IF k \in Present(reg) THEN [reg EXCEPT !.entry[k].waiters = @ - 1] ELSE reg

\* complete, for the entry
Done(e, bytes, disp, seq) ==
  [state |-> "complete", id |-> e.id, bytes |-> e.bytes + bytes, waiters |-> e.waiters, seq |-> seq, disp |-> disp]

\* and for the registry: it is fitted into its limit again
Completed(reg, k, bytes, disp) ==
  LET next == reg.seq + 1
      done == IF reg.entry[k].state = "in_flight"
              THEN [entry |-> [reg.entry EXCEPT ![k] = Done(reg.entry[k], bytes, disp, next)],
                    total |-> reg.total + bytes, seq |-> next]
              ELSE [reg EXCEPT !.seq = next]
  IN  EvictedUntil(done, {k}, {n \in Removals(done, {k}) : Evicted(done, {k}, n).total <= MaxBytes})

\* Mutation: the cached logout response is kept.
KeptAfterAuthSession(reg, s) == reg

\* release_auth_session
ReleasedAuthSession(reg, s) ==
  Without(reg, {k \in Present(reg) :
    /\ reg.entry[k].state = "complete" /\ reg.entry[k].waiters = 0
    /\ reg.entry[k].disp = RemoveAfterAuthSession(s)})
====================================================================================
