---------------------------- MODULE EventStreamProofs ----------------------------
(***************************************************************************)
(* The event stream for every history and channel capacity, any number of  *)
(* receivers and any length: the history has no gap, and a subscription    *)
(* delivers each event after its cursor exactly once.                      *)
(***************************************************************************)
EXTENDS EventStream, FiniteSetTheorems, SequenceTheorems, TLAPS

\* The history h is the right one when n events have been appended.
HistoryOk(h, n) ==
  /\ h \in Seq(1 .. MaxSeq)
  /\ Len(h) = IF n < HistoryCapacity THEN n ELSE HistoryCapacity
  /\ \A i \in 1 .. Len(h) : h[i] = n - Len(h) + i

\* What the owner of s was given and what waits for it follow its cursor one by one.
InOrder(s) ==
  /\ \A i \in 1 .. Len(s.got) : s.got[i] = s.after + i
  /\ \A i \in 1 .. Len(s.queue) : s.queue[i] = s.after + Len(s.got) + i

Reach(s) == s.after + Len(s.got) + Len(s.queue)

\* How far its stream reaches, against the high water n, the phase ph and the end e.
StatusOk(s, n, ph, e) ==
  /\ s.registered => s.held /\ Reach(s) = n /\ s.reason = "open" /\ ph # "stopped"
  /\ s.held /\ ~s.registered => s.reason # "open" /\ s.reason # "closed"
  /\ s.held /\ s.reason = "stopped" => ph = "stopped" /\ Reach(s) = e
  /\ s.held /\ s.reason = "lagged" => Reach(s) < n
  /\ s.held /\ s.told # "open" => ~s.registered /\ s.told = s.reason /\ s.queue = <<>>

SubOk(s, n, ph, e) == s \in Subscriptions /\ InOrder(s) /\ StatusOk(s, n, ph, e)

\* append_event keeps the newest events: pushing and trimming preserves the history.
LEMMA TrimmedIsRecent ==
  ASSUME NEW h, NEW n \in 0 .. MaxSeq, n < MaxSeq, HistoryOk(h, n)
  PROVE  HistoryOk(Trimmed(Append(h, n + 1)), n + 1)
<1>1. MaxSeq \in Nat /\ HistoryCapacity \in Nat /\ HistoryCapacity >= 1 /\ n \in Nat /\ n + 1 \in 1 .. MaxSeq
  BY StreamAssumption
<1>2. /\ h \in Seq(1 .. MaxSeq) /\ Len(h) \in Nat
      /\ Len(h) = IF n < HistoryCapacity THEN n ELSE HistoryCapacity
      /\ \A i \in 1 .. Len(h) : h[i] = n - Len(h) + i
  BY DEF HistoryOk
<1>3. PICK g : g = Append(h, n + 1)
  BY ZenonT(30)
<1>4. g \in Seq(1 .. MaxSeq) /\ Len(g) = Len(h) + 1 /\ g[Len(h) + 1] = n + 1
  BY <1>1, <1>2, <1>3, AppendProperties
<1>5. \A i \in 1 .. Len(h) : g[i] = h[i]
  BY <1>1, <1>2, <1>3, AppendProperties
<1>6. \A i \in 1 .. Len(g) : g[i] = (n + 1) - Len(g) + i
  <2> TAKE i \in 1 .. Len(g)
  <2>1. CASE i = Len(h) + 1
    <3>1. g[i] = n + 1
      BY <1>4, <2>1, Zenon
    <3>2. Len(g) = i /\ i \in Int
      BY <1>2, <1>4, <2>1
    <3> QED
      BY <1>1, <3>1, <3>2
  <2>2. CASE i # Len(h) + 1
    <3>1. i \in 1 .. Len(h)
      BY <1>2, <1>4, <2>2
    <3>2. g[i] = n - Len(h) + i
      BY <1>2, <1>5, <3>1, Zenon
    <3> QED
      BY <1>1, <1>2, <1>4, <3>1, <3>2
  <2> QED
    BY <2>1, <2>2, Zenon
<1>7. CASE Len(g) > HistoryCapacity
  <2>1. Len(h) = HistoryCapacity /\ n >= HistoryCapacity /\ Len(g) = HistoryCapacity + 1
    BY <1>1, <1>2, <1>4, <1>7
  <2>2. PICK k : k = SubSeq(g, 2, HistoryCapacity + 1)
    BY ZenonT(30)
  <2>3. /\ k \in Seq(1 .. MaxSeq) /\ Len(k) = HistoryCapacity
        /\ \A i \in 1 .. HistoryCapacity : k[i] = g[i + 1]
    <3>1. /\ 2 \in Int /\ HistoryCapacity + 1 \in Int
          /\ \A i \in 2 .. HistoryCapacity + 1 : g[i] \in 1 .. MaxSeq
      BY <1>1, <1>4, <2>1
    <3>2. /\ k \in Seq(1 .. MaxSeq)
          /\ Len(k) = IF 2 <= HistoryCapacity + 1 THEN (HistoryCapacity + 1) - 2 + 1 ELSE 0
          /\ \A i \in 1 .. (HistoryCapacity + 1) - 2 + 1 : k[i] = g[2 + i - 1]
      BY <2>2, <3>1, SubSeqProperties
    <3> QED
      BY <1>1, <3>2
  <2>4. \A i \in 1 .. HistoryCapacity : k[i] = (n + 1) - HistoryCapacity + i
    <3> TAKE i \in 1 .. HistoryCapacity
    <3>1. i + 1 \in 1 .. Len(g)
      BY <1>1, <2>1
    <3>2. k[i] = (n + 1) - Len(g) + (i + 1)
      BY <1>6, <2>3, <3>1, Zenon
    <3> QED
      BY <1>1, <2>1, <3>2
  <2>5. Trimmed(g) = k
    BY <1>1, <1>7, <2>1, <2>2 DEF Trimmed
  <2>6. /\ Len(k) = IF n + 1 < HistoryCapacity THEN n + 1 ELSE HistoryCapacity
        /\ \A i \in 1 .. Len(k) : k[i] = (n + 1) - Len(k) + i
    BY <1>1, <2>1, <2>3, <2>4
  <2> QED
    BY <1>3, <2>3, <2>5, <2>6, ZenonT(30) DEF HistoryOk
<1>8. CASE ~(Len(g) > HistoryCapacity)
  <2>1. Trimmed(g) = g
    BY <1>8, Zenon DEF Trimmed
  <2>2. Len(g) = IF n + 1 < HistoryCapacity THEN n + 1 ELSE HistoryCapacity
    BY <1>1, <1>2, <1>4, <1>8
  <2> QED
    BY <1>3, <1>4, <1>6, <2>1, <2>2, ZenonT(30) DEF HistoryOk
<1> QED
  BY <1>7, <1>8, Zenon

\* subscribe: for a retained cursor the replay is every event after it, in order.
LEMMA ReplayIsComplete ==
  ASSUME HistoryOk(history, high), high \in 0 .. MaxSeq,
         NEW after \in 0 .. MaxSeq, CursorRetained(after)
  PROVE  /\ Replay(after) \in Seq(1 .. MaxSeq)
         /\ Len(Replay(after)) = high - after
         /\ \A i \in 1 .. Len(Replay(after)) : Replay(after)[i] = after + i
<1>1. MaxSeq \in Nat /\ HistoryCapacity \in Nat /\ HistoryCapacity >= 1 /\ high \in Nat /\ after \in Nat
  BY StreamAssumption
<1>2. /\ history \in Seq(1 .. MaxSeq) /\ Len(history) \in Nat /\ DOMAIN history = 1 .. Len(history)
      /\ Len(history) = IF high < HistoryCapacity THEN high ELSE HistoryCapacity
      /\ \A i \in 1 .. Len(history) : history[i] = high - Len(history) + i
  BY DEF HistoryOk
<1>3. PICK base \in Nat : base = high - Len(history)
  BY <1>1, <1>2
<1>4. base <= after /\ after <= high
  <2>1. CASE history = <<>>
    BY <1>1, <1>2, <1>3, <2>1 DEF CursorRetained
  <2>2. CASE history # <<>>
    <3>1. 1 \in 1 .. Len(history)
      BY <1>2, <2>2, EmptySeq
    <3>2. history[1] = base + 1
      BY <1>1, <1>2, <1>3, <3>1, Zenon
    <3> QED
      BY <1>1, <1>3, <2>2, <3>2 DEF CursorRetained
  <2> QED
    BY <2>1, <2>2, Zenon
<1>5. {i \in DOMAIN history : history[i] > after} = (after - base) + 1 .. Len(history)
  <2>1. \A i \in 1 .. Len(history) : history[i] > after <=> i >= (after - base) + 1
    <3> TAKE i \in 1 .. Len(history)
    <3>1. history[i] = base + i
      BY <1>1, <1>2, <1>3, Zenon
    <3> QED
      BY <1>1, <1>3, <3>1
  <2>2. \A i \in (after - base) + 1 .. Len(history) : i \in 1 .. Len(history)
    BY <1>1, <1>2, <1>3, <1>4
  <2> QED
    BY <1>1, <1>2, <1>3, <2>1, <2>2
<1>6. Cardinality((after - base) + 1 .. Len(history)) = high - after
  <2>1. /\ (after - base) + 1 \in Int /\ Len(history) \in Int /\ Len(history) = high - base
    BY <1>1, <1>2, <1>3
  <2>2. Cardinality((after - base) + 1 .. Len(history)) =
          IF (after - base) + 1 > Len(history) THEN 0 ELSE Len(history) - ((after - base) + 1) + 1
    BY <2>1, FS_Interval, Zenon
  <2> QED
    BY <1>1, <1>3, <1>4, <2>1, <2>2
<1>7. PICK n : n = high - after
  BY Zenon
<1>8. Replay(after) = [i \in 1 .. n |-> history[Len(history) - n + i]]
  BY <1>5, <1>6, <1>7, ZenonT(30) DEF Replay
<1>9. n \in Nat /\ \A i \in 1 .. n : history[Len(history) - n + i] = after + i /\ after + i \in 1 .. MaxSeq
  <2>1. n \in Nat
    BY <1>1, <1>4, <1>7
  <2> SUFFICES ASSUME NEW i \in 1 .. n
               PROVE  history[Len(history) - n + i] = after + i /\ after + i \in 1 .. MaxSeq
    BY <2>1, Zenon
  <2>2. Len(history) - n + i \in 1 .. Len(history)
    BY <1>1, <1>2, <1>3, <1>4, <1>7, <2>1
  <2>3. history[Len(history) - n + i] = high - Len(history) + (Len(history) - n + i)
    BY <1>2, <2>2, Zenon
  <2> QED
    BY <1>1, <1>2, <1>7, <2>1, <2>3
<1>10. PICK q : q = [i \in 1 .. n |-> history[Len(history) - n + i]]
  BY ZenonT(30)
<1>11. q \in Seq(1 .. MaxSeq) /\ Len(q) = n /\ \A i \in 1 .. n : q[i] = after + i
  <2>1. DOMAIN q = 1 .. n /\ \A i \in 1 .. n : q[i] = after + i
    BY <1>9, <1>10, Zenon
  <2>2. q \in [1 .. n -> 1 .. MaxSeq]
    BY <1>9, <1>10, <2>1, ZenonT(30)
  <2>3. q \in Seq(1 .. MaxSeq)
    BY <1>9, <2>2, SeqDef, ZenonT(30)
  <2> QED
    BY <1>9, <2>1, <2>3, LenProperties
<1> QED
  BY <1>7, <1>8, <1>10, <1>11, ZenonT(30)

\* The fields of a subscription and the reach they add up to.
LEMMA SubscriptionFields ==
  ASSUME NEW s \in Subscriptions
  PROVE  /\ s.held \in BOOLEAN /\ s.registered \in BOOLEAN /\ s.reason \in Reasons /\ s.told \in Reasons
         /\ s.after \in Nat /\ s.queue \in Seq(1 .. MaxSeq) /\ s.got \in Seq(1 .. MaxSeq)
         /\ Len(s.queue) \in Nat /\ Len(s.got) \in Nat /\ Reach(s) \in Nat
BY StreamAssumption DEF Subscriptions, Reach

\* Regroupings of the sum that Reach is.
LEMMA Shift ==
  ASSUME NEW a \in Nat, NEW b \in Nat, NEW c \in Int
  PROVE  /\ (a + b + c) + 1 = a + b + (c + 1)
         /\ a + b + (c + 1) = a + (b + 1) + c
         /\ a + (b + 1) + (c - 1) = a + b + c
OBVIOUS

\* append_event extends a registered subscription by the new event or cuts it off as
\* lagging, and leaves every other one alone.
LEMMA SentOk ==
  ASSUME NEW s, NEW n \in Nat, n < MaxSeq, NEW ph, NEW e, SubOk(s, n, ph, e)
  PROVE  SubOk(Sent(s, n + 1), n + 1, ph, e)
<1>1. MaxSeq \in Nat /\ LiveCapacity \in Nat /\ n + 1 \in 1 .. MaxSeq
  BY StreamAssumption
<1>2. s \in Subscriptions /\ InOrder(s) /\ StatusOk(s, n, ph, e)
  BY Zenon DEF SubOk
<1>3. /\ s.held \in BOOLEAN /\ s.registered \in BOOLEAN /\ s.reason \in Reasons /\ s.told \in Reasons
      /\ s.after \in Nat /\ s.queue \in Seq(1 .. MaxSeq) /\ s.got \in Seq(1 .. MaxSeq)
      /\ Len(s.queue) \in Nat /\ Len(s.got) \in Nat /\ Reach(s) \in Nat
  BY <1>2, SubscriptionFields, Zenon
<1>4. CASE ~s.registered
  <2>1. Sent(s, n + 1) = s
    BY <1>4, Zenon DEF Sent
  <2>2. StatusOk(s, n + 1, ph, e)
    BY <1>2, <1>3, <1>4 DEF StatusOk
  <2> QED
    BY <1>2, <2>1, <2>2, Zenon DEF SubOk
<1>5. CASE s.registered /\ Len(s.queue) < LiveCapacity
  <2>1. PICK q : q = Append(s.queue, n + 1)
    BY ZenonT(30)
  <2>2. /\ q \in Seq(1 .. MaxSeq) /\ Len(q) = Len(s.queue) + 1 /\ q[Len(s.queue) + 1] = n + 1
        /\ \A i \in 1 .. Len(s.queue) : q[i] = s.queue[i]
    BY <1>1, <1>3, <2>1, AppendProperties
  <2>3. PICK t : t = [s EXCEPT !.queue = q]
    BY ZenonT(30)
  <2>4. Sent(s, n + 1) = t
    BY <1>5, <2>1, <2>3, Zenon DEF Sent
  <2>5. /\ t \in Subscriptions /\ t.queue = q /\ t.got = s.got /\ t.after = s.after
        /\ t.held = s.held /\ t.registered = s.registered /\ t.reason = s.reason /\ t.told = s.told
    BY <1>2, <2>2, <2>3, ZenonT(30) DEF Subscriptions
  <2>6. Reach(s) = n /\ s.reason = "open" /\ s.held /\ ph # "stopped"
    BY <1>2, <1>5, Zenon DEF StatusOk
  <2>7. Reach(t) = n + 1 /\ n = s.after + Len(s.got) + Len(s.queue)
    <3>1. n = s.after + Len(s.got) + Len(s.queue)
      BY <2>6, Zenon DEF Reach
    <3>2. Reach(t) = s.after + Len(s.got) + Len(q)
      BY <2>5, Zenon DEF Reach
    <3>3. Len(q) = Len(s.queue) + 1 /\ s.after \in Nat /\ Len(s.got) \in Nat /\ Len(s.queue) \in Nat
      BY <1>3, <2>2, Zenon
    <3> QED
      BY <3>1, <3>2, <3>3, SMTT(30)
  <2>8. \A i \in 1 .. Len(q) : q[i] = s.after + Len(s.got) + i
    <3> TAKE i \in 1 .. Len(q)
    <3>1. CASE i = Len(s.queue) + 1
      <4>1. q[i] = n + 1
        BY <2>2, <3>1, Zenon
      <4>2. s.after \in Nat /\ Len(s.got) \in Nat /\ Len(s.queue) \in Nat
        BY <1>3, Zenon
      <4>3. n + 1 = s.after + Len(s.got) + (Len(s.queue) + 1)
        <5>1. PICK a \in Nat, b \in Nat, c \in Nat : a = s.after /\ b = Len(s.got) /\ c = Len(s.queue)
          BY <4>2, Zenon
        <5>2. (a + b + c) + 1 = a + b + (c + 1)
          BY Shift
        <5> QED
          BY <2>7, <5>1, <5>2, Zenon
      <4> QED
        BY <3>1, <4>1, <4>3, Zenon
    <3>2. CASE i # Len(s.queue) + 1
      <4>1. i \in 1 .. Len(s.queue)
        BY <1>3, <2>2, <3>2
      <4> QED
        BY <1>2, <2>2, <4>1, Zenon DEF InOrder
    <3> QED
      BY <3>1, <3>2, Zenon
  <2>9. InOrder(t)
    BY <1>2, <2>5, <2>8, Zenon DEF InOrder
  <2>10. StatusOk(t, n + 1, ph, e)
    BY <1>2, <1>3, <1>5, <2>5, <2>6, <2>7, Zenon DEF StatusOk
  <2> QED
    BY <2>4, <2>5, <2>9, <2>10, Zenon DEF SubOk
<1>6. CASE s.registered /\ ~(Len(s.queue) < LiveCapacity)
  <2>1. PICK t : t = [s EXCEPT !.registered = FALSE, !.reason = "lagged"]
    BY Zenon
  <2>2. Sent(s, n + 1) = t
    BY <1>6, <2>1, Zenon DEF Sent
  <2>3. /\ t \in Subscriptions /\ t.queue = s.queue /\ t.got = s.got /\ t.after = s.after
        /\ t.held = s.held /\ t.registered = FALSE /\ t.reason = "lagged" /\ t.told = s.told
    BY <1>2, <2>1, ZenonT(30) DEF Subscriptions, Reasons
  <2>4. Reach(t) = n
    BY <1>2, <1>6, <2>3, Zenon DEF StatusOk, Reach
  <2>5. s.told = "open"
    BY <1>2, <1>6, Zenon DEF StatusOk
  <2>6. InOrder(t)
    BY <1>2, <2>3, Zenon DEF InOrder
  <2>7. StatusOk(t, n + 1, ph, e)
    BY <2>3, <2>4, <2>5 DEF StatusOk
  <2> QED
    BY <2>2, <2>3, <2>6, <2>7, Zenon DEF SubOk
<1> QED
  BY <1>3, <1>4, <1>5, <1>6, Zenon

\* close_subscribers cuts every registered subscription off at the end of the stream.
LEMMA ClosedOk ==
  ASSUME NEW s, NEW n \in Nat, NEW ph, ph # "stopped", NEW e, SubOk(s, n, ph, e)
  PROVE  SubOk(Closed(s), n, "stopped", n)
<1>1. s \in Subscriptions /\ InOrder(s) /\ StatusOk(s, n, ph, e)
  BY Zenon DEF SubOk
<1>2. CASE s.registered
  <2>1. PICK t : t = [s EXCEPT !.registered = FALSE, !.reason = "stopped"]
    BY Zenon
  <2>2. Closed(s) = t
    BY <1>2, <2>1, Zenon DEF Closed
  <2>3. /\ t \in Subscriptions /\ t.queue = s.queue /\ t.got = s.got /\ t.after = s.after
        /\ t.held = s.held /\ t.registered = FALSE /\ t.reason = "stopped" /\ t.told = s.told
    BY <1>1, <2>1, ZenonT(30) DEF Subscriptions, Reasons
  <2>4. Reach(t) = n /\ s.told = "open"
    BY <1>1, <1>2, <2>3, Zenon DEF StatusOk, Reach
  <2>5. InOrder(t)
    BY <1>1, <2>3, Zenon DEF InOrder
  <2>6. StatusOk(t, n, "stopped", n)
    BY <2>3, <2>4, Zenon DEF StatusOk
  <2> QED
    BY <2>2, <2>3, <2>5, <2>6, Zenon DEF SubOk
<1>3. CASE ~s.registered
  <2>1. Closed(s) = s
    BY <1>3, Zenon DEF Closed
  <2>2. StatusOk(s, n, "stopped", n)
    BY <1>1, <1>3, Zenon DEF StatusOk
  <2> QED
    BY <1>1, <2>1, <2>2, Zenon DEF SubOk
<1> QED
  BY <1>2, <1>3, Zenon

\* recv_timeout and try_recv move the oldest waiting event to what the owner was given.
LEMMA ReceiveOk ==
  ASSUME NEW s, s.queue # <<>>, NEW n, NEW ph, NEW e, SubOk(s, n, ph, e),
         NEW t, t = [s EXCEPT !.got = Append(@, Head(s.queue)), !.queue = Tail(@)]
  PROVE  SubOk(t, n, ph, e)
<1>1. s \in Subscriptions /\ InOrder(s) /\ StatusOk(s, n, ph, e)
  BY Zenon DEF SubOk
<1>2. /\ s.held \in BOOLEAN /\ s.registered \in BOOLEAN /\ s.reason \in Reasons /\ s.told \in Reasons
      /\ s.after \in Nat /\ s.queue \in Seq(1 .. MaxSeq) /\ s.got \in Seq(1 .. MaxSeq)
      /\ Len(s.queue) \in Nat /\ Len(s.got) \in Nat
  BY <1>1, SubscriptionFields, Zenon
<1>3. PICK x, q, g : x = Head(s.queue) /\ q = Tail(s.queue) /\ g = Append(s.got, x)
  BY ZenonT(30)
<1>4. /\ Len(s.queue) >= 1 /\ x = s.queue[1] /\ x \in 1 .. MaxSeq /\ q \in Seq(1 .. MaxSeq)
      /\ Len(q) = Len(s.queue) - 1 /\ \A i \in 1 .. Len(q) : q[i] = s.queue[i + 1]
  <2>1. Len(s.queue) \in Nat \ {0}
    BY <1>2, EmptySeq, Zenon
  <2>2. x = s.queue[1]
    BY <1>2, <1>3, <2>1
  <2>3. /\ x \in 1 .. MaxSeq /\ q \in Seq(1 .. MaxSeq)
        /\ Len(q) = Len(s.queue) - 1 /\ \A i \in 1 .. Len(q) : q[i] = s.queue[i + 1]
    BY <1>2, <1>3, HeadTailProperties, ZenonT(30)
  <2> QED
    BY <2>1, <2>2, <2>3
<1>5. /\ g \in Seq(1 .. MaxSeq) /\ Len(g) = Len(s.got) + 1 /\ g[Len(s.got) + 1] = x
      /\ \A i \in 1 .. Len(s.got) : g[i] = s.got[i]
  BY <1>2, <1>3, <1>4, AppendProperties
<1>6. /\ t \in Subscriptions /\ t.queue = q /\ t.got = g /\ t.after = s.after
      /\ t.held = s.held /\ t.registered = s.registered /\ t.reason = s.reason /\ t.told = s.told
  BY <1>1, <1>3, <1>4, <1>5, ZenonT(30) DEF Subscriptions
<1>7. s.queue[1] = s.after + Len(s.got) + 1
  BY <1>1, <1>2, <1>4 DEF InOrder
<1>8. \A i \in 1 .. Len(g) : g[i] = s.after + i
  <2> TAKE i \in 1 .. Len(g)
  <2>1. CASE i = Len(s.got) + 1
    <3>1. g[i] = s.after + Len(s.got) + 1
      BY <1>4, <1>5, <1>7, <2>1, Zenon
    <3>2. s.after \in Nat /\ Len(s.got) \in Nat
      BY <1>2, Zenon
    <3> QED
      BY <2>1, <3>1, <3>2
  <2>2. CASE i # Len(s.got) + 1
    <3>1. i \in 1 .. Len(s.got)
      BY <1>2, <1>5, <2>2
    <3> QED
      BY <1>1, <1>5, <3>1, Zenon DEF InOrder
  <2> QED
    BY <2>1, <2>2, Zenon
<1>9. \A i \in 1 .. Len(q) : q[i] = s.after + Len(g) + i
  <2> TAKE i \in 1 .. Len(q)
  <2>1. i \in Int /\ i + 1 \in 1 .. Len(s.queue)
    BY <1>2, <1>4
  <2>2. q[i] = s.after + Len(s.got) + (i + 1)
    BY <1>1, <1>4, <2>1, Zenon DEF InOrder
  <2>3. Len(g) = Len(s.got) + 1 /\ s.after \in Nat /\ Len(s.got) \in Nat
    BY <1>2, <1>5, Zenon
  <2>4. s.after + Len(s.got) + (i + 1) = s.after + (Len(s.got) + 1) + i
    BY <2>1, <2>3, Shift, ZenonT(30)
  <2> QED
    BY <2>2, <2>3, <2>4, Zenon
<1>10. InOrder(t)
  BY <1>6, <1>8, <1>9, ZenonT(30) DEF InOrder
<1>11. Reach(t) = Reach(s)
  <2>1. Len(g) = Len(s.got) + 1 /\ Len(q) = Len(s.queue) - 1
    BY <1>4, <1>5, Zenon
  <2>2. s.after \in Nat /\ Len(s.got) \in Nat /\ Len(s.queue) \in Nat
    BY <1>2, Zenon
  <2>3. Reach(t) = s.after + Len(g) + Len(q)
    BY <1>6, ZenonT(30) DEF Reach
  <2>4. PICK a \in Nat, b \in Nat, c \in Nat : a = s.after /\ b = Len(s.got) /\ c = Len(s.queue)
    BY <2>2, Zenon
  <2>5. a + (b + 1) + (c - 1) = a + b + c
    BY Shift
  <2> QED
    BY <2>1, <2>3, <2>4, <2>5, Zenon DEF Reach
<1>12. StatusOk(t, n, ph, e)
  BY <1>1, <1>2, <1>6, <1>11, Zenon DEF StatusOk
<1> QED
  BY <1>6, <1>10, <1>12, Zenon DEF SubOk

----------------------------------------------------------------------------
\* The inductive invariant: each subscription, read against the history, agrees with it.
Inv ==
  /\ high \in 0 .. MaxSeq /\ end \in 0 .. MaxSeq /\ phase \in {"open", "closing", "stopped"}
  /\ HistoryOk(history, high)
  /\ DOMAIN sub = Receivers /\ sub = [r \in Receivers |-> sub[r]]
  /\ \A r \in Receivers : SubOk(sub[r], high, phase, end)

\* A fresh runtime, without events or subscribers, satisfies it.
LEMMA InitInv == Init => Inv
<1> SUFFICES ASSUME Init PROVE Inv
  BY Zenon
<1>1. MaxSeq \in Nat /\ HistoryCapacity \in Nat /\ HistoryCapacity >= 1
  BY StreamAssumption
<1>2. HistoryOk(history, high)
  BY <1>1, EmptySeq DEF Init, HistoryOk
<1>3. SubOk(NoSubscription, 0, "open", 0)
  <2>1. NoSubscription \in Subscriptions
    BY <1>1, EmptySeq DEF NoSubscription, Subscriptions, Reasons
  <2>2. InOrder(NoSubscription)
    BY EmptySeq DEF InOrder, NoSubscription
  <2>3. StatusOk(NoSubscription, 0, "open", 0)
    BY Zenon DEF StatusOk, NoSubscription
  <2> QED
    BY <2>1, <2>2, <2>3, Zenon DEF SubOk
<1> QED
  BY <1>1, <1>2, <1>3 DEF Init, Inv

\* Every operation on the stream, and every stuttering step, preserves the invariant.
LEMMA NextInv == Inv /\ [Next]_vars => Inv'
<1> SUFFICES ASSUME Inv, [Next]_vars PROVE Inv'
  BY Zenon
<1>1. MaxSeq \in Nat /\ high \in Nat /\ high \in 0 .. MaxSeq /\ end \in 0 .. MaxSeq
  BY StreamAssumption DEF Inv
<1>2. /\ phase \in {"open", "closing", "stopped"} /\ HistoryOk(history, high)
      /\ DOMAIN sub = Receivers /\ \A r \in Receivers : SubOk(sub[r], high, phase, end)
  BY Zenon DEF Inv
<1>3. CASE AppendEvent
  <2>1. high < MaxSeq /\ high' = high + 1 /\ high' \in 0 .. MaxSeq
    BY <1>1, <1>3 DEF AppendEvent
  <2>2. HistoryOk(history, high)'
    <3>1. HistoryOk(Trimmed(Append(history, high + 1)), high + 1)
      BY <1>1, <1>2, <2>1, TrimmedIsRecent, Zenon
    <3> QED
      BY <1>3, <3>1, Zenon DEF AppendEvent, HistoryOk
  <2>3. \A r \in Receivers : SubOk(Sent(sub[r], high + 1), high + 1, phase, end)
    BY <1>1, <1>2, <2>1, SentOk, Zenon
  <2>4. \A r \in Receivers : sub'[r] = Sent(sub[r], high + 1)
    BY <1>3, Zenon DEF AppendEvent
  <2>5. DOMAIN sub' = Receivers /\ sub' = [r \in Receivers |-> sub'[r]]
    BY <1>3, Zenon DEF AppendEvent
  <2>6. phase' = phase /\ end' = end
    BY <1>3, Zenon DEF AppendEvent
  <2>7. \A r \in Receivers : SubOk(sub'[r], high', phase', end')
    BY <2>1, <2>3, <2>4, <2>6, Zenon
  <2> QED
    BY <1>1, <1>2, <2>1, <2>2, <2>5, <2>6, <2>7, Zenon DEF Inv, SubOk, InOrder, StatusOk, Reach
<1>4. CASE RequestShutdown
  <2>1. phase = "open" /\ phase' = "closing" /\ UNCHANGED <<high, history, end, sub>>
    BY <1>4, Zenon DEF RequestShutdown
  <2>2. \A r \in Receivers : SubOk(sub[r], high, "closing", end)
    BY <1>2, <2>1, Zenon DEF SubOk, StatusOk
  <2> QED
    BY <2>1, <2>2 DEF Inv, HistoryOk, SubOk, InOrder, StatusOk, Reach
<1>5. CASE Stop
  <2>1. phase # "stopped" /\ phase' = "stopped" /\ end' = high'
    BY <1>5, Zenon DEF Stop
  <2>2. CASE high < MaxSeq
    <3>1. high' = high + 1 /\ high' \in 0 .. MaxSeq /\ high + 1 \in Nat
      BY <1>1, <1>5, <2>2 DEF Stop
    <3>2. HistoryOk(history, high)'
      <4>1. HistoryOk(Trimmed(Append(history, high + 1)), high + 1)
        BY <1>1, <1>2, <2>2, TrimmedIsRecent, Zenon
      <4> QED
        BY <1>5, <2>2, <4>1, Zenon DEF Stop, HistoryOk
    <3>3. \A r \in Receivers : SubOk(Sent(sub[r], high + 1), high + 1, phase, end)
      BY <1>1, <1>2, <2>2, SentOk, Zenon
    <3>4. \A r \in Receivers : SubOk(Closed(Sent(sub[r], high + 1)), high + 1, "stopped", high + 1)
      BY <2>1, <3>1, <3>3, ClosedOk, Zenon
    <3>5. sub' = [r \in Receivers |-> Closed(Sent(sub[r], high + 1))]
      BY <1>5, <2>2, Zenon DEF Stop
    <3>6. \A r \in Receivers : SubOk(sub'[r], high', phase', end')
      BY <2>1, <3>1, <3>4, <3>5, Zenon
    <3> QED
      BY <2>1, <3>1, <3>2, <3>5, <3>6 DEF Inv, SubOk, InOrder, StatusOk, Reach
  <2>3. CASE ~(high < MaxSeq)
    <3>1. sub' = [r \in Receivers |-> Closed(sub[r])] /\ UNCHANGED <<high, history>>
      BY <1>5, <2>3, Zenon DEF Stop
    <3>2. \A r \in Receivers : SubOk(Closed(sub[r]), high, "stopped", high)
      BY <1>1, <1>2, <2>1, ClosedOk, Zenon
    <3>3. \A r \in Receivers : SubOk(sub'[r], high', phase', end')
      BY <2>1, <3>1, <3>2, Zenon
    <3> QED
      BY <1>1, <1>2, <2>1, <3>1, <3>3, Zenon DEF Inv, HistoryOk, SubOk, InOrder, StatusOk, Reach
  <2> QED
    BY <2>2, <2>3, Zenon
<1>6. ASSUME NEW r \in Receivers, NEW s, SubOk(s, high, phase, end),
             sub' = [sub EXCEPT ![r] = s], UNCHANGED <<high, history, phase, end>>
      PROVE  Inv'
  <2>1. \A q \in Receivers : SubOk(sub'[q], high', phase', end')
    <3> TAKE q \in Receivers
    <3>1. CASE q = r
      BY <1>2, <1>6, <3>1, Zenon
    <3>2. CASE q # r
      <4>1. sub'[q] = sub[q]
        BY <1>2, <1>6, <3>2, Zenon
      <4> QED
        BY <1>2, <1>6, <4>1, Zenon
    <3> QED
      BY <3>1, <3>2, Zenon
  <2>2. DOMAIN sub' = Receivers /\ sub' = [q \in Receivers |-> sub'[q]]
    BY <1>2, <1>6, ZenonT(30)
  <2> QED
    BY <1>1, <1>2, <1>6, <2>1, <2>2, Zenon DEF Inv, HistoryOk, SubOk, InOrder, StatusOk, Reach
<1>7. ASSUME NEW r \in Receivers, NEW after \in 0 .. MaxSeq, Subscribe(r, after)
      PROVE  Inv'
  <2>1. phase = "open" /\ CursorRetained(after) /\ UNCHANGED <<high, history, phase, end>>
    BY <1>7, Zenon DEF Subscribe
  <2>2. PICK p : p = Replay(after)
    BY Zenon
  <2>3. /\ p \in Seq(1 .. MaxSeq) /\ Len(p) = high - after
        /\ \A i \in 1 .. Len(p) : p[i] = after + i
    BY <1>1, <1>2, <2>1, <2>2, ReplayIsComplete, Zenon
  <2>4. PICK s : s = [held |-> TRUE, registered |-> TRUE, after |-> after, queue |-> <<>>,
                      reason |-> "open", got |-> p, told |-> "open"]
    BY ZenonT(30)
  <2>5. sub' = [sub EXCEPT ![r] = s]
    BY <1>7, <2>2, <2>4, Zenon DEF Subscribe
  <2>6. /\ s \in Subscriptions /\ s.held /\ s.registered /\ s.after = after /\ s.queue = <<>>
        /\ s.reason = "open" /\ s.got = p /\ s.told = "open" /\ Len(s.queue) = 0
    BY <2>3, <2>4, EmptySeq, Zenon DEF Subscriptions, Reasons
  <2>7. InOrder(s)
    BY <2>3, <2>6 DEF InOrder
  <2>8. Reach(s) = high
    <3>1. Reach(s) = after + (high - after) + 0
      BY <2>3, <2>6, Zenon DEF Reach
    <3> QED
      BY <1>1, <3>1
  <2>9. StatusOk(s, high, phase, end)
    BY <2>1, <2>6, <2>8, Zenon DEF StatusOk
  <2>10. SubOk(s, high, phase, end)
    BY <2>6, <2>7, <2>9, Zenon DEF SubOk
  <2> QED
    BY <1>6, <2>1, <2>5, <2>10, ZenonT(30)
<1>8. ASSUME NEW r \in Receivers, Receive(r)
      PROVE  Inv'
  <2>1. PICK s : s = [sub[r] EXCEPT !.got = Append(@, Head(sub[r].queue)), !.queue = Tail(@)]
    BY Zenon
  <2>2. sub' = [sub EXCEPT ![r] = s]
    BY <1>2, <1>8, <2>1, ZenonT(30) DEF Receive
  <2>3. SubOk(s, high, phase, end)
    BY <1>2, <1>8, <2>1, ReceiveOk, ZenonT(30) DEF Receive
  <2> QED
    BY <1>6, <1>8, <2>2, <2>3, ZenonT(30) DEF Receive
<1>9. ASSUME NEW r \in Receivers, LearnClose(r)
      PROVE  Inv'
  <2>1. PICK t : t = sub[r]
    BY Zenon
  <2>2. PICK s : s = [t EXCEPT !.told = t.reason]
    BY ZenonT(30)
  <2>3. sub' = [sub EXCEPT ![r] = s] /\ t.held /\ ~t.registered /\ t.queue = <<>>
    BY <1>2, <1>9, <2>1, <2>2, Zenon DEF LearnClose
  <2>4. t \in Subscriptions /\ InOrder(t) /\ StatusOk(t, high, phase, end)
    BY <1>2, <2>1, Zenon DEF SubOk
  <2>5. /\ s \in Subscriptions /\ s.queue = t.queue /\ s.got = t.got /\ s.after = t.after
        /\ s.held = t.held /\ s.registered = t.registered /\ s.reason = t.reason /\ s.told = t.reason
    BY <2>2, <2>4, Zenon DEF Subscriptions
  <2>6. InOrder(s)
    BY <2>4, <2>5, Zenon DEF InOrder
  <2>7. StatusOk(s, high, phase, end)
    BY <2>3, <2>4, <2>5, Zenon DEF StatusOk, Reach
  <2>8. SubOk(s, high, phase, end)
    BY <2>5, <2>6, <2>7, Zenon DEF SubOk
  <2> QED
    BY <1>6, <1>9, <2>3, <2>8, ZenonT(30) DEF LearnClose
<1>10. ASSUME NEW r \in Receivers, Drop(r)
       PROVE  Inv'
  <2>1. SubOk(NoSubscription, high, phase, end)
    <3>1. NoSubscription \in Subscriptions
      BY <1>1, EmptySeq DEF NoSubscription, Subscriptions, Reasons
    <3>2. InOrder(NoSubscription)
      BY EmptySeq DEF InOrder, NoSubscription
    <3>3. StatusOk(NoSubscription, high, phase, end)
      BY Zenon DEF StatusOk, NoSubscription
    <3> QED
      BY <3>1, <3>2, <3>3, Zenon DEF SubOk
  <2> QED
    BY <1>6, <1>10, <2>1, ZenonT(30) DEF Drop
<1>11. CASE UNCHANGED vars
  BY <1>11 DEF vars, Inv, HistoryOk, SubOk, InOrder, StatusOk, Reach
<1> QED
  BY <1>3, <1>4, <1>5, <1>7, <1>8, <1>9, <1>10, <1>11, Zenon DEF Next

\* So it holds of every reachable state of the event side of P0SessionRuntime.
THEOREM InvariantHolds == Spec => []Inv
BY InitInv, NextInv, PTL DEF Spec

\* Every sequence number fits, and every field of every subscription has its type: nothing
\* append_event does after the reserve is taken can overflow.
THEOREM TypeCorrect == Spec => []TypeOK
<1>1. Inv => TypeOK
  BY Zenon DEF Inv, TypeOK, HistoryOk, SubOk
<1> QED
  BY <1>1, InvariantHolds, PTL

\* The bounded history is always the newest events without a gap, for every capacity.
THEOREM HistoryHasNoGap == Spec => []HistoryGapFree
<1>1. Inv => HistoryGapFree
  <2> SUFFICES ASSUME Inv PROVE HistoryGapFree
    BY Zenon
  <2>1. DOMAIN history = 1 .. Len(history)
    BY DEF Inv, HistoryOk
  <2> QED
    BY <2>1, Zenon DEF Inv, HistoryOk, HistoryGapFree
<1> QED
  BY <1>1, InvariantHolds, PTL

\* Replay and live delivery fit together: a subscriber is given each event after its cursor
\* exactly once and in order, whatever was appended, trimmed or cut off meanwhile.
THEOREM DeliveryIsExact == Spec => []DeliveryExact
<1>1. Inv => DeliveryExact
  <2> SUFFICES ASSUME Inv, NEW r \in Receivers, sub[r].held
               PROVE  /\ \A i \in DOMAIN Stream(sub[r]) : Stream(sub[r])[i] = sub[r].after + i
                      /\ sub[r].registered => sub[r].after + Len(Stream(sub[r])) = high
    BY Zenon DEF DeliveryExact
  <2>1. PICK s : s = sub[r]
    BY Zenon
  <2>2. s \in Subscriptions /\ InOrder(s) /\ StatusOk(s, high, phase, end)
    BY <2>1, Zenon DEF Inv, SubOk
  <2>3. /\ s.after \in Nat /\ s.queue \in Seq(1 .. MaxSeq) /\ s.got \in Seq(1 .. MaxSeq)
        /\ Len(s.queue) \in Nat /\ Len(s.got) \in Nat
    BY <2>2, SubscriptionFields, Zenon
  <2>4. PICK q, g, k : g \in Nat /\ k \in Nat /\ q = s.got \o s.queue /\ g = Len(s.got) /\ k = Len(s.queue)
    BY <2>3, ZenonT(30)
  <2> g \in Nat /\ k \in Nat
    BY <2>4, Zenon
  <2>5. /\ q \in Seq(1 .. MaxSeq) /\ Len(q) = g + k
        /\ \A i \in 1 .. g + k : q[i] = IF i <= g THEN s.got[i] ELSE s.queue[i - g]
    <3>1. /\ q \in Seq(1 .. MaxSeq) /\ Len(q) = Len(s.got) + Len(s.queue)
          /\ \A i \in 1 .. Len(s.got) + Len(s.queue) :
                q[i] = IF i <= Len(s.got) THEN s.got[i] ELSE s.queue[i - Len(s.got)]
      BY <2>3, <2>4, ConcatProperties, ZenonT(60)
    <3> QED
      BY <2>4, <3>1, Zenon
  <2>6. \A i \in 1 .. Len(q) : q[i] = s.after + i
    <3> TAKE i \in 1 .. Len(q)
    <3>1. i \in 1 .. g + k
      BY <2>5, Zenon
    <3>2. CASE i <= g
      <4>1. i \in 1 .. Len(s.got)
        BY <2>4, <3>1, <3>2
      <4>2. q[i] = s.got[i]
        BY <2>5, <3>1, <3>2, Zenon
      <4> QED
        BY <2>2, <4>1, <4>2, Zenon DEF InOrder
    <3>3. CASE ~(i <= g)
      <4>1. i - g \in 1 .. k
        BY <3>1, <3>3
      <4>2. q[i] = s.queue[i - g]
        BY <2>5, <3>1, <3>3, Zenon
      <4>3. q[i] = s.after + g + (i - g)
        BY <2>2, <2>4, <4>1, <4>2, Zenon DEF InOrder
      <4> QED
        BY <2>3, <3>1, <4>3
    <3> QED
      BY <3>2, <3>3, Zenon
  <2>7. s.registered => s.after + Len(q) = high
    <3>1. s.registered => s.after + g + k = high
      BY <2>2, <2>4, Zenon DEF StatusOk, Reach
    <3>2. s.after + (g + k) = s.after + g + k
      BY <2>3
    <3> QED
      BY <2>5, <3>1, <3>2, Zenon
  <2>8. DOMAIN q = 1 .. Len(q) /\ Stream(sub[r]) = q
    BY <2>1, <2>4, <2>5 DEF Stream
  <2> QED
    BY <2>1, <2>6, <2>7, <2>8, Zenon
<1> QED
  BY <1>1, InvariantHolds, PTL

\* The close reason P0LiveReceiver reports is true: "stopped" comes after RuntimeStopped and
\* everything before it was delivered, "lagged" only when an event was missed.
THEOREM CloseReasonIsTrue == Spec => []CloseIsTruthful
<1>1. Inv => CloseIsTruthful
  <2> SUFFICES ASSUME Inv, NEW r \in Receivers, sub[r].held, sub[r].told # "open"
               PROVE  /\ sub[r].told = "stopped" =>
                            phase = "stopped" /\ sub[r].after + Len(sub[r].got) = end
                      /\ sub[r].told = "lagged" => sub[r].after + Len(sub[r].got) < high
    BY Zenon DEF CloseIsTruthful
  <2>1. PICK s : s = sub[r]
    BY Zenon
  <2>2. s \in Subscriptions /\ StatusOk(s, high, phase, end)
    BY <2>1, Zenon DEF Inv, SubOk
  <2>3. s.after \in Nat /\ Len(s.got) \in Nat
    BY <2>2, SubscriptionFields, Zenon
  <2>4. s.told = s.reason /\ s.queue = <<>> /\ Len(s.queue) = 0
    BY <2>1, <2>2, EmptySeq, Zenon DEF StatusOk
  <2>5. Reach(s) = s.after + Len(s.got)
    BY <2>3, <2>4 DEF Reach
  <2> QED
    BY <2>1, <2>2, <2>4, <2>5, Zenon DEF StatusOk
<1> QED
  BY <1>1, InvariantHolds, PTL
==================================================================================
