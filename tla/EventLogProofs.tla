--------------------------- MODULE EventLogProofs ---------------------------
(***************************************************************************)
(* Proofs about the event log, for any capacity and any number of          *)
(* revisions, commands, failures, crashes and recoveries.  The lemmas on   *)
(* its operations come first: each takes the newest events of a history,   *)
(* as many as the log holds, to those of another.                          *)
(***************************************************************************)
EXTENDS BeaconStream, SequenceTheorems, FiniteSetTheorems, TLAPS

-----------------------------------------------------------------------------
(* The window of a history.                                                *)

\* A history: the event with revision r is the r-th.
IsHistory(h) == h \in Seq(Event) /\ \A r \in 1..Len(h) : h[r].revision = r

\* How many of the first m events a log keeps, and the log that keeps them.
Kept(m) == IF m > EventCapacity THEN EventCapacity ELSE m

Shown(h, m) == [events |-> SubSeq(h, m - Kept(m) + 1, m), next |-> m + 1]

\* The rows that the database has of a history.
Stored(h) == {h[r] : r \in (Len(h) - Kept(Len(h)) + 1)..Len(h)}

\* All puts of a batch, then all its deletes.
Written(stored, puts, deletes) ==
    {e \in stored \cup {puts[i] : i \in 1..Len(puts)} : e.revision \notin deletes}

LEMMA KeptBounds ==
    ASSUME NEW m \in Nat PROVE Kept(m) \in 0..m /\ Kept(m) <= EventCapacity
  BY CapacityAssumption DEF Kept

\* Trimming keeps the end.
LEMMA NewestEvents ==
    ASSUME NEW s \in Seq(Event)
    PROVE  /\ Newest(s) \in Seq(Event)
           /\ Len(Newest(s)) = Kept(Len(s))
           /\ \A i \in 1..Kept(Len(s)) : Newest(s)[i] = s[Len(s) - Kept(Len(s)) + i]
<1>1. Len(s) \in Nat /\ EventCapacity \in Nat \ {0}  BY CapacityAssumption, LenProperties
<1>2. CASE Len(s) > EventCapacity
  <2> DEFINE from == Len(s) - EventCapacity + 1
  <2>1. from \in 1..Len(s)  BY <1>1, <1>2
  <2>2. \A i \in from..Len(s) : s[i] \in Event  BY <1>1, <2>1, ElementOfSeq
  <2>3. /\ SubSeq(s, from, Len(s)) \in Seq(Event)
        /\ Len(SubSeq(s, from, Len(s))) = IF from <= Len(s) THEN Len(s) - from + 1 ELSE 0
        /\ \A i \in 1..(Len(s) - from + 1) : SubSeq(s, from, Len(s))[i] = s[from + i - 1]
    BY <1>1, <2>1, <2>2, SubSeqProperties
  <2>4. Len(s) - from + 1 = EventCapacity /\ \A i \in 1..EventCapacity : from + i - 1 = Len(s) - EventCapacity + i
    BY <1>1
  <2>5. Newest(s) = SubSeq(s, from, Len(s)) /\ Kept(Len(s)) = EventCapacity  BY <1>2, Zenon DEF Newest, Kept
  <2> QED  BY <1>1, <2>1, <2>3, <2>4, <2>5
<1>3. CASE ~(Len(s) > EventCapacity)
  <2>1. Newest(s) = s /\ Kept(Len(s)) = Len(s)  BY <1>3 DEF Newest, Kept
  <2> QED  BY <1>1, <2>1
<1> QED  BY <1>2, <1>3

LEMMA ShownEvents ==
    ASSUME NEW h \in Seq(Event), NEW m \in 0..Len(h)
    PROVE  /\ Shown(h, m).events \in Seq(Event)
           /\ Len(Shown(h, m).events) = Kept(m)
           /\ \A i \in 1..Kept(m) : Shown(h, m).events[i] = h[m - Kept(m) + i]
           /\ Shown(h, m).next = m + 1
<1>1. Kept(m) \in 0..m /\ m \in Nat  BY KeptBounds
<1>2. \A i \in (m - Kept(m) + 1)..m : h[i] \in Event  BY <1>1, ElementOfSeq
<1> DEFINE e == SubSeq(h, m - Kept(m) + 1, m)
<1>3. /\ e \in Seq(Event) /\ Len(e) = IF m - Kept(m) + 1 <= m THEN m - (m - Kept(m) + 1) + 1 ELSE 0
      /\ \A i \in 1..(m - (m - Kept(m) + 1) + 1) : e[i] = h[(m - Kept(m) + 1) + i - 1]
  BY <1>1, <1>2, SubSeqProperties
<1>4. Shown(h, m).events = e /\ Shown(h, m).next = m + 1  BY Zenon DEF Shown
<1> HIDE DEF e
<1>5. \A i \in 1..Kept(m) : e[i] = h[m - Kept(m) + i]
  <2> TAKE i \in 1..Kept(m)
  <2>1. i \in 1..(m - (m - Kept(m) + 1) + 1) /\ (m - Kept(m) + 1) + i - 1 = m - Kept(m) + i  BY <1>1
  <2> QED  BY <1>3, <2>1
<1> QED  BY <1>1, <1>3, <1>4, <1>5

\* What a history gains later does not change the log of its beginning.
LEMMA ShownOfPrefix ==
    ASSUME NEW h \in Seq(Event), NEW p \in Seq(Event), NEW m \in 0..Len(h)
    PROVE  Shown(h \o p, m) = Shown(h, m)
<1>1. h \o p \in Seq(Event) /\ Len(h \o p) = Len(h) + Len(p)  BY ConcatProperties
<1>2. Kept(m) \in 0..m /\ m \in Nat /\ Len(h) \in Nat /\ Len(p) \in Nat
  <2>1. Len(h) \in Nat /\ Len(p) \in Nat  BY LenProperties
  <2>2. m \in Nat  BY <2>1
  <2> QED  BY <2>1, <2>2, KeptBounds
<1>3. m \in 0..Len(h \o p)  BY <1>1, <1>2
<1>4. \A i \in 1..Kept(m) : (h \o p)[m - Kept(m) + i] = h[m - Kept(m) + i]
  BY <1>2, ConcatProperties
<1>5. Shown(h \o p, m).events = Shown(h, m).events
  <2> DEFINE a == Shown(h \o p, m).events
             b == Shown(h, m).events
  <2>1. a \in Seq(Event) /\ Len(a) = Kept(m) /\ \A i \in 1..Kept(m) : a[i] = (h \o p)[m - Kept(m) + i]
    BY <1>1, <1>3, ShownEvents, Zenon
  <2>2. b \in Seq(Event) /\ Len(b) = Kept(m) /\ \A i \in 1..Kept(m) : b[i] = h[m - Kept(m) + i]
    BY ShownEvents
  <2> HIDE DEF a, b
  <2>3. a = b  BY <1>4, <2>1, <2>2, SeqEqual, Zenon
  <2> QED  BY <2>3 DEF a, b
<1> QED  BY <1>5, Zenon DEF Shown

\* apply: the log of a longer history.
LEMMA ShownExtends ==
    ASSUME NEW h \in Seq(Event), NEW p \in Seq(Event), NEW m \in 0..Len(h),
           m + Len(p) <= Len(h), \A i \in 1..Len(p) : h[m + i] = p[i]
    PROVE  Extended(Shown(h, m), p) = Shown(h, m + Len(p))
<1> DEFINE a == Shown(h, m).events
           b == Shown(h, m + Len(p)).events
           k == Len(p)
           n == m + k
           long == a \o p
<1>1. Len(h) \in Nat /\ k \in Nat  BY LenProperties
<1>2. m \in Nat /\ n \in 0..Len(h) /\ n \in Nat /\ EventCapacity \in Nat \ {0}
  BY <1>1, CapacityAssumption
<1>3. Kept(m) \in 0..m /\ Kept(n) \in 0..n  BY <1>2, KeptBounds
<1>4. a \in Seq(Event) /\ Len(a) = Kept(m) /\ \A i \in 1..Kept(m) : a[i] = h[m - Kept(m) + i]
  BY ShownEvents
<1>5. b \in Seq(Event) /\ Len(b) = Kept(n) /\ \A i \in 1..Kept(n) : b[i] = h[n - Kept(n) + i]
  BY <1>2, ShownEvents
<1> HIDE DEF a, b
<1>6. /\ long \in Seq(Event) /\ Len(long) = Kept(m) + k
      /\ \A i \in 1..(Kept(m) + k) : long[i] = IF i <= Kept(m) THEN a[i] ELSE p[i - Kept(m)]
  <2>1. /\ long \in Seq(Event) /\ Len(long) = Len(a) + Len(p)
        /\ \A i \in 1..(Len(a) + Len(p)) : long[i] = IF i <= Len(a) THEN a[i] ELSE p[i - Len(a)]
    BY <1>4, ConcatProperties, Zenon
  <2> QED  BY <1>4, <2>1
<1> HIDE DEF long
<1>7. \A i \in 1..(Kept(m) + k) : long[i] = h[m - Kept(m) + i]
  <2> TAKE i \in 1..(Kept(m) + k)
  <2>1. CASE i <= Kept(m)  BY <1>1, <1>3, <1>4, <1>6, <2>1, SMTT(20)
  <2>2. CASE ~(i <= Kept(m))
    <3>1. i - Kept(m) \in 1..k /\ m + (i - Kept(m)) = m - Kept(m) + i  BY <1>1, <1>2, <1>3, <2>2
    <3> QED  BY <1>6, <2>2, <3>1
  <2> QED  BY <2>1, <2>2
<1>8. Kept(Kept(m) + k) = Kept(n)  BY <1>1, <1>2 DEF Kept
<1> DEFINE new == Newest(long)
<1>9. new \in Seq(Event) /\ Len(new) = Kept(n) /\ \A i \in 1..Kept(n) : new[i] = long[Kept(m) + k - Kept(n) + i]
  <2>1. /\ new \in Seq(Event) /\ Len(new) = Kept(Len(long))
        /\ \A i \in 1..Kept(Len(long)) : new[i] = long[Len(long) - Kept(Len(long)) + i]
    BY <1>6, NewestEvents, Zenon
  <2>2. Kept(Len(long)) = Kept(n) /\ Len(long) = Kept(m) + k  BY <1>6, <1>8
  <2>3. ASSUME NEW i \in 1..Kept(n) PROVE new[i] = long[Kept(m) + k - Kept(n) + i]
    <3>1. i \in 1..Kept(Len(long)) /\ Len(long) - Kept(Len(long)) + i = Kept(m) + k - Kept(n) + i
      BY <1>1, <1>2, <1>3, <2>2
    <3> HIDE DEF new
    <3> QED  BY <2>1, <3>1
  <2> QED  BY <2>1, <2>2, <2>3
<1>10. ASSUME NEW i \in 1..Kept(n) PROVE new[i] = b[i]
  <2> HIDE DEF new, k, n
  <2>1. Kept(n) \in 0..(Kept(m) + k)  BY <1>1, <1>3, <1>8, KeptBounds
  <2>2. Kept(m) + k - Kept(n) + i \in 1..(Kept(m) + k)  BY <1>1, <1>3, <2>1, SMTT(20)
  <2>3. m - Kept(m) + (Kept(m) + k - Kept(n) + i) = n - Kept(n) + i  BY <1>1, <1>2, <1>3, <2>1, SMTT(20) DEF n
  <2> QED  BY <1>5, <1>7, <1>9, <2>2, <2>3
<1> HIDE DEF new, k, n
<1>11. new = b  BY <1>5, <1>9, <1>10, SeqEqual, Zenon
<1>12. m + 1 + k = n + 1  BY <1>1, <1>2 DEF n
<1> QED  BY <1>11, <1>12, Zenon DEF Extended, Shown, new, a, b, long, k, n

\* plan: a log and its new events outgrow the rows that leave the window.
LEMMA OutgrownRevisions ==
    ASSUME NEW h, IsHistory(h), NEW m \in 0..Len(h), NEW p \in Seq(Event),
           \A i \in 1..Len(p) : p[i].revision = m + i
    PROVE  Outgrown(Shown(h, m), p) = (m - Kept(m) + 1)..(m + Len(p) - EventCapacity)
<1> DEFINE a == Shown(h, m).events
           k == Len(p)
           long == a \o p
<1>1. h \in Seq(Event) /\ Len(h) \in Nat /\ k \in Nat /\ EventCapacity \in Nat \ {0}
  BY LenProperties, CapacityAssumption DEF IsHistory
<1>2. m \in Nat /\ Kept(m) \in 0..m  BY <1>1, KeptBounds
<1>3. a \in Seq(Event) /\ Len(a) = Kept(m) /\ \A i \in 1..Kept(m) : a[i] = h[m - Kept(m) + i]
  BY <1>1, ShownEvents, SMTT(20)
<1> HIDE DEF a
<1>4. /\ long \in Seq(Event) /\ Len(long) = Kept(m) + k
      /\ \A i \in 1..(Kept(m) + k) : long[i] = IF i <= Kept(m) THEN a[i] ELSE p[i - Kept(m)]
  <2>1. /\ long \in Seq(Event) /\ Len(long) = Len(a) + Len(p)
        /\ \A i \in 1..(Len(a) + Len(p)) : long[i] = IF i <= Len(a) THEN a[i] ELSE p[i - Len(a)]
    BY <1>3, ConcatProperties, Zenon
  <2> QED  BY <1>3, <2>1
<1> HIDE DEF long
<1>5. ASSUME NEW i \in 1..(Kept(m) + k) PROVE long[i].revision = m - Kept(m) + i
  <2>1. CASE i <= Kept(m)
    <3>1. m - Kept(m) + i \in 1..Len(h) /\ i \in 1..Kept(m)  BY <1>1, <1>2, <2>1
    <3> QED  BY <1>3, <1>4, <2>1, <3>1, Zenon DEF IsHistory
  <2>2. CASE ~(i <= Kept(m))
    <3>1. i - Kept(m) \in 1..k /\ m + (i - Kept(m)) = m - Kept(m) + i  BY <1>1, <1>2, <2>2
    <3> QED  BY <1>4, <2>2, <3>1
  <2> QED  BY <2>1, <2>2
<1>6. Kept(m) + k - EventCapacity \in Int /\ Kept(m) + k - EventCapacity <= Kept(m) + k  BY <1>1, <1>2
<1>7. Outgrown(Shown(h, m), p) = {long[i].revision : i \in 1..(Kept(m) + k - EventCapacity)}
  <2>1. Outgrown(Shown(h, m), p) = {long[i].revision : i \in 1..(Len(long) - EventCapacity)}
    BY DEF Outgrown, a, long
  <2>2. Len(long) - EventCapacity = Kept(m) + k - EventCapacity  BY <1>1, <1>2, <1>4
  <2> QED  BY <2>1, <2>2
<1>8. \A i \in 1..(Kept(m) + k - EventCapacity) : long[i].revision = m - Kept(m) + i
  BY <1>1, <1>2, <1>5
<1>9. Outgrown(Shown(h, m), p) = {m - Kept(m) + i : i \in 1..(Kept(m) + k - EventCapacity)}
  BY <1>7, <1>8
<1>10. ASSUME NEW r \in (m - Kept(m) + 1)..(m + k - EventCapacity)
       PROVE  \E i \in 1..(Kept(m) + k - EventCapacity) : r = m - Kept(m) + i
  <2>1. r - (m - Kept(m)) \in 1..(Kept(m) + k - EventCapacity) /\ r = m - Kept(m) + (r - (m - Kept(m)))
    BY <1>1, <1>2
  <2> QED  BY <2>1
<1>11. \A i \in 1..(Kept(m) + k - EventCapacity) : m - Kept(m) + i \in (m - Kept(m) + 1)..(m + k - EventCapacity)
  BY <1>1, <1>2
<1> QED  BY <1>9, <1>10, <1>11

\* The batch of a commit takes the rows of a history to those of the longer one.
LEMMA StoredExtends ==
    ASSUME NEW h, IsHistory(h), NEW p \in Seq(Event), \A i \in 1..Len(p) : p[i].revision = Len(h) + i,
           NEW deletes, deletes = (Len(h) - Kept(Len(h)) + 1)..(Len(h) + Len(p) - EventCapacity)
    PROVE  /\ IsHistory(h \o p)
           /\ Len(h \o p) = Len(h) + Len(p)
           /\ Written(Stored(h), p, deletes) = Stored(h \o p)
<1> DEFINE m == Len(h)
           k == Len(p)
           t == h \o p
           n == Len(t)
<1>1. h \in Seq(Event) /\ m \in Nat /\ k \in Nat /\ EventCapacity \in Nat \ {0}
  BY LenProperties, CapacityAssumption DEF IsHistory
<1>2. /\ t \in Seq(Event) /\ n = m + k
      /\ \A i \in 1..n : t[i] = IF i <= m THEN h[i] ELSE p[i - m]
  <2>1. /\ t \in Seq(Event) /\ n = m + k
        /\ \A i \in 1..(m + k) : t[i] = IF i <= m THEN h[i] ELSE p[i - m]
    BY <1>1, ConcatProperties
  <2> QED  BY <2>1
<1>3. ASSUME NEW r \in 1..n PROVE t[r].revision = r
  <2>1. CASE r <= m  BY <1>1, <1>2, <2>1 DEF IsHistory
  <2>2. CASE ~(r <= m)
    <3>1. r - m \in 1..k /\ m + (r - m) = r  BY <1>1, <2>2
    <3> QED  BY <1>2, <2>2, <3>1
  <2> QED  BY <2>1, <2>2
<1>4. IsHistory(t)
  <2> HIDE DEF t
  <2> QED  BY <1>2, <1>3 DEF IsHistory
<1>5. n \in Nat /\ Kept(m) \in 0..m /\ Kept(n) \in 0..n
  <2> HIDE DEF n, t
  <2>1. n \in Nat  BY <1>1, <1>2
  <2> QED  BY <1>1, <2>1, KeptBounds, Zenon
<1> DEFINE low == m - Kept(m) + 1
           both == Stored(h) \cup {p[i] : i \in 1..k}
<1>6. low \in 1..(m + 1)  BY <1>1, <1>5
<1> HIDE DEF t, n
<1>7. both = {t[r] : r \in low..n}
  <2>1. \A r \in low..m : h[r] = t[r] /\ r \in low..n  BY <1>1, <1>2, <1>6
  <2>2. ASSUME NEW i \in 1..k PROVE p[i] = t[m + i] /\ m + i \in low..n
    <3>1. m + i \in 1..n /\ ~(m + i <= m) /\ (m + i) - m = i  BY <1>1, <1>2, <1>5
    <3>2. p[i] = t[m + i]  BY <1>2, <3>1, Zenon
    <3> QED  BY <1>1, <1>2, <1>5, <1>6, <3>2
  <2>3. ASSUME NEW r \in low..n
        PROVE  (r \in low..m /\ t[r] = h[r]) \/ (\E i \in 1..k : t[r] = p[i])
    <3>1. CASE r <= m  BY <1>1, <1>2, <1>6, <3>1
    <3>2. CASE ~(r <= m)
      <4>1. r - m \in 1..k /\ r \in 1..n  BY <1>1, <1>2, <1>5, <1>6, <3>2
      <4> QED  BY <1>2, <3>2, <4>1
    <3> QED  BY <3>1, <3>2
  <2>4. Stored(h) = {h[r] : r \in low..m}  BY DEF Stored
  <2> HIDE DEF low, m, k, n
  <2> QED  BY <2>1, <2>2, <2>3, <2>4, SMTT(20)
<1>8. Stored(t) = {t[r] : r \in (n - Kept(n) + 1)..n}  BY DEF Stored, n
<1>9. ASSUME NEW r \in low..n
      PROVE  t[r].revision \notin deletes <=> r \in (n - Kept(n) + 1)..n
  <2>1. t[r].revision = r  BY <1>1, <1>3, <1>5, <1>6
  <2>2. r \in deletes <=> r <= n - EventCapacity  BY <1>1, <1>2, <1>6
  <2>3. r \in (n - Kept(n) + 1)..n <=> r >= n - Kept(n) + 1  BY <1>5, <1>6
  <2>4. r <= n - EventCapacity <=> ~(r >= n - Kept(n) + 1)  BY <1>1, <1>5, <1>6 DEF Kept
  <2> QED  BY <2>1, <2>2, <2>3, <2>4
<1>10. \A r \in (n - Kept(n) + 1)..n : r \in low..n
  BY <1>1, <1>2, <1>5 DEF Kept
<1>11. {e \in both : e.revision \notin deletes} = Stored(t)
  <2> HIDE DEF low, both, m, k, n
  <2> QED  BY <1>7, <1>8, <1>9, <1>10
<1>12. Written(Stored(h), p, deletes) = {e \in both : e.revision \notin deletes}  BY DEF Written
<1> QED  BY <1>2, <1>4, <1>11, <1>12, Zenon DEF t, n

\* newEventLog: the rows of a history give the log of the whole of it.
LEMMA LoadShown ==
    ASSUME NEW h, IsHistory(h) PROVE LoadLog(Stored(h)) = Shown(h, Len(h))
<1> DEFINE n == Len(h)
           low == n - Kept(n) + 1
           S == Stored(h)
           b == Shown(h, n).events
           Below(q) == {f \in S : f.revision < q}
<1>1. h \in Seq(Event) /\ n \in Nat /\ \A r \in 1..n : h[r].revision = r
  BY LenProperties DEF IsHistory
<1>2. Kept(n) \in 0..n  BY <1>1, KeptBounds
<1>3. low \in 1..(n + 1) /\ n - low + 1 = Kept(n)  BY <1>1, <1>2
<1>4. S = {h[r] : r \in low..n}  BY DEF Stored
<1>5. b \in Seq(Event) /\ Len(b) = Kept(n) /\ \A i \in 1..Kept(n) : b[i] = h[n - Kept(n) + i]
  BY <1>1, ShownEvents
<1> HIDE DEF n, low, S, b
<1>6. \A r \in low..n : r \in 1..n /\ h[r].revision = r  BY <1>1, <1>3
\* As many rows are below a row as its place says.
<1>7. ASSUME NEW q \in low..(n + 1)
      PROVE  Cardinality(Below(q)) = q - low
  <2> DEFINE T == Below(q)
             g == [r \in low..(q - 1) |-> h[r]]
  <2>1. q \in Int /\ q - 1 \in Int /\ low \in Int  BY <1>1, <1>3
  <2>2. IsFiniteSet(low..(q - 1)) /\ Cardinality(low..(q - 1)) = q - low
    <3>1. /\ IsFiniteSet(low..(q - 1))
          /\ Cardinality(low..(q - 1)) = IF low > q - 1 THEN 0 ELSE (q - 1) - low + 1
      BY <2>1, FS_Interval
    <3> QED  BY <1>3, <2>1, <3>1
  <2>3. \A r \in low..(q - 1) : r \in low..n /\ r < q  BY <1>1, <1>3
  <2>4. \A r \in low..(q - 1) : h[r] \in T  BY <1>4, <1>6, <2>3
  <2>5. \A f \in T : \E r \in low..(q - 1) : f = h[r]
    <3> TAKE f \in T
    <3>1. PICK r \in low..n : f = h[r]  BY <1>4
    <3>2. r < q  BY <1>6, <3>1
    <3> QED  BY <1>1, <1>3, <3>1, <3>2
  <2>6. \A r, s \in low..(q - 1) : h[r] = h[s] => r = s
    <3> TAKE r, s \in low..(q - 1)
    <3>1. h[r].revision = r /\ h[s].revision = s  BY <1>6, <2>3
    <3> QED  BY <3>1
  <2> HIDE DEF T
  <2>7. g \in Bijection(low..(q - 1), T)
    BY <2>4, <2>5, <2>6 DEF Bijection, Injection, Surjection, IsInjective
  <2>8. ExistsBijection(low..(q - 1), T)  BY <2>7 DEF ExistsBijection
  <2>9. Cardinality(T) = Cardinality(low..(q - 1))  BY <2>2, <2>8, FS_Bijection
  <2> QED  BY <2>2, <2>9 DEF T
<1>8. \A r \in low..n : Rank(S, h[r]) = r - low
  <2> TAKE r \in low..n
  <2>1. r \in low..(n + 1) /\ h[r].revision = r  BY <1>1, <1>3, <1>6
  <2> QED  BY <1>7, <2>1 DEF Rank
<1>9. Cardinality(S) = Kept(n)
  <2> DEFINE q == n + 1
  <2>1. q \in low..(n + 1) /\ q - low = Kept(n)  BY <1>1, <1>2, <1>3
  <2>2. \A r \in low..n : r < q  BY <1>1, <1>3
  <2> HIDE DEF q
  <2>3. Below(q) = S  BY <1>4, <1>6, <2>2
  <2>4. Cardinality(Below(q)) = q - low  BY <1>7, <2>1
  <2> HIDE DEF Below
  <2> QED  BY <2>1, <2>3, <2>4
<1>10. ASSUME NEW i \in 1..Kept(n)
       PROVE  (CHOOSE e \in S : Rank(S, e) = i - 1) = b[i]
  <2> DEFINE r == n - Kept(n) + i
  <2>1. r \in low..n /\ r - low = i - 1  BY <1>1, <1>2, <1>3
  <2>2. h[r] \in S /\ Rank(S, h[r]) = i - 1  BY <1>4, <1>8, <2>1, Zenon
  <2>3. ASSUME NEW e \in S, Rank(S, e) = i - 1 PROVE e = h[r]
    <3>1. PICK s \in low..n : e = h[s]  BY <1>4
    <3>2. s - low = r - low  BY <1>8, <2>1, <2>3, <3>1
    <3>3. s = r  BY <1>1, <1>3, <2>1, <3>2
    <3> QED  BY <3>1, <3>3
  <2> HIDE DEF r
  <2>4. (CHOOSE e \in S : Rank(S, e) = i - 1) = h[r]  BY <2>2, <2>3
  <2> QED  BY <1>5, <2>4 DEF r
<1>11. InKeyOrder(S) = b
  <2>1. InKeyOrder(S) = [i \in 1..Kept(n) |-> CHOOSE e \in S : Rank(S, e) = i - 1]
    BY <1>9 DEF InKeyOrder
  <2>2. InKeyOrder(S) = [i \in 1..Kept(n) |-> b[i]]  BY <1>10, <2>1
  <2> QED  BY <1>5, <2>2
<1>12. LoadLog(S).next = n + 1
  <2>1. CASE n = 0
    <3>1. S = {}  BY <1>1, <1>3, <1>4, <2>1
    <3> QED  BY <2>1, <3>1 DEF LoadLog
  <2>2. CASE n # 0
    <3>1. Kept(n) # 0 /\ n \in low..n  BY <1>1, <1>2, <1>3, <2>2, CapacityAssumption DEF Kept
    <3>2. h[n] \in S /\ h[n].revision = n  BY <1>4, <1>6, <3>1
    <3>3. \A e \in S : e.revision <= n /\ e.revision \in Int  BY <1>1, <1>3, <1>4, <1>6, SMTT(20)
    <3> DEFINE R == {e.revision : e \in S}
               top == CHOOSE r \in R : \A e \in S : e.revision <= r
    <3>4. n \in R /\ \A e \in S : e.revision <= n  BY <3>2, <3>3
    <3>5. \A r \in R : (\A e \in S : e.revision <= r) => r = n
      <4> TAKE r \in R
      <4>1. r <= n /\ r \in Int  BY <3>3
      <4> QED  BY <1>1, <3>2, <4>1
    <3>6. top = n
      <4> HIDE DEF R
      <4> QED  BY <3>4, <3>5
    <3>7. LoadLog(S).next = 1 + top
      <4>1. S # {}  BY <3>2
      <4> QED  BY <4>1 DEF LoadLog
    <3> HIDE DEF R, top
    <3> QED  BY <1>1, <3>6, <3>7
  <2> QED  BY <2>1, <2>2
<1> QED  BY <1>11, <1>12, Zenon DEF LoadLog, Shown, S, b, n

LEMMA WindowArithmetic ==
    ASSUME NEW m \in Nat, NEW k \in 0..m, NEW seen \in 0..m, seen >= m - k
    PROVE  LET d == seen - (m - k)
           IN /\ d \in Nat /\ d <= k /\ m - k + d = seen /\ m - seen = k - d
              /\ k - (d + 1) + 1 = m - seen /\ m - (seen + 1) + 1 = m - seen
              /\ \A i \in 1..(m - seen) :
                    /\ (d + 1) + i - 1 = d + i /\ d + i \in 1..k
                    /\ (seen + 1) + i - 1 = seen + i /\ m - k + (d + i) = seen + i
              /\ \A i \in 1..k : m - k + i <= seen <=> i \in 1..d
  OBVIOUS

\* sinceLocked: a reader that is told of no gap gets every event after the
\* revision it has seen, in order, which is what filters, subscriptions, the
\* event stream and eth_sendRawTransactionSync rely on.
THEOREM SinceComplete ==
    ASSUME NEW h, IsHistory(h), Len(h) < MaxRevision, NEW m \in 0..Len(h), NEW seen \in 0..m,
           ~Gap(Shown(h, m), seen)
    PROVE  Since(Shown(h, m), seen) = SubSeq(h, seen + 1, m)
<1> DEFINE a == Shown(h, m).events
           low == m - Kept(m)
           S == {i \in 1..Len(a) : a[i].revision <= seen}
<1>1. h \in Seq(Event) /\ Len(h) \in Nat  BY LenProperties DEF IsHistory
<1>2. m \in Nat /\ seen \in Nat /\ MaxRevision \in Nat  BY <1>1, RevisionAssumption
<1>3. Kept(m) \in 0..m /\ low \in 0..m
  <2>1. Kept(m) \in 0..m  BY <1>2, KeptBounds
  <2> QED  BY <1>2, <2>1
<1>4. a \in Seq(Event) /\ Len(a) = Kept(m) /\ \A i \in 1..Kept(m) : a[i] = h[m - Kept(m) + i]
  BY <1>1, ShownEvents
<1> HIDE DEF a
<1>5. ASSUME NEW i \in 1..Kept(m) PROVE a[i].revision = low + i
  <2>1. m - Kept(m) + i \in 1..Len(h)  BY <1>1, <1>2, <1>3
  <2> QED  BY <1>4, <2>1 DEF IsHistory
<1>6. seen >= low
  <2>1. CASE Kept(m) = 0
    <3>1. m = 0  BY <1>2, <2>1, CapacityAssumption DEF Kept
    <3> QED  BY <1>2, <1>3, <3>1
  <2>2. CASE Kept(m) # 0
    <3>1. a # <<>>  BY <1>4, <2>2
    <3>2. 1 \in 1..Kept(m)  BY <1>2, <1>3, <2>2
    <3>3. a[1].revision = low + 1  BY <1>5, <3>2
    <3>4. seen + 1 \in 0..MaxRevision  BY <1>1, <1>2
    <3>5. (seen + 1) % (MaxRevision + 1) = seen + 1  BY <1>2, <3>4
    <3>6. ~(seen + 1 < low + 1)  BY <3>1, <3>3, <3>5 DEF Gap, a
    <3> QED  BY <1>2, <1>3, <3>6
  <2> QED  BY <2>1, <2>2
<1> DEFINE k == Kept(m)
           d == seen - (m - k)
<1>7. /\ d \in Nat /\ d <= k /\ m - k + d = seen /\ m - seen = k - d
      /\ k - (d + 1) + 1 = m - seen /\ m - (seen + 1) + 1 = m - seen
      /\ \A i \in 1..(m - seen) :
            /\ (d + 1) + i - 1 = d + i /\ d + i \in 1..k
            /\ (seen + 1) + i - 1 = seen + i /\ m - k + (d + i) = seen + i
      /\ \A i \in 1..k : m - k + i <= seen <=> i \in 1..d
  <2>1. k \in 0..m /\ seen >= m - k  BY <1>3, <1>6
  <2> HIDE DEF k
  <2> QED  BY <1>2, <2>1, WindowArithmetic
<1> HIDE DEF d
<1>8. S = 1..d
  <2>1. \A i \in 1..k : a[i].revision <= seen <=> i \in 1..d  BY <1>5, <1>7
  <2>2. \A i \in 1..d : i \in 1..k  BY <1>3, <1>7
  <2> HIDE DEF k
  <2>3. Len(a) = k  BY <1>4 DEF k
  <2> QED  BY <2>1, <2>2, <2>3
<1> HIDE DEF S
<1>9. Cardinality(S) = d
  <2>1. Cardinality(1..d) = IF 1 > d THEN 0 ELSE d - 1 + 1  BY <1>7, FS_Interval
  <2> QED  BY <1>7, <1>8, <2>1
<1>10. Since(Shown(h, m), seen) = SubSeq(a, d + 1, Kept(m))
  <2>1. Since(Shown(h, m), seen) = SubSeq(a, Cardinality(S) + 1, Len(a))  BY DEF Since, S, a
  <2> QED  BY <1>4, <1>9, <2>1
<1>11. \A i \in (d + 1)..Kept(m) : a[i] \in Event
  <2> TAKE i \in (d + 1)..Kept(m)
  <2>1. i \in 1..Len(a)  BY <1>3, <1>4, <1>7
  <2> QED  BY <1>4, <2>1, ElementOfSeq
<1> DEFINE b == SubSeq(a, d + 1, Kept(m))
           c == SubSeq(h, seen + 1, m)
<1>12. /\ b \in Seq(Event) /\ Len(b) = IF d + 1 <= Kept(m) THEN Kept(m) - (d + 1) + 1 ELSE 0
       /\ \A i \in 1..(Kept(m) - (d + 1) + 1) : b[i] = a[(d + 1) + i - 1]
  <2>1. d + 1 \in Int /\ Kept(m) \in Int  BY <1>3, <1>7
  <2> QED  BY <1>11, <2>1, SubSeqProperties
<1>13. \A i \in (seen + 1)..m : h[i] \in Event  BY <1>1, <1>2, ElementOfSeq
<1>14. /\ c \in Seq(Event) /\ Len(c) = IF seen + 1 <= m THEN m - (seen + 1) + 1 ELSE 0
       /\ \A i \in 1..(m - (seen + 1) + 1) : c[i] = h[(seen + 1) + i - 1]
  BY <1>2, <1>13, SubSeqProperties
<1> HIDE DEF b, c
<1>15. Len(b) = m - seen /\ Len(c) = m - seen
  <2>1. m - seen \in Nat /\ (d + 1 <= Kept(m) <=> m - seen # 0) /\ (seen + 1 <= m <=> m - seen # 0)
    BY <1>2, <1>3, <1>7
  <2> QED  BY <1>7, <1>12, <1>14, <2>1
<1>16. ASSUME NEW i \in 1..(m - seen) PROVE b[i] = c[i]
  <2>1. b[i] = a[d + i] /\ c[i] = h[seen + i]  BY <1>7, <1>12, <1>14
  <2>2. a[d + i] = h[seen + i]  BY <1>4, <1>7
  <2> QED  BY <2>1, <2>2
<1>17. b = c  BY <1>12, <1>14, <1>15, <1>16, SeqEqual
<1> QED  BY Zenon, <1>10, <1>17 DEF b, c

-----------------------------------------------------------------------------
(* A command.                                                              *)

LEMMA FunctionIsSeq ==
    ASSUME NEW S, NEW n \in Nat, NEW f \in [1..n -> S] PROVE f \in Seq(S) /\ Len(f) = n
  OBVIOUS

LEMMA NumberedEvents ==
    ASSUME NEW l, l.next \in Nat, NEW events \in Seq(Event)
    PROVE  /\ Numbered(l, events) \in Seq(Event)
           /\ Len(Numbered(l, events)) = Len(events)
           /\ \A i \in 1..Len(events) : Numbered(l, events)[i].revision = l.next - 1 + i
<1> DEFINE n == Len(events)
           p == Numbered(l, events)
<1>1. n \in Nat  BY LenProperties
<1>2. ASSUME NEW i \in 1..n
      PROVE  /\ [events[i] EXCEPT !.revision = l.next + i - 1] \in Event
             /\ [events[i] EXCEPT !.revision = l.next + i - 1].revision = l.next - 1 + i
  <2>1. events[i] \in Event  BY ElementOfSeq
  <2>2. l.next + i - 1 \in Nat /\ l.next + i - 1 = l.next - 1 + i  BY <1>1
  <2> QED  BY <2>1, <2>2, Zenon DEF Event
<1>3. p \in [1..n -> Event] /\ \A i \in 1..n : p[i].revision = l.next - 1 + i
  BY <1>2, Zenon DEF Numbered
<1> HIDE DEF p, n
<1>4. p \in Seq(Event) /\ Len(p) = n  BY <1>1, <1>3, FunctionIsSeq
<1> QED  BY <1>3, <1>4 DEF p, n

LEMMA CommandEventsTyped ==
    ASSUME chain \in Seq(Nat), NEW l, l.next \in Nat \ {0},
           NEW removed \in 0..Len(chain), NEW added \in Nat, NEW others \in Nat
    PROVE  /\ CommandEvents(l, removed, added, others) \in Seq(Event)
           /\ SubSeq(chain, 1, Len(chain) - removed) \o AddedBlocks(l, removed, added) \in Seq(Nat)
<1> DEFINE n == Len(chain)
           a == [i \in 1..removed |->
                   [revision |-> 0, kind |-> "removed", block |-> chain[n - i + 1], number |-> n - i + 1]]
           new == AddedBlocks(l, removed, added)
           b == [i \in 1..added |->
                   [revision |-> 0, kind |-> "block", block |-> new[i], number |-> n - removed + i]]
           c == [i \in 1..others |-> [revision |-> 0, kind |-> "other", block |-> 0, number |-> 0]]
<1>1. n \in Nat /\ removed \in Nat /\ removed <= n  BY LenProperties
<1>2. ASSUME NEW i \in 1..removed PROVE n - i + 1 \in 1..n /\ chain[n - i + 1] \in Nat
  <2>1. n - i + 1 \in 1..n  BY <1>1
  <2> QED  BY <2>1, ElementOfSeq
<1>3. a \in [1..removed -> Event]  BY <1>1, <1>2 DEF Event
<1>4. new \in [1..added -> Nat]  BY <1>1 DEF AddedBlocks
<1>5. \A i \in 1..added : n - removed + i \in Nat  BY <1>1
<1> HIDE DEF new
<1>6. b \in [1..added -> Event]  BY <1>4, <1>5 DEF Event
<1>7. c \in [1..others -> Event]  BY DEF Event
<1>8. CommandEvents(l, removed, added, others) = a \o b \o c  BY DEF CommandEvents, new
<1> HIDE DEF a, b, c
<1>9. a \in Seq(Event) /\ b \in Seq(Event) /\ c \in Seq(Event)  BY <1>1, <1>3, <1>6, <1>7, FunctionIsSeq
<1>10. a \o b \in Seq(Event)  BY <1>9, ConcatProperties
<1>11. (a \o b) \o c \in Seq(Event)  BY <1>9, <1>10, ConcatProperties
<1>12. new \in Seq(Nat)  BY <1>4, FunctionIsSeq
<1>13. \A i \in 1..(n - removed) : chain[i] \in Nat  BY <1>1, ElementOfSeq
<1>14. SubSeq(chain, 1, n - removed) \in Seq(Nat)  BY <1>1, <1>13, SubSeqProperties
<1>15. SubSeq(chain, 1, n - removed) \o new \in Seq(Nat)  BY <1>12, <1>14, ConcatProperties
<1> QED  BY <1>8, <1>11, <1>15 DEF new

-----------------------------------------------------------------------------
(* The inductive invariant.                                                *)

\* The events of a plan continue the history.
Continues(p) ==
    /\ p \in Seq(Event)
    /\ Len(history) + Len(p) < MaxRevision
    /\ \A i \in 1..Len(p) : p[i].revision = Len(history) + i

\* A journaled batch continues the history and trims the rows of the window.
BatchContinues(o) ==
    /\ Continues(o.puts)
    /\ o.deletes = (Len(history) - Kept(Len(history)) + 1)..(Len(history) + Len(o.puts) - EventCapacity)

\* The rows are the window of the history; the log of a running node is that of
\* the whole history or, while rows are ahead of memory, of a prefix.
LogInv ==
    /\ chain \in Seq(Nat) /\ stage \in {"idle", "mutated", "written"}
    /\ IsHistory(history) /\ Len(history) < MaxRevision
    /\ rows = Stored(history)
    /\ up => log.next - 1 \in 0..Len(history) /\ log.next \in Nat \ {0} /\ log = Shown(history, log.next - 1)
    /\ stage # "idle" => up /\ ~writeErr
    /\ up /\ ~writeErr /\ stage # "written" => log.next = Len(history) + 1
    /\ up /\ ~writeErr /\ stage # "mutated" => journal = {}
    /\ stage = "mutated" => Continues(plan)
    /\ stage = "written" =>
          /\ plan \in Seq(Event) /\ log.next - 1 + Len(plan) = Len(history)
          /\ \A i \in 1..Len(plan) : history[log.next - 1 + i] = plan[i]
    /\ \A o \in journal : BatchContinues(o)

LEMMA LogInitially == Init => LogInv
<1> SUFFICES ASSUME Init PROVE LogInv  OBVIOUS
<1>1. <<>> \in Seq(Event) /\ Len(<<>>) = 0 /\ <<>> \in Seq(Nat)  BY EmptySeq
<1>2. IsHistory(<<>>)  BY <1>1 DEF IsHistory
<1>3. Kept(0) = 0  BY CapacityAssumption DEF Kept
<1>4. Stored(<<>>) = {}  BY <1>1, <1>3 DEF Stored
<1>5. Shown(<<>>, 0) = EmptyLog
  <2>1. SubSeq(<<>>, 1, 0) = <<>>  BY SubSeqEmpty
  <2> QED  BY <1>3, <2>1 DEF Shown, EmptyLog
<1> QED  BY <1>1, <1>2, <1>4, <1>5, RevisionAssumption, SMTT(20) DEF Init, LogInv, EmptyLog

\* Finalize, of a batch that continues the history.
LEMMA FinalizeExtends ==
    ASSUME IsHistory(history), rows = Stored(history), NEW o, BatchContinues(o), Finalize(o)
    PROVE  /\ IsHistory(history') /\ Len(history') < MaxRevision
           /\ rows' = Stored(history')
           /\ history' = history \o o.puts /\ Len(history') = Len(history) + Len(o.puts)
           /\ journal' = {}
<1> DEFINE deletes == o.deletes
           p == o.puts
<1>1. /\ p \in Seq(Event) /\ Len(history) + Len(p) < MaxRevision
      /\ \A i \in 1..Len(p) : p[i].revision = Len(history) + i
      /\ deletes = (Len(history) - Kept(Len(history)) + 1)..(Len(history) + Len(p) - EventCapacity)
  BY DEF BatchContinues, Continues
<1>2. rows' = Written(Stored(history), p, deletes) /\ history' = history \o p /\ journal' = {}
  BY DEF Finalize, Written
<1> HIDE DEF deletes, p
<1>3. /\ IsHistory(history \o p)
      /\ Len(history \o p) = Len(history) + Len(p)
      /\ Written(Stored(history), p, deletes) = Stored(history \o p)
  BY <1>1, StoredExtends, SMTT(20)
<1>4. rows' = Stored(history \o p)  BY <1>2, <1>3
<1>5. rows' = Stored(history')  BY <1>2, <1>4
<1> QED  BY <1>1, <1>2, <1>3, <1>5 DEF p

LEMMA CommandPreserves ==
    ASSUME LogInv, NEW removed \in 0..Len(chain), NEW added \in Nat, NEW others \in Nat,
           Command(removed, added, others)
    PROVE  LogInv'
<1> DEFINE events == CommandEvents(log, removed, added, others)
           p == Numbered(log, events)
           n == Len(history)
<1>1. /\ up /\ ~writeErr /\ stage = "idle" /\ journal = {}
      /\ log.next = n + 1 /\ log.next \in Nat \ {0} /\ n \in Nat
      /\ log = Shown(history, n) /\ IsHistory(history) /\ chain \in Seq(Nat)
  <2>1. up /\ ~writeErr /\ stage = "idle"  BY DEF Command
  <2>2. n \in Nat  BY LenProperties DEF LogInv, IsHistory
  <2>3. log.next = n + 1 /\ journal = {} /\ log = Shown(history, log.next - 1)  BY <2>1 DEF LogInv
  <2>4. log.next - 1 = n  BY <2>2, <2>3
  <2> QED  BY <2>1, <2>2, <2>3, <2>4 DEF LogInv
<1>2. events \in Seq(Event) /\ chain' \in Seq(Nat)
  BY <1>1, CommandEventsTyped, Zenon DEF Command
<1>3. /\ PlanFits(log, events) /\ plan' = p
      /\ \A o \in journal' : o = BatchOf(log, p)
      /\ stage' = "mutated" /\ UNCHANGED <<log, rows, writeErr, up, history>>
  BY DEF Command
<1> HIDE DEF events
<1>4. /\ p \in Seq(Event) /\ Len(p) = Len(events)
      /\ \A i \in 1..Len(events) : p[i].revision = log.next - 1 + i
  BY <1>1, <1>2, NumberedEvents, Zenon
<1> HIDE DEF p
<1>5. Len(events) \in Nat  BY <1>2, LenProperties
<1>6. Continues(p)
  <2>1. n + Len(p) < MaxRevision  BY <1>1, <1>3, <1>4, <1>5, RevisionAssumption DEF PlanFits
  <2>2. ASSUME NEW i \in 1..Len(p) PROVE p[i].revision = n + i
    <3>1. log.next - 1 + i = n + i  BY <1>1, <1>4, <1>5
    <3> QED  BY <1>4, <3>1
  <2> QED  BY <1>4, <2>1, <2>2 DEF Continues
<1>7. BatchContinues(BatchOf(log, p))
  <2>1. n \in 0..Len(history)  BY <1>1
  <2>2. \A i \in 1..Len(p) : p[i].revision = n + i  BY <1>6 DEF Continues
  <2> HIDE DEF n
  <2>3. Outgrown(Shown(history, n), p) = (n - Kept(n) + 1)..(n + Len(p) - EventCapacity)
    BY <1>1, <1>4, <2>1, <2>2, OutgrownRevisions
  <2>4. Outgrown(log, p) = (n - Kept(n) + 1)..(n + Len(p) - EventCapacity)  BY <1>1, <2>3
  <2> QED  BY <1>6, <2>4 DEF BatchContinues, BatchOf, n
<1>8. Continues(plan)' /\ \A o \in journal' : BatchContinues(o)'
  BY <1>3, <1>6, <1>7, Zenon DEF Continues, BatchContinues
<1> QED  BY <1>1, <1>2, <1>3, <1>8, Zenon DEF LogInv

LEMMA WritePreserves ==
    ASSUME LogInv, Write PROVE LogInv'
<1> DEFINE n == Len(history)
<1>1. /\ up /\ ~writeErr /\ stage = "mutated" /\ n \in Nat
      /\ log.next = n + 1 /\ log = Shown(history, n) /\ Continues(plan)
      /\ IsHistory(history) /\ rows = Stored(history)
  <2>1. stage = "mutated"  BY DEF Write
  <2>2. up /\ ~writeErr /\ log.next = n + 1 /\ log = Shown(history, log.next - 1)  BY <2>1 DEF LogInv
  <2>3. n \in Nat  BY LenProperties DEF LogInv, IsHistory
  <2>4. log.next - 1 = n  BY <2>2, <2>3
  <2> QED  BY <2>1, <2>2, <2>3, <2>4 DEF LogInv
<1>2. plan \in Seq(Event) /\ \A i \in 1..Len(plan) : plan[i].revision = n + i  BY <1>1 DEF Continues
<1>3. Len(plan) \in Nat /\ history \in Seq(Event)  BY <1>1, <1>2, LenProperties DEF IsHistory
<1>4. BatchContinues(BatchOf(log, plan))
  <2>1. n \in 0..Len(history)  BY <1>1
  <2> HIDE DEF n
  <2>2. Outgrown(Shown(history, n), plan) = (n - Kept(n) + 1)..(n + Len(plan) - EventCapacity)
    BY <1>1, <1>2, <2>1, OutgrownRevisions
  <2>3. Outgrown(log, plan) = (n - Kept(n) + 1)..(n + Len(plan) - EventCapacity)  BY <1>1, <2>2
  <2> QED  BY <1>1, <2>3 DEF BatchContinues, BatchOf, n
<1>5. BatchOf(log, plan).puts = plan  BY DEF BatchOf
<1>6. /\ IsHistory(history') /\ Len(history') < MaxRevision
      /\ rows' = Stored(history')
      /\ history' = history \o plan /\ Len(history') = n + Len(plan)
      /\ journal' = {}
  BY <1>1, <1>4, <1>5, FinalizeExtends, SMTT(20) DEF Write
<1>7. stage' = "written" /\ UNCHANGED <<chain, log, plan, writeErr, up>>  BY DEF Write
<1>8. Shown(history', n) = log
  BY <1>1, <1>2, <1>3, <1>6, ShownOfPrefix
<1>9. log'.next - 1 = n /\ n \in 0..Len(history')  BY <1>1, <1>3, <1>6, <1>7
<1>10. ASSUME NEW i \in 1..Len(plan) PROVE history'[n + i] = plan[i]
  <2>1. n + i \in 1..(n + Len(plan)) /\ ~(n + i <= n) /\ (n + i) - n = i  BY <1>1, <1>3
  <2> QED  BY <1>2, <1>3, <1>6, <2>1, ConcatProperties
<1> HIDE DEF n
<1>11. /\ log'.next - 1 \in 0..Len(history') /\ log'.next \in Nat \ {0}
       /\ log' = Shown(history', log'.next - 1)
       /\ log'.next - 1 + Len(plan') = Len(history')
       /\ \A i \in 1..Len(plan') : history'[log'.next - 1 + i] = plan'[i]
  <2>1. log'.next - 1 \in 0..Len(history') /\ log'.next \in Nat \ {0} /\ log'.next - 1 + Len(plan') = Len(history')
    BY <1>1, <1>3, <1>6, <1>7, <1>9
  <2>2. log' = Shown(history', log'.next - 1)  BY <1>7, <1>8, <1>9
  <2>3. ASSUME NEW i \in 1..Len(plan') PROVE history'[log'.next - 1 + i] = plan'[i]
    <3>1. i \in 1..Len(plan) /\ log'.next - 1 + i = n + i  BY <1>7, <1>9, SMTT(20)
    <3> QED  BY <1>7, <1>10, <3>1
  <2> QED  BY <2>1, <2>2, <2>3
<1> QED  BY <1>1, <1>2, <1>6, <1>7, <1>11, Zenon DEF LogInv

LEMMA ApplyPreserves ==
    ASSUME LogInv, Apply PROVE LogInv'
<1> DEFINE m == log.next - 1
<1>1. /\ stage = "written" /\ up /\ ~writeErr /\ journal = {}
      /\ m \in 0..Len(history) /\ log = Shown(history, m)
      /\ plan \in Seq(Event) /\ m + Len(plan) = Len(history)
      /\ \A i \in 1..Len(plan) : history[m + i] = plan[i]
      /\ IsHistory(history)
  BY Zenon DEF Apply, LogInv
<1>2. Len(history) \in Nat /\ history \in Seq(Event)  BY <1>1, LenProperties, SMTT(20) DEF IsHistory
<1> HIDE DEF m
<1>3. Extended(Shown(history, m), plan) = Shown(history, m + Len(plan))
  <2>1. m + Len(plan) <= Len(history)  BY <1>1, <1>2
  <2> QED  BY <1>1, <1>2, <2>1, ShownExtends
<1>4. log' = Shown(history, Len(history))  BY <1>1, <1>3 DEF Apply
<1>5. log'.next = Len(history) + 1  BY <1>4 DEF Shown
<1>6. log'.next - 1 = Len(history)  BY <1>2, <1>5
<1>7. stage' = "idle" /\ UNCHANGED <<chain, rows, journal, writeErr, up, history>>  BY SMTT(20) DEF Apply
<1> QED  BY <1>1, <1>2, <1>4, <1>5, <1>6, <1>7, SMTT(20) DEF LogInv

LEMMA RecoverPreserves ==
    ASSUME LogInv, Recover PROVE LogInv'
<1>1. PICK o \in journal : Finalize(o)  BY DEF Recover
<1>2. ~up /\ stage = "idle" /\ BatchContinues(o) /\ IsHistory(history) /\ rows = Stored(history)
  BY DEF LogInv, Recover
<1>3. /\ IsHistory(history') /\ Len(history') < MaxRevision
      /\ rows' = Stored(history') /\ journal' = {}
  BY <1>1, <1>2, FinalizeExtends, SMTT(20)
<1> QED  BY <1>2, <1>3 DEF LogInv, Recover

LEMMA RestartPreserves ==
    ASSUME LogInv, Restart PROVE LogInv'
<1>1. ~up /\ stage = "idle" /\ journal = {} /\ IsHistory(history) /\ rows = Stored(history)
  BY Zenon DEF LogInv, Restart
<1>2. Len(history) \in Nat  BY <1>1, LenProperties DEF IsHistory
<1>3. log' = Shown(history, Len(history))  BY <1>1, LoadShown DEF Restart
<1>4. log'.next = Len(history) + 1  BY <1>3 DEF Shown
<1>5. log'.next - 1 = Len(history)  BY <1>2, <1>4
<1> QED  BY <1>1, <1>2, <1>3, <1>4, <1>5, SMTT(20) DEF LogInv, Restart

LEMMA LogPreserved ==
    ASSUME LogInv, [Next]_logVars PROVE LogInv'
<1>1. CASE Commands
  <2>1. Len(chain) \in Nat  BY LenProperties DEF LogInv
  <2>2. 0 \in 0..Len(chain)  BY <2>1
  <2>3. CASE \E others \in 0..1 : Command(0, 1, others)  BY <2>2, <2>3, CommandPreserves
  <2>4. CASE \E removed \in 0..Len(chain), added \in 0..MaxAdded :
                removed + added > 0 /\ Command(removed, added, 1)
    BY <2>4, AddedAssumption, CommandPreserves
  <2>5. CASE \E others \in 0..MaxAdded : Command(0, 0, others)
    BY <2>2, <2>5, AddedAssumption, CommandPreserves, SMTT(20)
  <2> QED  BY <1>1, <2>3, <2>4, <2>5, SMTT(20) DEF Commands
<1>2. CASE Fail
  BY <1>2, SMTT(20) DEF Fail, LogInv, BatchContinues, Continues
<1>3. CASE Crash
  BY <1>3, SMTT(20) DEF Crash, LogInv, BatchContinues, Continues
<1>4. CASE UNCHANGED logVars
  BY <1>4, SMTT(20) DEF logVars, LogInv, BatchContinues, Continues
<1> QED
  BY <1>1, <1>2, <1>3, <1>4, WritePreserves, ApplyPreserves, RecoverPreserves, RestartPreserves, SMTT(20) DEF Next

LEMMA LogImplied == LogInv => LogIsTail
<1> SUFFICES ASSUME LogInv, up PROVE LogIsTail  BY SMTT(20) DEF LogIsTail
<1> DEFINE m == log.next - 1
           n == Len(history)
<1>1. /\ m \in 0..n /\ log.next \in Nat \ {0} /\ log = Shown(history, m) /\ IsHistory(history)
      /\ n < MaxRevision /\ rows = Stored(history)
  BY DEF LogInv
<1>2. n \in Nat /\ history \in Seq(Event) /\ m \in Nat
  <2>1. n \in Nat /\ history \in Seq(Event)  BY <1>1, LenProperties DEF IsHistory
  <2> QED  BY <1>1, <2>1
<1>3. Kept(m) \in 0..m /\ Kept(m) <= EventCapacity  BY <1>2, KeptBounds, SMTT(20)
<1>4. Len(log.events) = Kept(m) /\ \A i \in 1..Kept(m) : log.events[i] = history[m - Kept(m) + i]
  <2> HIDE DEF m, n
  <2>1. m \in 0..Len(history)  BY <1>1 DEF n
  <2>2. /\ Len(Shown(history, m).events) = Kept(m)
        /\ \A i \in 1..Kept(m) : Shown(history, m).events[i] = history[m - Kept(m) + i]
    BY <1>2, <2>1, ShownEvents
  <2> QED  BY <1>1, <2>2
<1>5. ASSUME NEW i \in 1..Len(log.events)
      PROVE  /\ log.events[i].revision = log.next - Len(log.events) + i - 1
             /\ log.events[i] = history[log.events[i].revision]
  <2>1. m - Kept(m) + i \in 1..n /\ m - Kept(m) + i = log.next - Len(log.events) + i - 1
    BY <1>1, <1>2, <1>3, <1>4, SMTT(20)
  <2>2. log.events[i] = history[m - Kept(m) + i]  BY <1>4
  <2> QED  BY <1>1, <2>1, <2>2 DEF IsHistory
<1>6. log.next <= n + 1 /\ log.next <= MaxRevision  BY <1>1, <1>2, RevisionAssumption
<1>7. ASSUME NEW e \in rows PROVE e.revision \in 1..n /\ e = history[e.revision]
  <2>1. Kept(n) \in 0..n  BY <1>2, KeptBounds
  <2>2. PICK r \in (n - Kept(n) + 1)..n : e = history[r]  BY <1>1 DEF Stored
  <2>3. r \in 1..n  BY <1>2, <2>1
  <2> QED  BY <1>1, <2>2, <2>3 DEF IsHistory
<1>8. ASSUME stage = "idle", ~writeErr PROVE LoadLog(rows) = log
  <2>1. m = n  BY <1>2, <1>8 DEF LogInv
  <2> QED  BY <1>1, <2>1, LoadShown
<1> QED  BY <1>3, <1>4, <1>5, <1>6, <1>7, <1>8, SMTT(20) DEF LogIsTail

\* The events that readers see are the newest of all that were ever committed,
\* each under its own revision, and a restart loads the same ones, for any
\* capacity and through any failures, crashes and recoveries.
THEOREM LogCorrect == Spec => []LogIsTail
<1>1. Spec => []LogInv  BY LogInitially, LogPreserved, PTL DEF Spec
<1> QED  BY <1>1, LogImplied, PTL

\* The same under a client of the event stream, whose steps leave the log alone
\* or are steps of it.
THEOREM StreamLogCorrect == StreamSpec => []LogIsTail
<1>1. StreamInit => LogInv  BY LogInitially DEF StreamInit
<1>2. [StreamNext]_vars => [Next]_logVars
  BY DEF StreamNext, vars, LogStep, StreamCrash, Drop, Join, Rejoin, Read, WriteMessage, Wake, Receive, Next
<1>3. StreamSpec => []LogInv  BY <1>1, <1>2, LogPreserved, PTL DEF StreamSpec
<1> QED  BY <1>3, LogImplied, PTL

=============================================================================
