-------------------------- MODULE ProvenanceProofs --------------------------
(***************************************************************************)
(* What the operations of the deferral store keep: the type of the store,  *)
(* its bound, and the entries of the other messages.                       *)
(***************************************************************************)
EXTENDS Provenance, SequenceTheorems, TLAPS

\* Some entry of the store keeps this payload status for m.
Says(store, m, status) == \E i \in DOMAIN store : store[i].msg = m /\ store[i].status = status

\* CHOOSE in Place picks the position of an entry of m whenever there is one.
LEMMA PlaceIsPosition ==
  ASSUME NEW M, NEW S, NEW store \in Seq(DeferralEntries(M, S)), NEW m,
         IsDeferred(store, m)
  PROVE  /\ Place(store, m) \in 1 .. Len(store)
         /\ store[Place(store, m)].msg = m
         /\ store[Place(store, m)] \in DeferralEntries(M, S)
<1>1. PICK i \in DOMAIN store : store[i].msg = m
  BY DEF IsDeferred
<1>2. Place(store, m) \in DOMAIN store /\ store[Place(store, m)].msg = m
  BY <1>1 DEF Place
<1>3. DOMAIN store = 1 .. Len(store)
  BY LenProperties
<1> QED
  BY <1>2, <1>3, ElementOfSeq

\* ProvenanceDeferralStore.defer before its cap: the entry of m is there, every
\* other message keeps its entry, only a new message makes the store longer, and
\* nothing is said that was not said before, or just now.
LEMMA RecordedKeeps ==
  ASSUME NEW M, NEW S, NEW store \in Seq(DeferralEntries(M, S)),
         NEW m \in M, NEW origin \in Origins, NEW status \in S
  PROVE  /\ Recorded(store, m, origin, status) \in Seq(DeferralEntries(M, S))
         /\ Len(Recorded(store, m, origin, status)) =
              IF IsDeferred(store, m) THEN Len(store) ELSE Len(store) + 1
         /\ IsDeferred(Recorded(store, m, origin, status), m)
         /\ \A x : IsDeferred(store, x) => IsDeferred(Recorded(store, m, origin, status), x)
         /\ \A x, s : Says(Recorded(store, m, origin, status), x, s)
                        => Says(store, x, s) \/ (x = m /\ s = status)
<1> DEFINE entry(n) == [msg |-> m, attempts |-> n, origin |-> origin, status |-> status]
           E        == DeferralEntries(M, S)
           new      == Recorded(store, m, origin, status)
<1>0. /\ Len(store) \in Nat /\ DOMAIN store = 1 .. Len(store)
      /\ ProvenanceMaxAttempts \in Nat \ {0}
      /\ store \in Seq(E)
  BY LenProperties, ProvenanceAssumption
<1>1. CASE IsDeferred(store, m)
  <2> DEFINE i == Place(store, m)
             k == store[i].attempts
             e == entry(IF k < ProvenanceMaxAttempts THEN k + 1 ELSE k)
  <2>1. i \in 1 .. Len(store) /\ store[i].msg = m /\ store[i] \in E
    BY <1>1, PlaceIsPosition
  <2>2. k \in 1 .. ProvenanceMaxAttempts
    BY <2>1 DEF DeferralEntries
  <2>3. e \in E
    BY <2>2, <1>0 DEF DeferralEntries
  <2>4. new = [store EXCEPT ![i] = e]
    BY <1>1 DEF Recorded
  <2>5. /\ new \in Seq(E)
        /\ Len(new) = Len(store)
        /\ \A j \in 1 .. Len(store) : new[j] = IF j = i THEN e ELSE store[j]
    <3> HIDE DEF e, i, E, new
    <3> QED
      BY <1>0, <2>1, <2>3, <2>4, ExceptSeq
  <2>6. DOMAIN new = 1 .. Len(store)
    BY <2>5, LenProperties
  <2>7. \A j \in 1 .. Len(store) : new[j].msg = store[j].msg
    BY <2>1, <2>5
  <2>a. e.msg = m /\ e.status = status
    OBVIOUS
  <2> HIDE DEF new, E, e
  <2>b. \A x, s : Says(new, x, s) => Says(store, x, s) \/ (x = m /\ s = status)
    BY <2>5, <2>6, <2>a, <1>0 DEF Says
  <2>8. \A x : IsDeferred(store, x) => IsDeferred(new, x)
    BY <2>6, <2>7, <1>0 DEF IsDeferred
  <2>9. IsDeferred(new, m)
    BY <1>1, <2>8
  <2> QED
    BY <1>1, <2>5, <2>8, <2>9, <2>b DEF new, E
<1>2. CASE ~IsDeferred(store, m)
  <2>1. entry(1) \in E
    BY <1>0 DEF DeferralEntries
  <2>2. new = Append(store, entry(1))
    BY <1>2 DEF Recorded
  <2>3. /\ new \in Seq(E)
        /\ Len(new) = Len(store) + 1
        /\ \A j \in 1 .. Len(store) : new[j] = store[j]
        /\ new[Len(store) + 1] = entry(1)
    <3> HIDE DEF entry, E, new
    <3> QED
      BY <1>0, <2>1, <2>2, AppendProperties
  <2>4. DOMAIN new = 1 .. Len(store) + 1
    BY <2>3, LenProperties
  <2>5. new[Len(store) + 1].msg = m
    BY <2>3
  <2>a. entry(1).msg = m /\ entry(1).status = status
    OBVIOUS
  <2> HIDE DEF new, entry
  <2>b. \A x, s : Says(new, x, s) => Says(store, x, s) \/ (x = m /\ s = status)
    BY <2>3, <2>4, <2>a, <1>0 DEF Says
  <2>6. \A x : IsDeferred(store, x) => IsDeferred(new, x)
    BY <2>3, <2>4, <1>0 DEF IsDeferred
  <2>7. IsDeferred(new, m)
    BY <2>4, <2>5, <1>0 DEF IsDeferred
  <2> QED
    BY <1>2, <2>3, <2>6, <2>7, <2>b DEF new
<1> QED
  BY <1>1, <1>2

\* defer() with its cap keeps the type and the bound of the store.
LEMMA DeferKeepsStore ==
  ASSUME NEW M, NEW S, NEW store \in Seq(DeferralEntries(M, S)),
         NEW m \in M, NEW origin \in Origins, NEW status \in S,
         Len(store) <= DeferralMaxEntries
  PROVE  /\ Defer(store, m, origin, status) \in Seq(DeferralEntries(M, S))
         /\ Len(Defer(store, m, origin, status)) <= DeferralMaxEntries
         /\ Dropped(store, m, origin, status) \subseteq M
<1> DEFINE new == Recorded(store, m, origin, status)
           E   == DeferralEntries(M, S)
<1>1. /\ new \in Seq(E) /\ Len(new) \in Nat /\ Len(store) \in Nat
      /\ Len(new) <= Len(store) + 1
      /\ DeferralMaxEntries \in Nat \ {0}
  <2>1. new \in Seq(E) /\ Len(new) = IF IsDeferred(store, m) THEN Len(store) ELSE Len(store) + 1
    BY RecordedKeeps
  <2> HIDE DEF new, E
  <2> QED
    BY <2>1, LenProperties, ProvenanceAssumption DEF E
<1> HIDE DEF new
<1>2. CASE Len(new) > DeferralMaxEntries
  <2>1. new # <<>>
    BY <1>1, <1>2, EmptySeq
  <2>2. Head(new) \in E /\ Tail(new) \in Seq(E) /\ Len(Tail(new)) = Len(new) - 1
    <3> HIDE DEF E
    <3> QED
      BY <1>1, <2>1, HeadTailProperties
  <2>3. Head(new).msg \in M
    BY <2>2 DEF DeferralEntries
  <2> QED
    BY <1>1, <1>2, <2>2, <2>3 DEF Defer, Dropped, new
<1>3. CASE ~(Len(new) > DeferralMaxEntries)
  BY <1>1, <1>3 DEF Defer, Dropped, new
<1> QED
  BY <1>2, <1>3

\* A message deferred again pushes no other message out.
LEMMA DeferAgainKeepsOthers ==
  ASSUME NEW M, NEW S, NEW store \in Seq(DeferralEntries(M, S)),
         NEW m \in M, NEW origin \in Origins, NEW status \in S,
         Len(store) <= DeferralMaxEntries, IsDeferred(store, m)
  PROVE  \A x : IsDeferred(store, x) => IsDeferred(Defer(store, m, origin, status), x)
<1> DEFINE new == Recorded(store, m, origin, status)
<1>1. /\ Len(new) = Len(store)
      /\ \A x : IsDeferred(store, x) => IsDeferred(new, x)
  BY RecordedKeeps
<1>2. Len(store) \in Nat /\ DeferralMaxEntries \in Nat
  BY LenProperties, ProvenanceAssumption
<1> HIDE DEF new
<1>3. Defer(store, m, origin, status) = new
  BY <1>1, <1>2 DEF Defer, new
<1> QED
  BY <1>1, <1>3

\* defer() loses no entry without telling: what was in the store, and the message
\* itself, is in the store afterwards or among the dropped.
LEMMA DeferKeepsOrDrops ==
  ASSUME NEW M, NEW S, NEW store \in Seq(DeferralEntries(M, S)),
         NEW m \in M, NEW origin \in Origins, NEW status \in S, NEW x,
         IsDeferred(store, x) \/ x = m
  PROVE  \/ IsDeferred(Defer(store, m, origin, status), x)
         \/ x \in Dropped(store, m, origin, status)
<1> DEFINE new == Recorded(store, m, origin, status)
           E   == DeferralEntries(M, S)
<1>1. new \in Seq(E) /\ IsDeferred(new, x)
  BY RecordedKeeps
<1> HIDE DEF new, E
<1>2. Len(new) \in Nat /\ DOMAIN new = 1 .. Len(new)
  BY <1>1, LenProperties
<1>3. PICK j \in 1 .. Len(new) : new[j].msg = x
  BY <1>1, <1>2 DEF IsDeferred
<1>4. CASE Len(new) > DeferralMaxEntries
  <2>1. Head(new) = new[1]
    BY <1>1, <1>2, <1>3
  <2>2. /\ Tail(new) \in Seq(E) /\ Len(Tail(new)) = Len(new) - 1
        /\ \A i \in 1 .. Len(Tail(new)) : Tail(new)[i] = new[i + 1]
    BY <1>1, <1>2, <1>3, EmptySeq, HeadTailProperties
  <2>3. DOMAIN Tail(new) = 1 .. Len(new) - 1
    BY <2>2, LenProperties
  <2>4. CASE j = 1
    BY <1>3, <1>4, <2>1, <2>4 DEF Dropped, new
  <2>5. CASE j # 1
    <3>1. j - 1 \in 1 .. Len(new) - 1 /\ (j - 1) + 1 = j
      BY <1>2, <1>3, <2>5
    <3>2. Tail(new)[j - 1].msg = x
      BY <1>3, <2>2, <3>1
    <3>3. IsDeferred(Tail(new), x)
      BY <2>3, <3>1, <3>2 DEF IsDeferred
    <3> QED
      BY <1>4, <3>3 DEF Defer, new
  <2> QED
    BY <2>4, <2>5
<1>5. CASE ~(Len(new) > DeferralMaxEntries)
  BY <1>1, <1>5 DEF Defer, new
<1> QED
  BY <1>4, <1>5

\* What the store says after defer() it said before, or was just told.
LEMMA DeferAddsOnly ==
  ASSUME NEW M, NEW S, NEW store \in Seq(DeferralEntries(M, S)),
         NEW m \in M, NEW origin \in Origins, NEW status \in S, NEW x, NEW s,
         Says(Defer(store, m, origin, status), x, s)
  PROVE  Says(store, x, s) \/ (x = m /\ s = status)
<1> DEFINE new == Recorded(store, m, origin, status)
           E   == DeferralEntries(M, S)
<1>1. /\ new \in Seq(E)
      /\ Says(new, x, s) => Says(store, x, s) \/ (x = m /\ s = status)
  BY RecordedKeeps
<1> HIDE DEF new, E
<1>2. Len(new) \in Nat /\ DOMAIN new = 1 .. Len(new)
  BY <1>1, LenProperties
<1>3. CASE Len(new) > DeferralMaxEntries
  <2>1. /\ Tail(new) \in Seq(E) /\ Len(Tail(new)) = Len(new) - 1
        /\ \A i \in 1 .. Len(Tail(new)) : Tail(new)[i] = new[i + 1]
    BY <1>1, <1>2, <1>3, EmptySeq, HeadTailProperties, ProvenanceAssumption
  <2>2. DOMAIN Tail(new) = 1 .. Len(new) - 1
    BY <2>1, LenProperties
  <2>3. Says(Tail(new), x, s)
    BY <1>3 DEF Defer, new
  <2>4. PICK i \in 1 .. Len(new) - 1 : Tail(new)[i].msg = x /\ Tail(new)[i].status = s
    BY <2>2, <2>3 DEF Says
  <2>5. i + 1 \in 1 .. Len(new) /\ Tail(new)[i] = new[i + 1]
    BY <1>2, <2>1, <2>4
  <2>6. Says(new, x, s)
    BY <1>2, <2>4, <2>5 DEF Says
  <2> QED
    BY <1>1, <2>6
<1>4. CASE ~(Len(new) > DeferralMaxEntries)
  BY <1>1, <1>4 DEF Defer, new
<1> QED
  BY <1>3, <1>4

\* resolve() removes one entry of m and no other, and adds none.
LEMMA ResolveKeepsStore ==
  ASSUME NEW M, NEW S, NEW store \in Seq(DeferralEntries(M, S)), NEW m
  PROVE  /\ Resolve(store, m) \in Seq(DeferralEntries(M, S))
         /\ Len(Resolve(store, m)) <= Len(store)
         /\ \A x : x # m /\ IsDeferred(store, x) => IsDeferred(Resolve(store, m), x)
         /\ \A x, s : Says(Resolve(store, m), x, s) => Says(store, x, s)
<1> DEFINE E == DeferralEntries(M, S)
<1>0. Len(store) \in Nat /\ DOMAIN store = 1 .. Len(store)
  BY LenProperties
<1>1. CASE ~IsDeferred(store, m)
  BY <1>0, <1>1 DEF Resolve
<1>2. CASE IsDeferred(store, m)
  <2> DEFINE i == Place(store, m)
             n == Len(store)
             a == SubSeq(store, 1, i - 1)
             b == SubSeq(store, i + 1, n)
             r == Resolve(store, m)
  <2>1. i \in 1 .. n /\ store[i].msg = m
    BY <1>2, PlaceIsPosition
  <2>2. \A j \in 1 .. n : store[j] \in E
    BY ElementOfSeq
  <2>3. r = a \o b
    BY <1>2 DEF Resolve
  <2> HIDE DEF i, r, E
  <2>4. /\ a \in Seq(E) /\ Len(a) = i - 1
        /\ \A j \in 1 .. i - 1 : a[j] = store[j]
    <3>1. \A j \in 1 .. i - 1 : store[j] \in E
      BY <2>1, <2>2, <1>0
    <3>2. 1 \in Int /\ i - 1 \in Int /\ i \in Nat
      BY <2>1, <1>0
    <3>3. /\ SubSeq(store, 1, i - 1) \in Seq(E)
          /\ Len(SubSeq(store, 1, i - 1)) = IF 1 <= i - 1 THEN (i - 1) - 1 + 1 ELSE 0
          /\ \A j \in 1 .. (i - 1) - 1 + 1 : SubSeq(store, 1, i - 1)[j] = store[1 + j - 1]
      BY <3>1, <3>2, SubSeqProperties
    <3> QED
      BY <3>2, <3>3, <2>1, <1>0
  <2>5. /\ b \in Seq(E) /\ Len(b) = n - i
        /\ \A j \in 1 .. n - i : b[j] = store[i + j]
    <3>1. \A j \in i + 1 .. n : store[j] \in E
      BY <2>1, <2>2, <1>0
    <3>2. i + 1 \in Int /\ n \in Int /\ i \in Nat
      BY <2>1, <1>0
    <3>3. /\ SubSeq(store, i + 1, n) \in Seq(E)
          /\ Len(SubSeq(store, i + 1, n)) = IF i + 1 <= n THEN n - (i + 1) + 1 ELSE 0
          /\ \A j \in 1 .. n - (i + 1) + 1 :
               SubSeq(store, i + 1, n)[j] = store[(i + 1) + j - 1]
      BY <3>1, <3>2, SubSeqProperties
    <3> QED
      BY <3>2, <3>3, <2>1, <1>0
  <2> HIDE DEF a, b
  <2>6. /\ r \in Seq(E)
        /\ Len(r) = n - 1
        /\ \A j \in 1 .. n - 1 : r[j] = IF j <= i - 1 THEN a[j] ELSE b[j - (i - 1)]
    <3>1. /\ a \o b \in Seq(E)
          /\ Len(a \o b) = Len(a) + Len(b)
          /\ \A j \in 1 .. Len(a) + Len(b) :
               (a \o b)[j] = IF j <= Len(a) THEN a[j] ELSE b[j - Len(a)]
      BY <2>4, <2>5, ConcatProperties
    <3>2. Len(a) = i - 1 /\ Len(a) + Len(b) = n - 1
      BY <2>1, <2>4, <2>5, <1>0
    <3>3. /\ a \o b \in Seq(E)
          /\ Len(a \o b) = n - 1
          /\ \A j \in 1 .. n - 1 :
               (a \o b)[j] = IF j <= i - 1 THEN a[j] ELSE b[j - (i - 1)]
      BY <3>1, <3>2
    <3> QED
      BY <3>3, <2>3
  <2>7. DOMAIN r = 1 .. n - 1
    BY <2>6, LenProperties
  <2>8. ASSUME NEW x, x # m, IsDeferred(store, x)
        PROVE  IsDeferred(r, x)
    <3>1. PICK j \in 1 .. n : store[j].msg = x
      BY <2>8, <1>0 DEF IsDeferred
    <3>2. j # i
      BY <3>1, <2>1, <2>8
    <3>3. CASE j < i
      <4>1. j \in 1 .. n - 1 /\ j \in 1 .. i - 1
        BY <3>3, <2>1, <1>0
      <4>2. r[j] = store[j]
        BY <4>1, <2>4, <2>6
      <4> QED
        BY <4>1, <4>2, <3>1, <2>7 DEF IsDeferred
    <3>4. CASE j > i
      <4>1. /\ j - 1 \in 1 .. n - 1 /\ ~(j - 1 <= i - 1)
            /\ j - i \in 1 .. n - i /\ (j - 1) - (i - 1) = j - i /\ i + (j - i) = j
        BY <3>4, <2>1, <1>0
      <4>2. r[j - 1] = store[j]
        BY <4>1, <2>5, <2>6
      <4> QED
        BY <4>1, <4>2, <3>1, <2>7 DEF IsDeferred
    <3> QED
      BY <3>2, <3>3, <3>4, <2>1, <1>0
  <2>9. Len(r) <= Len(store)
    BY <2>6, <1>0
  <2>10. \A x : x # m /\ IsDeferred(store, x) => IsDeferred(r, x)
    BY <2>8
  <2>11. ASSUME NEW x, NEW s, Says(r, x, s)
         PROVE  Says(store, x, s)
    <3>1. PICK j \in 1 .. n - 1 : r[j].msg = x /\ r[j].status = s
      BY <2>7, <2>11 DEF Says
    <3>2. CASE j <= i - 1
      <4>1. j \in 1 .. i - 1 /\ j \in 1 .. n
        BY <3>1, <3>2, <2>1, <1>0
      <4>2. r[j] = store[j]
        BY <3>1, <3>2, <4>1, <2>4, <2>6
      <4> QED
        BY <4>1, <4>2, <3>1, <1>0 DEF Says
    <3>3. CASE ~(j <= i - 1)
      <4>1. /\ j - (i - 1) \in 1 .. n - i /\ i + (j - (i - 1)) = j + 1
            /\ j + 1 \in 1 .. n
        BY <3>1, <3>3, <2>1, <1>0
      <4>2. r[j] = store[j + 1]
        BY <3>1, <3>3, <4>1, <2>5, <2>6
      <4> QED
        BY <4>1, <4>2, <3>1, <1>0 DEF Says
    <3> QED
      BY <3>2, <3>3
  <2>12. \A x, s : Says(r, x, s) => Says(store, x, s)
    BY <2>11
  <2> QED
    BY <2>6, <2>9, <2>10, <2>12 DEF r, E
<1> QED
  BY <1>1, <1>2

\* due() lists messages of the store.
LEMMA DueIsDeferred ==
  ASSUME NEW M, NEW S, NEW store \in Seq(DeferralEntries(M, S))
  PROVE  Due(store) \subseteq M /\ \A m \in Due(store) : IsDeferred(store, m)
<1>1. \A i \in DOMAIN store : store[i] \in DeferralEntries(M, S)
  BY LenProperties, ElementOfSeq
<1> QED
  BY <1>1 DEF Due, IsDeferred, DeferralEntries
=============================================================================
