----------------------------- MODULE Provenance -----------------------------
(***************************************************************************)
(* Provenance.py: the classification of a message whose effect identity is *)
(* not in the ledger yet, and the durable parking lot for the messages     *)
(* that cannot be classified.  Operators only; the state is in the modules *)
(* that use them.                                                          *)
(***************************************************************************)
EXTENDS Naturals, Sequences

CONSTANTS ProvenanceMaxAttempts,   \* max_attempts of the deferral store
          DeferralMaxEntries       \* max_entries of the deferral store

ASSUME ProvenanceAssumption == /\ ProvenanceMaxAttempts \in Nat \ {0}
                               /\ DeferralMaxEntries \in Nat \ {0}

(***************************************************************************)
(* Classification.                                                         *)
(***************************************************************************)
FirstEffect   == "FIRST_BUSINESS_EFFECT"
Reprojection  == "REPROJECTION_OF_PREEXISTING_OBJECT"
Indeterminate == "INDETERMINATE"

\* What the payload says of the business origin: a usable created_at or cursor,
\* none at all, or one that does not parse.
Origins == {"given", "missing", "malformed"}

\* The classifications a call may return.  known: a floor covers the account.
\* preexisting: the origin of the object lies before that floor.  A missing
\* origin is looked up in Core, and that read may fail or find nothing.
Classifications(known, preexisting, origin) ==
  LET truth == IF preexisting THEN Reprojection ELSE FirstEffect
  IN CASE ~known \/ origin = "malformed" -> {Indeterminate}
       [] known /\ origin = "given"      -> {truth}
       [] known /\ origin = "missing"    -> {truth, Indeterminate}

(***************************************************************************)
(* The deferral store: a sequence of entries, the one deferred first at    *)
(* the head.  An entry keeps its place when it is deferred again.  due()   *)
(* only compares attempts with max_attempts, so a count past that value is *)
(* kept at it.                                                             *)
(***************************************************************************)
DeferralEntries(M, S) == [msg : M, attempts : 1 .. ProvenanceMaxAttempts,
                          origin : Origins, status : S]

IsDeferred(store, m) == \E i \in DOMAIN store : store[i].msg = m

Place(store, m) == CHOOSE i \in DOMAIN store : store[i].msg = m

\* Fault: the first deferral is counted from zero.
RecordedFromZero(store, m, origin, status) ==
  LET entry(n) == [msg |-> m, attempts |-> n, origin |-> origin, status |-> status]
      i        == Place(store, m)
  IN IF IsDeferred(store, m)
       THEN [store EXCEPT ![i] = entry(store[i].attempts + 1)]
       ELSE Append(store, entry(0))

Recorded(store, m, origin, status) ==
  LET entry(n) == [msg |-> m, attempts |-> n, origin |-> origin, status |-> status]
      i        == Place(store, m)
      n        == store[i].attempts
  IN IF IsDeferred(store, m)
       THEN [store EXCEPT ![i] = entry(IF n < ProvenanceMaxAttempts THEN n + 1 ELSE n)]
       ELSE Append(store, entry(1))

\* At capacity the entry deferred first is dropped.
Defer(store, m, origin, status) ==
  LET recorded == Recorded(store, m, origin, status)
  IN IF Len(recorded) > DeferralMaxEntries THEN Tail(recorded) ELSE recorded

Dropped(store, m, origin, status) ==
  LET recorded == Recorded(store, m, origin, status)
  IN IF Len(recorded) > DeferralMaxEntries THEN {Head(recorded).msg} ELSE {}

Due(store) == {store[i].msg : i \in {j \in DOMAIN store :
                                       store[j].attempts < ProvenanceMaxAttempts}}

Resolve(store, m) ==
  IF IsDeferred(store, m)
    THEN LET i == Place(store, m)
         IN SubSeq(store, 1, i - 1) \o SubSeq(store, i + 1, Len(store))
    ELSE store
=============================================================================
