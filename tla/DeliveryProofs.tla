--------------------------- MODULE DeliveryProofs ---------------------------
(***************************************************************************)
(* Theorems about Delivery, for every value of its constants: type         *)
(* correctness, and at-most-once delivery.                                 *)
(***************************************************************************)
EXTENDS Delivery, ProvenanceProofs

(***************************************************************************)
(* The transactions of the ledger.                                         *)
(***************************************************************************)

\* Every transaction of EffectLedger.py leaves a table of well-formed rows.
LEMMA LedgerTypes ==
  ASSUME NEW L \in Ledgers, NEW e \in Messages
  PROVE  /\ L[e] \in Rows
         /\ NextAttempt(L[e]) \in 0 .. MediaMaxAttempts
         /\ \A n \in 0 .. MediaMaxAttempts, h \in BOOLEAN :
              MarkMediaPending(L, e, n, h) \in Ledgers /\ MarkMediaParked(L, e, n, h) \in Ledgers
         /\ MarkMediaFailed(L, e) \in Ledgers
         /\ Reserve(L, e) \in Ledgers
         /\ MarkDelivered(L, e) \in Ledgers
         /\ MarkUncertain(L, e) \in Ledgers
<1>1. L[e] \in Rows
  BY DEF Ledgers
<1>2. NextAttempt(L[e]) \in 0 .. MediaMaxAttempts
  BY <1>1, EffectLedgerAssumption DEF Rows, NextAttempt
<1>3. \A n \in 0 .. MediaMaxAttempts, h \in BOOLEAN :
        MarkMediaPending(L, e, n, h) \in Ledgers /\ MarkMediaParked(L, e, n, h) \in Ledgers
  BY DEF Ledgers, Rows, Statuses, MarkMediaPending, MarkMediaParked
<1>4. MarkMediaFailed(L, e) \in Ledgers
  BY <1>1 DEF Ledgers, Rows, Statuses, MarkMediaFailed
<1>5. Reserve(L, e) \in Ledgers
  BY <1>1 DEF Ledgers, Rows, Statuses, Reserve
<1>6. MarkDelivered(L, e) \in Ledgers
  BY <1>1 DEF Ledgers, Rows, Statuses, MarkDelivered
<1>7. MarkUncertain(L, e) \in Ledgers
  BY <1>1 DEF Ledgers, Rows, Statuses, MarkUncertain
<1> QED
  BY <1>1, <1>2, <1>3, <1>4, <1>5, <1>6, <1>7

\* The reconciliation of a start leaves a well-formed table.
LEMMA ReconcileType ==
  ASSUME NEW L \in Ledgers
  PROVE  ReconcileOnStartup(L) \in Ledgers
<1>1. \A x \in Messages : L[x] \in Rows
  BY DEF Ledgers
<1>2. \A x \in Messages : [L[x] EXCEPT !.status = "UNCERTAIN"] \in Rows
  BY <1>1 DEF Rows, Statuses
<1> QED
  BY <1>1, <1>2 DEF ReconcileOnStartup, Ledgers

-----------------------------------------------------------------------------
(***************************************************************************)
(* Type correctness.                                                       *)
(***************************************************************************)
\* The first state of a fresh process is well typed and well placed.
LEMMA InitWellTyped == Init => TypeOK /\ WellPlaced
<1> SUFFICES ASSUME Init PROVE TypeOK /\ WellPlaced
  OBVIOUS
<1>1. ledger \in Ledgers
  BY EffectLedgerAssumption DEF Init, EmptyLedger, Ledgers, NoRow, Rows, Statuses, NoEffect
<1>2. /\ stream \in Seq(Events) /\ Len(stream) = 0
      /\ deferred \in Seq(DeferralEntries(Messages, MediaStatuses)) /\ Len(deferred) = 0
      /\ positions \in Seq(Nat) /\ Len(positions) = 0
  BY EmptySeq DEF Init
<1>3. TypeOK
  BY <1>1, <1>2 DEF Init, TypeOK, NoWork, NoPage, Works, Statuses, NoEffect, MediaStatuses,
                    Origins, Phases, Steps, Served
<1>4. WellPlaced
  BY <1>2, ProvenanceAssumption DEF Init, WellPlaced, NoPage, Handling
<1> QED
  BY <1>3, <1>4

\* A cycle that was left, or not begun, has no message and no page at hand.
LEMMA WorkTypes ==
  /\ NoWork \in Works /\ NoWork.msg = NoMessage
  /\ NoPage \in [last : Nat, more : BOOLEAN, head : Nat] /\ NoPage.last = 0
  /\ \A m \in Messages, o \in Origins, s \in MediaStatuses :
       [msg |-> m, origin |-> o, status |-> s, seen |-> NoEffect] \in Works
BY DEF NoWork, NoPage, Works, Statuses, NoEffect, MediaStatuses, Origins

\* The event the loop over the page is at is one of the stream.
LEMMA UpcomingInStream ==
  ASSUME TypeOK, WellPlaced, cursor < page.last
  PROVE  Upcoming \in Events
<1>1. cursor + 1 \in 1 .. Len(stream)
  <2>1. Len(stream) \in Nat
    BY LenProperties DEF TypeOK
  <2> QED
    BY <2>1 DEF TypeOK, WellPlaced
<1> QED
  BY <1>1, ElementOfSeq DEF TypeOK, Upcoming

\* The cursor on disk is one of Core's.
LEMMA SavedCursorType ==
  ASSUME TypeOK, WellPlaced PROVE SavedCursor \in Nat
<1>1. CASE cursor = 0
  BY <1>1 DEF SavedCursor
<1>2. CASE cursor # 0
  <2>1. cursor \in 1 .. Len(positions)
    BY <1>2, LenProperties DEF TypeOK, WellPlaced
  <2> QED
    BY <1>2, <2>1, ElementOfSeq DEF TypeOK, SavedCursor
<1> QED
  BY <1>1, <1>2

\* Leaving the cycle, whatever else the step does.
LEMMA CycleLeft ==
  ASSUME TypeOK, WellPlaced, LeaveCycle, stream' = stream
  PROVE  /\ pc' = "idle" /\ pc' \in Steps /\ pc' \notin Handling
         /\ pc' \notin {"fetch", "events", "save", "skip"}
         /\ cur' \in Works /\ phase' \in Phases /\ phase' # "deferred"
         /\ todo' \subseteq Messages /\ inEvent' = FALSE
         /\ page' \in [last : Nat, more : BOOLEAN, head : Nat] /\ page'.last <= Len(stream')
<1>1. Len(stream) \in Nat
  BY LenProperties DEF TypeOK
<1>2. /\ page' = NoPage /\ cur' = NoWork
      /\ pc' = "idle" /\ phase' = "event" /\ todo' = {} /\ inEvent' = FALSE
  BY DEF LeaveCycle
<1>3. /\ page' \in [last : Nat, more : BOOLEAN, head : Nat] /\ page'.last <= Len(stream')
      /\ cur' \in Works
  BY <1>1, <1>2, WorkTypes
<1> QED
  BY <1>2, <1>3 DEF Steps, Handling, Phases

\* Every step of the thread, of Core, of a shutdown or of a restart keeps the types,
\* and the place of the thread that the steps rely on.
LEMMA TypeStep == TypeOK /\ WellPlaced /\ [Next]_vars => TypeOK' /\ WellPlaced'
<1> SUFFICES ASSUME TypeOK, WellPlaced, [Next]_vars PROVE TypeOK' /\ WellPlaced'
  OBVIOUS
<1>a. Len(stream) \in Nat /\ Len(deferred) \in Nat
  BY LenProperties DEF TypeOK
<1>b. NoMessage \notin Messages
  BY DeliveryAssumption
<1> USE DEF TypeOK, WellPlaced, coreVars, diskVars, threadVars, stopVars, masterVars, pastVars,
            Goto, Return, Handle, Loop
<1>1. CASE \E e \in Catalogue : Publish(e)
  <2>1. PICK e \in Catalogue : Publish(e)
    BY <1>1
  <2>2. e \in Events /\ Len(stream) \in Nat
    BY DeliveryAssumption, LenProperties
  <2>3. stream' \in Seq(Events) /\ Len(stream') = Len(stream) + 1
    BY <2>1, <2>2, AppendProperties DEF Publish
  <2>4. coreMedia' \in [Media -> Served] /\ condemned' \subseteq Messages
    BY <2>1, <2>2 DEF Publish, Served, Events
  <2>5. head' \in Nat /\ positions' \in Seq(Nat) /\ Len(positions') = Len(stream')
    <3>1. head + 1 \in Nat
      OBVIOUS
    <3> QED
      BY <2>1, <2>3, <3>1, AppendProperties DEF Publish
  <2> QED
    BY <2>1, <2>2, <2>3, <2>4, <2>5 DEF Publish
<1>2. CASE PublishElsewhere \/ \E m \in Media, what \in {"partial", "broken"} : MediaTurns(m, what)
  <2>1. CASE PublishElsewhere
    BY <2>1 DEF PublishElsewhere
  <2>2. ASSUME NEW m \in Media, NEW what \in {"partial", "broken"}, MediaTurns(m, what)
        PROVE  TypeOK' /\ WellPlaced'
    <3>1. coreMedia' \in [Media -> Served] /\ condemned' \subseteq Messages
      BY <2>2, DeliveryAssumption DEF MediaTurns, Served
    <3> QED
      BY <2>2, <3>1 DEF MediaTurns
  <2> QED
    BY <1>2, <2>1, <2>2
<1>3. CASE (\E m \in Own : SendReturns(m)) \/ StoreRace
  <2>1. linked' \subseteq Messages /\ aliasFile' \subseteq Messages /\ spoiled' \in BOOLEAN
    BY <1>3, DeliveryAssumption DEF SendReturns, StoreRace, Link, LinkUnsaved
  <2>2. UNCHANGED <<coreVars, checkpoint, ledger, deferred, cursor, floorKnown, threadVars, stopVars,
                    masterVars, skipped, dropped, echoed, ends>>
    BY <1>3 DEF SendReturns, StoreRace
  <2> QED
    BY <2>1, <2>2
<1>4. CASE \E S \in SUBSET Messages : BeginCycle(S)
  BY <1>4, WorkTypes DEF BeginCycle, Phases, Steps, Handling
<1>5. CASE \E m \in Messages : RetryMedia(m)
  <2>1. PICK m \in Messages : RetryMedia(m)
    BY <1>5
  <2>2. "given" \in Origins /\ "ready" \in MediaStatuses /\ "noref" \in MediaStatuses
    BY DEF Origins, MediaStatuses
  <2>3. inEvent => stream[cursor + 1].status \in MediaStatuses
    BY UpcomingInStream DEF Upcoming, Events
  <2> QED
    BY <2>1, <2>2, <2>3, WorkTypes DEF RetryMedia, Steps, Handling
<1>6. CASE BeginDeferred
  <2>1. Due(deferred) \subseteq Messages /\ \A m \in Due(deferred) : IsDeferred(deferred, m)
    BY DueIsDeferred
  <2> QED
    BY <1>6, <2>1 DEF BeginDeferred, Phases, Steps, Handling
<1>7. CASE \E m \in Messages : RetryDeferred(m)
  <2>1. PICK m \in Messages : RetryDeferred(m)
    BY <1>7
  <2> DEFINE entry == deferred[Place(deferred, m)]
  <2>2. IsDeferred(deferred, m)
    BY <2>1 DEF RetryDeferred
  <2>3. entry \in DeferralEntries(Messages, MediaStatuses)
    BY <2>2, PlaceIsPosition
  <2>4. entry.origin \in Origins /\ entry.status \in MediaStatuses
    BY <2>3 DEF DeferralEntries
  <2> QED
    BY <2>1, <2>2, <2>4, WorkTypes DEF RetryDeferred, Steps, Handling
<1>8. CASE EndDeferred
  BY <1>8, WorkTypes DEF EndDeferred, Phases, Steps, Handling
<1>9. CASE Fetch
  <2>1. page' \in [last : Nat, more : BOOLEAN, head : Nat] /\ page'.last <= Len(stream)
    BY <1>9, <1>a, DeliveryAssumption DEF Fetch
  <2> QED
    BY <1>9, <2>1 DEF Fetch, Steps, Handling
<1>10. CASE SkipEvent
  BY <1>10, WorkTypes DEF SkipEvent, Phases, Steps, Handling
<1>11. CASE MessageEvent
  <2>1. /\ Upcoming.msg \in Messages /\ Upcoming.origin \in Origins
        /\ Upcoming.status \in MediaStatuses
    BY <1>11, UpcomingInStream DEF MessageEvent, AtEvent, Events
  <2> QED
    BY <1>11, <2>1, WorkTypes, <1>b DEF MessageEvent, AtEvent, Steps, Handling
<1>12. CASE ReadyEvent
  <2>1. Upcoming.msg \in Messages
    BY <1>12, UpcomingInStream DEF ReadyEvent, AtEvent, Events
  <2>2. ReadyMedia(ledger, Upcoming.msg) \subseteq Messages
    BY <2>1 DEF ReadyMedia
  <2> QED
    BY <1>12, <2>2 DEF ReadyEvent, AtEvent, Phases, Steps, Handling
<1>13. CASE RemovedEvent
  <2>1. Upcoming.msg \in Messages
    BY <1>13, UpcomingInStream DEF RemovedEvent, AtEvent, Events
  <2> QED
    BY <1>13, <2>1 DEF RemovedEvent, AtEvent, Steps, Handling
<1>14. CASE SendEvent
  <2>1. Upcoming.msg \in Messages
    BY <1>14, UpcomingInStream DEF SendEvent, AtEvent, Events
  <2>2. linked' \subseteq Messages /\ aliasFile' \subseteq Messages
    BY <1>14, <2>1 DEF SendEvent, Link
  <2> QED
    BY <1>14, <2>2 DEF SendEvent, AtEvent, Steps, Handling
<1>15. CASE OtherEvent
  BY <1>15 DEF OtherEvent, AtEvent, Steps, Handling
<1>16. CASE SaveCursor
  BY <1>16, WorkTypes DEF SaveCursor, Phases, Steps, Handling
<1>17. CASE EndCycle
  <2>1. checkpoint' \in Nat
    BY <1>17, SavedCursorType DEF EndCycle, Reported
  <2> QED
    BY <1>17, <2>1, CycleLeft DEF EndCycle
<1>18. CASE SuppressEcho
  BY <1>18, WorkTypes DEF SuppressEcho, Phases, Steps, Handling
<1>19. CASE SuppressTerminal
  <2>1. /\ deferred' \in Seq(DeferralEntries(Messages, MediaStatuses))
        /\ Len(deferred') <= Len(deferred)
        /\ \A x : x # cur.msg /\ IsDeferred(deferred, x) => IsDeferred(deferred', x)
    BY <1>19, ResolveKeepsStore DEF SuppressTerminal
  <2>2. Len(deferred') <= DeferralMaxEntries
    BY <2>1, <1>a, LenProperties, ProvenanceAssumption
  <2>3. pc \in Handling
    BY <1>19 DEF SuppressTerminal, AtHandler, Handling
  <2> QED
    BY <1>19, <2>1, <2>2, <2>3, WorkTypes DEF SuppressTerminal, AtHandler, Steps, Handling
<1>20. CASE SuppressUncertain
  BY <1>20, WorkTypes DEF SuppressUncertain, AtHandler, Phases, Steps, Handling
<1>21. CASE AcceptPending
  BY <1>21 DEF AcceptPending, AtHandler, Accept, Works, Statuses, Steps, Handling
<1>22. CASE AcceptFirst
  BY <1>22 DEF AcceptFirst, Classified, AtHandler, Accept, Works, Statuses, NoEffect, Steps, Handling
<1>23. CASE SuppressReprojection
  BY <1>23, WorkTypes DEF SuppressReprojection, Classified, AtHandler, Phases, Steps, Handling
<1>24. CASE DeferProvenance
  <2>1. /\ pc = "handle" /\ cur.msg \in Messages
        /\ cur.origin \in Origins /\ cur.status \in MediaStatuses
    BY <1>24 DEF DeferProvenance, Classified, AtHandler, Handling, Works
  <2>2. /\ deferred' \in Seq(DeferralEntries(Messages, MediaStatuses))
        /\ Len(deferred') <= DeferralMaxEntries
        /\ dropped' \subseteq Messages
    BY <1>24, <2>1, DeferKeepsStore DEF DeferProvenance
  <2>3. phase = "deferred" => \A m \in todo : IsDeferred(deferred', m)
    BY <1>24, <2>1, DeferAgainKeepsOthers DEF DeferProvenance
  <2>4. pc \in Handling /\ (phase = "event" => cursor < page.last)
    BY <2>1 DEF Handling
  <2> QED
    BY <1>24, <2>2, <2>3, <2>4, WorkTypes DEF DeferProvenance, Steps, Handling
<1>25. CASE BuildAndReserve
  <2>1. pc = "build" /\ cur.msg \in Messages
    BY <1>25 DEF BuildAndReserve, Builds, Handling
  <2>2. /\ ledger' = Reserve(ledger, cur.msg) \/ ledger' = ledger
        /\ Goto("send") \/ Return
        /\ UNCHANGED <<coreVars, checkpoint, deferred, cursor, floorKnown, linked,
                       aliasFile, stopVars, masterVars, pastVars>>
    BY <1>25 DEF BuildAndReserve
  <2>3. ledger \in Ledgers /\ Reserve(ledger, cur.msg) \in Ledgers
    BY <2>1, LedgerTypes
  <2>4. ledger' \in Ledgers
    BY <2>2, <2>3
  <2> QED
    BY <2>1, <2>2, <2>4, WorkTypes DEF Steps, Handling
<1>26. CASE \E late \in BOOLEAN : DeferMedia(late)
  <2>1. PICK late \in BOOLEAN : DeferMedia(late)
    BY <1>26
  <2>2. cur.msg \in Messages
    BY <2>1 DEF DeferMedia, Builds, Handling
  <2>3. ledger' \in Ledgers
    BY <2>1, <2>2, LedgerTypes DEF DeferMedia
  <2>4. pc = "build"
    BY <2>1 DEF DeferMedia, Builds
  <2> QED
    BY <2>1, <2>2, <2>3, <2>4, WorkTypes DEF DeferMedia, Steps, Handling
<1>27. CASE ParkMedia
  <2>1. cur.msg \in Messages
    BY <1>27 DEF ParkMedia, Handling
  <2>2. ledger[cur.msg].attempts \in 0 .. MediaMaxAttempts /\ ledger[cur.msg].hasMedia \in BOOLEAN
    BY <2>1 DEF Ledgers, Rows
  <2>3. ledger' \in Ledgers
    BY <1>27, <2>1, <2>2, LedgerTypes DEF ParkMedia
  <2> QED
    BY <1>27, <2>1, <2>3, WorkTypes DEF ParkMedia, Steps, Handling
<1>28. CASE FailMedia
  <2>1. cur.msg \in Messages
    BY <1>28 DEF FailMedia, Builds, Handling
  <2>2. ledger' \in Ledgers
    BY <1>28, <2>1, LedgerTypes DEF FailMedia
  <2> QED
    BY <1>28, <2>1, <2>2, <1>a, WorkTypes DEF FailMedia, Builds, Steps, Handling
<1>29. CASE Deliver
  BY <1>29, WorkTypes DEF Deliver, Phases, Steps, Handling
<1>30. CASE DeliverRaises
  BY <1>30, WorkTypes DEF DeliverRaises, Phases, Steps, Handling
<1>31. CASE RecordMapping
  BY <1>31, WorkTypes DEF RecordMapping, Phases, Steps, Handling
<1>32. CASE RecordUncertain
  <2>1. cur.msg \in Messages
    BY <1>32 DEF RecordUncertain, Handling
  <2>2. ledger' \in Ledgers
    BY <1>32, <2>1, LedgerTypes DEF RecordUncertain
  <2> QED
    BY <1>32, <2>2, CycleLeft DEF RecordUncertain
<1>33. CASE RecordDelivered
  <2>1. cur.msg \in Messages
    BY <1>33 DEF RecordDelivered, Handling
  <2>2. ledger' \in Ledgers
    BY <1>33, <2>1, LedgerTypes DEF RecordDelivered
  <2> QED
    BY <1>33, <2>1, <2>2, <1>a, WorkTypes DEF RecordDelivered, Steps, Handling
<1>34. CASE ResolveDeferral
  <2>1. /\ deferred' \in Seq(DeferralEntries(Messages, MediaStatuses))
        /\ Len(deferred') <= Len(deferred)
        /\ \A x : x # cur.msg /\ IsDeferred(deferred, x) => IsDeferred(deferred', x)
    BY <1>34, ResolveKeepsStore DEF ResolveDeferral
  <2>2. Len(deferred') <= DeferralMaxEntries
    BY <2>1, <1>a, LenProperties, ProvenanceAssumption
  <2>3. pc \in Handling
    BY <1>34 DEF ResolveDeferral, AtHandler, Handling
  <2> QED
    BY <1>34, <2>1, <2>2, <2>3, WorkTypes DEF ResolveDeferral, AtHandler, Steps, Handling
<1>35. CASE Raises
  BY <1>35, CycleLeft DEF Raises
<1>36. CASE Suppress
  BY <1>36, WorkTypes DEF Suppress, Phases, Steps, Handling
<1>37. CASE StopPolling
  BY <1>37, WorkTypes DEF StopPolling, Phases, Steps, Handling
<1>38. CASE LeavePoll
  BY <1>38, WorkTypes, SavedCursorType DEF LeavePoll, Reported, Phases, Steps, Handling
<1>39. CASE ContractChanges
  BY <1>39, WorkTypes, SavedCursorType DEF ContractChanges, Reported, Phases, Steps, Handling
<1>40. CASE ProcessEnds
  <2>1. /\ page' \in [last : Nat, more : BOOLEAN, head : Nat] /\ page'.last <= Len(stream)
        /\ cur' \in Works
    BY <1>40, <1>a, WorkTypes DEF ProcessEnds
  <2>2. /\ pc' = "down" /\ pc' \in Steps /\ pc' \notin Handling
        /\ phase' = "event" /\ phase' \in Phases /\ todo' = {} /\ inEvent' = FALSE
        /\ suppress' = FALSE /\ stop' = FALSE /\ ends' \in Nat
    BY <1>40 DEF ProcessEnds, Steps, Handling, Phases
  <2>3. UNCHANGED <<coreVars, checkpoint, diskVars, masterVars, skipped, dropped, echoed, spoiled>>
    BY <1>40 DEF ProcessEnds
  <2>4. TypeOK'
    BY <2>1, <2>2, <2>3
  <2>5. WellPlaced'
    BY <2>1, <2>2, <2>3
  <2> QED
    BY <2>4, <2>5
<1>41. CASE Restart
  <2>1. ledger' \in Ledgers /\ linked' \subseteq Messages /\ spoiled' \in BOOLEAN
    BY <1>41, ReconcileType DEF Restart
  <2> QED
    BY <1>41, <2>1 DEF Restart, Steps, Handling
<1>43. CASE LinkRaises
  <2>1. Upcoming.msg \in Messages
    BY <1>43, UpcomingInStream DEF LinkRaises, AtEvent, Events
  <2>2. linked' \subseteq Messages /\ aliasFile' \subseteq Messages
    BY <1>43, <2>1 DEF LinkRaises, Link, LinkUnsaved
  <2> QED
    BY <1>43, <2>2, CycleLeft DEF LinkRaises
<1>42. CASE UNCHANGED vars
  BY <1>42 DEF vars
<1> QED
  BY <1>1, <1>2, <1>3, <1>4, <1>5, <1>6, <1>7, <1>8, <1>9, <1>10, <1>11, <1>12, <1>13, <1>14, <1>15, <1>16, <1>17, <1>18, <1>19, <1>20, <1>21, <1>22, <1>23, <1>24, <1>25, <1>26, <1>27, <1>28, <1>29, <1>30, <1>31, <1>32, <1>33, <1>34, <1>35, <1>36, <1>37, <1>38, <1>39, <1>40, <1>41, <1>42, <1>43
     DEF Next, Others, Cycle, Dispatch, Decide, Effect, Life

\* Every variable keeps its type, and the thread its place, in every behaviour.
THEOREM TypeCorrect == Spec => []TypeOK
<1>1. Init => TypeOK /\ WellPlaced
  BY InitWellTyped
<1>2. (TypeOK /\ WellPlaced) /\ [Next]_vars => (TypeOK /\ WellPlaced)'
  BY TypeStep
<1> QED
  BY <1>1, <1>2, PTL DEF Spec

-----------------------------------------------------------------------------
(***************************************************************************)
(* At most once.  Around the external call the row of the message at hand  *)
(* is RESERVED, and the steps that change the ledger or reach the master   *)
(* are few: all others are quiet.                                          *)
(***************************************************************************)
Calling == {"send", "record", "finish", "uncertain"}

Quiet == /\ UNCHANGED <<ledger, sent>>
         /\ pc' \in Calling => pc' = pc /\ cur' = cur

Loud == \/ BuildAndReserve \/ ParkMedia \/ FailMedia
        \/ \E late \in BOOLEAN : DeferMedia(late)
        \/ Deliver \/ DeliverRaises \/ RecordMapping \/ RecordUncertain
        \/ RecordDelivered \/ Restart

\* A step that is none of the loud ones changes no row that is in doubt and reaches
\* no master.
LEMMA OtherStepsQuiet == [Next]_vars => Loud \/ Quiet
<1> SUFFICES ASSUME [Next]_vars, ~Loud PROVE Quiet
  OBVIOUS
<1> USE DEF coreVars, diskVars, threadVars, stopVars, masterVars, pastVars, Goto, Return,
            LeaveCycle, Handle, Loop, Quiet, Calling
<1>1. CASE Others
  BY <1>1 DEF Others, Publish, PublishElsewhere, MediaTurns, SendReturns, StoreRace
<1>2. CASE Cycle
  BY <1>2 DEF Cycle, BeginCycle, RetryMedia, RetryDeferred, BeginDeferred, EndDeferred,
              Fetch, EndCycle
<1>3. CASE Dispatch
  BY <1>3 DEF Dispatch, SkipEvent, MessageEvent, ReadyEvent, RemovedEvent, SendEvent,
              LinkRaises, OtherEvent, SaveCursor
<1>4. CASE Decide
  BY <1>4 DEF Decide, SuppressEcho, SuppressTerminal, SuppressUncertain, AcceptPending,
              AcceptFirst, SuppressReprojection, DeferProvenance, Accept
<1>5. CASE Effect
  BY <1>5 DEF Effect, Loud, ResolveDeferral
<1>6. CASE Life
  BY <1>6 DEF Life, Loud, Raises, Suppress, StopPolling, LeavePoll, ContractChanges,
              ProcessEnds
<1>7. CASE UNCHANGED vars
  BY <1>7 DEF vars
<1> QED
  BY <1>1, <1>2, <1>3, <1>4, <1>5, <1>6, <1>7 DEF Next

\* The reservation around the external call keeps the effect at most once: one case
\* per action that writes the ledger or calls the master.
LEMMA EffectStep ==
  ASSUME TypeOK, WellPlaced, AtMostOnceDelivery, CallReserved, [Next]_vars
  PROVE  AtMostOnceDelivery' /\ CallReserved'
<1> USE DEF AtMostOnceDelivery, CallReserved
<1>1. CASE Quiet
  BY <1>1 DEF Quiet, Calling
<1>2. ASSUME Loud PROVE /\ pc # "down" => cur.msg \in Messages
                        /\ \A m \in Messages : ledger[m] \in Rows /\ sent[m] \in Nat
                        /\ ledger \in [Messages -> Rows] /\ sent \in [Messages -> Nat]
  BY <1>2 DEF TypeOK, WellPlaced, Ledgers, Loud, Handling, Builds, BuildAndReserve,
              DeferMedia, ParkMedia, FailMedia, Deliver, DeliverRaises, RecordMapping,
              RecordUncertain, RecordDelivered, Restart
<1> USE DEF Goto, Return, LeaveCycle, masterVars, threadVars
<1>3. CASE BuildAndReserve
  <2>1. pc = "build" /\ cur.msg \in Messages /\ UNCHANGED sent
    BY <1>2, <1>3 DEF Loud, BuildAndReserve, Builds
  <2>2. CASE MayReserve(ledger, cur.msg, cur.seen)
    <3>1. ledger' = [ledger EXCEPT ![cur.msg].status = "RESERVED"] /\ pc' = "send" /\ cur' = cur
      BY <1>3, <2>2 DEF BuildAndReserve, Reserve
    <3>2. ledger[cur.msg].status \in {NoEffect, "PENDING_MEDIA"}
      BY <2>2 DEF MayReserve
    <3>3. sent[cur.msg] = 0
      BY <1>2, <1>3, <2>1, <3>2 DEF Loud, NoEffect
    <3> QED
      BY <1>2, <1>3, <2>1, <3>1, <3>3 DEF Loud, Rows
  <2>3. CASE ~MayReserve(ledger, cur.msg, cur.seen)
    BY <1>3, <2>1, <2>3 DEF BuildAndReserve
  <2> QED
    BY <2>2, <2>3
<1>4. CASE \E late \in BOOLEAN : DeferMedia(late)
  BY <1>2, <1>4 DEF Loud, DeferMedia, Builds, MarkMediaPending, NoEffect, Rows
<1>5. CASE ParkMedia
  BY <1>2, <1>5 DEF Loud, ParkMedia, MarkMediaParked, NoEffect, Rows
<1>6. CASE FailMedia
  BY <1>2, <1>6 DEF Loud, FailMedia, Builds, MarkMediaFailed, NoEffect, Rows
<1>7. CASE Deliver
  BY <1>2, <1>7 DEF Loud, Deliver, diskVars
<1>8. CASE DeliverRaises
  BY <1>2, <1>8 DEF Loud, DeliverRaises, diskVars
<1>9. CASE RecordMapping
  BY <1>2, <1>9 DEF Loud, RecordMapping, diskVars
<1>10. CASE RecordUncertain
  BY <1>2, <1>10 DEF Loud, RecordUncertain, MarkUncertain, Rows
<1>11. CASE RecordDelivered
  BY <1>2, <1>11 DEF Loud, RecordDelivered, MarkDelivered, NoEffect, Rows
<1>12. CASE Restart
  BY <1>2, <1>12 DEF Loud, Restart, ReconcileOnStartup, Rows
<1> QED
  BY <1>1, <1>3, <1>4, <1>5, <1>6, <1>7, <1>8, <1>9, <1>10, <1>11, <1>12, OtherStepsQuiet
     DEF Loud

\* Over every stream, every interleaving and any number of restarts, a message
\* reaches the master at most once, and DELIVERED is never a guess.
THEOREM DeliveredAtMostOnce == Spec => []AtMostOnceDelivery
<1>1. Init => AtMostOnceDelivery /\ CallReserved
  BY DEF Init, AtMostOnceDelivery, CallReserved, EmptyLedger, NoRow, NoEffect
<1>2. TypeOK /\ WellPlaced /\ AtMostOnceDelivery /\ CallReserved /\ [Next]_vars
        => (TypeOK /\ WellPlaced /\ AtMostOnceDelivery /\ CallReserved)'
  BY TypeStep, EffectStep
<1> QED
  BY <1>1, <1>2, InitWellTyped, PTL DEF Spec

-----------------------------------------------------------------------------
(***************************************************************************)
(* The poll thread implements AtMostOnce.  Beyond the invariant above this *)
(* needs that a message before the floor gets no row.                      *)
(***************************************************************************)
\* _classify_unknown_effect never calls a message that predates the floor a first effect.
LEMMA OnlyOwedAccepted ==
  ASSUME NEW known, NEW preexisting \in BOOLEAN, NEW origin \in Origins,
         FirstEffect \in Classifications(known, preexisting, origin)
  PROVE  ~preexisting
BY DEF Classifications, FirstEffect, Reprojection, Indeterminate, Origins

\* No step gives a row to a message that predates the floor, or takes it past the
\* decision.
LEMMA FloorStep ==
  ASSUME TypeOK, WellPlaced, FloorRespected, [Next]_vars
  PROVE  FloorRespected'
<1> USE DEF FloorRespected, Handling
<1>1. PreFloor \subseteq Messages
  BY DeliveryAssumption
<1>2. CASE Others
  BY <1>2 DEF Others, Publish, PublishElsewhere, MediaTurns, SendReturns, StoreRace, diskVars, threadVars
<1>3. CASE Cycle
  BY <1>3 DEF Cycle, BeginCycle, RetryMedia, RetryDeferred, BeginDeferred, EndDeferred,
              Fetch, EndCycle, diskVars, Handle, Loop, LeaveCycle
<1>4. CASE Dispatch
  BY <1>4 DEF Dispatch, SkipEvent, MessageEvent, ReadyEvent, RemovedEvent, SendEvent,
              LinkRaises, OtherEvent, SaveCursor, diskVars, Handle, Loop, Goto, LeaveCycle
<1>5. CASE Decide
  <2>1. CASE AcceptPending
    <3>1. cur.msg \notin PreFloor
      BY <2>1 DEF AcceptPending, Status, NoEffect
    <3> QED
      BY <2>1, <3>1 DEF AcceptPending, Accept, diskVars, TypeOK, Works
  <2>2. CASE AcceptFirst
    <3>1. cur.origin \in Origins
      BY DEF TypeOK, Works
    <3>2. cur.msg \notin PreFloor
      BY <2>2, <3>1, OnlyOwedAccepted DEF AcceptFirst, Classified
    <3> QED
      BY <2>2, <3>2 DEF AcceptFirst, Accept, diskVars, TypeOK, Works
  <2> QED
    BY <1>5, <2>1, <2>2 DEF Decide, SuppressEcho, SuppressTerminal, SuppressUncertain,
         SuppressReprojection, DeferProvenance, diskVars, Return
<1>6. CASE Effect
  <2>1. pc \in Handling \ {"handle"} /\ cur.msg \in Messages \ PreFloor
    BY <1>6 DEF Effect, BuildAndReserve, DeferMedia, ParkMedia, FailMedia, Deliver,
         DeliverRaises, RecordMapping, RecordUncertain, RecordDelivered, ResolveDeferral,
         Builds, WellPlaced
  <2>2. \A x \in Messages \ {cur.msg} : ledger'[x] = ledger[x]
    BY <1>6 DEF Effect, BuildAndReserve, DeferMedia, ParkMedia, FailMedia, Deliver,
         DeliverRaises, RecordMapping, RecordUncertain, RecordDelivered, ResolveDeferral,
         Reserve, MarkMediaPending, MarkMediaParked, MarkMediaFailed, MarkUncertain,
         MarkDelivered, diskVars, TypeOK, Ledgers
  <2>3. cur' = cur \/ pc' \notin Handling
    BY <1>6 DEF Effect, BuildAndReserve, DeferMedia, ParkMedia, FailMedia, Deliver,
         DeliverRaises, RecordMapping, RecordUncertain, RecordDelivered, ResolveDeferral,
         Goto, Return, LeaveCycle
  <2> QED
    BY <1>1, <2>1, <2>2, <2>3
<1>7. CASE Life
  <2>1. CASE Restart
    BY <1>1, <2>1 DEF Restart, ReconcileOnStartup, Goto, NoEffect
  <2> QED
    BY <1>7, <2>1 DEF Life, Raises, Suppress, StopPolling, LeavePoll, ContractChanges,
         ProcessEnds, diskVars, threadVars, Goto, LeaveCycle
<1>8. CASE UNCHANGED vars
  BY <1>8 DEF vars, diskVars, threadVars
<1> QED
  BY <1>2, <1>3, <1>4, <1>5, <1>6, <1>7, <1>8 DEF Next

\* The outcome of m is a function of the status of its row.
LEMMA OutcomeOfRow ==
  ASSUME NEW m \in Messages, TypeOK
  PROVE  /\ Outcome[m] = "unseen"     <=> ledger[m].status \in {NoEffect, "PENDING_MEDIA"}
         /\ Outcome[m] = "attempting" <=> ledger[m].status = "RESERVED"
         /\ Outcome[m] = "delivered"  <=> ledger[m].status = "DELIVERED"
         /\ Outcome[m] = "uncertain"  <=> ledger[m].status = "UNCERTAIN"
         /\ Outcome[m] = "failed"     <=> ledger[m].status = "MEDIA_FAILED"
BY DEF Outcome, TypeOK, Ledgers, Rows, Statuses, NoEffect

\* A step that writes one row changes one outcome.
LEMMA OneOutcomeChanges ==
  ASSUME NEW m \in Messages, \A x \in Messages \ {m} : ledger'[x] = ledger[x]
  PROVE  Outcome' = [Outcome EXCEPT ![m] = Outcome'[m]]
<1> DEFINE f == [Outcome EXCEPT ![m] = Outcome'[m]]
<1>1. \A x \in Messages \ {m} : Outcome'[x] = Outcome[x]
  BY DEF Outcome
<1>2. /\ Outcome' = [x \in Messages |-> Outcome'[x]]
      /\ Outcome  = [x \in Messages |-> Outcome[x]]
  BY DEF Outcome
<1>3. /\ f = [x \in Messages |-> f[x]]
      /\ \A x \in Messages : f[x] = Outcome'[x]
  BY <1>1, <1>2
<1> QED
  BY <1>2, <1>3

\* Every step of Delivery is a step of AtMostOnce or leaves its variables alone.
LEMMA PromiseStep ==
  ASSUME TypeOK, TypeOK', WellPlaced, AtMostOnceDelivery, CallReserved, FloorRespected, [Next]_vars
  PROVE  Promise!Next \/ UNCHANGED Promise!vars
<1> DEFINE m == cur.msg
<1> USE DEF Promise!vars
<1>1. CASE UNCHANGED <<ledger, sent>>
  BY <1>1 DEF Outcome
<1>2. CASE Restart
  <2> DEFINE S == {x \in Messages : ledger[x].status = "RESERVED"}
  <2>1. \A x \in S : Outcome[x] = "attempting"
    BY OutcomeOfRow
  <2>2. ledger' = ReconcileOnStartup(ledger) /\ UNCHANGED sent
    BY <1>2 DEF Restart, masterVars
  <2>3. Outcome' = [x \in Messages |-> IF x \in S THEN "uncertain" ELSE Outcome[x]]
    BY <2>2 DEF Outcome, ReconcileOnStartup, TypeOK, Ledgers, Rows, NoEffect
  <2>4. Promise!GiveUp(S)
    BY <2>1, <2>2, <2>3 DEF Promise!GiveUp
  <2> QED
    BY <2>4 DEF Promise!Next
<1>3. CASE Loud /\ ~Restart
  <2>1. pc \in Handling \ {"handle"} /\ m \in Messages \ PreFloor
    BY <1>3 DEF Loud, BuildAndReserve, DeferMedia, ParkMedia, FailMedia, Deliver,
         DeliverRaises, RecordMapping, RecordUncertain, RecordDelivered, Builds,
         WellPlaced, FloorRespected, Handling
  <2>2. \A x \in Messages \ {m} : ledger'[x] = ledger[x]
    BY <1>3 DEF Loud, BuildAndReserve, DeferMedia, ParkMedia, FailMedia, Deliver,
         DeliverRaises, RecordMapping, RecordUncertain, RecordDelivered,
         Reserve, MarkMediaPending, MarkMediaParked, MarkMediaFailed, MarkUncertain,
         MarkDelivered, diskVars, TypeOK, Ledgers
  <2>3. Outcome' = [Outcome EXCEPT ![m] = Outcome'[m]]
    BY <2>1, <2>2, OneOutcomeChanges
  <2>4. /\ ledger[m] \in Rows /\ ledger \in [Messages -> Rows]
        /\ sent \in [Messages -> Nat]
    BY <2>1 DEF TypeOK, Ledgers
  <2>5. ASSUME Outcome'[m] = Outcome[m] PROVE Outcome' = Outcome
    BY <2>3, <2>5 DEF Outcome
  <2> HIDE DEF m
  <2>6. CASE BuildAndReserve
    <3>1. UNCHANGED sent
      BY <2>6 DEF BuildAndReserve, masterVars
    <3>2. CASE MayReserve(ledger, m, cur.seen)
      <4>1. /\ ledger[m].status \in {NoEffect, "PENDING_MEDIA"}
            /\ ledger'[m].status = "RESERVED"
        BY <2>1, <2>4, <2>6, <3>2 DEF BuildAndReserve, MayReserve, Reserve, Rows, m
      <4>2. Outcome[m] = "unseen" /\ Outcome'[m] = "attempting"
        BY <2>1, <4>1, OutcomeOfRow DEF Outcome, NoEffect
      <4>3. Promise!Attempt(m)
        BY <2>1, <2>3, <3>1, <4>2 DEF Promise!Attempt
      <4> QED
        BY <2>1, <4>3 DEF Promise!Next
    <3>3. CASE ~MayReserve(ledger, m, cur.seen)
      BY <1>1, <2>6, <3>1, <3>3 DEF BuildAndReserve, m
    <3> QED
      BY <3>2, <3>3
  <2>7. CASE (\E late \in BOOLEAN : DeferMedia(late)) \/ ParkMedia
    <3>1. UNCHANGED sent
      BY <2>7 DEF DeferMedia, ParkMedia, masterVars
    <3>2. \/ ledger' = ledger
          \/ /\ ledger[m].status \in {NoEffect, "PENDING_MEDIA"}
             /\ ledger'[m].status = "PENDING_MEDIA"
      BY <2>1, <2>4, <2>7 DEF DeferMedia, ParkMedia, MarkMediaPending, MarkMediaParked, m
    <3>3. Outcome'[m] = Outcome[m]
      BY <2>1, <3>2 DEF Outcome, NoEffect
    <3> QED
      BY <2>5, <3>1, <3>3
  <2>8. CASE FailMedia
    <3>1. UNCHANGED sent
      BY <2>8 DEF FailMedia, masterVars
    <3>2. CASE ledger[m].status \in {NoEffect, "PENDING_MEDIA"}
      <4>1. ledger'[m].status = "MEDIA_FAILED"
        BY <2>1, <2>4, <2>8, <3>2 DEF FailMedia, MarkMediaFailed, Rows, m
      <4>2. Outcome[m] = "unseen" /\ Outcome'[m] = "failed"
        BY <2>1, <3>2, <4>1 DEF Outcome, NoEffect
      <4>3. Promise!Fail(m)
        BY <2>1, <2>3, <3>1, <4>2 DEF Promise!Fail
      <4> QED
        BY <2>1, <4>3 DEF Promise!Next
    <3>3. CASE ledger[m].status \notin {NoEffect, "PENDING_MEDIA"}
      <4>1. ledger'[m].status = ledger[m].status
        BY <2>1, <2>4, <2>8, <3>3 DEF FailMedia, MarkMediaFailed, Rows, m
      <4>2. Outcome'[m] = Outcome[m]
        BY <2>1, <4>1 DEF Outcome
      <4> QED
        BY <2>5, <3>1, <4>2
    <3> QED
      BY <3>2, <3>3
  <2>9. CASE Deliver \/ DeliverRaises
    <3>1. UNCHANGED ledger /\ (UNCHANGED sent \/ sent' = [sent EXCEPT ![m] = @ + 1])
      BY <2>9 DEF Deliver, DeliverRaises, diskVars, m
    <3>2. pc = "send"
      BY <2>9 DEF Deliver, DeliverRaises
    <3>3. ledger[m].status = "RESERVED" /\ sent[m] = 0
      BY <3>2 DEF CallReserved, m
    <3>4. CASE UNCHANGED sent
      BY <1>1, <3>1, <3>4
    <3>5. CASE sent' = [sent EXCEPT ![m] = @ + 1]
      <4>1. sent' = [sent EXCEPT ![m] = 1]
        BY <2>1, <2>4, <3>3, <3>5
      <4>2. Outcome[m] = "attempting"
        BY <2>1, <3>3, OutcomeOfRow
      <4>3. UNCHANGED Outcome
        BY <3>1 DEF Outcome
      <4>4. Promise!Reach(m)
        BY <3>3, <4>1, <4>2, <4>3 DEF Promise!Reach
      <4> QED
        BY <2>1, <4>4 DEF Promise!Next
    <3> QED
      BY <3>1, <3>4, <3>5
  <2>10. CASE RecordMapping
    BY <1>1, <2>10 DEF RecordMapping, diskVars, masterVars
  <2>11. CASE RecordUncertain
    <3>1. ledger[m].status = "RESERVED"
      BY <2>11 DEF RecordUncertain, CallReserved, m
    <3>2. ledger'[m].status = "UNCERTAIN" /\ UNCHANGED sent
      BY <2>1, <2>4, <2>11, <3>1 DEF RecordUncertain, MarkUncertain, NoEffect, Rows, masterVars, m
    <3>3. Outcome[m] = "attempting" /\ Outcome'[m] = "uncertain"
      BY <2>1, <3>1, <3>2 DEF Outcome, NoEffect
    <3>4. Outcome' = [x \in Messages |-> IF x \in {m} THEN "uncertain" ELSE Outcome[x]]
      <4>1. Outcome = [x \in Messages |-> Outcome[x]]
        BY DEF Outcome
      <4>2. Outcome' = [Outcome EXCEPT ![m] = "uncertain"]
        BY <2>3, <3>3
      <4> QED
        BY <2>1, <4>1, <4>2
    <3>5. Promise!GiveUp({m})
      BY <3>2, <3>3, <3>4 DEF Promise!GiveUp
    <3> QED
      BY <2>1, <3>5 DEF Promise!Next
  <2>12. CASE RecordDelivered
    <3>1. ledger[m].status = "RESERVED" /\ sent[m] = 1
      BY <2>12 DEF RecordDelivered, CallReserved, m
    <3>2. ledger'[m].status = "DELIVERED" /\ UNCHANGED sent
      BY <2>1, <2>4, <2>12, <3>1 DEF RecordDelivered, MarkDelivered, NoEffect, Rows, masterVars, m
    <3>3. Outcome[m] = "attempting" /\ Outcome'[m] = "delivered"
      BY <2>1, <3>1, <3>2 DEF Outcome, NoEffect
    <3>4. Promise!Confirm(m)
      BY <2>3, <3>1, <3>2, <3>3 DEF Promise!Confirm
    <3> QED
      BY <2>1, <3>4 DEF Promise!Next
  <2> QED
    BY <1>3, <2>6, <2>7, <2>8, <2>9, <2>10, <2>11, <2>12 DEF Loud
<1> QED
  BY <1>1, <1>2, <1>3, OtherStepsQuiet DEF Quiet

\* Delivery implements AtMostOnce: an attempt starts only for a message at or after
\* the floor, the master is reached inside an attempt, and no ended attempt, given up
\* by an exception or by a restart, is ever taken up again.
THEOREM ImplementsAtMostOnce == Spec => KeepsPromise
<1>1. Init => Promise!Init
  BY DEF Init, Promise!Init, Outcome, EmptyLedger, NoRow, NoEffect
<1>2. Init => AtMostOnceDelivery /\ CallReserved /\ FloorRespected
  BY DeliveryAssumption
     DEF Init, AtMostOnceDelivery, CallReserved, FloorRespected, EmptyLedger, NoRow, NoEffect, Handling
<1> DEFINE Inv == TypeOK /\ WellPlaced /\ AtMostOnceDelivery /\ CallReserved /\ FloorRespected
<1>3. Inv /\ [Next]_vars => Inv'
  BY TypeStep, EffectStep, FloorStep
<1>4. Inv /\ Inv' /\ [Next]_vars => [Promise!Next]_(Promise!vars)
  BY PromiseStep
<1> QED
  BY <1>1, <1>2, <1>3, <1>4, InitWellTyped, PTL DEF Spec, KeepsPromise, Promise!Spec

-----------------------------------------------------------------------------
(***************************************************************************)
(* The checkpoint.  It may be a cursor of Core's beyond the saved one, so  *)
(* the argument is about the numbers Core gave the events: a page with     *)
(* nothing to follow ends behind the last event its head covers.           *)
(***************************************************************************)
\* The numbers of the events behind the cursor are those up to the saved one.
LEMMA SavedCursorCovers ==
  ASSUME TypeOK, WellPlaced, Numbered
  PROVE  /\ SavedCursor \in Nat /\ SavedCursor <= head
         /\ \A i \in DOMAIN stream : positions[i] <= SavedCursor => i <= cursor
<1>1. /\ DOMAIN stream = 1 .. Len(stream) /\ Len(stream) \in Nat /\ head \in Nat
      /\ cursor \in Nat /\ cursor <= Len(stream)
  BY LenProperties DEF TypeOK, WellPlaced
<1>2. \A i \in DOMAIN stream : positions[i] \in 1 .. head
  BY DEF Numbered
<1>3. CASE cursor = 0
  BY <1>1, <1>2, <1>3 DEF SavedCursor
<1>4. CASE cursor # 0
  <2>1. cursor \in DOMAIN stream /\ SavedCursor = positions[cursor]
    BY <1>1, <1>4 DEF SavedCursor
  <2>2. ASSUME NEW i \in DOMAIN stream, positions[i] <= SavedCursor PROVE i <= cursor
    <3>1. i > cursor => positions[i] > positions[cursor]
      BY <1>1, <1>2, <2>1 DEF Numbered
    <3> QED
      BY <1>1, <1>2, <2>1, <2>2, <3>1
  <2> QED
    BY <1>1, <1>2, <2>1, <2>2
<1> QED
  BY <1>3, <1>4

\* Core appends an event, to this consumer's part of the stream or elsewhere.
LEMMA PublishNumbers ==
  ASSUME TypeOK, WellPlaced, Numbered, CheckpointCovered,
         (\E e \in Catalogue : Publish(e)) \/ PublishElsewhere
  PROVE  Numbered' /\ CheckpointCovered'
<1>1. /\ DOMAIN stream = 1 .. Len(stream) /\ Len(stream) \in Nat /\ head \in Nat
      /\ page.last \in Nat /\ page.last <= Len(stream) /\ page.head \in Nat /\ checkpoint \in Nat
  BY LenProperties DEF TypeOK, WellPlaced
<1>2. UNCHANGED <<checkpoint, cursor, page>>
  BY DEF Publish, PublishElsewhere, diskVars, threadVars
<1>3. CASE PublishElsewhere
  BY <1>1, <1>2, <1>3 DEF PublishElsewhere, Numbered, CheckpointCovered
<1>4. ASSUME NEW e \in Catalogue, Publish(e) PROVE Numbered' /\ CheckpointCovered'
  <2>1. /\ stream' = Append(stream, e) /\ e \in Events
        /\ positions' = Append(positions, head + 1) /\ head' = head + 1 /\ head + 1 \in Nat
    BY <1>1, <1>4, DeliveryAssumption DEF Publish
  <2>2. /\ Len(stream') = Len(stream) + 1 /\ stream' \in Seq(Events)
        /\ \A i \in 1 .. Len(stream) : positions'[i] = positions[i]
        /\ positions'[Len(stream) + 1] = head + 1
    BY <2>1, AppendProperties DEF TypeOK
  <2>3. DOMAIN stream' = 1 .. Len(stream) + 1
    BY <2>2, LenProperties
  <2>4. \A i \in DOMAIN stream' : i \in DOMAIN stream \/ i = Len(stream) + 1
    BY <1>1, <2>3
  <2>5. \A i \in DOMAIN stream : positions[i] \in 1 .. head
    BY DEF Numbered
  <2>6. \A i \in DOMAIN stream' : positions'[i] \in 1 .. head'
    BY <1>1, <2>1, <2>2, <2>4, <2>5
  <2>7. \A i, j \in DOMAIN stream' : i < j => positions'[i] < positions'[j]
    <3>1. ASSUME NEW i \in DOMAIN stream', NEW j \in DOMAIN stream', i < j
          PROVE  positions'[i] < positions'[j]
      <4>1. i \in DOMAIN stream
        BY <1>1, <2>3, <3>1
      <4>2. CASE j \in DOMAIN stream
        BY <1>1, <2>2, <3>1, <4>1, <4>2 DEF Numbered
      <4>3. CASE j = Len(stream) + 1
        BY <1>1, <2>2, <2>5, <4>1, <4>3
      <4> QED
        BY <2>4, <4>2, <4>3
    <3> QED
      BY <3>1
  <2>8. page'.head <= head' /\ checkpoint' <= head'
    BY <1>1, <1>2, <2>1 DEF Numbered
  <2>9. ASSUME ~page'.more, NEW i \in DOMAIN stream', positions'[i] <= page'.head
        PROVE  i <= page'.last
    BY <1>1, <1>2, <2>2, <2>4, <2>9 DEF Numbered
  <2>10. CheckpointCovered'
    BY <1>1, <1>2, <2>2, <2>4 DEF Numbered, CheckpointCovered
  <2> QED
    BY <2>6, <2>7, <2>8, <2>9, <2>10 DEF Numbered
<1> QED
  BY <1>3, <1>4

\* The steps that call Core for a page, save a cursor or report a checkpoint.
LEMMA ReportNumbers ==
  ASSUME TypeOK, WellPlaced, Numbered, CheckpointCovered,
         Fetch \/ EndCycle \/ LeavePoll \/ ContractChanges
  PROVE  Numbered' /\ CheckpointCovered'
<1>1. /\ DOMAIN stream = 1 .. Len(stream) /\ Len(stream) \in Nat /\ head \in Nat /\ cursor \in Nat
      /\ page.last \in Nat /\ page.head \in Nat /\ page.more \in BOOLEAN /\ checkpoint \in Nat
      /\ \A i \in DOMAIN stream : positions[i] \in 1 .. head
  BY LenProperties DEF TypeOK, Numbered
<1>2. UNCHANGED <<stream, positions, head, cursor>>
  BY DEF Fetch, EndCycle, LeavePoll, ContractChanges, coreVars, diskVars
<1>3. CASE Fetch
  <2>1. page'.head = head /\ UNCHANGED checkpoint
    BY <1>3 DEF Fetch
  <2>2. page'.last \in Nat /\ (~page'.more => Len(stream) <= page'.last)
    <3> DEFINE last == IF cursor + PageSize < Len(stream) THEN cursor + PageSize ELSE Len(stream)
    <3>1. page' = [last |-> last, more |-> last < Len(stream), head |-> head]
      BY <1>3 DEF Fetch
    <3>2. last \in Nat
      BY <1>1, DeliveryAssumption
    <3> HIDE DEF last
    <3>3. page'.last = last /\ (~page'.more => ~(last < Len(stream)))
      BY <3>1
    <3> QED
      BY <1>1, <3>2, <3>3
  <2>3. ASSUME ~page'.more, NEW i \in DOMAIN stream PROVE i <= page'.last
    BY <1>1, <2>2, <2>3
  <2>4. page'.head <= head /\ checkpoint <= head
    BY <1>1, <2>1 DEF Numbered
  <2> QED
    BY <1>2, <2>1, <2>3, <2>4 DEF Numbered, CheckpointCovered
<1>4. checkpoint' \in {checkpoint, SavedCursor} \/ (EndCycle /\ ~page.more /\ checkpoint' = page.head)
        \/ Fetch
  BY DEF EndCycle, Reported, LeavePoll, ContractChanges
<1>5. CASE EndCycle \/ LeavePoll \/ ContractChanges
  <2>1. page' = page \/ page' = NoPage
    BY <1>5 DEF EndCycle, LeaveCycle, LeavePoll, ContractChanges, Goto
  <2>2. CheckpointCovered' /\ checkpoint' <= head
    <3>1. CASE checkpoint' \in {checkpoint, SavedCursor}
      BY <1>1, <1>2, <3>1, SavedCursorCovers DEF Numbered, CheckpointCovered
    <3>2. CASE EndCycle /\ ~page.more /\ checkpoint' = page.head
      <4>1. cursor = page.last
        BY <3>2 DEF EndCycle
      <4> QED
        BY <1>1, <1>2, <3>2, <4>1 DEF Numbered, CheckpointCovered
    <3> QED
      BY <1>3, <1>4, <1>5, <3>1, <3>2 DEF EndCycle, LeavePoll, ContractChanges, Fetch
  <2>3. page'.head <= head /\ (~page'.more => \A i \in DOMAIN stream : positions[i] <= page'.head
                                                                          => i <= page'.last)
    <3>1. CASE page' = page
      BY <3>1 DEF Numbered
    <3>2. CASE page' = NoPage
      BY <1>1, <3>2 DEF NoPage
    <3> QED
      BY <2>1, <3>1, <3>2
  <2> QED
    BY <1>2, <2>2, <2>3 DEF Numbered
<1> QED
  BY <1>3, <1>5

\* The other steps leave the stream and the checkpoint alone, and the page too unless
\* the cycle is over; the cursor only grows.
LEMMA OtherStepsReport ==
  ASSUME [Next]_vars, TypeOK,
         ~(\E e \in Catalogue : Publish(e)), ~PublishElsewhere,
         ~(Fetch \/ EndCycle \/ LeavePoll \/ ContractChanges)
  PROVE  /\ UNCHANGED <<stream, positions, head, checkpoint>>
         /\ page' = page \/ page' = NoPage
         /\ cursor' = cursor \/ (cursor' = cursor + 1 /\ pc \in {"save", "skip"})
<1> USE DEF coreVars, diskVars, threadVars, stopVars, masterVars, pastVars, Goto, Return,
            LeaveCycle, Handle, Loop
<1>1. CASE Others
  BY <1>1 DEF Others, MediaTurns, SendReturns, StoreRace
<1>2. CASE Cycle
  BY <1>2 DEF Cycle, BeginCycle, RetryMedia, RetryDeferred, BeginDeferred, EndDeferred
<1>3. CASE Dispatch
  BY <1>3 DEF Dispatch, SkipEvent, MessageEvent, ReadyEvent, RemovedEvent, SendEvent,
              LinkRaises, OtherEvent, SaveCursor
<1>4. CASE Decide
  BY <1>4 DEF Decide, SuppressEcho, SuppressTerminal, SuppressUncertain, AcceptPending,
              AcceptFirst, SuppressReprojection, DeferProvenance, Accept
<1>5. CASE Effect
  BY <1>5 DEF Effect, BuildAndReserve, DeferMedia, ParkMedia, FailMedia, Deliver,
              DeliverRaises, RecordMapping, RecordUncertain, RecordDelivered, ResolveDeferral
<1>6. CASE Life
  BY <1>6 DEF Life, Raises, Suppress, StopPolling, ProcessEnds, Restart
<1>7. CASE UNCHANGED vars
  BY <1>7 DEF vars
<1> QED
  BY <1>1, <1>2, <1>3, <1>4, <1>5, <1>6, <1>7 DEF Next

\* Every step keeps Core's numbers in order, and the checkpoint off the events that
\* are still to be handled.
LEMMA CheckpointStep ==
  ASSUME TypeOK, WellPlaced, Numbered, CheckpointCovered, [Next]_vars
  PROVE  Numbered' /\ CheckpointCovered'
<1>1. CASE (\E e \in Catalogue : Publish(e)) \/ PublishElsewhere
  BY <1>1, PublishNumbers
<1>2. CASE Fetch \/ EndCycle \/ LeavePoll \/ ContractChanges
  BY <1>2, ReportNumbers
<1>3. CASE ~((\E e \in Catalogue : Publish(e)) \/ PublishElsewhere)
             /\ ~(Fetch \/ EndCycle \/ LeavePoll \/ ContractChanges)
  <2>1. /\ UNCHANGED <<stream, positions, head, checkpoint>>
        /\ page' = page \/ page' = NoPage
        /\ cursor' = cursor \/ cursor' = cursor + 1
    BY <1>3, OtherStepsReport
  <2>2. /\ cursor \in Nat /\ checkpoint \in Nat /\ DOMAIN stream = 1 .. Len(stream)
        /\ Len(stream) \in Nat /\ head \in Nat /\ \A i \in DOMAIN stream : positions[i] \in 1 .. head
    BY LenProperties DEF TypeOK, Numbered
  <2>3. CheckpointCovered'
    BY <2>1, <2>2 DEF CheckpointCovered
  <2>4. CASE page' = page
    BY <2>1, <2>3, <2>4 DEF Numbered
  <2>5. CASE page' = NoPage
    BY <2>1, <2>2, <2>3, <2>5 DEF Numbered, NoPage
  <2> QED
    BY <2>1, <2>4, <2>5, <2>3
<1> QED
  BY <1>1, <1>2, <1>3

\* The checkpoint never covers an event of this consumer that is not behind its saved
\* cursor, for every page size, with one account or several, over every failure of the
\* checkpoint call: what Core was told is done needs no replay.
THEOREM CheckpointNeverAhead == Spec => []CheckpointCovered
<1>1. Init => Numbered /\ CheckpointCovered
  BY DEF Init, Numbered, CheckpointCovered, NoPage
<1>2. TypeOK /\ WellPlaced /\ Numbered /\ CheckpointCovered /\ [Next]_vars
        => (TypeOK /\ WellPlaced /\ Numbered /\ CheckpointCovered)'
  BY TypeStep, CheckpointStep
<1> QED
  BY <1>1, <1>2, InitWellTyped, PTL DEF Spec
=============================================================================
