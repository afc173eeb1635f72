---------------------------- MODULE ReadingProofs ----------------------------
(***************************************************************************)
(* How the poll thread reads: the echo of an own send stays quiet, and the *)
(* stream is read in order, one event after the other.                     *)
(***************************************************************************)
EXTENDS LossProofs

-----------------------------------------------------------------------------
(***************************************************************************)
(* The echo of an own send.                                                *)
(***************************************************************************)
\* What keeps the echo m quiet: its alias is in memory and in the file, it has no row,
\* and if a handler has it at hand, the handler is still before the question whether it
\* is an echo.
EchoKnown(m) == /\ m \in linked \cap aliasFile
                /\ ledger[m].status = NoEffect
                /\ cur.msg = m => pc = "handle"

\* A stored alias stays in memory and in the file, whichever save fails, unless two
\* threads meet in the store or a start cannot read the file; that is on record.
LEMMA AliasStays ==
  ASSUME [Next]_vars, NEW m, m \in linked, m \in aliasFile
  PROVE  spoiled' \/ (m \in linked' /\ m \in aliasFile')
<1> USE DEF diskVars
<1>1. CASE Others
  <2>1. ASSUME NEW x \in Own, SendReturns(x) PROVE m \in linked' /\ m \in aliasFile'
    BY <2>1 DEF SendReturns, Link, LinkUnsaved
  <2>2. CASE StoreRace
    BY <2>2 DEF StoreRace
  <2> QED
    BY <1>1, <2>1, <2>2 DEF Others, Publish, PublishElsewhere, MediaTurns
<1>2. CASE Cycle
  BY <1>2 DEF Cycle, BeginCycle, RetryMedia, RetryDeferred, BeginDeferred, EndDeferred,
              Fetch, EndCycle
<1>3. CASE Dispatch
  <2>1. CASE SendEvent
    BY <2>1 DEF SendEvent, Link
  <2>2. CASE LinkRaises
    BY <2>2 DEF LinkRaises, Link, LinkUnsaved
  <2> QED
    BY <1>3, <2>1, <2>2 DEF Dispatch, SkipEvent, MessageEvent, ReadyEvent, RemovedEvent,
                            OtherEvent, SaveCursor
<1>4. CASE Decide
  BY <1>4 DEF Decide, SuppressEcho, SuppressTerminal, SuppressUncertain, AcceptPending,
              AcceptFirst, SuppressReprojection, DeferProvenance
<1>5. CASE Effect
  BY <1>5 DEF Effect, BuildAndReserve, DeferMedia, ParkMedia, FailMedia, Deliver,
              DeliverRaises, RecordMapping, RecordUncertain, RecordDelivered, ResolveDeferral
<1>6. CASE Life
  <2>1. CASE Restart
    BY <2>1 DEF Restart
  <2> QED
    BY <1>6, <2>1 DEF Life, Raises, Suppress, StopPolling, LeavePoll, ContractChanges,
                      ProcessEnds
<1>7. CASE UNCHANGED vars
  BY <1>7 DEF vars
<1> QED
  BY <1>1, <1>2, <1>3, <1>4, <1>5, <1>6, <1>7 DEF Next

\* What spoiled the store stays on record.
LEMMA SpoiledStays == [Next]_vars /\ spoiled => spoiled'
<1> SUFFICES ASSUME [Next]_vars, spoiled PROVE spoiled'
  OBVIOUS
<1> USE DEF pastVars
<1>1. CASE Others
  BY <1>1 DEF Others, Publish, PublishElsewhere, MediaTurns, SendReturns, StoreRace
<1>2. CASE Cycle
  BY <1>2 DEF Cycle, BeginCycle, RetryMedia, RetryDeferred, BeginDeferred, EndDeferred,
              Fetch, EndCycle
<1>3. CASE Dispatch
  BY <1>3 DEF Dispatch, SkipEvent, MessageEvent, ReadyEvent, RemovedEvent, SendEvent,
              LinkRaises, OtherEvent, SaveCursor
<1>4. CASE Decide
  BY <1>4 DEF Decide, SuppressEcho, SuppressTerminal, SuppressUncertain, AcceptPending,
              AcceptFirst, SuppressReprojection, DeferProvenance
<1>5. CASE Effect
  BY <1>5 DEF Effect, BuildAndReserve, DeferMedia, ParkMedia, FailMedia, Deliver,
              DeliverRaises, RecordMapping, RecordUncertain, RecordDelivered, ResolveDeferral
<1>6. CASE Life
  BY <1>6 DEF Life, Raises, Suppress, StopPolling, LeavePoll, ContractChanges,
              ProcessEnds, Restart
<1>7. CASE UNCHANGED vars
  BY <1>7 DEF vars
<1> QED
  BY <1>1, <1>2, <1>3, <1>4, <1>5, <1>6, <1>7 DEF Next

\* A step with the known echo m at hand, at the top of the handler, takes it out of
\* the thread's hands or leaves the thread where it is.
LEMMA EchoAtHandLeaves ==
  ASSUME [Next]_vars, NEW m \in Own, m \in linked, cur.msg = m, pc = "handle"
  PROVE  /\ ledger' = ledger
         /\ cur' = NoWork \/ (cur' = cur /\ pc' = pc)
<1> USE DEF diskVars, threadVars, LeaveCycle
<1>1. CASE Others
  BY <1>1 DEF Others, Publish, PublishElsewhere, MediaTurns, SendReturns, StoreRace
<1>2. CASE Cycle
  BY <1>2 DEF Cycle, BeginCycle, RetryMedia, RetryDeferred, BeginDeferred, EndDeferred,
              Fetch, EndCycle
<1>3. CASE Dispatch
  BY <1>3 DEF Dispatch, SkipEvent, MessageEvent, ReadyEvent, RemovedEvent, SendEvent,
              LinkRaises, OtherEvent, SaveCursor, AtEvent
<1>4. CASE Decide
  BY <1>4 DEF Decide, SuppressEcho, SuppressTerminal, SuppressUncertain, AcceptPending,
              AcceptFirst, SuppressReprojection, DeferProvenance, Classified, AtHandler,
              Return
<1>5. CASE Effect
  BY <1>5 DEF Effect, BuildAndReserve, ParkMedia, FailMedia, DeferMedia, Deliver,
              DeliverRaises, RecordMapping, RecordUncertain, RecordDelivered,
              ResolveDeferral, Builds
<1>6. CASE Life
  BY <1>6 DEF Life, Raises, Suppress, StopPolling, LeavePoll, ContractChanges,
              ProcessEnds, Restart, LeaveCycle
<1>7. CASE UNCHANGED vars
  BY <1>7 DEF vars
<1> QED
  BY <1>1, <1>2, <1>3, <1>4, <1>5, <1>6, <1>7 DEF Next

\* A message comes to hand at the top of the handler, and nowhere else.
LEMMA ComesToHand ==
  ASSUME TypeOK, [Next]_vars
  PROVE  cur'.msg \in {cur.msg, NoMessage} \/ pc' = "handle"
<1> USE DEF threadVars, Goto, LeaveCycle, Loop, NoWork
<1>0. cur \in Works
  BY DEF TypeOK
<1>1. CASE Others
  BY <1>1 DEF Others, Publish, PublishElsewhere, MediaTurns, SendReturns, StoreRace
<1>2. CASE Cycle
  BY <1>2 DEF Cycle, BeginCycle, RetryMedia, RetryDeferred, BeginDeferred, EndDeferred,
              Fetch, EndCycle, Handle
<1>3. CASE Dispatch
  BY <1>3 DEF Dispatch, SkipEvent, MessageEvent, ReadyEvent, RemovedEvent, SendEvent,
              LinkRaises, OtherEvent, SaveCursor, Handle
<1>4. CASE Decide
  BY <1>0, <1>4 DEF Decide, SuppressEcho, SuppressTerminal, SuppressUncertain, AcceptPending,
              AcceptFirst, SuppressReprojection, DeferProvenance, Accept, Return, Works
<1>5. CASE Effect
  BY <1>5 DEF Effect, BuildAndReserve, ParkMedia, FailMedia, DeferMedia, Deliver,
              DeliverRaises, RecordMapping, RecordUncertain, RecordDelivered,
              ResolveDeferral, Return
<1>6. CASE Life
  BY <1>6 DEF Life, Raises, Suppress, StopPolling, LeavePoll, ContractChanges,
              ProcessEnds, Restart
<1>7. CASE UNCHANGED vars
  BY <1>7 DEF vars
<1> QED
  BY <1>1, <1>2, <1>3, <1>4, <1>5, <1>6, <1>7 DEF Next

\* A row is made by the handler that has its message at hand; a start makes none.
LEMMA NoRowOutOfHand ==
  ASSUME TypeOK, WellPlaced, [Next]_vars,
         NEW m \in Messages, cur.msg # m, ledger[m].status = NoEffect
  PROVE  ledger'[m].status = NoEffect
<1>1. ledger \in Ledgers /\ ledger[m] \in Rows
  BY DEF TypeOK, Ledgers
<1>2. CASE Loud
  <2>1. CASE Restart
    BY <1>1, <2>1 DEF Restart, ReconcileOnStartup, NoEffect
  <2>2. CASE ~Restart
    BY <1>1, <1>2, <2>2
       DEF Loud, BuildAndReserve, DeferMedia, ParkMedia, FailMedia, Deliver, DeliverRaises,
           RecordMapping, RecordUncertain, RecordDelivered, Reserve, MarkMediaPending,
           MarkMediaParked, MarkMediaFailed, MarkUncertain, MarkDelivered, diskVars, Ledgers
  <2> QED
    BY <2>1, <2>2
<1>3. CASE Quiet
  BY <1>3 DEF Quiet
<1> QED
  BY <1>2, <1>3, OtherStepsQuiet

\* A known echo stays known, unless the store gets spoiled: no retry loop, no
\* re-projection and no start makes a row of it.
LEMMA EchoStep ==
  ASSUME TypeOK, WellPlaced, [Next]_vars, NEW m \in Own, EchoKnown(m), ~spoiled'
  PROVE  EchoKnown(m)'
<1>1. m \in Messages /\ m # NoMessage
  BY DeliveryAssumption
<1>2. m \in linked' \cap aliasFile'
  BY AliasStays DEF EchoKnown
<1>3. CASE cur.msg = m
  <2>1. ledger' = ledger /\ (cur' = NoWork \/ (cur' = cur /\ pc' = pc))
    BY <1>3, EchoAtHandLeaves DEF EchoKnown
  <2> QED
    BY <1>1, <1>2, <2>1 DEF EchoKnown, NoWork
<1>4. CASE cur.msg # m
  <2>1. ledger'[m].status = NoEffect
    BY <1>1, <1>4, NoRowOutOfHand DEF EchoKnown
  <2>2. cur'.msg = m => pc' = "handle"
    BY <1>1, <1>4, ComesToHand
  <2> QED
    BY <1>2, <2>1, <2>2 DEF EchoKnown
<1> QED
  BY <1>3, <1>4

\* The echo of an own send whose alias is in memory and in the file before the thread
\* first looks at it never gets a row, whatever the order of receipt, send event, echo,
\* failed saves, retries, crashes and restarts: the master never sees it.  The one
\* exception is a store that two threads spoiled, or that could not be read back.
THEOREM EchoNeverShown == Spec => EchoStaysQuiet
<1>1. (TypeOK /\ WellPlaced) /\ [Next]_vars => (TypeOK /\ WellPlaced)'
  BY TypeStep
<1>2. ASSUME NEW m \in Own
      PROVE  Spec => [](m \in linked \cap aliasFile /\ ledger[m].status = NoEffect /\ cur.msg # m
                         => [](ledger[m].status = NoEffect \/ spoiled))
  <2> DEFINE Quieted == EchoKnown(m) \/ spoiled
  <2>1. m \in linked \cap aliasFile /\ ledger[m].status = NoEffect /\ cur.msg # m => Quieted
    BY DEF EchoKnown
  <2>2. Quieted => ledger[m].status = NoEffect \/ spoiled
    BY DEF EchoKnown
  <2>3. TypeOK /\ WellPlaced /\ Quieted /\ [Next]_vars => Quieted'
    <3>1. ASSUME TypeOK, WellPlaced, EchoKnown(m), [Next]_vars, ~spoiled' PROVE EchoKnown(m)'
      BY <3>1, EchoStep
    <3>2. [Next]_vars /\ spoiled => spoiled'
      BY SpoiledStays
    <3> QED
      BY <3>1, <3>2
  <2> HIDE DEF Quieted
  <2> QED
    BY <1>1, <2>1, <2>2, <2>3, InitWellTyped, PTL DEF Spec
<1> QED
  BY <1>2 DEF EchoStaysQuiet

-----------------------------------------------------------------------------
(***************************************************************************)
(* The thread implements StreamReader.                                     *)
(***************************************************************************)
\* A step that leaves the event behind the cursor as far as it was.
StaysPut == /\ UNCHANGED <<cursor, suppress, skipped>> /\ Len(stream') = Len(stream)
            /\ Reached' = Reached

\* A step that leaves the event behind the cursor to be read again.
LetsGo == /\ UNCHANGED <<cursor, suppress, skipped>> /\ Len(stream') = Len(stream)
          /\ Reached' = "idle"

\* Either is a step of the reader, or none.
LEMMA StaysOrLetsGo ==
  ASSUME StaysPut \/ LetsGo PROVE [Reading!Next]_(Reading!vars)
<1>1. CASE StaysPut
  BY <1>1 DEF StaysPut, Reading!vars
<1>2. CASE LetsGo
  <2>1. Reading!GiveUp
    BY <1>2 DEF LetsGo, Reading!GiveUp
  <2> QED
    BY <2>1 DEF Reading!Next
<1> QED
  BY <1>1, <1>2

\* What Core and the master do beside the thread.
LEMMA OthersRead ==
  ASSUME TypeOK, Others PROVE [Reading!Next]_(Reading!vars)
<1> USE DEF coreVars, diskVars, threadVars, stopVars, masterVars, pastVars
<1>1. CASE \E e \in Catalogue : Publish(e)
  <2>1. PICK e \in Events : stream' = Append(stream, e)
    BY <1>1, DeliveryAssumption DEF Publish
  <2>2. Len(stream') = Len(stream) + 1
    BY <2>1, AppendProperties DEF TypeOK
  <2>3. UNCHANGED <<cursor, suppress, skipped, pc, inEvent, phase>>
    BY <1>1 DEF Publish
  <2>4. Reading!Publish
    BY <2>2, <2>3 DEF Reading!Publish, Reached
  <2> QED
    BY <2>4 DEF Reading!Next
<1>2. CASE ~\E e \in Catalogue : Publish(e)
  <2>1. StaysPut
    BY <1>2 DEF Others, PublishElsewhere, MediaTurns, SendReturns, StoreRace, StaysPut, Reached
  <2> QED
    BY <2>1, StaysOrLetsGo
<1> QED
  BY <1>1, <1>2

\* The retry loops: inside an event they end in "save", outside they touch none.
LEMMA CycleReads ==
  ASSUME TypeOK, WellPlaced, EventAtHand, Cycle PROVE [Reading!Next]_(Reading!vars)
<1> USE DEF coreVars, diskVars, threadVars, stopVars, masterVars, pastVars
<1>1. CASE EndDeferred /\ inEvent
  <2>1. /\ pc = "loop" /\ inEvent /\ cursor < page.last
        /\ pc' = "save" /\ ~inEvent' /\ phase' = "event"
    BY <1>1 DEF EndDeferred, WellPlaced
  <2>2. Reached = "taken" /\ Reached' = "done"
    BY <2>1 DEF Reached, Handling
  <2>3. cursor < Len(stream)
    <3>1. cursor \in Nat /\ page.last \in Nat /\ Len(stream) \in Nat
      BY LenProperties DEF TypeOK
    <3> QED
      BY <2>1, <3>1 DEF WellPlaced
  <2>4. Reading!Handle
    BY <1>1, <2>2, <2>3 DEF EndDeferred, Reading!Handle
  <2> QED
    BY <2>4 DEF Reading!Next
<1>2. CASE ~(EndDeferred /\ inEvent)
  <2>1. StaysPut \/ LetsGo
    BY <1>2 DEF Cycle, BeginCycle, RetryMedia, RetryDeferred, BeginDeferred, EndDeferred,
                Fetch, EndCycle, Handle, Loop, LeaveCycle, StaysPut, LetsGo, Reached,
                Handling, WellPlaced, EventAtHand
  <2> QED
    BY <2>1, StaysOrLetsGo
<1> QED
  BY <1>1, <1>2

\* The loop over the page takes the next event, or handles it at once, or passes it.
LEMMA DispatchReads ==
  ASSUME TypeOK, WellPlaced, EventAtHand, Dispatch PROVE [Reading!Next]_(Reading!vars)
<1> USE DEF coreVars, diskVars, threadVars, stopVars, masterVars, pastVars
<1>1. cursor \in Nat /\ page.last \in Nat /\ Len(stream) \in Nat /\ page.last <= Len(stream)
  BY LenProperties DEF TypeOK, WellPlaced
<1>2. CASE MessageEvent \/ ReadyEvent
  <2>1. /\ pc = "events" /\ cursor < page.last /\ ~suppress
        /\ UNCHANGED <<cursor, suppress, skipped, stream>>
    BY <1>2 DEF MessageEvent, ReadyEvent, AtEvent
  <2>2. phase = "event" /\ ~inEvent
    BY <2>1 DEF WellPlaced, EventAtHand
  <2>3. Reached = "idle" /\ Reached' = "taken"
    BY <1>2, <2>1, <2>2 DEF MessageEvent, ReadyEvent, Handle, Loop, Reached, Handling
  <2>4. Reading!Take
    BY <1>1, <2>1, <2>3 DEF Reading!Take
  <2> QED
    BY <2>4 DEF Reading!Next
<1>3. CASE RemovedEvent \/ SendEvent \/ OtherEvent
  <2>1. /\ pc = "events" /\ cursor < page.last /\ ~suppress /\ pc' = "save"
        /\ UNCHANGED <<cursor, suppress, skipped, stream, inEvent>>
    BY <1>3 DEF RemovedEvent, SendEvent, OtherEvent, AtEvent, Goto
  <2>2. phase = "event" /\ ~inEvent
    BY <2>1 DEF WellPlaced, EventAtHand
  <2>3. Reached = "idle" /\ Reached' = "done"
    BY <2>1, <2>2 DEF Reached, Handling
  <2>4. Reading!Handle
    BY <1>1, <2>1, <2>3 DEF Reading!Handle
  <2> QED
    BY <2>4 DEF Reading!Next
<1>4. CASE SkipEvent
  <2>1. /\ pc = "events" /\ cursor < page.last /\ suppress /\ pc' = "skip"
        /\ UNCHANGED <<cursor, suppress, skipped, stream, inEvent>>
    BY <1>4 DEF SkipEvent, Goto
  <2>2. phase = "event" /\ ~inEvent
    BY <2>1 DEF WellPlaced, EventAtHand
  <2>3. Reached = "idle" /\ Reached' = "passed"
    BY <2>1, <2>2 DEF Reached, Handling
  <2>4. Reading!PassOver
    BY <1>1, <2>1, <2>3 DEF Reading!PassOver
  <2> QED
    BY <2>4 DEF Reading!Next
<1>5. CASE SaveCursor
  <2>1. /\ pc \in {"save", "skip"} /\ pc' = "events" /\ cursor' = cursor + 1
        /\ skipped' = IF pc = "skip" THEN skipped \cup {cursor + 1} ELSE skipped
        /\ UNCHANGED <<suppress, stream, phase, inEvent>>
    BY <1>5 DEF SaveCursor, Goto
  <2>2. phase = "event" /\ ~inEvent
    BY <2>1 DEF WellPlaced, EventAtHand
  <2>3. /\ Reached = IF pc = "skip" THEN "passed" ELSE "done"
        /\ Reached' = "idle"
    BY <2>1, <2>2 DEF Reached, Handling
  <2>4. Reading!Advance
    BY <2>1, <2>3 DEF Reading!Advance
  <2> QED
    BY <2>4 DEF Reading!Next
<1>6. CASE LinkRaises
  <2>1. LetsGo
    BY <1>6 DEF LinkRaises, LeaveCycle, LetsGo, Reached, Handling
  <2> QED
    BY <2>1, StaysOrLetsGo
<1> QED
  BY <1>2, <1>3, <1>4, <1>5, <1>6 DEF Dispatch

\* A handler that returns to the page has done its event, one that returns to a retry
\* loop has not.
LEMMA ReturnReads ==
  ASSUME TypeOK, WellPlaced, EventAtHand, pc \in Handling, Return,
         UNCHANGED <<cursor, suppress, skipped, stream>>
  PROVE  [Reading!Next]_(Reading!vars)
<1> USE DEF coreVars, diskVars, threadVars, stopVars, masterVars, pastVars
<1>1. CASE phase = "event"
  <2>1. pc' = "save" /\ ~inEvent /\ inEvent' = inEvent /\ cursor < page.last
    BY <1>1 DEF Return, WellPlaced
  <2>2. Reached = "taken" /\ Reached' = "done"
    BY <1>1, <2>1 DEF Reached, Handling
  <2>3. cursor < Len(stream)
    <3>1. cursor \in Nat /\ page.last \in Nat /\ Len(stream) \in Nat
      BY LenProperties DEF TypeOK
    <3> QED
      BY <2>1, <3>1 DEF WellPlaced
  <2>4. Reading!Handle
    BY <2>2, <2>3 DEF Reading!Handle
  <2> QED
    BY <2>4 DEF Reading!Next
<1>2. CASE phase # "event"
  <2>1. StaysPut
    BY <1>2 DEF Return, StaysPut, Reached, Handling
  <2> QED
    BY <2>1, StaysOrLetsGo
<1> QED
  BY <1>1, <1>2

\* The decision and the effect: the handler goes on, returns, or leaves the cycle.
LEMMA HandlerReads ==
  ASSUME TypeOK, WellPlaced, EventAtHand, Decide \/ Effect
  PROVE  [Reading!Next]_(Reading!vars)
<1> USE DEF coreVars, diskVars, threadVars, stopVars, masterVars, pastVars
<1>1. pc \in Handling /\ UNCHANGED <<cursor, suppress, skipped, stream>>
  <2>1. CASE Decide
    BY <2>1 DEF Decide, SuppressEcho, SuppressTerminal, SuppressUncertain, AcceptPending,
                AcceptFirst, SuppressReprojection, DeferProvenance, AtHandler, Classified,
                Handling
  <2>2. CASE Effect
    BY <2>2 DEF Effect, BuildAndReserve, ParkMedia, FailMedia, DeferMedia, Deliver,
                DeliverRaises, RecordMapping, RecordUncertain, RecordDelivered,
                ResolveDeferral, Builds, Handling
  <2> QED
    BY <2>1, <2>2
<1>2. \/ Return
      \/ LeaveCycle
      \/ pc' \in Handling /\ UNCHANGED <<phase, inEvent>>
  <2>1. CASE Decide
    BY <2>1 DEF Decide, SuppressEcho, SuppressTerminal, SuppressUncertain, AcceptPending,
                AcceptFirst, SuppressReprojection, DeferProvenance, Accept, Handling
  <2>2. CASE Effect
    BY <2>2 DEF Effect, BuildAndReserve, ParkMedia, FailMedia, DeferMedia, Deliver,
                DeliverRaises, RecordMapping, RecordUncertain, RecordDelivered,
                ResolveDeferral, Goto, Handling
  <2> QED
    BY <2>1, <2>2
<1>3. CASE Return
  BY <1>1, <1>3, ReturnReads
<1>4. CASE LeaveCycle
  <2>1. LetsGo
    BY <1>1, <1>4 DEF LeaveCycle, LetsGo, Reached, Handling
  <2> QED
    BY <2>1, StaysOrLetsGo
<1>5. CASE pc' \in Handling /\ UNCHANGED <<phase, inEvent>>
  <2>1. StaysPut
    BY <1>1, <1>5 DEF StaysPut, Reached, Handling
  <2> QED
    BY <2>1, StaysOrLetsGo
<1> QED
  BY <1>2, <1>3, <1>4, <1>5

\* Exceptions, the shutdown and the end of the process.
LEMMA LifeReads ==
  ASSUME TypeOK, WellPlaced, EventAtHand, Life PROVE [Reading!Next]_(Reading!vars)
<1> USE DEF coreVars, diskVars, threadVars, stopVars, masterVars, pastVars
<1>1. CASE Suppress
  <2>1. Reading!Close
    BY <1>1 DEF Suppress, Reading!Close, Reached
  <2> QED
    BY <2>1 DEF Reading!Next
<1>2. CASE ProcessEnds
  <2>1. Reached' = "idle"
    BY <1>2 DEF ProcessEnds, Reached, Handling
  <2>2. Reading!End
    BY <1>2, <2>1 DEF ProcessEnds, Reading!End
  <2> QED
    BY <2>2 DEF Reading!Next
<1>3. CASE Raises
  <2>1. LetsGo
    BY <1>3 DEF Raises, LeaveCycle, LetsGo, Reached, Handling
  <2> QED
    BY <2>1, StaysOrLetsGo
<1>4. CASE StopPolling \/ LeavePoll \/ ContractChanges \/ Restart
  <2>1. StaysPut
    BY <1>4 DEF StopPolling, LeavePoll, ContractChanges, Restart, Goto, StaysPut, Reached,
                Handling
  <2> QED
    BY <2>1, StaysOrLetsGo
<1> QED
  BY <1>1, <1>2, <1>3, <1>4 DEF Life

\* The poll thread reads in order: for every stream, page size, exception, crash and
\* restart, the saved cursor moves by one event at a time, over an event whose handler
\* and inner retry loops are done, or, once the shutdown has begun, over one that is
\* recorded as missed.
THEOREM StreamReadInOrder == Spec => ReadsInOrder
<1>1. Init => Reading!Init
  BY EmptySeq DEF Init, Reading!Init, Reached, Handling
<1>2. Init => EventAtHand
  BY EmptySeq DEF Init, EventAtHand, Handling
<1> DEFINE Inv == TypeOK /\ WellPlaced /\ EventAtHand
<1>3. Inv /\ [Next]_vars => Inv'
  BY TypeStep, EventStep
<1>4. Inv /\ [Next]_vars => [Reading!Next]_(Reading!vars)
  <2> SUFFICES ASSUME Inv, [Next]_vars PROVE [Reading!Next]_(Reading!vars)
    OBVIOUS
  <2>1. CASE UNCHANGED vars
    <3>1. StaysPut
      BY <2>1 DEF vars, coreVars, diskVars, threadVars, stopVars, pastVars, StaysPut, Reached
    <3> QED
      BY <3>1, StaysOrLetsGo
  <2> QED
    BY <2>1, OthersRead, CycleReads, DispatchReads, HandlerReads, LifeReads DEF Next
<1> QED
  BY <1>1, <1>2, <1>3, <1>4, InitWellTyped, PTL DEF Spec, ReadsInOrder, Reading!Spec
=============================================================================
