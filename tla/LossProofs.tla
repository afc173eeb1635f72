----------------------------- MODULE LossProofs -----------------------------
(***************************************************************************)
(* No message this consumer owes gets lost behind the cursor, and no media *)
(* that Core may still serve is given up.                                  *)
(***************************************************************************)
EXTENDS DeliveryProofs

-----------------------------------------------------------------------------
(***************************************************************************)
(* What Core, and what this thread, remember.                              *)
(***************************************************************************)
\* Core acts on its own: no step of the slave touches the stream or the media.
LEMMA CoreActs ==
  ASSUME [Next]_vars
  PROVE  \/ \E e \in Catalogue : Publish(e)
         \/ PublishElsewhere
         \/ \E m \in Media, what \in {"partial", "broken"} : MediaTurns(m, what)
         \/ UNCHANGED coreVars
<1>1. CASE Others
  BY <1>1 DEF Others, SendReturns, StoreRace
<1>2. CASE Cycle
  BY <1>2 DEF Cycle, BeginCycle, RetryMedia, RetryDeferred, BeginDeferred, EndDeferred,
              Fetch, EndCycle
<1>3. CASE Dispatch
  BY <1>3 DEF Dispatch, SkipEvent, MessageEvent, ReadyEvent, RemovedEvent, SendEvent,
              LinkRaises, OtherEvent, SaveCursor
<1>4. CASE Decide
  BY <1>4 DEF Decide, SuppressEcho, SuppressTerminal, SuppressUncertain, AcceptPending,
              AcceptFirst, SuppressReprojection, DeferProvenance
<1>5. CASE Effect
  BY <1>5 DEF Effect, BuildAndReserve, DeferMedia, ParkMedia, FailMedia, Deliver,
              DeliverRaises, RecordMapping, RecordUncertain, RecordDelivered, ResolveDeferral
<1>6. CASE Life
  BY <1>6 DEF Life, Raises, Suppress, StopPolling, LeavePoll, ContractChanges,
              ProcessEnds, Restart
<1>7. CASE UNCHANGED vars
  BY <1>7 DEF vars
<1> QED
  BY <1>1, <1>2, <1>3, <1>4, <1>5, <1>6, <1>7 DEF Next

-----------------------------------------------------------------------------
(***************************************************************************)
(* What is accounted for stays so: rows are never deleted, the deferral    *)
(* store loses an entry only to a row or to the dropped, echoes stay known.  *)
(***************************************************************************)
\* No transaction, and no start, deletes a row.
LEMMA RowStays ==
  ASSUME TypeOK, WellPlaced, [Next]_vars, NEW m \in Messages, ledger[m].status # NoEffect
  PROVE  ledger'[m].status # NoEffect
<1> USE DEF coreVars, diskVars
<1>1. CASE Loud
  <2>1. CASE Restart
    BY <2>1 DEF Restart, ReconcileOnStartup, NoEffect
  <2>2. CASE ~Restart
    <3>1. pc \in Handling /\ cur.msg \in Messages /\ ledger \in Ledgers
      BY <1>1, <2>2 DEF Loud, BuildAndReserve, DeferMedia, ParkMedia, FailMedia, Deliver,
           DeliverRaises, RecordMapping, RecordUncertain, RecordDelivered, Builds, WellPlaced,
           Handling, TypeOK
    <3> USE DEF Ledgers, NoEffect
    <3>2. CASE BuildAndReserve
      <4>1. ledger' = Reserve(ledger, cur.msg) \/ ledger' = ledger
        BY <3>2 DEF BuildAndReserve
      <4>2. ledger' = [ledger EXCEPT ![cur.msg].status = "RESERVED"] \/ ledger' = ledger
        BY <4>1 DEF Reserve
      <4> QED
        BY <3>1, <4>2 DEF Rows
    <3>3. CASE \E late \in BOOLEAN : DeferMedia(late)
      BY <3>1, <3>3 DEF DeferMedia, MarkMediaPending
    <3>4. CASE ParkMedia
      BY <3>1, <3>4 DEF ParkMedia, MarkMediaParked
    <3>5. CASE FailMedia
      BY <3>1, <3>5 DEF FailMedia, MarkMediaFailed
    <3>6. CASE RecordUncertain
      BY <3>1, <3>6 DEF RecordUncertain, MarkUncertain
    <3>7. CASE RecordDelivered
      BY <3>1, <3>7 DEF RecordDelivered, MarkDelivered
    <3>8. CASE Deliver \/ DeliverRaises \/ RecordMapping
      BY <3>8 DEF Deliver, DeliverRaises, RecordMapping
    <3> QED
      BY <1>1, <2>2, <3>2, <3>3, <3>4, <3>5, <3>6, <3>7, <3>8 DEF Loud
  <2> QED
    BY <2>1, <2>2
<1>2. CASE Quiet
  BY <1>2 DEF Quiet
<1> QED
  BY <1>1, <1>2, OtherStepsQuiet

\* Three steps write the deferral store.
Deferring == SuppressTerminal \/ ResolveDeferral \/ DeferProvenance

\* All other steps leave the store, and what was dropped from it, alone.
LEMMA OtherStepsKeepDeferrals ==
  ASSUME [Next]_vars, ~Deferring
  PROVE  deferred' = deferred /\ dropped' = dropped
<1> USE DEF diskVars, pastVars, Deferring
<1>1. CASE Others
  BY <1>1 DEF Others, Publish, PublishElsewhere, MediaTurns, SendReturns, StoreRace
<1>2. CASE Cycle
  BY <1>2 DEF Cycle, BeginCycle, RetryMedia, RetryDeferred, BeginDeferred, EndDeferred,
              Fetch, EndCycle
<1>3. CASE Dispatch
  BY <1>3 DEF Dispatch, SkipEvent, MessageEvent, ReadyEvent, RemovedEvent, SendEvent,
              LinkRaises, OtherEvent, SaveCursor
<1>4. CASE Decide
  BY <1>4 DEF Decide, SuppressEcho, SuppressUncertain, AcceptPending, AcceptFirst,
              SuppressReprojection
<1>5. CASE Effect
  BY <1>5 DEF Effect, BuildAndReserve, DeferMedia, ParkMedia, FailMedia, Deliver,
              DeliverRaises, RecordMapping, RecordUncertain, RecordDelivered
<1>6. CASE Life
  BY <1>6 DEF Life, Raises, Suppress, StopPolling, LeavePoll, ContractChanges,
              ProcessEnds, Restart
<1>7. CASE UNCHANGED vars
  BY <1>7 DEF vars
<1> QED
  BY <1>1, <1>2, <1>3, <1>4, <1>5, <1>6, <1>7 DEF Next

\* An echo that was recognised is on record.
LEMMA EchoedStays == [Next]_vars => echoed \subseteq echoed'
<1> SUFFICES ASSUME [Next]_vars PROVE echoed \subseteq echoed'
  OBVIOUS
<1> USE DEF pastVars
<1>1. CASE Others
  BY <1>1 DEF Others, Publish, PublishElsewhere, MediaTurns, SendReturns, StoreRace
<1>2. CASE Cycle
  BY <1>2 DEF Cycle, BeginCycle, RetryMedia, RetryDeferred, BeginDeferred, EndDeferred,
              Fetch, EndCycle
<1>3. CASE Dispatch
  BY <1>3 DEF Dispatch, SkipEvent, MessageEvent, ReadyEvent, RemovedEvent, SendEvent,
              LinkRaises, OtherEvent, SaveCursor
<1>4. CASE Decide
  BY <1>4 DEF Decide, SuppressEcho, SuppressTerminal, SuppressUncertain, AcceptPending,
              AcceptFirst, SuppressReprojection, DeferProvenance
<1>5. CASE Effect
  BY <1>5 DEF Effect, BuildAndReserve, DeferMedia, ParkMedia, FailMedia, Deliver,
              DeliverRaises, RecordMapping, RecordUncertain, RecordDelivered, ResolveDeferral
<1>6. CASE Life
  BY <1>6 DEF Life, Raises, Suppress, StopPolling, LeavePoll, ContractChanges,
              ProcessEnds, Restart
<1>7. CASE UNCHANGED vars
  BY <1>7 DEF vars
<1> QED
  BY <1>1, <1>2, <1>3, <1>4, <1>5, <1>6, <1>7 DEF Next

\* A message that is accounted for stays so across every step: what leaves the store
\* has a row by then, or is dropped from the full store.
LEMMA AccountedStays ==
  ASSUME TypeOK, WellPlaced, EventAtHand, [Next]_vars, NEW m \in Messages, Accounted(m)
  PROVE  Accounted(m)'
<1>1. ledger[m].status # NoEffect => ledger'[m].status # NoEffect
  BY RowStays
<1>2. echoed \subseteq echoed'
  BY EchoedStays
<1>3. deferred \in Seq(DeferralEntries(Messages, MediaStatuses))
  BY DEF TypeOK
<1>4. CASE SuppressTerminal
  <2>1. deferred' = Resolve(deferred, cur.msg) /\ dropped' = dropped
    BY <1>4 DEF SuppressTerminal, pastVars
  <2>2. m = cur.msg => ledger[m].status # NoEffect
    BY <1>4 DEF SuppressTerminal, Status, Terminal, NoEffect
  <2>3. m # cur.msg /\ IsDeferred(deferred, m) => IsDeferred(deferred', m)
    BY <1>3, <2>1, ResolveKeepsStore
  <2> QED
    BY <1>1, <1>2, <2>1, <2>2, <2>3 DEF Accounted
<1>5. CASE ResolveDeferral
  <2>1. deferred' = Resolve(deferred, cur.msg) /\ dropped' = dropped
    BY <1>5 DEF ResolveDeferral, pastVars
  <2>2. m = cur.msg => ledger[m].status # NoEffect
    BY <1>5 DEF ResolveDeferral, EventAtHand, Status, Handling
  <2>3. m # cur.msg /\ IsDeferred(deferred, m) => IsDeferred(deferred', m)
    BY <1>3, <2>1, ResolveKeepsStore
  <2> QED
    BY <1>1, <1>2, <2>1, <2>2, <2>3 DEF Accounted
<1>6. CASE DeferProvenance
  <2>1. /\ deferred' = Defer(deferred, cur.msg, cur.origin, cur.status)
        /\ dropped' = dropped \cup Dropped(deferred, cur.msg, cur.origin, cur.status)
    BY <1>6 DEF DeferProvenance
  <2>2. cur.msg \in Messages /\ cur.origin \in Origins /\ cur.status \in MediaStatuses
    BY <1>6 DEF DeferProvenance, Classified, AtHandler, Handling, WellPlaced, TypeOK, Works
  <2>3. IsDeferred(deferred, m) => IsDeferred(deferred', m) \/ m \in dropped'
    BY <1>3, <2>1, <2>2, DeferKeepsOrDrops
  <2> QED
    BY <1>1, <1>2, <2>1, <2>3 DEF Accounted
<1>7. CASE ~Deferring
  BY <1>1, <1>2, <1>7, OtherStepsKeepDeferrals DEF Accounted
<1> QED
  BY <1>4, <1>5, <1>6, <1>7 DEF Deferring

-----------------------------------------------------------------------------
(***************************************************************************)
(* The event behind the cursor.                                            *)
(***************************************************************************)
\* Core only appends: what is in the stream stays where it is.
LEMMA StreamGrows ==
  ASSUME TypeOK, [Next]_vars
  PROVE  /\ Len(stream) \in Nat /\ Len(stream) <= Len(stream')
         /\ \A i \in 1 .. Len(stream) : stream'[i] = stream[i]
<1>1. stream \in Seq(Events) /\ Len(stream) \in Nat
  BY LenProperties DEF TypeOK
<1>2. CASE \E e \in Catalogue : Publish(e)
  <2>1. PICK e \in Events : stream' = Append(stream, e)
    BY <1>2, DeliveryAssumption DEF Publish
  <2>2. /\ Len(stream') = Len(stream) + 1
        /\ \A i \in 1 .. Len(stream) : stream'[i] = stream[i]
    BY <1>1, <2>1, AppendProperties
  <2> QED
    BY <1>1, <2>2
<1>3. CASE stream' = stream
  BY <1>1, <1>3
<1> QED
  BY <1>2, <1>3, CoreActs DEF PublishElsewhere, MediaTurns, coreVars

\* What is accounted for at a place of the stream stays accounted for there.
LEMMA AccountedAtStays ==
  ASSUME TypeOK, WellPlaced, EventAtHand, [Next]_vars,
         NEW i \in 1 .. Len(stream), AccountedAt(i)
  PROVE  AccountedAt(i)'
<1>1. stream'[i] = stream[i] /\ stream[i].msg \in Messages
  <2>1. stream[i] \in Events
    BY ElementOfSeq DEF TypeOK
  <2> QED
    BY <2>1, StreamGrows DEF Events
<1>2. Accounted(stream[i].msg) => Accounted(stream[i].msg)'
  BY <1>1, AccountedStays
<1> QED
  BY <1>1, <1>2 DEF AccountedAt, Accounted

\* The event at the cursor stays the one at hand while the cursor stays.
LEMMA UpcomingStays ==
  ASSUME TypeOK, WellPlaced, EventAtHand, [Next]_vars, cursor' = cursor, cursor < page.last
  PROVE  /\ Upcoming' = Upcoming /\ cursor' <= Len(stream')
         /\ AccountedAt(cursor + 1) => AccountedAt(cursor + 1)'
<1>1. cursor \in Nat /\ page.last \in Nat /\ page.last <= Len(stream)
  BY DEF TypeOK, WellPlaced
<1>2. /\ Len(stream) \in Nat /\ Len(stream) <= Len(stream')
      /\ \A i \in 1 .. Len(stream) : stream'[i] = stream[i]
  BY StreamGrows
<1>3. Len(stream') \in Nat
  <2>1. TypeOK'
    BY TypeStep
  <2> QED
    BY <2>1, LenProperties DEF TypeOK
<1>4. cursor + 1 \in 1 .. Len(stream)
  BY <1>1, <1>2
<1>5. Upcoming' = Upcoming
  BY <1>2, <1>4 DEF Upcoming
<1>6. AccountedAt(cursor + 1) => AccountedAt(cursor + 1)'
  <2>1. ASSUME NEW i \in 1 .. Len(stream), i = cursor + 1, AccountedAt(i)
        PROVE  AccountedAt(cursor + 1)'
    <3>1. AccountedAt(i)'
      BY <2>1, AccountedAtStays
    <3> QED
      BY <2>1, <3>1 DEF AccountedAt, Accounted
  <2> QED
    BY <1>4, <2>1
<1> QED
  BY <1>1, <1>2, <1>3, <1>4, <1>5, <1>6

\* A handler that returns leaves its message accounted for, or it was not owed.
LEMMA ReturnsDone ==
  ASSUME TypeOK, WellPlaced, EventAtHand, [Next]_vars, pc \in Handling, Return,
         cursor' = cursor, NEW m \in Messages, m = cur.msg, Accounted(m)' \/ m \in PreFloor
  PROVE  EventAtHand'
<1>1. CASE phase = "event"
  <2>1. Upcoming.msg = m /\ Upcoming' = Upcoming
    BY <1>1, UpcomingStays DEF EventAtHand, WellPlaced
  <2>2. pc' = "save" /\ phase' = "event" /\ page' = page /\ inEvent' = inEvent /\ ~inEvent
    BY <1>1 DEF Return, WellPlaced
  <2>3. AccountedAt(cursor + 1)'
    BY <2>1 DEF AccountedAt, Accounted, Upcoming
  <2> QED
    BY <2>1, <2>2, <2>3 DEF EventAtHand, Handling, AccountedAt, Accounted
<1>2. CASE phase # "event"
  <2>1. pc' = "loop" /\ phase' = phase /\ inEvent' = inEvent /\ todo' = todo
    BY <1>2 DEF Return
  <2>2. inEvent => Upcoming' = Upcoming
    BY UpcomingStays DEF WellPlaced
  <2> QED
    BY <1>2, <2>1, <2>2 DEF EventAtHand, Handling
<1> QED
  BY <1>1, <1>2

\* A step that leaves the thread where it is, or takes it out of the cycle.
Leaves == \/ UNCHANGED <<pc, cur, phase, todo, inEvent, ledger>>
          \/ /\ pc' \notin Handling \cup {"save", "skip"}
             /\ inEvent' = FALSE \/ UNCHANGED <<phase, todo, inEvent>>

\* Such a step has no event to lose.
LEMMA LeavesKeeps ==
  ASSUME TypeOK, WellPlaced, EventAtHand, [Next]_vars, Leaves, cursor' = cursor
  PROVE  EventAtHand'
<1>1. inEvent => Upcoming' = Upcoming
  BY UpcomingStays DEF WellPlaced
<1>2. CASE UNCHANGED <<pc, cur, phase, todo, inEvent, ledger>>
  <2>1. pc \in Handling \cup {"save", "skip"} /\ phase = "event" =>
          /\ Upcoming' = Upcoming
          /\ AccountedAt(cursor + 1) => AccountedAt(cursor + 1)'
    BY UpcomingStays DEF WellPlaced
  <2>2. pc = "save" => phase = "event" /\ AccountedAt(cursor + 1)
    BY DEF WellPlaced, EventAtHand
  <2>3. pc' = "save" => AccountedAt(cursor + 1)'
    BY <1>2, <2>1, <2>2
  <2>4. Status' = Status
    BY <1>2 DEF Status
  <2> HIDE DEF Status
  <2> QED
    BY <1>1, <1>2, <2>1, <2>3, <2>4 DEF EventAtHand
<1>3. CASE /\ pc' \notin Handling \cup {"save", "skip"}
           /\ inEvent' = FALSE \/ UNCHANGED <<phase, todo, inEvent>>
  BY <1>1, <1>3 DEF EventAtHand, Handling
<1> QED
  BY <1>2, <1>3 DEF Leaves

\* The retry loops and the fetch: the event behind the cursor is not touched.
LEMMA CycleKeepsEvent ==
  ASSUME TypeOK, WellPlaced, EventAtHand, [Next]_vars, Cycle
  PROVE  EventAtHand'
<1> USE DEF diskVars
<1>1. CASE \E S \in SUBSET Messages : BeginCycle(S)
  <2>1. Leaves /\ cursor' = cursor
    BY <1>1 DEF BeginCycle, Loop, Leaves, Handling
  <2> QED
    BY <2>1, LeavesKeeps
<1>2. CASE \E m \in Messages : RetryMedia(m) \/ RetryDeferred(m)
  <2>1. /\ pc' = "handle" /\ phase' = phase /\ phase # "event"
        /\ inEvent' = inEvent /\ todo' \subseteq todo /\ cursor' = cursor /\ stream' = stream
    BY <1>2 DEF RetryMedia, RetryDeferred, Handle, coreVars
  <2>2. Upcoming' = Upcoming
    BY <2>1 DEF Upcoming
  <2> QED
    BY <2>1, <2>2 DEF EventAtHand, Handling
<1>3. CASE BeginDeferred
  <2>1. /\ pc' = "loop" /\ phase' = "deferred"
        /\ inEvent' = inEvent /\ cursor' = cursor /\ stream' = stream
    BY <1>3 DEF BeginDeferred, Loop, coreVars
  <2>2. Upcoming' = Upcoming
    BY <2>1 DEF Upcoming
  <2> QED
    BY <2>1, <2>2 DEF EventAtHand, Handling
<1>4. CASE EndDeferred
  <2>1. /\ pc' = IF inEvent THEN "save" ELSE "fetch"
        /\ phase' = "event" /\ inEvent' = FALSE /\ cursor' = cursor /\ stream' = stream
    BY <1>4 DEF EndDeferred, coreVars
  <2>2. Upcoming' = Upcoming
    BY <2>1 DEF Upcoming
  <2>3. inEvent \in BOOLEAN
    BY DEF TypeOK
  <2>4. pc' = "save" => Upcoming'.kind # "message"
    BY <2>1, <2>2 DEF EventAtHand
  <2>5. pc' = "save" => AccountedAt(cursor + 1)'
    BY <2>4 DEF AccountedAt, Upcoming
  <2> QED
    BY <2>1, <2>3, <2>5 DEF EventAtHand, Handling
<1>5. CASE Fetch
  <2>1. pc' = "events" /\ phase' = "event" /\ inEvent' = FALSE
    BY <1>5 DEF Fetch, WellPlaced, TypeOK
  <2> QED
    BY <2>1 DEF EventAtHand, Handling
<1>6. CASE EndCycle
  <2>1. Leaves /\ cursor' = cursor
    BY <1>6 DEF EndCycle, LeaveCycle, Leaves, Handling
  <2> QED
    BY <2>1, LeavesKeeps
<1> QED
  BY <1>1, <1>2, <1>3, <1>4, <1>5, <1>6 DEF Cycle

\* The loop over the page takes up an event, or saves the cursor of one that is done.
LEMMA DispatchKeepsEvent ==
  ASSUME TypeOK, WellPlaced, EventAtHand, [Next]_vars, Dispatch
  PROVE  EventAtHand'
<1> USE DEF diskVars
<1>1. pc \in {"events", "save", "skip"} /\ phase = "event" /\ inEvent = FALSE
  <2>1. pc \in {"events", "save", "skip"}
    BY DEF Dispatch, SkipEvent, MessageEvent, ReadyEvent, RemovedEvent, SendEvent,
           LinkRaises, OtherEvent, SaveCursor, AtEvent
  <2> QED
    BY <2>1 DEF WellPlaced, EventAtHand, TypeOK
<1>2. CASE SaveCursor
  <2>1. pc' = "events" /\ inEvent' = FALSE
    BY <1>1, <1>2 DEF SaveCursor, Goto
  <2> QED
    BY <2>1 DEF EventAtHand, Handling
<1>3. CASE LinkRaises
  <2>1. Leaves /\ cursor' = cursor
    BY <1>3 DEF LinkRaises, LeaveCycle, Leaves, Handling
  <2> QED
    BY <2>1, LeavesKeeps
<1>4. CASE ~SaveCursor /\ ~LinkRaises
  <2>1. cursor' = cursor /\ stream' = stream
    BY <1>4 DEF Dispatch, SkipEvent, MessageEvent, ReadyEvent, RemovedEvent, SendEvent,
                OtherEvent, coreVars
  <2>2. Upcoming' = Upcoming
    BY <2>1 DEF Upcoming
  <2>3. CASE SkipEvent
    BY <1>1, <2>3 DEF SkipEvent, Goto, EventAtHand, Handling
  <2>4. CASE MessageEvent
    <3>1. /\ pc' = "handle" /\ cur'.msg = Upcoming.msg /\ Upcoming.kind = "message"
          /\ inEvent' = inEvent
      BY <2>4 DEF MessageEvent, AtEvent, Handle
    <3> QED
      BY <1>1, <2>2, <3>1 DEF EventAtHand, Handling
  <2>5. CASE ReadyEvent
    <3>1. /\ pc' = "loop" /\ phase' = "media" /\ inEvent' = TRUE /\ Upcoming.kind = "ready"
          /\ todo' \subseteq {Upcoming.msg}
      BY <2>5 DEF ReadyEvent, AtEvent, Loop, ReadyMedia
    <3> QED
      BY <2>2, <3>1 DEF EventAtHand, Handling
  <2>6. CASE RemovedEvent \/ SendEvent \/ OtherEvent
    <3>1. pc' = "save" /\ Upcoming.kind # "message" /\ phase' = phase /\ inEvent' = inEvent
      BY <2>6 DEF RemovedEvent, SendEvent, OtherEvent, AtEvent, Goto
    <3>2. AccountedAt(cursor + 1)'
      BY <2>2, <3>1 DEF AccountedAt, Upcoming
    <3> QED
      BY <1>1, <2>1, <3>1, <3>2 DEF EventAtHand, Handling
  <2> QED
    BY <1>4, <2>3, <2>4, <2>5, <2>6 DEF Dispatch
<1> QED
  BY <1>2, <1>3, <1>4

\* The decision: whoever returns here has accounted for the message.
LEMMA DecideKeepsEvent ==
  ASSUME TypeOK, WellPlaced, EventAtHand, [Next]_vars, Decide
  PROVE  EventAtHand'
<1> USE DEF diskVars
<1>1. /\ pc = "handle" /\ pc \in Handling /\ cursor' = cursor /\ ledger' = ledger
      /\ linked' = linked /\ stream' = stream
  BY DEF Decide, SuppressEcho, SuppressTerminal, SuppressUncertain, AcceptPending,
         AcceptFirst, SuppressReprojection, DeferProvenance, Classified, AtHandler,
         Handling, coreVars
<1>2. PICK m \in Messages : m = cur.msg
  BY <1>1 DEF WellPlaced
<1>3. cur.origin \in Origins /\ cur.status \in MediaStatuses
  BY DEF TypeOK, Works
<1>4. CASE SuppressEcho
  <2>1. Accounted(m)' /\ Return
    BY <1>1, <1>2, <1>4 DEF SuppressEcho, Accounted
  <2> QED
    BY <1>1, <1>2, <2>1, ReturnsDone
<1>5. CASE SuppressTerminal \/ SuppressUncertain
  <2>1. ledger[m].status # NoEffect /\ Return
    BY <1>2, <1>5 DEF SuppressTerminal, SuppressUncertain, Status, Terminal, FailClosed, NoEffect
  <2>2. Accounted(m)'
    BY <1>1, <2>1 DEF Accounted
  <2> QED
    BY <1>1, <1>2, <2>1, <2>2, ReturnsDone
<1>6. CASE SuppressReprojection
  <2>1. Reprojection \in Classifications(floorKnown, cur.msg \in PreFloor, cur.origin)
    BY <1>6 DEF SuppressReprojection, Classified
  <2>2. cur.msg \in PreFloor
    BY <1>3, <2>1 DEF Classifications, FirstEffect, Reprojection, Indeterminate, Origins
  <2>3. Return
    BY <1>6 DEF SuppressReprojection
  <2> QED
    BY <1>1, <1>2, <2>2, <2>3, ReturnsDone
<1>7. CASE DeferProvenance
  <2>1. /\ deferred' = Defer(deferred, m, cur.origin, cur.status)
        /\ dropped' = dropped \cup Dropped(deferred, m, cur.origin, cur.status)
        /\ Return
    BY <1>2, <1>7 DEF DeferProvenance
  <2>2. IsDeferred(deferred', m) \/ m \in dropped'
    BY <1>3, <2>1, DeferKeepsOrDrops DEF TypeOK
  <2>3. Accounted(m)'
    BY <2>2 DEF Accounted
  <2> QED
    BY <1>1, <1>2, <2>1, <2>3, ReturnsDone
<1>8. CASE AcceptPending \/ AcceptFirst
  <2>1. /\ pc' = "build" /\ cur'.msg = cur.msg /\ UNCHANGED <<phase, todo, inEvent>>
        /\ cur'.seen # NoEffect => Status # NoEffect
    BY <1>8 DEF AcceptPending, AcceptFirst, Accept, TypeOK, Works, NoEffect
  <2>2. Upcoming' = Upcoming
    BY <1>1 DEF Upcoming
  <2>3. Status' = Status
    BY <1>1, <2>1 DEF Status
  <2> HIDE DEF Status
  <2> QED
    BY <1>1, <2>1, <2>2, <2>3 DEF EventAtHand, Handling
<1> QED
  BY <1>4, <1>5, <1>6, <1>7, <1>8 DEF Decide

\* From the decision to the end of the effect there is a row, or one is made.
LEMMA EffectKeepsEvent ==
  ASSUME TypeOK, WellPlaced, EventAtHand, [Next]_vars, Effect
  PROVE  EventAtHand'
<1> USE DEF diskVars
<1>1. /\ pc \in Handling \ {"handle"} /\ cursor' = cursor /\ stream' = stream
      /\ pc # "build" => ledger[cur.msg].status # NoEffect
  BY DEF Effect, BuildAndReserve, DeferMedia, ParkMedia, FailMedia, Deliver,
         DeliverRaises, RecordMapping, RecordUncertain, RecordDelivered, ResolveDeferral,
         Builds, Handling, coreVars, EventAtHand, Status
<1>2. PICK m \in Messages : m = cur.msg
  BY <1>1 DEF WellPlaced
<1>3. ledger \in Ledgers
  BY DEF TypeOK
<1>4. pc # "build" => ledger'[m].status # NoEffect
  BY <1>1, <1>2, RowStays
<1>5. ASSUME ledger'[m].status # NoEffect, Return
      PROVE  EventAtHand'
  <2>1. Accounted(m)'
    BY <1>5 DEF Accounted
  <2> QED
    BY <1>1, <1>2, <1>5, <2>1, ReturnsDone
<1>6. ASSUME ledger'[m].status # NoEffect, NEW step \in Handling \ {"handle", "build"}, Goto(step)
      PROVE  EventAtHand'
  <2>1. pc' = step /\ UNCHANGED <<cur, phase, todo, inEvent>>
    BY <1>6 DEF Goto
  <2>2. Upcoming' = Upcoming
    BY <1>1 DEF Upcoming
  <2>3. Status' # NoEffect
    BY <1>2, <1>6, <2>1 DEF Status
  <2> HIDE DEF Status
  <2> QED
    BY <1>1, <2>1, <2>2, <2>3 DEF EventAtHand, Handling
<1>7. CASE BuildAndReserve
  <2>1. CASE MayReserve(ledger, m, cur.seen)
    <3>1. ledger' = Reserve(ledger, m) /\ Goto("send")
      BY <1>2, <1>7, <2>1 DEF BuildAndReserve
    <3>2. ledger'[m].status # NoEffect
      BY <1>3, <3>1 DEF Reserve, Ledgers, Rows, NoEffect
    <3> QED
      BY <1>6, <3>1, <3>2 DEF Handling
  <2>2. CASE ~MayReserve(ledger, m, cur.seen)
    <3>1. ledger' = ledger /\ Return /\ pc = "build"
      BY <1>2, <1>7, <2>2 DEF BuildAndReserve, Builds
    <3>2. ledger[m].status # NoEffect
      BY <1>2, <2>2, <3>1 DEF MayReserve, EventAtHand, Status, NoEffect
    <3> QED
      BY <1>5, <3>1, <3>2
  <2> QED
    BY <2>1, <2>2
<1>8. CASE \E late \in BOOLEAN : DeferMedia(late)
  <2>1. PICK n, has : ledger' = MarkMediaPending(ledger, m, n, has)
    BY <1>2, <1>8 DEF DeferMedia
  <2>2. Return \/ Goto("park")
    BY <1>8 DEF DeferMedia
  <2>3. ledger'[m].status # NoEffect
    BY <1>3, <2>1 DEF MarkMediaPending, Ledgers, NoEffect
  <2> QED
    BY <1>5, <1>6, <2>2, <2>3 DEF Handling
<1>9. CASE FailMedia
  <2>1. ledger' = MarkMediaFailed(ledger, m) /\ Return
    BY <1>2, <1>9 DEF FailMedia
  <2>2. ledger'[m].status # NoEffect
    BY <1>3, <2>1 DEF MarkMediaFailed, Ledgers, Rows, NoEffect
  <2> QED
    BY <1>5, <2>1, <2>2
<1>10. CASE ParkMedia \/ ResolveDeferral
  <2>1. Return /\ pc # "build"
    BY <1>10 DEF ParkMedia, ResolveDeferral
  <2> QED
    BY <1>4, <1>5, <2>1
<1>11. CASE Deliver \/ DeliverRaises \/ RecordMapping \/ RecordDelivered
  <2>1. /\ pc # "build"
        /\ Goto("record") \/ Goto("uncertain") \/ Goto("finish") \/ Goto("resolve")
    BY <1>11 DEF Deliver, DeliverRaises, RecordMapping, RecordDelivered
  <2> QED
    BY <1>4, <1>6, <2>1 DEF Handling
<1>12. CASE RecordUncertain
  <2>1. Leaves
    BY <1>12 DEF RecordUncertain, LeaveCycle, Leaves, Handling
  <2> QED
    BY <1>1, <2>1, LeavesKeeps
<1> QED
  BY <1>7, <1>8, <1>9, <1>10, <1>11, <1>12 DEF Effect

\* Every step keeps what is known of the event behind the cursor.
LEMMA EventStep ==
  ASSUME TypeOK, WellPlaced, EventAtHand, [Next]_vars
  PROVE  EventAtHand'
<1> USE DEF diskVars, threadVars
<1>1. CASE Others
  <2>1. Leaves /\ cursor' = cursor
    BY <1>1 DEF Others, Publish, PublishElsewhere, MediaTurns, SendReturns, StoreRace, Leaves
  <2> QED
    BY <2>1, LeavesKeeps
<1>2. CASE Life
  <2>1. Leaves /\ cursor' = cursor
    BY <1>2 DEF Life, Raises, Suppress, StopPolling, LeavePoll, ContractChanges,
                ProcessEnds, Restart, LeaveCycle, Goto, Leaves, Handling
  <2> QED
    BY <2>1, LeavesKeeps
<1>3. CASE UNCHANGED vars
  <2>1. Leaves /\ cursor' = cursor
    BY <1>3 DEF vars, Leaves
  <2> QED
    BY <2>1, LeavesKeeps
<1> QED
  BY <1>1, <1>2, <1>3, CycleKeepsEvent, DispatchKeepsEvent, DecideKeepsEvent,
     EffectKeepsEvent DEF Next

\* Nothing this consumer owes is lost: for every stream, page size, order of events,
\* exception, crash and restart, a message behind the cursor has a row or waits in the
\* deferral store, except the recognised echoes, the entries dropped from a full
\* store, and what went by during a shutdown.
THEOREM NothingLost == Spec => []NoSilentLoss
<1>1. Init => EventAtHand /\ NoSilentLoss
  BY EmptySeq DEF Init, EventAtHand, NoSilentLoss, Handling
<1>2. ASSUME TypeOK, WellPlaced, EventAtHand, NoSilentLoss, [Next]_vars
      PROVE  NoSilentLoss'
  <2>1. cursor \in Nat /\ Len(stream) \in Nat /\ cursor <= Len(stream)
    BY <1>2, LenProperties DEF TypeOK, WellPlaced
  <2>2. \A i \in 1 .. Len(stream) : AccountedAt(i) => AccountedAt(i)'
    BY <1>2, AccountedAtStays
  <2>3. CASE SaveCursor
    <3>1. /\ cursor' = cursor + 1 /\ cursor + 1 \in 1 .. Len(stream)
          /\ skipped \subseteq skipped'
          /\ pc = "save" => AccountedAt(cursor + 1)
          /\ pc = "skip" => cursor + 1 \in skipped'
      BY <1>2, <2>1, <2>3 DEF SaveCursor, EventAtHand, WellPlaced, TypeOK
    <3>2. ASSUME NEW i \in 1 .. cursor'
          PROVE  AccountedAt(i)' \/ i \in skipped'
      <4>1. CASE i = cursor + 1
        BY <2>2, <2>3, <3>1, <4>1 DEF SaveCursor
      <4>2. CASE i # cursor + 1
        <5>1. i \in 1 .. cursor /\ i \in 1 .. Len(stream)
          BY <2>1, <3>1, <4>2
        <5> QED
          BY <1>2, <2>2, <3>1, <5>1 DEF NoSilentLoss
      <4> QED
        BY <4>1, <4>2
    <3> QED
      BY <3>2 DEF NoSilentLoss
  <2>4. CASE ~SaveCursor
    <3>1. cursor' = cursor /\ skipped' = skipped
      <4> USE DEF diskVars, pastVars
      <4>1. CASE Others
        BY <4>1 DEF Others, Publish, PublishElsewhere, MediaTurns, SendReturns, StoreRace
      <4>2. CASE Cycle
        BY <4>2 DEF Cycle, BeginCycle, RetryMedia, RetryDeferred, BeginDeferred, EndDeferred,
                    Fetch, EndCycle
      <4>3. CASE Dispatch
        BY <2>4, <4>3 DEF Dispatch, SkipEvent, MessageEvent, ReadyEvent, RemovedEvent,
                          SendEvent, LinkRaises, OtherEvent
      <4>4. CASE Decide
        BY <4>4 DEF Decide, SuppressEcho, SuppressTerminal, SuppressUncertain, AcceptPending,
                    AcceptFirst, SuppressReprojection, DeferProvenance
      <4>5. CASE Effect
        BY <4>5 DEF Effect, BuildAndReserve, DeferMedia, ParkMedia, FailMedia, Deliver,
                    DeliverRaises, RecordMapping, RecordUncertain, RecordDelivered, ResolveDeferral
      <4>6. CASE Life
        BY <4>6 DEF Life, Raises, Suppress, StopPolling, LeavePoll, ContractChanges,
                    ProcessEnds, Restart
      <4>7. CASE UNCHANGED vars
        BY <4>7 DEF vars
      <4> QED
        BY <1>2, <4>1, <4>2, <4>3, <4>4, <4>5, <4>6, <4>7 DEF Next
    <3>2. \A i \in 1 .. cursor : i \in 1 .. Len(stream)
      BY <2>1
    <3> QED
      BY <1>2, <2>2, <3>1, <3>2 DEF NoSilentLoss
  <2> QED
    BY <2>3, <2>4
<1> DEFINE Inv == TypeOK /\ WellPlaced /\ EventAtHand /\ NoSilentLoss
<1>3. Inv /\ [Next]_vars => Inv'
  BY <1>2, TypeStep, EventStep
<1> QED
  BY <1>1, <1>3, InitWellTyped, PTL DEF Spec

-----------------------------------------------------------------------------
(***************************************************************************)
(* Media that Core may still serve is not given up.                        *)
(***************************************************************************)
\* What Core said of some media, or had in its place, stays on record.
LEMMA CondemnedStays == [Next]_vars => condemned \subseteq condemned'
BY CoreActs DEF Publish, PublishElsewhere, MediaTurns, coreVars

\* Where the endpoint turned away from the original, this is on record.
LEMMA TurnsRecorded ==
  ASSUME TypeOK, RefusalKnown, [Next]_vars, NEW m \in Media,
         coreMedia'[m] \in {"partial", "broken"}
  PROVE  m \in condemned'
<1>1. condemned \subseteq condemned'
  BY CondemnedStays
<1>2. CASE coreMedia[m] \in {"partial", "broken"}
  BY <1>1, <1>2 DEF RefusalKnown
<1>3. CASE coreMedia[m] \notin {"partial", "broken"}
  BY <1>1, <1>3, CoreActs DEF TypeOK, Publish, PublishElsewhere, MediaTurns, coreVars
<1> QED
  BY <1>2, <1>3

\* So is what the stream says: a refusal is recorded as it is appended.
LEMMA StreamRecorded ==
  ASSUME TypeOK, RefusalKnown, [Next]_vars, NEW i \in DOMAIN stream', Refuses(stream'[i])
  PROVE  stream'[i].msg \in condemned'
<1>1. stream \in Seq(Events) /\ Len(stream) \in Nat /\ DOMAIN stream = 1 .. Len(stream)
  BY LenProperties DEF TypeOK
<1>2. condemned \subseteq condemned'
  BY CondemnedStays
<1>3. CASE stream' = stream
  BY <1>2, <1>3 DEF RefusalKnown, Refuses
<1>4. ASSUME NEW e \in Catalogue, Publish(e) PROVE stream'[i].msg \in condemned'
  <2>1. e \in Events /\ stream' = Append(stream, e) /\ (Refuses(e) => e.msg \in condemned')
    BY <1>4, DeliveryAssumption DEF Publish
  <2>2. /\ Len(stream') = Len(stream) + 1 /\ stream'[Len(stream) + 1] = e
        /\ \A j \in 1 .. Len(stream) : stream'[j] = stream[j]
        /\ DOMAIN stream' = 1 .. Len(stream) + 1
    BY <1>1, <2>1, AppendProperties, LenProperties
  <2>3. CASE i = Len(stream) + 1
    BY <2>1, <2>2, <2>3 DEF Refuses
  <2>4. CASE i # Len(stream) + 1
    <3>1. i \in DOMAIN stream /\ stream'[i] = stream[i]
      BY <1>1, <2>2, <2>4
    <3> QED
      BY <1>2, <3>1 DEF RefusalKnown, Refuses
  <2> QED
    BY <2>3, <2>4
<1> QED
  BY <1>3, <1>4, CoreActs DEF PublishElsewhere, MediaTurns, coreVars

\* The deferral store repeats what the message at hand said.
LEMMA StoreRecorded ==
  ASSUME TypeOK, WellPlaced, RefusalKnown, [Next]_vars,
         NEW i \in DOMAIN deferred', Refuses(deferred'[i])
  PROVE  deferred'[i].msg \in condemned'
<1> DEFINE m == deferred'[i].msg
           s == deferred'[i].status
<1>1. deferred \in Seq(DeferralEntries(Messages, MediaStatuses))
  BY DEF TypeOK
<1>2. Says(deferred', m, s)
  BY DEF Says
<1>3. Says(deferred, m, s) \/ (m = cur.msg /\ s = cur.status)
  <2> HIDE DEF m, s
  <2>1. CASE SuppressTerminal \/ ResolveDeferral
    <3>1. deferred' = Resolve(deferred, cur.msg)
      BY <2>1 DEF SuppressTerminal, ResolveDeferral
    <3> QED
      BY <1>1, <1>2, <3>1, ResolveKeepsStore
  <2>2. CASE DeferProvenance
    <3>1. deferred' = Defer(deferred, cur.msg, cur.origin, cur.status)
      BY <2>2 DEF DeferProvenance
    <3>2. cur.msg \in Messages /\ cur.origin \in Origins /\ cur.status \in MediaStatuses
      BY <2>2 DEF DeferProvenance, Classified, AtHandler, Handling, WellPlaced, TypeOK, Works
    <3> QED
      BY <1>1, <1>2, <3>1, <3>2, DeferAddsOnly
  <2>3. CASE ~Deferring
    BY <1>2, <2>3, OtherStepsKeepDeferrals
  <2> QED
    BY <2>1, <2>2, <2>3 DEF Deferring
<1>4. m \in condemned
  BY <1>3 DEF Says, RefusalKnown, Refuses
<1> QED
  BY <1>4, CondemnedStays

\* And the message at hand comes from one of the two, or from a retry loop, which says
\* at most what the media.ready event at hand says.
LEMMA HandRecorded ==
  ASSUME TypeOK, WellPlaced, EventAtHand, RefusalKnown, [Next]_vars, Refuses(cur')
  PROVE  cur'.msg \in condemned'
<1>1. condemned \subseteq condemned'
  BY CondemnedStays
<1>2. cursor < page.last => cursor + 1 \in DOMAIN stream
  BY LenProperties DEF TypeOK, WellPlaced
<1>3. CASE cur'.msg = cur.msg /\ cur'.status = cur.status
  BY <1>1, <1>3 DEF RefusalKnown, Refuses
<1>4. CASE cur' = NoWork
  BY <1>4 DEF NoWork, Refuses
<1>5. ASSUME NEW m \in Messages, RetryMedia(m) PROVE cur'.msg \in condemned'
  <2>1. /\ cur'.msg = m /\ m \in todo /\ phase = "media"
        /\ cur'.status = IF ~ledger[m].hasMedia THEN "noref"
                         ELSE IF inEvent THEN stream[cursor + 1].status ELSE "ready"
    BY <1>5 DEF RetryMedia, Handle
  <2>2. inEvent /\ cur'.status = Upcoming.status
    BY <2>1 DEF Refuses, Upcoming
  <2>3. m = Upcoming.msg /\ cursor < page.last
    BY <2>1, <2>2 DEF EventAtHand, WellPlaced
  <2>4. m \in condemned
    BY <1>2, <2>2, <2>3 DEF RefusalKnown, Refuses, Upcoming
  <2> QED
    BY <1>1, <2>1, <2>4
<1>6. ASSUME NEW m \in Messages, RetryDeferred(m) PROVE cur'.msg \in condemned'
  <2>1. IsDeferred(deferred, m)
    BY <1>6 DEF RetryDeferred, WellPlaced
  <2>2. deferred \in Seq(DeferralEntries(Messages, MediaStatuses))
    BY DEF TypeOK
  <2>3. /\ Place(deferred, m) \in DOMAIN deferred
        /\ deferred[Place(deferred, m)].msg = m
    BY <2>1, <2>2, PlaceIsPosition, LenProperties
  <2>4. cur'.msg = m /\ cur'.status = deferred[Place(deferred, m)].status
    BY <1>6 DEF RetryDeferred, Handle
  <2>5. m \in condemned
    BY <2>3, <2>4 DEF RefusalKnown, Refuses
  <2> QED
    BY <1>1, <2>4, <2>5
<1>7. CASE MessageEvent
  <2>1. cur'.msg = Upcoming.msg /\ cur'.status = Upcoming.status /\ cursor < page.last
    BY <1>7 DEF MessageEvent, AtEvent, Handle
  <2>2. cur'.msg \in condemned
    BY <1>2, <2>1 DEF RefusalKnown, Refuses, Upcoming
  <2> QED
    BY <1>1, <2>2
<1>8. ASSUME ~\E m \in Messages : RetryMedia(m) \/ RetryDeferred(m), ~MessageEvent
      PROVE  (cur'.msg = cur.msg /\ cur'.status = cur.status) \/ cur' = NoWork
  <2> USE DEF threadVars, Goto, Return, LeaveCycle, Loop
  <2>1. CASE Others
    BY <2>1 DEF Others, Publish, PublishElsewhere, MediaTurns, SendReturns, StoreRace
  <2>2. CASE Cycle
    BY <1>8, <2>2 DEF Cycle, BeginCycle, BeginDeferred, EndDeferred, Fetch, EndCycle
  <2>3. CASE Dispatch
    BY <1>8, <2>3 DEF Dispatch, SkipEvent, ReadyEvent, RemovedEvent, SendEvent, LinkRaises,
                      OtherEvent, SaveCursor
  <2>4. CASE Decide
    BY <2>4 DEF Decide, SuppressEcho, SuppressTerminal, SuppressUncertain, AcceptPending,
         AcceptFirst, Accept, SuppressReprojection, DeferProvenance, TypeOK, Works
  <2>5. CASE Effect
    BY <2>5 DEF Effect, BuildAndReserve, DeferMedia, ParkMedia, FailMedia, Deliver,
         DeliverRaises, RecordMapping, RecordUncertain, RecordDelivered, ResolveDeferral
  <2>6. CASE Life
    BY <2>6 DEF Life, Raises, Suppress, StopPolling, LeavePoll, ContractChanges,
         ProcessEnds, Restart
  <2>7. CASE UNCHANGED vars
    BY <2>7 DEF vars
  <2> QED
    BY <2>1, <2>2, <2>3, <2>4, <2>5, <2>6, <2>7 DEF Next
<1> QED
  BY <1>3, <1>4, <1>5, <1>6, <1>7, <1>8

\* Only _fail_media makes an effect MEDIA_FAILED, and only of the message at hand.
LEMMA OnlyFailMediaFails ==
  ASSUME TypeOK, WellPlaced, [Next]_vars, NEW m \in Messages,
         ledger'[m].status = "MEDIA_FAILED", ledger[m].status # "MEDIA_FAILED"
  PROVE  FailMedia /\ m = cur.msg
<1>1. ledger \in Ledgers
  BY DEF TypeOK
<1>2. CASE Quiet
  BY <1>2 DEF Quiet
<1>3. CASE BuildAndReserve
  BY <1>1, <1>3 DEF BuildAndReserve, Reserve, Ledgers, Rows
<1>4. CASE ParkMedia
  BY <1>1, <1>4 DEF ParkMedia, MarkMediaParked, Ledgers, Rows
<1>5. CASE \E late \in BOOLEAN : DeferMedia(late)
  BY <1>1, <1>5 DEF DeferMedia, MarkMediaPending, Ledgers, Rows
<1>6. CASE FailMedia
  BY <1>1, <1>6 DEF FailMedia, MarkMediaFailed, Ledgers, Rows
<1>7. CASE Deliver \/ DeliverRaises \/ RecordMapping
  BY <1>7 DEF Deliver, DeliverRaises, RecordMapping, diskVars
<1>8. CASE RecordUncertain
  BY <1>1, <1>8 DEF RecordUncertain, MarkUncertain, Ledgers, Rows
<1>9. CASE RecordDelivered
  BY <1>1, <1>9 DEF RecordDelivered, MarkDelivered, Ledgers, Rows
<1>10. CASE Restart
  BY <1>1, <1>10 DEF Restart, ReconcileOnStartup, Ledgers, Rows
<1> QED
  BY <1>2, <1>3, <1>4, <1>5, <1>6, <1>7, <1>8, <1>9, <1>10, OtherStepsQuiet DEF Loud

\* No run of transient failures, spent budgets, parkings, deferrals and restarts fails
\* an effect for good: MEDIA_FAILED takes a payload, a media.ready or an answer of the
\* endpoint that called that media broken, or had something else in its place.
THEOREM RecoverableNeverFailed == Spec => []RecoverableMediaKept
<1> DEFINE Inv == TypeOK /\ WellPlaced /\ EventAtHand /\ RefusalKnown /\ RecoverableMediaKept
<1>1. Init => EventAtHand /\ RefusalKnown /\ RecoverableMediaKept
  <2>1. DOMAIN <<>> = {}
    OBVIOUS
  <2>2. \A m \in Media : EmptyLedger[m].status = NoEffect
    BY DeliveryAssumption DEF EmptyLedger, NoRow
  <2> QED
    BY <2>1, <2>2, EmptySeq
       DEF Init, EventAtHand, RefusalKnown, Refuses, RecoverableMediaKept, NoWork, NoEffect, Handling
<1>2. ASSUME Inv, [Next]_vars PROVE RefusalKnown'
  BY <1>2, StreamRecorded, StoreRecorded, HandRecorded, TurnsRecorded DEF RefusalKnown
<1>3. ASSUME Inv, [Next]_vars, NEW m \in Media, ledger'[m].status = "MEDIA_FAILED"
      PROVE  m \in condemned'
  <2>1. m \in Messages /\ condemned \subseteq condemned'
    BY <1>3, DeliveryAssumption, CondemnedStays
  <2>2. CASE ledger[m].status = "MEDIA_FAILED"
    BY <1>3, <2>1, <2>2 DEF RecoverableMediaKept
  <2>3. CASE ledger[m].status # "MEDIA_FAILED"
    <3>1. FailMedia /\ m = cur.msg
      BY <1>3, <2>1, <2>3, OnlyFailMediaFails
    <3>2. Refuses(cur) \/ coreMedia[m] \in {"partial", "broken"}
      BY <3>1 DEF FailMedia, Builds, BuildResults, Refuses
    <3>3. m \in condemned
      BY <1>3, <3>1, <3>2 DEF RefusalKnown
    <3> QED
      BY <2>1, <3>3
  <2> QED
    BY <2>2, <2>3
<1>4. Inv /\ [Next]_vars => Inv'
  BY <1>2, <1>3, TypeStep, EventStep DEF RecoverableMediaKept
<1> QED
  BY <1>1, <1>4, InitWellTyped, PTL DEF Spec
=============================================================================
