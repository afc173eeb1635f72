------------------------------ MODULE Delivery ------------------------------
(***************************************************************************)
(* The poll thread of the slave (ComWechat.py): it reads Core's event      *)
(* stream from a durable cursor, decides for every message whether an      *)
(* external effect is owed, and hands the message to the EFB master, with  *)
(* the effect ledger written around the external call.  Pending media and  *)
(* unclassified messages are offered again on every cycle.  The process    *)
(* may end between any two steps; what is on disk survives.                *)
(*                                                                         *)
(* One action is what the thread does between two durable writes or two    *)
(* calls that may fail.                                                    *)
(***************************************************************************)
EXTENDS EffectLedger, Provenance, FiniteSets

CONSTANTS Media,        \* messages of type image, sticker, voice, video, file
          PreFloor,     \* messages whose origin predates the subscription floor
          Own,          \* outgoing messages: echoes of what this slave sent
          Catalogue,    \* the events Core may append to the stream
          PageSize,     \* event_limit
          NoMessage,    \* the poll thread handles no message
          MaxEvents,    \* bound: length of the stream
          MaxHidden,    \* bound: events of accounts the poll does not ask for
          Checkpoints,  \* bound: whether Core takes any checkpoint
          MaxEnds       \* bound: how often the process ends

\* What a payload says of its media: nothing, no reference yet, not there yet, there,
\* failed for good, or in a role other than the original.
MediaStatuses == {"none", "noref", "absent", "ready", "broken", "thumbnail"}

\* What Core's endpoint has: nothing yet, a thumbnail or an empty file, the
\* original, or the verdict that there will be none.
Served == {"absent", "partial", "ready", "broken"}

Events == [kind : {"message", "ready", "removed", "send", "other"},
           msg : Messages, origin : Origins, status : MediaStatuses]

ASSUME DeliveryAssumption ==
  /\ Media \subseteq Messages
  /\ PreFloor \subseteq Messages
  /\ Own \subseteq Messages
  /\ Catalogue \subseteq Events
  /\ NoMessage \notin Messages
  /\ PageSize \in Nat \ {0}
  /\ MaxEvents \in Nat
  /\ MaxHidden \in Nat
  /\ Checkpoints \in BOOLEAN
  /\ MaxEnds \in Nat

VARIABLES
  \* Core: the events this poll is answered with, the cursor Core gave each, the
  \* head of the whole stream, the media it can serve, the consumer's checkpoint.
  stream, positions, head, coreMedia, checkpoint,
  \* On disk: the ledger, the deferral store, the number of events behind the
  \* cursor, whether a floor is recorded for the account.
  ledger, deferred, cursor, floorKnown,
  \* The echo aliases, in memory and in their file.
  linked, aliasFile,
  \* The poll thread: where it is, the message at hand, the loop it is in and
  \* what is left of that loop, whether an event is being dispatched, the page.
  pc, cur, phase, todo, inEvent, page,
  \* Raised by the shutdown coordinator: no more dispatch, no more polling.
  suppress, stop,
  \* The master, outside the process: how often a message reached it, what was
  \* recalled there.
  sent, recalled,
  \* History: events passed unhandled during a shutdown, messages dropped from
  \* the full deferral store, echoes recognised, whether two threads met in the
  \* alias store or its file was unreadable, how often the process ended, the
  \* media Core once refused or had something else for.
  skipped, dropped, echoed, spoiled, ends, condemned

coreVars   == <<stream, positions, head, coreMedia, condemned>>
diskVars   == <<ledger, deferred, cursor, floorKnown, linked, aliasFile>>
threadVars == <<pc, cur, phase, todo, inEvent, page>>
stopVars   == <<suppress, stop>>
masterVars == <<sent, recalled>>
pastVars   == <<skipped, dropped, echoed, spoiled, ends>>
vars == <<coreVars, checkpoint, diskVars, threadVars, stopVars, masterVars, pastVars>>

\* A message on its way through _handle_message_event: the payload's origin and
\* media status, and the ledger status read at the top of the handler.
Works == [msg : Messages \cup {NoMessage}, origin : Origins,
          status : MediaStatuses, seen : Statuses]

NoWork == [msg |-> NoMessage, origin |-> "given", status |-> "none", seen |-> NoEffect]

NoPage == [last |-> 0, more |-> FALSE, head |-> 0]

Phases == {"media", "deferred", "event"}

Handling == {"handle", "build", "park", "send", "record", "finish", "resolve", "uncertain"}

Steps == {"idle", "loop", "fetch", "events", "save", "skip", "stopped", "down"} \cup Handling

-----------------------------------------------------------------------------
(***************************************************************************)
(* Core appends to the stream on its own.                                  *)
(***************************************************************************)
MayBeCalled(m) ==
  {"noref", "thumbnail"} \cup
    IF coreMedia[m] = "partial" THEN {"absent", "ready"} ELSE {coreMedia[m]}

CoreMayPublish(e) ==
  CASE e.kind = "message" -> e.msg \in Media => e.status \in MayBeCalled(e.msg)
    [] e.kind = "ready"   -> /\ coreMedia[e.msg] \in {"absent", "partial"}
                             /\ e.status \in {"ready", "thumbnail"}
    [] e.kind = "send"    -> e.msg \in Own
    [] OTHER              -> TRUE

\* A payload that ends the effect of its media: Core calls the original broken, or
\* names another role.
Refuses(e) == e.status \in {"broken", "thumbnail"}

\* media.ready of an original is published at the moment it becomes available.
Publish(e) ==
  /\ Len(stream) < MaxEvents
  /\ CoreMayPublish(e)
  /\ stream' = Append(stream, e)
  /\ head' = head + 1
  /\ positions' = Append(positions, head + 1)
  /\ coreMedia' = IF e.kind = "ready" /\ e.status = "ready"
                    THEN [coreMedia EXCEPT ![e.msg] = "ready"] ELSE coreMedia
  /\ condemned' = IF Refuses(e) THEN condemned \cup {e.msg} ELSE condemned
  /\ UNCHANGED <<checkpoint, diskVars, threadVars, stopVars, masterVars, pastVars>>

\* An event of another account, while the filter names a single one: poll_events is
\* asked for that account and does not answer with it, but the head of the stream
\* moves on.
PublishElsewhere ==
  /\ head - Len(stream) < MaxHidden
  /\ head' = head + 1
  /\ UNCHANGED <<stream, positions, coreMedia, condemned, checkpoint, diskVars, threadVars,
                 stopVars, masterVars, pastVars>>

\* The endpoint has a thumbnail or an empty file for now, or Core gives up on the
\* original: decode_failed, media_unsupported and the like.
MediaTurns(m, what) ==
  /\ coreMedia[m] = "absent"
  /\ coreMedia' = [coreMedia EXCEPT ![m] = what]
  /\ condemned' = condemned \cup {m}
  /\ UNCHANGED <<stream, positions, head, checkpoint, diskVars, threadVars, stopVars,
                 masterVars, pastVars>>

(***************************************************************************)
(* The alias store.  link changes the memory and then writes all of it to  *)
(* the file, which may fail.                                               *)
(***************************************************************************)
Link(m) ==
  /\ linked' = linked \cup {m}
  /\ aliasFile' = linked \cup {m}

LinkUnsaved(m) ==
  /\ linked' = linked \cup {m}
  /\ aliasFile' = aliasFile

\* send_message, in the master's thread: a receipt that already names the echo is
\* linked, any other is noted as pending, which writes the file too.
SendReturns(m) ==
  /\ pc # "down"
  /\ \/ Link(m)
     \/ LinkUnsaved(m)
     \/ linked' = linked /\ aliasFile' = linked
  /\ UNCHANGED <<coreVars, checkpoint, ledger, deferred, cursor, floorKnown, threadVars,
                 stopVars, masterVars, pastVars>>

\* There is no lock: the master's thread is in the store while the poll thread reads
\* it, links or saves.  Either may find it half loaded, and either may undo what the
\* other did, in memory and in the file.
StoreRace ==
  /\ pc # "down"
  /\ linked' \in SUBSET Own /\ aliasFile' \in SUBSET Own
  /\ spoiled' = TRUE
  /\ UNCHANGED <<coreVars, checkpoint, ledger, deferred, cursor, floorKnown, threadVars,
                 stopVars, masterVars, skipped, dropped, echoed, ends>>

-----------------------------------------------------------------------------
(***************************************************************************)
(* Where the thread goes on.                                               *)
(***************************************************************************)
Goto(step) == pc' = step /\ UNCHANGED <<cur, phase, todo, inEvent, page>>

\* _handle_message_event returns to its caller.
Return == /\ pc' = IF phase = "event" THEN "save" ELSE "loop"
          /\ cur' = NoWork
          /\ UNCHANGED <<phase, todo, inEvent, page>>

\* poll_once is left, by its last line or by an exception that poll() logs; the
\* next cycle starts from the cursor on disk.
LeaveCycle == /\ pc' = "idle"
         /\ cur' = NoWork
         /\ phase' = "event"
         /\ todo' = {}
         /\ inEvent' = FALSE
         /\ page' = NoPage

Handle(m, origin, status) ==
  /\ pc' = "handle"
  /\ cur' = [msg |-> m, origin |-> origin, status |-> status, seen |-> NoEffect]

Loop(which, messages, dispatching) ==
  /\ pc' = "loop"
  /\ phase' = which
  /\ todo' = messages
  /\ inEvent' = dispatching

-----------------------------------------------------------------------------
(***************************************************************************)
(* poll() and the top of poll_once: health, the floor if none is recorded, *)
(* then the scheduled media retries.  S is the part of the scheduled view  *)
(* whose next_retry_at has passed.                                         *)
(***************************************************************************)
BeginCycle(S) ==
  /\ pc = "idle" /\ ~stop
  /\ S \subseteq ScheduledMedia(ledger)
  /\ suppress => S = {}
  /\ \/ floorKnown' = floorKnown
     \/ ~floorKnown /\ floorKnown' = TRUE
  /\ Loop("media", S, FALSE)
  /\ UNCHANGED <<coreVars, checkpoint, ledger, deferred, cursor, linked, aliasFile, cur, page,
                 stopVars, masterVars, pastVars>>

\* _retry_pending_media: the stored message, its status set to ready, or to the role
\* and status of the media.ready event at hand.
RetryMedia(m) ==
  /\ pc = "loop" /\ phase = "media" /\ m \in todo
  /\ todo' = todo \ {m}
  /\ Handle(m, "given", IF ~ledger[m].hasMedia THEN "noref"
                        ELSE IF inEvent THEN stream[cursor + 1].status ELSE "ready")
  /\ UNCHANGED <<coreVars, checkpoint, diskVars, phase, inEvent, page,
                 stopVars, masterVars, pastVars>>

\* _retry_deferred_provenance takes its snapshot once the media loop is over.
BeginDeferred ==
  /\ pc = "loop" /\ phase = "media" /\ todo = {}
  /\ Loop("deferred", IF suppress THEN {} ELSE Due(deferred), inEvent)
  /\ UNCHANGED <<coreVars, checkpoint, diskVars, cur, page, stopVars, masterVars, pastVars>>

RetryDeferred(m) ==
  /\ pc = "loop" /\ phase = "deferred" /\ m \in todo
  /\ LET entry == deferred[Place(deferred, m)]
     IN Handle(m, entry.origin, entry.status)
  /\ todo' = todo \ {m}
  /\ UNCHANGED <<coreVars, checkpoint, diskVars, phase, inEvent, page,
                 stopVars, masterVars, pastVars>>

EndDeferred ==
  /\ pc = "loop" /\ phase = "deferred" /\ todo = {}
  /\ pc' = IF inEvent THEN "save" ELSE "fetch"
  /\ phase' = "event"
  /\ inEvent' = FALSE
  /\ UNCHANGED <<coreVars, checkpoint, diskVars, cur, todo, page,
                 stopVars, masterVars, pastVars>>

\* poll_events: at most PageSize events after the cursor, whether more follow, and
\* the head of the whole stream.
Fetch ==
  /\ pc = "fetch"
  /\ pc' = "events"
  /\ LET last == IF cursor + PageSize < Len(stream) THEN cursor + PageSize ELSE Len(stream)
     IN page' = [last |-> last, more |-> last < Len(stream), head |-> head]
  /\ UNCHANGED <<coreVars, checkpoint, diskVars, cur, phase, todo, inEvent,
                 stopVars, masterVars, pastVars>>

-----------------------------------------------------------------------------
(***************************************************************************)
(* The loop over the page: _handle_event, one action per event type.       *)
(***************************************************************************)
Upcoming == stream[cursor + 1]

AtEvent(kind) ==
  /\ pc = "events" /\ cursor < page.last /\ ~suppress
  /\ Upcoming.kind = kind

\* During a shutdown _handle_event returns at once, and the loop goes on.
SkipEvent ==
  /\ pc = "events" /\ cursor < page.last /\ suppress
  /\ Goto("skip")
  /\ UNCHANGED <<coreVars, checkpoint, diskVars, stopVars, masterVars, pastVars>>

MessageEvent ==
  /\ AtEvent("message")
  /\ Handle(Upcoming.msg, Upcoming.origin, Upcoming.status)
  /\ UNCHANGED <<coreVars, checkpoint, diskVars, phase, todo, inEvent, page,
                 stopVars, masterVars, pastVars>>

ReadyEvent ==
  /\ AtEvent("ready")
  /\ Loop("media", ReadyMedia(ledger, Upcoming.msg), TRUE)
  /\ UNCHANGED <<coreVars, checkpoint, diskVars, cur, page, stopVars, masterVars, pastVars>>

\* _emit_removal: the status goes to the master; no ledger row is consulted.
RemovedEvent ==
  /\ AtEvent("removed")
  /\ recalled' = recalled \cup {Upcoming.msg}
  /\ Goto("save")
  /\ UNCHANGED <<coreVars, checkpoint, diskVars, stopVars, sent, pastVars>>

\* _handle_send_update stores the alias that makes a later echo recognisable.
SendEvent ==
  /\ AtEvent("send")
  /\ Link(Upcoming.msg)
  /\ Goto("save")
  /\ UNCHANGED <<coreVars, checkpoint, ledger, deferred, cursor, floorKnown,
                 stopVars, masterVars, pastVars>>

\* The alias file cannot be written, or the mapping that is updated next.
LinkRaises ==
  /\ AtEvent("send")
  /\ Link(Upcoming.msg) \/ LinkUnsaved(Upcoming.msg)
  /\ LeaveCycle
  /\ UNCHANGED <<coreVars, checkpoint, ledger, deferred, cursor, floorKnown,
                 stopVars, masterVars, pastVars>>

\* chat.updated, account.status, unknown types, other accounts, payloads without
\* the identities the handlers ask for.
OtherEvent ==
  /\ AtEvent("other")
  /\ Goto("save")
  /\ UNCHANGED <<coreVars, checkpoint, diskVars, stopVars, masterVars, pastVars>>

\* Fault: the cursor of the whole page is saved with its first event.
SaveCursorOfPage ==
  /\ pc \in {"save", "skip"}
  /\ cursor' = page.last
  /\ skipped' = IF pc = "skip" THEN skipped \cup {cursor + 1} ELSE skipped
  /\ Goto("events")
  /\ UNCHANGED <<coreVars, checkpoint, ledger, deferred, floorKnown, linked, aliasFile,
                 stopVars, masterVars, dropped, echoed, spoiled, ends>>

\* The cursor is persisted after the handler returned; then the event is acked.
SaveCursor ==
  /\ pc \in {"save", "skip"}
  /\ cursor' = cursor + 1
  /\ skipped' = IF pc = "skip" THEN skipped \cup {cursor + 1} ELSE skipped
  /\ Goto("events")
  /\ UNCHANGED <<coreVars, checkpoint, ledger, deferred, floorKnown, linked, aliasFile,
                 stopVars, masterVars, dropped, echoed, spoiled, ends>>

\* The cursor on disk, as Core counts.
SavedCursor == IF cursor = 0 THEN 0 ELSE positions[cursor]

\* The checkpoint after n was reported: the call may fail, which is only logged.
Reported(n) == IF Checkpoints THEN {checkpoint, n} ELSE {checkpoint}

\* Fault: the head of the stream is reported although more pages follow.
EndCycleAtHead ==
  /\ pc = "events" /\ cursor = page.last
  /\ checkpoint' \in Reported(page.head)
  /\ LeaveCycle
  /\ UNCHANGED <<coreVars, diskVars, stopVars, masterVars, pastVars>>

\* The page is done.  The checkpoint is best effort: the saved cursor if more events
\* follow or Core named no head, else the head of the whole stream, which may lie
\* beyond the saved cursor.
EndCycle ==
  /\ pc = "events" /\ cursor = page.last
  /\ \/ checkpoint' \in Reported(SavedCursor)
     \/ ~page.more /\ checkpoint' \in Reported(page.head)
  /\ LeaveCycle
  /\ UNCHANGED <<coreVars, diskVars, stopVars, masterVars, pastVars>>

-----------------------------------------------------------------------------
(***************************************************************************)
(* _handle_message_event up to the decision.                               *)
(***************************************************************************)
\* Fault: a retry loop does not ask whether the message is an echo.
AtHandlerOrRetry == pc = "handle" /\ ~(phase = "event" /\ cur.msg \in Own \cap linked)

AtHandler == pc = "handle" /\ ~(cur.msg \in Own \cap linked)

Status == ledger[cur.msg].status

\* Fault: every outgoing message counts as an echo.
SuppressOutgoing ==
  /\ pc = "handle" /\ cur.msg \in Own
  /\ echoed' = IF cur.msg \in linked THEN echoed \cup {cur.msg} ELSE echoed
  /\ Return
  /\ UNCHANGED <<coreVars, checkpoint, diskVars, stopVars, masterVars, skipped, dropped,
                 spoiled, ends>>

\* An outgoing message with a known alias is the echo of a send of this slave.
SuppressEcho ==
  /\ pc = "handle" /\ cur.msg \in Own \cap linked
  /\ echoed' = echoed \cup {cur.msg}
  /\ Return
  /\ UNCHANGED <<coreVars, checkpoint, diskVars, stopVars, masterVars, skipped, dropped,
                 spoiled, ends>>

SuppressTerminal ==
  /\ AtHandler /\ Status \in Terminal
  /\ deferred' = Resolve(deferred, cur.msg)
  /\ Return
  /\ UNCHANGED <<coreVars, checkpoint, ledger, cursor, floorKnown, linked, aliasFile,
                 stopVars, masterVars, pastVars>>

\* Fail closed.  The deferral store is not consulted here.
SuppressUncertain ==
  /\ AtHandler /\ Status \in FailClosed
  /\ Return
  /\ UNCHANGED <<coreVars, checkpoint, diskVars, stopVars, masterVars, pastVars>>

Accept(seen) ==
  /\ pc' = "build"
  /\ cur' = [cur EXCEPT !.seen = seen]
  /\ UNCHANGED <<phase, todo, inEvent, page>>

AcceptPending ==
  /\ AtHandler /\ Status = "PENDING_MEDIA"
  /\ Accept("PENDING_MEDIA")
  /\ UNCHANGED <<coreVars, checkpoint, diskVars, stopVars, masterVars, pastVars>>

\* _classify_unknown_effect, for a message without a ledger row.
Classified(c) ==
  /\ AtHandler /\ Status = NoEffect
  /\ c \in Classifications(floorKnown, cur.msg \in PreFloor, cur.origin)

AcceptFirst ==
  /\ Classified(FirstEffect)
  /\ Accept(NoEffect)
  /\ UNCHANGED <<coreVars, checkpoint, diskVars, stopVars, masterVars, pastVars>>

\* The reprojection branch returns without a look at the deferral store.
SuppressReprojection ==
  /\ Classified(Reprojection)
  /\ Return
  /\ UNCHANGED <<coreVars, checkpoint, diskVars, stopVars, masterVars, pastVars>>

DeferProvenance ==
  /\ Classified(Indeterminate)
  /\ deferred' = Defer(deferred, cur.msg, cur.origin, cur.status)
  /\ dropped' = dropped \cup Dropped(deferred, cur.msg, cur.origin, cur.status)
  /\ Return
  /\ UNCHANGED <<coreVars, checkpoint, ledger, cursor, floorKnown, linked, aliasFile,
                 stopVars, masterVars, skipped, echoed, spoiled, ends>>

-----------------------------------------------------------------------------
(***************************************************************************)
(* Resolving the chat, building the EFB message, fetching its media.       *)
(***************************************************************************)
\* Core's media endpoint is asked only when the payload calls the original ready;
\* a transient error there counts as pending.  A role other than the original, in
\* the payload or in the answer, and an answer without content count as permanent
\* just as Core's verdict does.
BuildResults(w) ==
  CASE w.msg \notin Media                  -> {"ok"}
    [] w.status \in {"noref", "absent"}     -> {"pending"}
    [] w.status \in {"broken", "thumbnail"} -> {"permanent"}
    [] OTHER -> {"pending"} \cup (CASE coreMedia[w.msg] = "ready"               -> {"ok"}
                                   [] coreMedia[w.msg] \in {"partial", "broken"} -> {"permanent"}
                                   [] OTHER                                    -> {})

Builds(result) == pc = "build" /\ result \in BuildResults(cur)

\* The reservation is durable before the external call; a row that is in the way
\* ends the handler.
BuildAndReserve ==
  /\ Builds("ok")
  /\ IF MayReserve(ledger, cur.msg, cur.seen)
       THEN ledger' = Reserve(ledger, cur.msg) /\ Goto("send")
       ELSE ledger' = ledger /\ Return
  /\ UNCHANGED <<coreVars, checkpoint, deferred, cursor, floorKnown, linked, aliasFile,
                 stopVars, masterVars, pastVars>>

\* Fault: both budgets have to be spent.
BothSpent(attempt, late) == attempt = MediaMaxAttempts /\ late

\* late: media_retry_deadline_sec has passed since the first attempt.
BudgetSpent(attempt, late) == attempt = MediaMaxAttempts \/ late

\* _defer_media.  Parking is a transaction of its own.
DeferMedia(late) ==
  /\ Builds("pending")
  /\ LET attempt == NextAttempt(ledger[cur.msg])
     IN /\ ledger' = MarkMediaPending(ledger, cur.msg, attempt, cur.status # "noref")
        /\ IF BudgetSpent(attempt, late) THEN Goto("park") ELSE Return
  /\ UNCHANGED <<coreVars, checkpoint, deferred, cursor, floorKnown, linked, aliasFile,
                 stopVars, masterVars, pastVars>>

\* Fault: a parked effect keeps its event unprocessed, until the media is there.
ParkAndHold ==
  /\ pc = "park"
  /\ LET row == ledger[cur.msg]
     IN ledger' = MarkMediaParked(ledger, cur.msg, row.attempts, row.hasMedia)
  /\ LeaveCycle
  /\ UNCHANGED <<coreVars, checkpoint, deferred, cursor, floorKnown, linked, aliasFile,
                 stopVars, masterVars, pastVars>>

ParkMedia ==
  /\ pc = "park"
  /\ LET row == ledger[cur.msg]
     IN ledger' = MarkMediaParked(ledger, cur.msg, row.attempts, row.hasMedia)
  /\ Return
  /\ UNCHANGED <<coreVars, checkpoint, deferred, cursor, floorKnown, linked, aliasFile,
                 stopVars, masterVars, pastVars>>

FailMedia ==
  /\ Builds("permanent")
  /\ ledger' = MarkMediaFailed(ledger, cur.msg)
  /\ Return
  /\ UNCHANGED <<coreVars, checkpoint, deferred, cursor, floorKnown, linked, aliasFile,
                 stopVars, masterVars, pastVars>>

-----------------------------------------------------------------------------
(***************************************************************************)
(* The external call, the mapping, the end of the effect.                  *)
(***************************************************************************)
Deliver ==
  /\ pc = "send"
  /\ sent' = [sent EXCEPT ![cur.msg] = @ + 1]
  /\ Goto("record")
  /\ UNCHANGED <<coreVars, checkpoint, diskVars, stopVars, recalled, pastVars>>

\* The master raises before or after the message got through.
DeliverRaises ==
  /\ pc = "send"
  /\ sent' \in {sent, [sent EXCEPT ![cur.msg] = @ + 1]}
  /\ Goto("uncertain")
  /\ UNCHANGED <<coreVars, checkpoint, diskVars, stopVars, recalled, pastVars>>

\* message_mapping.record, in a database of its own, succeeds or raises.
RecordMapping ==
  /\ pc = "record"
  /\ Goto("finish") \/ Goto("uncertain")
  /\ UNCHANGED <<coreVars, checkpoint, diskVars, stopVars, masterVars, pastVars>>

\* The exception goes on to poll() once the row is UNCERTAIN.
RecordUncertain ==
  /\ pc = "uncertain"
  /\ ledger' = MarkUncertain(ledger, cur.msg)
  /\ LeaveCycle
  /\ UNCHANGED <<coreVars, checkpoint, deferred, cursor, floorKnown, linked, aliasFile,
                 stopVars, masterVars, pastVars>>

RecordDelivered ==
  /\ pc = "finish"
  /\ ledger' = MarkDelivered(ledger, cur.msg)
  /\ Goto("resolve")
  /\ UNCHANGED <<coreVars, checkpoint, deferred, cursor, floorKnown, linked, aliasFile,
                 stopVars, masterVars, pastVars>>

ResolveDeferral ==
  /\ pc = "resolve"
  /\ deferred' = Resolve(deferred, cur.msg)
  /\ Return
  /\ UNCHANGED <<coreVars, checkpoint, ledger, cursor, floorKnown, linked, aliasFile,
                 stopVars, masterVars, pastVars>>

\* Fault: the loop over the page logs the exception and goes on.
RaisesSwallowed ==
  /\ pc \in {"handle", "build", "park", "finish", "uncertain"}
  /\ Return
  /\ UNCHANGED <<coreVars, checkpoint, diskVars, stopVars, masterVars, pastVars>>

\* A call to Core, a ledger transaction or the cursor file raises: the step did
\* nothing, and the cycle is over.
Raises ==
  /\ \/ pc \in {"fetch", "handle", "build", "park", "finish", "uncertain", "save", "skip"}
     \/ AtEvent("removed") \/ AtEvent("other")
  /\ LeaveCycle
  /\ UNCHANGED <<coreVars, checkpoint, diskVars, stopVars, masterVars, pastVars>>

-----------------------------------------------------------------------------
(***************************************************************************)
(* Shutdown, the end of the process, the next start.                       *)
(***************************************************************************)
\* drain_for_shutdown, in the coordinator's thread: first the flag ...
Suppress ==
  /\ pc # "down" /\ ~suppress /\ ends < MaxEnds
  /\ suppress' = TRUE
  /\ UNCHANGED <<coreVars, checkpoint, diskVars, threadVars, stop, masterVars, pastVars>>

\* ... then the stop event of the poll loop.
StopPolling ==
  /\ suppress /\ ~stop
  /\ stop' = TRUE
  /\ UNCHANGED <<coreVars, checkpoint, diskVars, threadVars, suppress, masterVars, pastVars>>

\* The loop of poll() ends and its finally block flushes the checkpoint.
LeavePoll ==
  /\ pc = "idle" /\ stop
  /\ checkpoint' \in Reported(SavedCursor)
  /\ Goto("stopped")
  /\ UNCHANGED <<coreVars, diskVars, stopVars, masterVars, pastVars>>

\* _health meets a Core of another contract version: poll() flushes and is left
\* for good, the one exception its loop does not outlive.
ContractChanges ==
  /\ pc = "idle" /\ ~stop
  /\ checkpoint' \in Reported(SavedCursor)
  /\ Goto("stopped")
  /\ UNCHANGED <<coreVars, diskVars, stopVars, masterVars, pastVars>>

\* The process ends: a crash, a kill, os._exit.  Only the disk is left.
ProcessEnds ==
  /\ pc # "down" /\ ends < MaxEnds
  /\ pc' = "down"
  /\ cur' = NoWork /\ phase' = "event" /\ todo' = {} /\ inEvent' = FALSE /\ page' = NoPage
  /\ suppress' = FALSE /\ stop' = FALSE
  /\ ends' = ends + 1
  /\ UNCHANGED <<coreVars, checkpoint, diskVars, masterVars, skipped, dropped, echoed, spoiled>>

\* The constructor: reconciliation of the ledger, then the subscription floor.  The
\* aliases are read when they are first needed; a file that cannot be read counts
\* as empty.
Restart ==
  /\ pc = "down"
  /\ ledger' = ReconcileOnStartup(ledger)
  /\ \/ floorKnown' = floorKnown
     \/ ~floorKnown /\ floorKnown' = TRUE
  /\ linked' \in {aliasFile, {}}
  /\ spoiled' = (spoiled \/ linked' # aliasFile)
  /\ Goto("idle")
  /\ UNCHANGED <<coreVars, checkpoint, deferred, cursor, aliasFile, stopVars, masterVars,
                 skipped, dropped, echoed, ends>>

-----------------------------------------------------------------------------
Init ==
  /\ stream = <<>> /\ positions = <<>> /\ head = 0 /\ checkpoint = 0
  /\ coreMedia = [m \in Media |-> "absent"]
  /\ ledger = EmptyLedger /\ deferred = <<>> /\ cursor = 0
  /\ floorKnown \in BOOLEAN /\ linked = {} /\ aliasFile = {}
  /\ pc = "idle" /\ cur = NoWork /\ phase = "event" /\ todo = {}
  /\ inEvent = FALSE /\ page = NoPage
  /\ suppress = FALSE /\ stop = FALSE
  /\ sent = [m \in Messages |-> 0] /\ recalled = {}
  /\ skipped = {} /\ dropped = {} /\ echoed = {} /\ spoiled = FALSE /\ ends = 0
  /\ condemned = {}

Others == \/ \E e \in Catalogue : Publish(e)
          \/ PublishElsewhere
          \/ \E m \in Media, what \in {"partial", "broken"} : MediaTurns(m, what)
          \/ \E m \in Own : SendReturns(m)
          \/ Own # {} /\ StoreRace

Cycle == \/ \E S \in SUBSET Messages : BeginCycle(S)
         \/ \E m \in Messages : RetryMedia(m) \/ RetryDeferred(m)
         \/ BeginDeferred \/ EndDeferred \/ Fetch \/ EndCycle

Dispatch == \/ SkipEvent \/ MessageEvent \/ ReadyEvent \/ RemovedEvent
            \/ SendEvent \/ LinkRaises \/ OtherEvent \/ SaveCursor

Decide == \/ SuppressEcho \/ SuppressTerminal \/ SuppressUncertain
          \/ AcceptPending \/ AcceptFirst \/ SuppressReprojection \/ DeferProvenance

Effect == \/ BuildAndReserve \/ ParkMedia \/ FailMedia
          \/ \E late \in BOOLEAN : DeferMedia(late)
          \/ Deliver \/ DeliverRaises \/ RecordMapping \/ RecordUncertain
          \/ RecordDelivered \/ ResolveDeferral

Life == \/ Raises \/ Suppress \/ StopPolling \/ LeavePoll \/ ContractChanges
        \/ ProcessEnds \/ Restart

Next == Others \/ Cycle \/ Dispatch \/ Decide \/ Effect \/ Life

Spec == Init /\ [][Next]_vars

-----------------------------------------------------------------------------
(***************************************************************************)
(* Safety.                                                                 *)
(***************************************************************************)
TypeOK ==
  /\ stream \in Seq(Events)
  /\ positions \in Seq(Nat) /\ Len(positions) = Len(stream)
  /\ head \in Nat
  /\ coreMedia \in [Media -> Served]
  /\ checkpoint \in Nat
  /\ ledger \in Ledgers
  /\ deferred \in Seq(DeferralEntries(Messages, MediaStatuses))
  /\ cursor \in Nat
  /\ floorKnown \in BOOLEAN
  /\ linked \subseteq Messages /\ aliasFile \subseteq Messages
  /\ pc \in Steps
  /\ cur \in Works
  /\ phase \in Phases
  /\ todo \subseteq Messages
  /\ inEvent \in BOOLEAN
  /\ page \in [last : Nat, more : BOOLEAN, head : Nat]
  /\ suppress \in BOOLEAN /\ stop \in BOOLEAN
  /\ sent \in [Messages -> Nat]
  /\ recalled \subseteq Messages
  /\ skipped \subseteq Nat
  /\ dropped \subseteq Messages /\ echoed \subseteq Messages
  /\ spoiled \in BOOLEAN
  /\ ends \in Nat
  /\ condemned \subseteq Messages

\* The header of EffectLedger.py: over any number of events, retries, failures
\* and restarts a message reaches the master at most once, what reached the
\* master is in a state that is never offered again, and a row says DELIVERED
\* only of a message that did reach it.
AtMostOnceDelivery ==
  \A m \in Messages :
    /\ sent[m] <= 1
    /\ sent[m] = 1 => ledger[m].status \in {"RESERVED", "DELIVERED", "UNCERTAIN"}
    /\ ledger[m].status = "DELIVERED" => sent[m] = 1

\* Where a message is durably taken care of: it has a ledger row, waits in the
\* deferral store, was recognised as the echo of an own send, or was pushed out of
\* the full store.
Accounted(m) == \/ ledger[m].status # NoEffect
                \/ IsDeferred(deferred, m)
                \/ m \in echoed
                \/ m \in dropped

AccountedAt(i) == stream[i].kind = "message" /\ stream[i].msg \notin PreFloor
                    => Accounted(stream[i].msg)

\* poll_once: "Cursor is persisted only after local processing succeeds".  Behind
\* the cursor every message this consumer owes is accounted for, unless its event
\* went by during a shutdown.
NoSilentLoss == \A i \in 1 .. cursor : AccountedAt(i) \/ i \in skipped

\* Defect R14-EFB-MISSING-MEDIA-TERMINAL: transient failures, spent budgets, parking
\* and restarts, in any number and order, never make a terminal failure.  It takes a
\* statement of Core about that media: a payload or a media.ready that calls it
\* broken or names a role other than the original, or an endpoint that refuses it or
\* has a thumbnail or an empty file in its place.
RecoverableMediaKept ==
  \A m \in Media : ledger[m].status = "MEDIA_FAILED" => m \in condemned

\* An own send whose alias was in memory and in the file before the thread first
\* looked at its echo is never offered to the master: not by its event, a
\* re-projection or a deferral retry, not when a later save fails, nor after a
\* restart; unless two threads met in the store, or its file could not be read.
EchoStaysQuiet ==
  \A m \in Own :
    [](m \in linked \cap aliasFile /\ ledger[m].status = NoEffect /\ cur.msg # m
         => [](ledger[m].status = NoEffect \/ spoiled))

\* The checkpoint the consumer reports to Core may run ahead of the cursor on disk,
\* over the events of accounts it does not read.  It never covers an event of its
\* own that is not behind that cursor: no restart needs an event Core was told is
\* done.
CheckpointCovered == \A i \in DOMAIN stream : positions[i] <= checkpoint => i <= cursor

\* What the checkpoint rests on: Core's cursors grow, its head is the last of them,
\* and a page with nothing more to follow holds all events up to the head it names.
Numbered ==
  /\ \A i \in DOMAIN stream : positions[i] \in 1 .. head
  /\ \A i, j \in DOMAIN stream : i < j => positions[i] < positions[j]
  /\ page.head <= head /\ checkpoint <= head
  /\ ~page.more => \A i \in DOMAIN stream : positions[i] <= page.head => i <= page.last

\* What the steps rely on: cursor and page lie inside the stream, and the page is read
\* outside the retry loops; a handler has a message at hand, an event that is handled,
\* with the loops of a media.ready event, lies on the page; the deferral store keeps
\* its bound, and what is left of a deferral loop is still in the store.
WellPlaced ==
  /\ page.last <= Len(stream) /\ cursor <= Len(stream)
  /\ pc \in {"fetch", "events", "save", "skip"} => phase = "event"
  /\ inEvent => phase # "event" /\ cursor < page.last
  /\ pc \in Handling \cup {"save", "skip"} /\ phase = "event" => cursor < page.last
  /\ pc \in Handling => cur.msg \in Messages
  /\ Len(deferred) <= DeferralMaxEntries
  /\ phase = "deferred" => /\ \A m \in todo : IsDeferred(deferred, m)
                           /\ pc \in Handling => cur.msg \notin todo
                           /\ pc = "handle" => IsDeferred(deferred, cur.msg)

\* The reservation is held from before the call until its result is written.
CallReserved ==
  /\ pc = "send" => ledger[cur.msg].status = "RESERVED" /\ sent[cur.msg] = 0
  /\ pc \in {"record", "finish"} => ledger[cur.msg].status = "RESERVED" /\ sent[cur.msg] = 1
  /\ pc = "uncertain" => ledger[cur.msg].status = "RESERVED"

\* The event behind the cursor: the handler works on its message, the retry loops of
\* a media.ready event run inside it, and when the cursor is about to be saved it is
\* done.  From the decision on, a row exists or the handler is about to make one.
EventAtHand ==
  /\ inEvent => /\ Upcoming.kind # "message"
                /\ phase = "media" => todo \subseteq {Upcoming.msg}
  /\ pc \in Handling /\ phase = "event" => Upcoming.kind = "message" /\ Upcoming.msg = cur.msg
  /\ pc = "save" => AccountedAt(cursor + 1)
  /\ pc = "build" /\ cur.seen # NoEffect => Status # NoEffect
  /\ pc \in Handling \ {"handle", "build"} => Status # NoEffect

\* Wherever media is called broken or a thumbnail, in the stream, in the deferral
\* store or at hand, Core said so, and what the endpoint turned to is on record.
RefusalKnown ==
  /\ \A i \in DOMAIN stream : Refuses(stream[i]) => stream[i].msg \in condemned
  /\ \A i \in DOMAIN deferred : Refuses(deferred[i]) => deferred[i].msg \in condemned
  /\ Refuses(cur) => cur.msg \in condemned
  /\ \A m \in Media : coreMedia[m] \in {"partial", "broken"} => m \in condemned

\* A message that predates the floor gets no row, and passes no decision.
FloorRespected ==
  /\ \A m \in PreFloor : ledger[m].status = NoEffect
  /\ pc \in Handling \ {"handle"} => cur.msg \notin PreFloor

Outcome ==
  [m \in Messages |->
     CASE ledger[m].status \in {NoEffect, "PENDING_MEDIA"} -> "unseen"
       [] ledger[m].status = "RESERVED"                    -> "attempting"
       [] ledger[m].status = "DELIVERED"                   -> "delivered"
       [] ledger[m].status = "UNCERTAIN"                   -> "uncertain"
       [] OTHER                                            -> "failed"]

Promise == INSTANCE AtMostOnce WITH Owed <- Messages \ PreFloor,
                                    outcome <- Outcome, reached <- sent

\* The poll thread implements the promise of AtMostOnce: attempts start only for
\* messages at or after the floor, and no ended attempt is taken up again.
KeepsPromise == Promise!Spec

\* How far the thread is with the event behind the cursor.
Reached ==
  CASE pc = "save"                                        -> "done"
    [] pc = "skip"                                        -> "passed"
    [] inEvent \/ (pc \in Handling /\ phase = "event")    -> "taken"
    [] OTHER                                              -> "idle"

Reading == INSTANCE StreamReader WITH head <- Len(stream), beginnings <- {},
                                      place <- Reached, closing <- suppress,
                                      missed <- skipped

\* The poll thread implements StreamReader: over every exception, crash and restart
\* the saved cursor goes from event to event, over an event only when its handler and
\* the retry loops inside it are done, and once the shutdown has begun no event is
\* taken up; what is passed by then is passed for good.
ReadsInOrder == Reading!Spec

-----------------------------------------------------------------------------
(***************************************************************************)
(* Progress.  The thread keeps running, a process that ended is started    *)
(* again, a next_retry_at passes, and outages end: from some moment on     *)
(* Core and the disk answer.  Until then anything may raise, any number of *)
(* times, and nothing at all is assumed of the master, of shutdowns, of    *)
(* transient media errors or of what Core publishes.                       *)
(***************************************************************************)
Thread == Cycle \/ Dispatch \/ Decide \/ Effect \/ Raises \/ LeavePoll \/ Restart

DueCycle(m) == \E S \in SUBSET Messages : m \in S /\ BeginCycle(S)

Fairness == /\ WF_vars(Thread)
            /\ WF_vars(StopPolling)
            /\ \A m \in Media : SF_vars(DueCycle(m))
            /\ <>[][~(Raises \/ LinkRaises)]_vars

FairSpec == Spec /\ Fairness

Over == stop \/ pc = "stopped"

\* Whatever fails on the way, the cursor passes every event Core published: no
\* message, parked media or unclassifiable entry holds up the stream for good.
StreamDrains == \A n \in 1 .. MaxEvents : Len(stream) >= n ~> cursor >= n \/ Over

Settled(m) == ledger[m].status \notin {NoEffect, "PENDING_MEDIA"}

\* A message that is owed, and that can be classified when its event is read, gets
\* its one attempt.
Ahead(i, m, kind) == /\ cursor < i /\ i <= Len(stream) /\ floorKnown
                     /\ stream[i].kind = kind /\ stream[i].msg = m
                     /\ stream[i].origin = "given" /\ ~Refuses(stream[i])

OwedTextSettles ==
  \A i \in 1 .. MaxEvents, m \in Messages \ (Media \cup PreFloor \cup Own) :
    Ahead(i, m, "message") ~> Over \/ i \in skipped \/ Settled(m)

Parked(m) == ledger[m].status = "PENDING_MEDIA" /\ ledger[m].parked

\* media_retry_max_attempts: the active retries of a media effect come to an end;
\* it is settled, or parked to wait for Core.
ActiveRetriesEnd ==
  \A m \in Media :
    ledger[m].status = "PENDING_MEDIA" ~> Over \/ Settled(m) \/ Parked(m)

-----------------------------------------------------------------------------
(***************************************************************************)
(* What comments and docstrings of the code say, and the code does not do. *)
(***************************************************************************)

\* _handle_event: "Events are left unprocessed on purpose so that the preserved
\* cursor replays them after the next start".  poll_once saves their cursor.
SkippedEventsReplay == \A i \in skipped : cursor < i

\* drain_for_shutdown, right before it raises the flag: "no new outbound delivery
\* may be attempted from here on".  The retry loops read the flag once, at the top.
NothingNewAfterSuppress ==
  [][suppress /\ pc \notin Handling => pc' \notin Handling]_vars

\* pending_media: of parked rows, "only an authoritative signal may wake them", an
\* event of Core.  The deferral store still holds the entry of a message whose
\* media turned out to be pending, and offers it again on every cycle.
OnlySignalWakesParked ==
  [][\A m \in Media :
       Parked(m) /\ ~ledger'[m].parked => phase = "event" \/ inEvent]_vars

\* A transient error of the media endpoint: Core has the original.
MediaErrs == Builds("pending") /\ cur.status = "ready" /\ coreMedia[cur.msg] = "ready"
               /\ \E late \in BOOLEAN : DeferMedia(late)

Wakes(i, m) == /\ Ahead(i, m, "ready")
               /\ Parked(m) /\ ledger[m].hasMedia /\ ~IsDeferred(deferred, m)

WakeLeadsToDelivery ==
  \A i \in 1 .. MaxEvents, m \in Media :
    Wakes(i, m) ~> Over \/ i \in skipped \/ Settled(m)

\* _defer_media, of a parked effect: "a later media.ready ... re-activates it and
\* delivers exactly once".  One transient error of the media endpoint uses up the
\* wake-up: the attempts are spent, so the row is parked again at once, and the
\* endpoint is not asked again although it answers from then on.
ParkedMediaWakes == <>[][~MediaErrs]_vars => WakeLeadsToDelivery
=============================================================================
