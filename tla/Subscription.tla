---------------------------- MODULE Subscription ----------------------------
(***************************************************************************)
(* Where a subscription begins.  The cursor and the floor are both taken   *)
(* from the bootstrap record Core keeps of the consumer: the constructor   *)
(* aligns the cursor with it and stores the floor, poll_once makes up for  *)
(* what the constructor missed.  Core may be unreachable in any call, an   *)
(* operator may bootstrap the consumer again, accounts may appear late,    *)
(* and the process may end between any two steps.                          *)
(*                                                                         *)
(* Every step of Core takes one unit of time.  Position n of the stream    *)
(* has cursor n.                                                           *)
(***************************************************************************)
EXTENDS Naturals, Sequences

CONSTANTS Messages,
          Accounts,
          AccountOf,              \* the account of each message
          Born,                   \* created_at of each message
          Cursored,               \* messages whose payload names the cursor of their origin
          Filter,                 \* account_ids of the config, or empty
          Wildcard,               \* the scope "*"
          None,
          ProvenanceMaxAttempts,
          MaxTime,                \* bound: steps of Core
          MaxEnds                 \* bound: how often the process ends

ASSUME SubscriptionAssumption ==
  /\ AccountOf \in [Messages -> Accounts]
  /\ Born \in [Messages -> Nat]
  /\ Cursored \subseteq Messages
  /\ Filter \subseteq Accounts
  /\ Wildcard \notin Accounts
  /\ None \notin Nat
  /\ ProvenanceMaxAttempts \in Nat \ {0}
  /\ MaxTime \in Nat
  /\ MaxEnds \in Nat

Scopes == Accounts \cup {Wildcard}

Instants == 0 .. MaxTime

Events == [msg : Messages, at : Instants]

\* initial_cursor and bootstrap_at; a legacy record has no usable bootstrap_at.
Anchors == [cursor : Instants, at : Instants, dated : BOOLEAN]

Floors    == [cursor : Instants, at : Instants \cup {None}]
NoFloor   == [cursor |-> None, at |-> None]

VARIABLES
  \* Core: its clock, the stream, the cursor of each message's first event, the
  \* accounts it lists, the bootstrap records of the consumer, the last in force.
  now, stream, firstSeen, coreAccounts, boots,
  \* On disk: the cursor, the floor of each scope, the deferral attempts.
  cursor, floorFile, attempts,
  \* The process: its place, the floors in memory, the rest of the retry loop,
  \* the end of the page.
  pc, floors, todo, page,
  \* The ledger: delivered messages.  History: suppressed ones, positions given
  \* to the handler, cursor 0 saved for want of an answer, process ends.
  delivered, suppressed, offered, blind, ends

coreVars == <<now, stream, firstSeen, coreAccounts, boots>>
loopVars == <<todo, page>>
workVars == <<attempts, delivered, suppressed>>
pastVars == <<offered, blind, ends>>
vars == <<coreVars, cursor, floorFile, pc, floors, loopVars, workVars, pastVars>>

Steps == {"down", "align", "floor", "idle", "refloor", "retry", "fetch", "realign", "events",
          "save"}

NoFloors == [s \in Scopes |-> NoFloor]

-----------------------------------------------------------------------------
(***************************************************************************)
(* Core.                                                                   *)
(***************************************************************************)
Passes == now < MaxTime /\ now' = now + 1

\* A message.created, or a re-projection of any message that exists by now.
Project(m) ==
  /\ Passes /\ Born[m] <= now
  /\ stream' = Append(stream, [msg |-> m, at |-> now])
  /\ firstSeen' = [firstSeen EXCEPT ![m] = IF @ = 0 THEN Len(stream) + 1 ELSE @]
  /\ UNCHANGED <<coreAccounts, boots, cursor, floorFile, pc, floors, loopVars, workVars, pastVars>>

\* The operator bootstraps a consumer again, at the head or with a window.
Rebootstrap(from, dated) ==
  /\ Passes /\ boots # <<>>
  /\ boots' = Append(boots, [cursor |-> from, at |-> now, dated |-> dated])
  /\ UNCHANGED <<stream, firstSeen, coreAccounts, cursor, floorFile, pc, floors, loopVars,
                 workVars, pastVars>>

AccountJoins(a) ==
  /\ a \notin coreAccounts
  /\ coreAccounts' = coreAccounts \cup {a}
  /\ UNCHANGED <<now, stream, firstSeen, boots, cursor, floorFile, pc, floors, loopVars,
                 workVars, pastVars>>

Anchor == boots[Len(boots)]

\* Fault: the event after the initial cursor is taken.
NextFrom(n) == n + 1

\* The instant _derive_floor_at_from_core finds: that of the first event after
\* initial_cursor - 1.
FirstFrom(n) == IF n = 0 THEN 1 ELSE n

InstantFrom(n) == IF FirstFrom(n) <= Len(stream) THEN stream[FirstFrom(n)].at ELSE None

-----------------------------------------------------------------------------
(***************************************************************************)
(* The constructor.                                                        *)
(***************************************************************************)
Start ==
  /\ pc = "down"
  /\ pc' = "align"
  /\ floors' = floorFile
  /\ UNCHANGED <<coreVars, cursor, floorFile, loopVars, workVars, pastVars>>

\* Fault: the cursor is set to what Core says, wherever it was.
AlignedBack(init) == init

\* Fault: a missing cursor starts at 0.
AlignedFromZero(init) == IF cursor = None THEN 0 ELSE IF cursor < init THEN init ELSE cursor

\* Fault: a missing cursor starts at the head of the stream.
AlignedAtHead(init) ==
  IF cursor = None THEN Len(stream) ELSE IF cursor < init THEN init ELSE cursor

Aligned(init) == IF cursor = None \/ cursor < init THEN init ELSE cursor

\* align_with_core: GET the record; if there is none or no answer, POST an at_head
\* bootstrap, which Core answers with the record it has, makes without its answer
\* arriving, or never gets.  Without a record the initial cursor counts as 0.
Align(get, post, dated, saved) ==
  LET found == get /\ boots # <<>>
      made  == ~found /\ boots = <<>> /\ post # "unreached"
      told  == found \/ post = "answered"
  IN /\ pc \in {"align", "realign"}
     /\ pc = "realign" => cursor = None
     /\ IF made
          THEN Passes /\ boots' = Append(boots, [cursor |-> Len(stream), at |-> now, dated |-> dated])
          ELSE UNCHANGED <<now, boots>>
     /\ cursor' = IF saved THEN Aligned(IF told THEN boots'[Len(boots')].cursor ELSE 0) ELSE cursor
     /\ blind' = (blind \/ (saved /\ cursor = None /\ ~told))
     /\ pc' = IF pc = "align" THEN "floor" ELSE IF saved THEN "fetch" ELSE "idle"
     /\ UNCHANGED <<stream, firstSeen, coreAccounts, floorFile, floors, loopVars, workVars,
                    offered, ends>>

\* _floor_account_scope
Scope(listed) ==
  IF Filter # {} THEN Filter
  ELSE IF listed /\ coreAccounts # {} THEN coreAccounts ELSE {Wildcard}

FloorFromCore(derived) ==
  [cursor |-> Anchor.cursor,
   at     |-> IF Anchor.dated THEN Anchor.at ELSE IF derived THEN InstantFrom(Anchor.cursor) ELSE None]

AfterFloor == IF pc = "floor" THEN "idle" ELSE "retry"

\* ensure_from_core, answered: the floors of the scope are written, to memory and
\* then to the file.  A floor that has this anchor already is the same record.
EnsureFloor(listed, derived) ==
  /\ pc \in {"floor", "refloor"} /\ boots # <<>>
  /\ floors' = [s \in Scopes |-> IF s \in Scope(listed) THEN FloorFromCore(derived) ELSE floors[s]]
  /\ floorFile' = floors'
  /\ pc' = AfterFloor
  /\ UNCHANGED <<coreVars, cursor, loopVars, workVars, pastVars>>

\* The file cannot be written: the constructor, or poll(), logs the exception.
FloorSaveFails(listed, derived) ==
  /\ pc \in {"floor", "refloor"} /\ boots # <<>>
  /\ floors' = [s \in Scopes |-> IF s \in Scope(listed) THEN FloorFromCore(derived) ELSE floors[s]]
  /\ floors' # floors
  /\ pc' = "idle"
  /\ UNCHANGED <<coreVars, cursor, floorFile, loopVars, workVars, pastVars>>

\* No answer, or no record: what is known is kept.
FloorUnread ==
  /\ pc \in {"floor", "refloor"}
  /\ pc' = AfterFloor
  /\ UNCHANGED <<coreVars, cursor, floorFile, floors, loopVars, workVars, pastVars>>

-----------------------------------------------------------------------------
(***************************************************************************)
(* poll_once.                                                              *)
(***************************************************************************)
ScopedAccounts == {s \in Scopes : floors[s] # NoFloor}

Due == {m \in Messages : attempts[m] \in 1 .. ProvenanceMaxAttempts - 1}

\* Fault: only the constructor asks for the floor.
BeginCycleAsItIs ==
  /\ pc = "idle"
  /\ pc' = "retry" /\ todo' = Due
  /\ UNCHANGED <<coreVars, cursor, floorFile, floors, page, workVars, pastVars>>

\* health() has answered.
BeginCycle ==
  /\ pc = "idle"
  /\ pc' = IF ScopedAccounts = {} THEN "refloor" ELSE "retry"
  /\ todo' = Due
  /\ UNCHANGED <<coreVars, cursor, floorFile, floors, page, workVars, pastVars>>

FloorOf(a) == IF floors[a] # NoFloor THEN floors[a] ELSE floors[Wildcard]

\* The origin a message is judged by, and what of the floor it is held against.  An
\* origin cursor is preferred to created_at, and there is no way from the one to the
\* other: without the part it needs of the floor a message cannot be judged.
Origin(m) == IF m \in Cursored THEN firstSeen[m] ELSE Born[m]

Bound(m) ==
  LET floor == FloorOf(AccountOf[m]) IN IF m \in Cursored THEN floor.cursor ELSE floor.at

Comparable(m) == Bound(m) # None

\* What becomes of a message.  readable: its origin is in the payload, or Core has
\* it.  Delivered effects are closed; an indeterminate message is (re)deferred; a
\* suppressed one leaves no trace, and keeps the entry it may have.
Close(m) ==
  /\ m \in delivered
  /\ attempts' = [attempts EXCEPT ![m] = 0]
  /\ UNCHANGED <<delivered, suppressed>>

DeferMessage(m, readable) ==
  /\ m \notin delivered /\ ~(readable /\ Comparable(m))
  /\ attempts' = [attempts EXCEPT ![m] = IF @ < ProvenanceMaxAttempts THEN @ + 1 ELSE @]
  /\ UNCHANGED <<delivered, suppressed>>

Suppress(m) ==
  /\ m \notin delivered /\ Comparable(m) /\ Origin(m) < Bound(m)
  /\ suppressed' = suppressed \cup {m}
  /\ UNCHANGED <<attempts, delivered>>

Deliver(m) ==
  /\ m \notin delivered /\ Comparable(m) /\ Origin(m) >= Bound(m)
  /\ delivered' = delivered \cup {m}
  /\ attempts' = [attempts EXCEPT ![m] = 0]
  /\ UNCHANGED suppressed

HandleMessage(m) ==
  \/ Close(m)
  \/ \E readable \in BOOLEAN : DeferMessage(m, readable)
  \/ Suppress(m)
  \/ Deliver(m)

\* _retry_deferred_provenance
Retry(m) ==
  /\ pc = "retry" /\ m \in todo
  /\ HandleMessage(m)
  /\ todo' = todo \ {m}
  /\ UNCHANGED <<coreVars, cursor, floorFile, pc, floors, page, pastVars>>

\* Fault: the cycle relies on the constructor's alignment.
RetriesEndUnaligned ==
  /\ pc = "retry" /\ todo = {}
  /\ pc' = "fetch"
  /\ UNCHANGED <<coreVars, cursor, floorFile, floors, loopVars, workVars, pastVars>>

\* The cursor is loaded; without one it is aligned first.
RetriesEnd ==
  /\ pc = "retry" /\ todo = {}
  /\ pc' = IF cursor = None THEN "realign" ELSE "fetch"
  /\ UNCHANGED <<coreVars, cursor, floorFile, floors, loopVars, workVars, pastVars>>

Fetch ==
  /\ pc = "fetch"
  /\ pc' = "events" /\ page' = Len(stream)
  /\ UNCHANGED <<coreVars, cursor, floorFile, floors, todo, workVars, pastVars>>

\* With a filter the other accounts' events are not even handed on.
HandleNext ==
  LET m == stream[cursor + 1].msg
  IN /\ pc = "events" /\ cursor < page
     /\ IF Filter = {} \/ AccountOf[m] \in Filter THEN HandleMessage(m) ELSE UNCHANGED workVars
     /\ offered' = offered \cup {cursor + 1}
     /\ pc' = "save"
     /\ UNCHANGED <<coreVars, cursor, floorFile, floors, loopVars, blind, ends>>

SaveCursor ==
  /\ pc = "save"
  /\ cursor' = cursor + 1
  /\ pc' = "events"
  /\ UNCHANGED <<coreVars, floorFile, floors, loopVars, workVars, pastVars>>

EndCycle ==
  /\ pc = "events" /\ cursor >= page
  /\ pc' = "idle" /\ page' = 0
  /\ UNCHANGED <<coreVars, cursor, floorFile, floors, todo, workVars, pastVars>>

\* A call to Core, the master or a store raises; poll() logs it.
CycleFails ==
  /\ pc \in {"retry", "fetch", "events", "save"}
  /\ pc' = "idle" /\ todo' = {} /\ page' = 0
  /\ UNCHANGED <<coreVars, cursor, floorFile, floors, workVars, pastVars>>

End ==
  /\ pc # "down" /\ ends < MaxEnds
  /\ pc' = "down" /\ ends' = ends + 1
  /\ floors' = NoFloors /\ todo' = {} /\ page' = 0
  /\ UNCHANGED <<coreVars, cursor, floorFile, workVars, offered, blind>>

-----------------------------------------------------------------------------
Init ==
  /\ now = 0 /\ stream = <<>> /\ coreAccounts = {} /\ boots = <<>>
  /\ firstSeen = [m \in Messages |-> 0]
  /\ cursor = None /\ floorFile = NoFloors /\ attempts = [m \in Messages |-> 0]
  /\ pc = "down" /\ floors = NoFloors /\ todo = {} /\ page = 0
  /\ delivered = {} /\ suppressed = {} /\ offered = {} /\ blind = FALSE /\ ends = 0

CoreStep ==
  \/ \E m \in Messages : Project(m)
  \/ \E from \in 0 .. Len(stream), dated \in BOOLEAN : Rebootstrap(from, dated)
  \/ \E a \in Accounts : AccountJoins(a)

AlignStep ==
  \E get, dated, saved \in BOOLEAN, post \in {"answered", "lost", "unreached"} :
    Align(get, post, dated, saved)

FloorStep ==
  \/ \E listed, derived \in BOOLEAN : EnsureFloor(listed, derived) \/ FloorSaveFails(listed, derived)
  \/ FloorUnread

CycleStep ==
  \/ BeginCycle
  \/ \E m \in Messages : Retry(m)
  \/ RetriesEnd
  \/ Fetch
  \/ HandleNext
  \/ SaveCursor
  \/ EndCycle

Next == CoreStep \/ Start \/ AlignStep \/ FloorStep \/ CycleStep \/ CycleFails \/ End

\* The process is started and its thread runs; Core answers again and again.
Fairness ==
  /\ WF_vars(Start)
  /\ WF_vars(AlignStep)
  /\ WF_vars(FloorStep)
  /\ WF_vars(CycleStep)
  /\ SF_vars(\E listed, derived \in BOOLEAN : EnsureFloor(listed, derived))

Spec == Init /\ [][Next]_vars /\ Fairness

-----------------------------------------------------------------------------
TypeOK ==
  /\ now \in Instants
  /\ stream \in Seq(Events) /\ Len(stream) <= now
  /\ firstSeen \in [Messages -> Instants]
  /\ coreAccounts \subseteq Accounts
  /\ boots \in Seq(Anchors)
  /\ cursor \in Instants \cup {None}
  /\ floorFile \in [Scopes -> Floors \cup {NoFloor}]
  /\ floors \in [Scopes -> Floors \cup {NoFloor}]
  /\ attempts \in [Messages -> 0 .. ProvenanceMaxAttempts]
  /\ pc \in Steps /\ todo \subseteq Messages /\ page \in 0 .. Len(stream)
  /\ delivered \subseteq Messages /\ suppressed \subseteq Messages
  /\ offered \subseteq 1 .. Len(stream)
  /\ blind \in BOOLEAN /\ ends \in 0 .. MaxEnds
  /\ pc \in {"fetch", "events", "save"} => cursor # None
  /\ pc = "save" => cursor < page
  /\ cursor # None => cursor <= Len(stream)

\* A message belongs to the time after a bootstrap record: all its events lie at or
\* behind the initial cursor; or it was created when the bootstrap had been made; or,
\* of a record that does not say when that was, no earlier than an event from the
\* initial cursor on.
After(m, b) ==
  IF m \in Cursored THEN \A n \in DOMAIN stream : stream[n].msg = m => n >= b.cursor
  ELSE IF b.dated THEN Born[m] >= b.at
  ELSE \E n \in DOMAIN stream : n >= b.cursor /\ Born[m] >= stream[n].at

\* It belongs to the time before: an event of it lies before the initial cursor, or it
\* was created before the bootstrap, or before every event from the cursor on.
Before(m, b) ==
  IF m \in Cursored THEN \E n \in DOMAIN stream : stream[n].msg = m /\ n < b.cursor
  ELSE IF b.dated THEN Born[m] < b.at
  ELSE /\ \E n \in DOMAIN stream : n >= b.cursor
       /\ \A n \in DOMAIN stream : n >= b.cursor => Born[m] < stream[n].at

\* What a message is taken for agrees with a bootstrap record of Core: a delivered
\* message belongs to the time after one, a suppressed message to the time before one.
\* So no message is judged while nothing is known of a bootstrap, and with a single
\* record none is delivered that Core's stream and clocks put before it, over outages,
\* deferrals, restarts, unreadable floors and re-projections.
JustifiedByAnchor ==
  /\ \A m \in delivered  : \E b \in DOMAIN boots : After(m, boots[b])
  /\ \A m \in suppressed : \E b \in DOMAIN boots : Before(m, boots[b])

\* The cursor passes over an event only if the handler has had it, or Core put it
\* before the beginning of the subscription.
NothingSkipped ==
  cursor # None =>
    \A n \in 1 .. cursor : n \in offered \/ \E b \in DOMAIN boots : n <= boots[b].cursor

\* "Full historical catchup from 0 is blocked": what is handled lies after an
\* initial cursor, unless 0 was saved because Core did not answer.
HistoryBlocked ==
  ~blind => \A n \in offered : \E b \in DOMAIN boots : n > boots[b].cursor

Beginnings == {boots[b].cursor : b \in DOMAIN boots}

LastRead == IF cursor = None THEN 0 ELSE cursor

Reading == INSTANCE StreamReader WITH
             head    <- Len(stream), beginnings <- Beginnings, cursor <- LastRead,
             closing <- FALSE,       missed     <- {},
             place   <- IF pc = "save" THEN "done" ELSE "idle"

\* With bootstraps and alignment too the cursor is read in order, as StreamReader
\* says: it moves over an event that was handled, or forward to a beginning Core
\* keeps, and only between two events.
ReadsInOrder == Reading!Spec

\* No bootstrap, restart or outage moves the saved cursor back.
CursorMonotone ==
  [][cursor # None => cursor' # None /\ cursor' >= cursor]_vars

\* A consumer Core knows gets a floor in every process that goes on running, even if
\* Core was unreachable when it started.
FloorArrives == boots # <<>> ~> (ScopedAccounts # {} \/ pc = "down")
=============================================================================
