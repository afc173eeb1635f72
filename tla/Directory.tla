----------------------------- MODULE Directory -----------------------------
(***************************************************************************)
(* The directory of the chats of an account: two dictionaries in ChatMgr,   *)
(* filled from Core's paged listing by two threads without a lock.  The     *)
(* master's thread asks for all chats or for one; the poll thread resolves  *)
(* the chat of a message and handles chat.updated, by which a chat may turn *)
(* out to be gone.  Core changes between two pages, and what it answers as  *)
(* the next cursor need not make sense.                                    *)
(***************************************************************************)
EXTENDS Naturals

CONSTANTS Chats,
          Cursors,       \* of pages
          First,         \* the page read without a cursor
          PageOf,        \* the page each chat is on, while others come and go
          Last,          \* no next cursor
          Pagings,       \* what Core may answer as the next cursor of each page
          Master, Poller,
          NoChat,
          MaxObjects,    \* bound: Chat objects made
          MaxChanges     \* bound: changes of Core's chats

ASSUME DirectoryAssumption ==
  /\ First \in Cursors /\ Last \notin Cursors
  /\ PageOf \in [Chats -> Cursors]
  /\ Pagings \subseteq [Cursors -> (Cursors \ {First}) \cup {Last}]
  /\ Master # Poller
  /\ NoChat \notin Chats
  /\ MaxObjects \in Nat /\ MaxChanges \in Nat

Threads == {Master, Poller}

VARIABLES
  \* Core: the chats there are, the next cursor it answers after each page, of
  \* each chat the chat.updated events before the cursor of the slave.
  chats, nextOf, pending,
  \* ChatMgr: the objects by uid and by Core id, 0 for none; objects made.
  byUid, byCore, objects,
  \* Of each thread: its step, what it is for, the chat it is for, the page it
  \* reads next, the cursors seen, the records listed, the record in hand with the
  \* object for it.
  at, task, want, cursor, seen, rows, record, object,
  \* History: chats absent from Core at some time since the poll thread began its
  \* task, the threads were in each other's way, changes of Core.
  absent, raced, changes

coreVars  == <<chats, nextOf, pending>>
indexVars == <<byUid, byCore, objects>>
callVars  == <<want, cursor, seen, rows, record, object>>
pastVars  == <<absent, raced, changes>>
vars == <<coreVars, indexVars, at, task, callVars, pastVars>>

Other(t) == IF t = Master THEN Poller ELSE Master

\* Between reading a dictionary or a page and the writes that rely on it.
Listing(t) == at[t] # "idle" /\ rows[t] # {}
Building(t) == at[t] \in {"uid", "core", "unindex"}

-----------------------------------------------------------------------------
(***************************************************************************)
(* Core.                                                                   *)
(***************************************************************************)
ChatChanges(c) ==
  /\ changes < MaxChanges
  /\ changes' = changes + 1
  /\ chats' = IF c \in chats THEN chats \ {c} ELSE chats \cup {c}
  /\ absent' = IF c \in chats THEN absent \cup {c} ELSE absent
  /\ pending' = [pending EXCEPT ![c] = @ + 1]
  /\ UNCHANGED <<nextOf, indexVars, at, task, callVars, raced>>

-----------------------------------------------------------------------------
(***************************************************************************)
(* The calls, and the listing they share.                                  *)
(***************************************************************************)
Begin(t, what, c) ==
  /\ at[t] = "idle"
  /\ at' = [at EXCEPT ![t] = "page"]
  /\ task' = [task EXCEPT ![t] = what] /\ want' = [want EXCEPT ![t] = c]
  /\ absent' = IF t = Poller THEN Chats \ chats ELSE absent
  /\ UNCHANGED <<coreVars, indexVars, cursor, seen, rows, record, object, raced, changes>>

GetChats == Begin(Master, "all", NoChat)

\* get_chat looks in one dictionary, _resolve_core_chat in the other.
GetChat(c)     == byUid[c] = 0 /\ byCore[c] = 0 /\ Begin(Master, "one", c)
ResolveChat(c) == byCore[c] = 0 /\ Begin(Poller, "one", c)

\* chat.updated, with the object known so far.
ChatUpdated(c) == pending[c] > 0 /\ Begin(Poller, IF byCore[c] = 0 THEN "new" ELSE "old", c)

\* The locals of list_chats and of the call itself go when it is left.
Leaves(t) ==
  /\ at' = [at EXCEPT ![t] = "idle"] /\ task' = [task EXCEPT ![t] = "none"]
  /\ want' = [want EXCEPT ![t] = NoChat] /\ cursor' = [cursor EXCEPT ![t] = First]
  /\ seen' = [seen EXCEPT ![t] = {}] /\ rows' = [rows EXCEPT ![t] = {}]
  /\ record' = [record EXCEPT ![t] = NoChat] /\ object' = [object EXCEPT ![t] = 0]

\* What is done with the records: all are built, or those up to the one wanted, or
\* just that one.
ForBuilding(t, listed) == IF task[t] \in {"new", "old"} THEN listed \cap {want[t]} ELSE listed

\* Where a complete listing leads to.
AfterListing(t, listed) ==
  IF task[t] \in {"new", "old"} /\ want[t] \notin listed THEN "remove" ELSE "records"

\* Fault: the first page is taken for the listing.
ReadFirstPage(t) ==
  LET listed == {c \in chats : PageOf[c] = cursor[t]}
  IN /\ at[t] = "page"
     /\ rows' = [rows EXCEPT ![t] = ForBuilding(t, listed)]
     /\ at' = [at EXCEPT ![t] = AfterListing(t, listed)]
     /\ UNCHANGED <<coreVars, indexVars, task, want, cursor, seen, record, object, pastVars>>

\* Fault: a cursor that comes again is followed again.
ReadOnAndOn(t) ==
  LET listed == rows[t] \cup {c \in chats : PageOf[c] = cursor[t]}
      next   == nextOf[cursor[t]]
  IN /\ at[t] = "page"
     /\ IF next = Last
          THEN /\ rows' = [rows EXCEPT ![t] = ForBuilding(t, listed)]
               /\ at' = [at EXCEPT ![t] = AfterListing(t, listed)]
               /\ cursor' = [cursor EXCEPT ![t] = First] /\ seen' = [seen EXCEPT ![t] = {}]
          ELSE /\ rows' = [rows EXCEPT ![t] = listed]
               /\ cursor' = [cursor EXCEPT ![t] = next]
               /\ UNCHANGED <<at, seen>>
     /\ UNCHANGED <<coreVars, indexVars, task, want, record, object, pastVars>>

\* list_chats: a page without a next cursor, or with its own, is the last one.
ReadPage(t) ==
  LET listed == rows[t] \cup {c \in chats : PageOf[c] = cursor[t]}
      next   == nextOf[cursor[t]]
  IN /\ at[t] = "page" /\ next \notin seen[t] \ {cursor[t]}
     /\ IF next \in {Last, cursor[t]}
          THEN /\ rows' = [rows EXCEPT ![t] = ForBuilding(t, listed)]
               /\ at' = [at EXCEPT ![t] = AfterListing(t, listed)]
               /\ cursor' = [cursor EXCEPT ![t] = First] /\ seen' = [seen EXCEPT ![t] = {}]
          ELSE /\ rows' = [rows EXCEPT ![t] = listed]
               /\ cursor' = [cursor EXCEPT ![t] = next]
               /\ seen' = [seen EXCEPT ![t] = @ \cup {next}]
               /\ UNCHANGED at
     /\ UNCHANGED <<coreVars, indexVars, task, want, record, object, pastVars>>

\* Fault: the exception is swallowed, and the event counts as handled.
ListingSwallowed(t) ==
  /\ at[t] = "page"
  /\ pending' = IF task[t] \in {"new", "old"} THEN [pending EXCEPT ![want[t]] = @ - 1] ELSE pending
  /\ Leaves(t)
  /\ UNCHANGED <<chats, nextOf, indexVars, pastVars>>

\* The call to Core fails, or a cursor comes again: the exception leaves the call,
\* and an event stays before the cursor.
ListingFails(t) ==
  /\ at[t] = "page"
  /\ Leaves(t)
  /\ UNCHANGED <<coreVars, indexVars, pastVars>>

-----------------------------------------------------------------------------
(***************************************************************************)
(* ChatMgr.                                                                *)
(***************************************************************************)
\* build_core_chat reads the object of the uid; a cached one of another type is
\* replaced, as if there were none.
TakeRecord(t, c, fits) ==
  /\ at[t] = "records" /\ c \in rows[t]
  /\ record' = [record EXCEPT ![t] = c] /\ rows' = [rows EXCEPT ![t] = @ \ {c}]
  /\ IF byUid[c] # 0 /\ fits
       THEN /\ object' = [object EXCEPT ![t] = byUid[c]]
            /\ at' = [at EXCEPT ![t] = "core"]
            /\ UNCHANGED objects
       ELSE /\ objects < MaxObjects
            /\ objects' = objects + 1
            /\ object' = [object EXCEPT ![t] = objects']
            /\ at' = [at EXCEPT ![t] = "uid"]
  /\ raced' = (raced \/ Building(Other(t)))
  /\ UNCHANGED <<coreVars, byUid, byCore, task, want, cursor, seen, absent, changes>>

IndexByUid(t) ==
  /\ at[t] = "uid"
  /\ byUid' = [byUid EXCEPT ![record[t]] = object[t]]
  /\ at' = [at EXCEPT ![t] = "core"]
  /\ UNCHANGED <<coreVars, byCore, objects, task, callVars, pastVars>>

\* Fault: a cached chat is not put back under its Core id.
IndexNewByCore(t) ==
  /\ at[t] = "core"
  /\ byCore' = IF byCore[record[t]] = 0 THEN [byCore EXCEPT ![record[t]] = object[t]] ELSE byCore
  /\ at' = [at EXCEPT ![t] = IF record[t] = want[t] THEN "found" ELSE "records"]
  /\ record' = [record EXCEPT ![t] = NoChat] /\ object' = [object EXCEPT ![t] = 0]
  /\ UNCHANGED <<coreVars, byUid, objects, task, want, cursor, seen, rows, pastVars>>

IndexByCore(t) ==
  /\ at[t] = "core"
  /\ byCore' = [byCore EXCEPT ![record[t]] = object[t]]
  /\ at' = [at EXCEPT ![t] = IF record[t] = want[t] THEN "found" ELSE "records"]
  /\ record' = [record EXCEPT ![t] = NoChat] /\ object' = [object EXCEPT ![t] = 0]
  /\ UNCHANGED <<coreVars, byUid, objects, task, want, cursor, seen, rows, pastVars>>

\* remove takes the chat out of one dictionary ...
Remove ==
  LET c == want[Poller]
  IN /\ at[Poller] = "remove" /\ byCore[c] # 0
     /\ byCore' = [byCore EXCEPT ![c] = 0]
     /\ object' = [object EXCEPT ![Poller] = byCore[c]]
     /\ at' = [at EXCEPT ![Poller] = "unindex"]
     /\ raced' = (raced \/ Listing(Master) \/ Building(Master))
     /\ UNCHANGED <<coreVars, byUid, objects, task, want, cursor, seen, rows, record, absent,
                    changes>>

\* ... then out of the other; removed_chats is announced and the cursor saved.  If
\* send_status raises the event comes again, and finds nothing left to announce.
AnnounceRemoved ==
  /\ at[Poller] = "unindex"
  /\ byUid' = [byUid EXCEPT ![want[Poller]] = 0]
  /\ pending' \in {pending, [pending EXCEPT ![want[Poller]] = @ - 1]}
  /\ Leaves(Poller)
  /\ UNCHANGED <<chats, nextOf, byCore, objects, pastVars>>

\* A chat that was not known either: nothing to announce.
NothingToRemove ==
  /\ at[Poller] = "remove" /\ byCore[want[Poller]] = 0
  /\ pending' = [pending EXCEPT ![want[Poller]] = @ - 1]
  /\ raced' = (raced \/ Listing(Master) \/ Building(Master))
  /\ Leaves(Poller)
  /\ UNCHANGED <<chats, nextOf, indexVars, absent, changes>>

\* Fault: any chat found takes an update with it.
FoundForAll(t) ==
  /\ at[t] = "found"
  /\ pending' = [pending EXCEPT ![want[t]] = @ - 1]
  /\ Leaves(t)
  /\ UNCHANGED <<chats, nextOf, indexVars, pastVars>>

\* The call returns the chat, or announces it as new or modified, which may raise.
Found(t) ==
  /\ at[t] = "found"
  /\ \/ pending' = pending
     \/ task[t] \in {"new", "old"} /\ pending' = [pending EXCEPT ![want[t]] = @ - 1]
  /\ Leaves(t)
  /\ UNCHANGED <<chats, nextOf, indexVars, pastVars>>

\* All records are built: get_chats returns; otherwise the chat was not found.
RecordsEnd(t) ==
  /\ at[t] = "records" /\ rows[t] = {}
  /\ Leaves(t)
  /\ UNCHANGED <<coreVars, indexVars, pastVars>>

-----------------------------------------------------------------------------
Init ==
  /\ chats \in SUBSET Chats
  /\ nextOf \in Pagings
  /\ pending = [c \in Chats |-> 0]
  /\ byUid = [c \in Chats |-> 0] /\ byCore = [c \in Chats |-> 0] /\ objects = 0
  /\ at = [t \in Threads |-> "idle"] /\ task = [t \in Threads |-> "none"]
  /\ want = [t \in Threads |-> NoChat] /\ cursor = [t \in Threads |-> First]
  /\ seen = [t \in Threads |-> {}] /\ rows = [t \in Threads |-> {}]
  /\ record = [t \in Threads |-> NoChat] /\ object = [t \in Threads |-> 0]
  /\ absent = {} /\ raced = FALSE /\ changes = 0

BeginStep ==
  \/ GetChats
  \/ \E c \in Chats : GetChat(c) \/ ResolveChat(c) \/ ChatUpdated(c)

ThreadStep(t) ==
  \/ ReadPage(t)
  \/ ListingFails(t)
  \/ \E c \in Chats, fits \in BOOLEAN : TakeRecord(t, c, fits)
  \/ IndexByUid(t)
  \/ IndexByCore(t)
  \/ Found(t)
  \/ RecordsEnd(t)

RemoveStep == Remove \/ AnnounceRemoved \/ NothingToRemove

Next ==
  \/ \E c \in Chats : ChatChanges(c)
  \/ BeginStep
  \/ \E t \in Threads : ThreadStep(t)
  \/ RemoveStep

\* Each page is answered, and each call goes on.
Spec == Init /\ [][Next]_vars /\ \A t \in Threads : WF_vars(ThreadStep(t))

-----------------------------------------------------------------------------
TypeOK ==
  /\ chats \subseteq Chats /\ pending \in [Chats -> 0 .. MaxChanges]
  /\ nextOf \in Pagings
  /\ byUid \in [Chats -> 0 .. objects] /\ byCore \in [Chats -> 0 .. objects]
  /\ objects \in 0 .. MaxObjects
  /\ at \in [Threads -> {"idle", "page", "records", "uid", "core", "found", "remove", "unindex"}]
  /\ task \in [Threads -> {"none", "all", "one", "new", "old"}]
  /\ want \in [Threads -> Chats \cup {NoChat}] /\ cursor \in [Threads -> Cursors]
  /\ seen \in [Threads -> SUBSET Cursors] /\ rows \in [Threads -> SUBSET Chats]
  /\ record \in [Threads -> Chats \cup {NoChat}] /\ object \in [Threads -> 0 .. objects]
  /\ absent \subseteq Chats /\ raced \in BOOLEAN /\ changes \in 0 .. MaxChanges
  /\ \A t \in Threads : at[t] \in {"uid", "core"} => record[t] # NoChat /\ object[t] # 0
  /\ at[Master] \notin {"remove", "unindex"}

\* Core's cursors lead from the first page through all pages: no other set of pages
\* has the first one and the next of each.
Sound ==
  \A pages \in SUBSET Cursors :
    First \in pages /\ (\A p \in pages : nextOf[p] \in pages \cup {Last}) => pages = Cursors

\* With sound paging a chat is announced as removed only if Core was without it at
\* some time since the event was taken up: it is never a chat on another page.
RemovedWasAbsent ==
  at[Poller] \in {"remove", "unindex"} /\ Sound => want[Poller] \in absent

\* The two dictionaries hold the same object for a chat whenever no thread is
\* between the two writes, unless the threads were in each other's way.
IndicesAgree ==
  ~raced /\ (\A t \in Threads : ~Building(t)) => byUid = byCore

\* When all updates have been handled no removed chat is left in the directory,
\* unless one thread built from a listing older than the removal by the other.
NoGhosts ==
  ~raced /\ (\A t \in Threads : ~Listing(t) /\ ~Building(t)) =>
    \A c \in Chats : byCore[c] # 0 => c \in chats \/ pending[c] > 0

\* A listing ends, whatever cursors Core answers and however they repeat: the poll
\* thread is not held up in it with all events behind.
ListingEnds == at[Poller] = "page" ~> at[Poller] # "page"
=============================================================================
