# Verification of the Linux WeChat slave

The program under `src/efb_wechat_comwechat_slave/` is a slave channel of EH Forwarder Bot
(EFB). It polls an event stream of WeChat events from a service called *Core*, hands every
new message to the EFB *master* channel (Telegram), sends the master's messages through
Core, and has to survive crashes, outages and re-projections without delivering a message
twice and without losing one. This directory holds TLA+ models of it, the TLC runs that
check them on small instances, and proofs that TLAPS checks for every instance.

    tlc -workers 2 -config DeliveryText.cfg MCDelivery      # a run
    tlc -workers 2 -config Shutdown.cfg MCShutdown          # another
    tlapm DeliveryProofs.tla                                # the proofs of a component

## 1. Inventory

| Component | State | Operations | Talks to |
|---|---|---|---|
| **Poll loop and dispatch** (`ComWechat.py`: `poll`, `poll_once`, `_handle_event`, `_handle_message_event`, `_retry_pending_media`, `_retry_deferred_provenance`) | the thread's place in a cycle; nothing of it survives | a cycle: health, floor, media retries, deferral retries, fetch a page, per event: handle, save the cursor, ack; then the checkpoint | all stores below, Core, master |
| **Effect ledger** (`EffectLedger.py`, SQLite) | a row per effect: status, attempts, parked, media reference, payload | reserve, mark delivered / uncertain / media pending / parked / failed, reconcile on startup, list pending | poll loop, constructor |
| **Provenance** (`Provenance.py`, two JSON files) | the subscription floor of each account; the parking lot of messages that cannot be classified | classify, defer (capped), due, resolve; establish the floor from Core's bootstrap record | poll loop, constructor, Core |
| **Event cursor** (`Core.py: CursorStore`) | the cursor of the last event done | load, save (atomic replace), align with Core | poll loop, drain |
| **Echo aliases** (`Core.py: EchoStore`) | send id to echo id, pending send ids | mark pending, link, translate both ways | master's thread (send), poll thread |
| **Message builder** (`CoreMessage.py`) | none | build; for media: ready, pending or permanent failure | Core's media endpoint |
| **Message mapping** (`MessageMapping.py`, SQLite) | Core ids, EFB uids and Telegram ids of each message | record, link, resolve a reply target | both threads |
| **Sending** (`ComWechat.py: send_message` ...) | an LRU cache of messages | build a payload, post it under an idempotency key, store the alias | master's thread, Core, aliases, mapping |
| **Shutdown** (`ComWechat.py: drain_for_shutdown, stop_polling`; `ShutdownCoordinator.py`) | the suppress flag, the stop event, ran / installed, a registry of coordinators | wrap the master's `stop_polling`, drain, stop the master within a budget, exit | signals, master, poll thread |
| **Chat directory, UIDs** (`ChatMgr.py`, `UID.py`, `Core.py: list_chats`) | two dictionaries of the chats, by uid and by Core id | list Core's chats page by page, build, look up, remove, encode | poll thread, master's thread, Core |
| **Core** (external), **master** (external) | the stream, the media, the consumer's checkpoint; what was received | publish, serve; accept or raise | the slave |

What is hard here: the process may end between any two durable writes and the stores are
five separate files, so no transaction spans two of them; the external call to the master
can neither be rolled back nor asked about; Core re-projects old objects under the same
event types as new ones; media arrives later than its message, or never; three sources
(the stream, the scheduled retries, the deferral retries) offer the same effect; the
shutdown runs in another thread than the poll loop, and its signals may interrupt the
shutdown itself; the echo of an own send may be polled before the sending thread knows its
id; the alias store and the chat directory are used by two threads without a lock; and the
beginning of the subscription is taken from records of Core that may be unreachable, of an
old form, or replaced while the slave is down. `PROJECT.json` lists these hazards with
their lines.

What makes each component correct:

* Effect ledger and delivery: a message reaches the master at most once; once the call has
  started, the effect ends DELIVERED or UNCERTAIN and is never offered again; DELIVERED is
  never a guess; nothing that predates the subscription floor is delivered.
* Cursor: it moves only past events whose messages are accounted for in a durable store;
  no event that is still to be read is reported to Core as done; it does move, whatever
  fails in between.
* Media: no run of transient failures becomes a terminal failure without a statement of Core
  about that media; active retries end; parked media wakes when Core says so.
* Subscription: the cursor and the floor of each account both follow Core's bootstrap
  records; what is delivered and what is suppressed agrees with one of them; a saved cursor
  never moves back, history is not caught up, a floor does arrive.
* Deferral store: an unclassifiable message is kept, not guessed at, up to the store's cap.
* Echoes: an own send whose alias is known and saved never comes back as a foreign message.
* Shutdown: nothing new is sent after the flag; what was not handled is handled by the next
  start; the final checkpoint is not ahead; the whole is bounded and runs once.
* Sending: a message is submitted to WeChat once; a uid handed to the master stays valid; a
  reply names the final Core id or none.
* Chat directory: a chat is announced as removed only if it was gone; the two dictionaries
  agree; a listing ends.

## 2. Modules

| Module | Models |
|---|---|
| `EffectLedger` | The table of `EffectLedger.py`. Each transaction is an operator from the table to the table after the commit. |
| `Provenance` | The classifier and the deferral store of `Provenance.py`, as operators. |
| `Delivery` | The poll thread composed with both, the cursor, the floor, the aliases, Core, the master, shutdown, crash and restart. The state machine; its safety, its progress, and what the comments say and the code does not do. |
| `AtMostOnce` | The abstract specification: what the header of `EffectLedger.py` promises about one message, with no thread, no store and no failure in it. |
| `Subscription` | Where a subscription begins: `CursorStore.align_with_core`, `ensure_from_core`, Core's bootstrap records, the poll loop as far as cursor and floor decide on messages. |
| `Sending` | `send_message` in the master's threads, Core's idempotent send endpoint, `EchoStore` and its file, the mapping's rows, `send.updated` in the poll thread. |
| `Shutdown` | `ShutdownCoordinator.py`, its registry and deferred installer, and `drain_for_shutdown`, `stop_polling`, `_sig_handler` and the final flush of `ComWechat.py`. |
| `Directory` | `ChatMgr.py`, `list_chats` and the calls of `ComWechat.py` that fill the directory. |
| `StreamReader` | The abstract specification of a reader of Core's stream: the cursor moves over an event that is done, forward to a beginning, or, once it is closing, over one that is recorded as missed. |
| `Messenger` | The abstract specification of sending: what the master and the chats may rely on about requests, reply targets and ids, with no thread, store or failure in it. |
| `MCDelivery`, `MCSubscription`, `MCSending`, `MCShutdown`, `MCDirectory` | The instances for TLC: catalogues of events, messages, pagings. |
| `ProvenanceProofs` | Lemmas about the deferral store's operators. |
| `DeliveryProofs` | Type correctness, at most once, the refinement of `AtMostOnce`, the checkpoint. |
| `LossProofs` | That nothing owed is lost behind the cursor, and that recoverable media is not given up. |
| `ReadingProofs` | That a known echo stays quiet, and that `Delivery` implements `StreamReader`. |
| `SubscriptionProofs`, `SendingProofs`, `ShutdownProofs`, `DirectoryProofs` | Type correctness and every safety property of the component, the refinements of `StreamReader` and `Messenger` with them. |

The component models meet `Delivery` where they share state. `Delivery` takes the floor as
settled, and of the alias store it has the memory, the file, writes that fail, and one step for
all that two threads may do to each other; `Subscription` shows where floor and cursor come from
and `Sending` what two threads do in the store, step by step. `Delivery` has one shutdown that
raises the flag, stops polling or ends the process at any step; `Shutdown` shows the order in
which the program does this, with the poll thread reduced to its cursor and its flush. They
are separate machines because their product has far too many states to check.

### How Delivery corresponds to the code

One action is what the thread does between two durable writes or two calls that may fail,
so that a crash (`ProcessEnds`) and an exception (`Raises`) can fall between any two of
them. `pc` is the place in `poll_once` / `_handle_message_event`:

    idle --BeginCycle--> loop(media) --> loop(deferred) --> fetch --> events --EndCycle--> idle
    events --MessageEvent--> handle --> build --> send --> record --> finish --> resolve --> save
                                |         |         `---------`--> uncertain --> idle (exception)
                                |         `--> park (a second transaction) --> save
                                `--> save (echo, terminal, fail closed, re-projection, deferred)

`phase` is the loop the handler returns to (media retries, deferral retries, the page),
`inEvent` says that the two retry loops run inside a `media.ready` event, `todo` is what is
left of a retry loop's snapshot, `cur` the message at hand with the ledger status read at
the top of the handler (`current_status`), which the reservation uses later. `skipped`,
`dropped`, `echoed`, `spoiled`, `condemned` and `ends` are history: they are never read by a
step that models code, except that `ends` bounds crashes and shutdowns.

Decisions of abstraction:

* A message is a model value with one account, one chat, one media id and one effect id.
  Identity-less messages, other accounts and malformed payloads are the event kind `other`.
* With one account in the filter Core is asked for that account's events only
  (`ComWechat.py:1483-1490`), while the head it names is the whole stream's (`1513`).
  `stream` is what the poll is answered with, `positions` the cursor Core gave each of these
  events, `head` the last cursor of all, and `PublishElsewhere` an event the poll does not
  get. So the reported checkpoint may exceed the cursor on disk. `has_more` and the head are
  taken to belong to one state of Core, that of the answer.
* Media fails for good in the code not only when Core gives up on an original. A payload or a
  `media.ready` with another role than *original*, an empty role included
  (`CoreMessage.py:284-287`), and an answer of the endpoint with another role or without
  content (`107-116`) count as permanent too; Core may well have the original later. They are
  the status `thumbnail` of a payload and the state `partial` of the endpoint. A pending row
  whose details hold no message (`ComWechat.py:1371-1381`) would fail too; it is not
  modelled, since `_defer_media` writes the message into every row it makes.
* Time: whether a `next_retry_at` has passed is a free choice among the unparked rows
  (`BeginCycle(S)`), whether `deadline_at` has passed is the free choice `late`.
* Counters (`attempt_count`, the deferral attempts) are only compared with their maximum,
  so they stay at it.
* What Core answers about a missing origin is the truth, or nothing (`Classifications`).
* An exception of the master may come before or after the message got through.
* A step that raises did nothing: stores are transactional or replaced atomically. The two
  writes of `_defer_media` are two actions. Writes of the deferral file are taken to succeed.
  The alias store is the exception: `link` changes the memory before the file
  (`Core.py:516-518`), so after a write that fails (`LinkUnsaved`, `LinkRaises`) the two differ
  (`linked`, `aliasFile`) until the next write.
* The echo alias of an own send is stored by `send.updated` or, in the master's thread, by
  the receipt (`SendReturns`). The store has no lock and counts as loaded before its file is
  read (`Core.py:464-484`): `StoreRace` lets memory and file become anything then, and
  `spoiled` records it. A file that cannot be read at the first use counts as empty, and
  the next write replaces it; this is recorded in `spoiled` as well.
* `SkipEvent` decides on the flag when the event is taken up.
* Core is external: `Publish`, `PublishElsewhere`, `MediaTurns` and the statuses a payload may
  carry are what the slave's handlers tell apart. `media.ready` of an original is published
  once, when the original appears.
* An UNCERTAIN row counts as settled, as in the code: whether the master has the message is
  left to the operator.

### How the other models correspond to the code

**Subscription.** Each step of Core takes one unit of time, and position *n* of the stream
has cursor *n*. `boots` holds the bootstrap records Core has had for the consumer, the last one
in force; a record is `dated` if its `bootstrap_at` can be used, otherwise the floor is derived
from the event at `initial_cursor`, if the stream has it. `align` and `floor` are the two steps
of the constructor, `refloor`, `retry`, `fetch`, `realign`, `events` and `save` those of
`poll_once`. Which calls Core answers is a free choice of each step, and so is whether the floor
file or the cursor can be written. Only what cursor and floor decide is left of a message: it is
delivered, suppressed or deferred with a number of attempts. The origin of a message (`Origin`) is
a cursor if its payload names one (`Cursored`; `Provenance.py:161-170`), and is then held against
the cursor of the floor, else it is `created_at`, held against the instant of the floor
(`213-220`); a payload says the same of its origin in every event, and the origin cursor Core
names is taken to be that of the message's first event (`firstSeen`). `offered` and `blind` are
history: the positions the handler was given, and that cursor 0 was saved for want of an answer.

**Sending.** A message stands for the thread that sends it; the poll thread is `Poller`. `at` is
the place in `send_message`: look up the reply target, choose the idempotency key, the request,
its answer, mark or link the alias, record the row. Every step may be the last one of a call that
raises, after which the master may send the same message again. An idempotency key is the
message's own uid (try 0) or a fresh one. `place` is a thread's place in `EchoStore`, whose
methods have no lock: load the file, assign what was read, use or change the dictionary, write
the copy, replace the file. So two loads, two saves, or a load and a `link`, overlap in every
order; `overlapped` records that they did. Core accepts one request per key and shows the
message of a request at some later time (`Reconcile`).

**Shutdown.** The main thread is 0, the poll thread of channel *g* is thread *g*. `stack` is what
each thread is in: a signal handler interrupts the main thread by pushing a call, wherever it
is, also inside a run, inside a lock or while it makes a channel. Channels are numbered as they
are made, all under one channel id, and the coordinator made with channel *g* is coordinator *g*.
EFB's dictionary of slaves holds one channel per id, so a coordinator drains, beside the channel it
was made with, whichever earlier one it finds there (`LookUpCoordinator`). A flush counts as done
when Core's answer has arrived; if the answer is lost the code sends the same cursor again, and
`FlushedOnce` does not count the first try (`Flush`). Time budgets and the installer's deadline
are free choices, a call to Core or to the master may return or not. `hard_exit` is set, as it is by default.

**Directory.** The two dictionaries hold numbered `Chat` objects. A listing reads a page at a
time while Core's chats change, and Core answers the next cursor by a function chosen at the
start (`nextOf`), which need not lead anywhere sensible. A chat stays on the page it is on while
others come and go (`PageOf`): how Core pages is not in this repository, and if it counted
offsets, a removal would move later chats to a page already read and `RemovedWasAbsent` would not
hold. Announcing a change may raise, and the event comes again: a chat that is removed by then is
no longer known and is never announced as removed (`AnnounceRemoved`; `ComWechat.py:946-951`).
The two writes of `build_core_chat`
and of `remove` are two steps. `raced` and `absent` are history: that a thread took up a record,
or removed a chat, while the other was between reading and writing, and which chats Core has
been without since the poll thread began its task.

## 3. Runs

Two workers are enough; none takes longer than four minutes.

| Run | Module | Question | Distinct states |
|---|---|---|---|
| `text` | `MCDelivery` | a post-floor and a pre-floor text message over a stream of 3 events, with an event of another account | 3.3 M |
| `media` | `MCDelivery` | one media message over a stream of 3 events: deferral, retries, parking, `media.ready`, a thumbnail or nothing in its place, decode failure | 2.3 M |
| `echo` | `MCDelivery` | an own send's echo racing its alias over a store that fails, with a text message beside it | 1.0 M |
| `live` | `MCDelivery` | progress, under fairness, with a text and a media message | 0.2 M |
| `subscription` | `MCSubscription` | two accounts that join late, two messages, bootstraps at any time, a Core that answers some calls | 0.9 M |
| `sending` | `MCSending` | a named message and a reply to it, each sent again and again, with the poll thread in the same stores | 4.2 M |
| `shutdown` | `MCShutdown` | two channels, a master that comes later, two signals that may interrupt the run | 0.2 M |
| `directory` | `MCDirectory` | two threads fill the directory from a listing of three pages that changes meanwhile | 0.9 M |
| `skip`, `suppress`, `parked`, `wake` | `MCDelivery` | four statements of comments that the code does not keep | stop at the violation |

Bounds of `Delivery`: `MaxEvents` is the length of the stream, `MaxEnds` how often the process ends or a
shutdown begins. One end is enough for the safety properties in the sense that the reconciled
state after a restart is again a state of an ordinary run; three events let a message be
created, re-projected and become ready; a page of two makes the last page short and the first
one not the last, so both forms of the checkpoint occur. `MaxHidden` is how many events of
other accounts lie in Core's stream: one, before, between or after the own ones, makes head and
cursor differ in each way; `text` has it, the other runs have none.
`Checkpoints` says whether Core takes checkpoints at all: `text` asks what they cover, and in the
other runs, which do not, every report fails. `MediaMaxAttempts = 2` gives an
active retry before parking, 1 (runs `echo`, `text`) has no media retry to speak of. A missing
origin is found by a lookup or not, so in `text` it stands for a given one too;
`ProvenanceMaxAttempts = 2` lets an entry be re-offered and then exhaust;
`DeferralMaxEntries = 1` makes the store overflow with the second message, 2 in `echo` keeps
it from overflowing.

Bounds of the others: `MaxTime = 3` steps of Core are enough for an event, a bootstrap and one
more event, or for two bootstraps around an event, so the record in force differs from the one
a floor was taken from. `Filter = {}` makes the scope the listed accounts or the wildcard.
Of the two messages one is judged by its origin cursor and exists from the beginning, one by
`created_at` and comes later, so each part of a floor is used and each message can fall on either
side of a record.
`MaxSends = 2` accepted requests are a message and its reply, or two of the unnamed reply. Two
channels and two signals give a sibling to drain, a reload that replaces a waiting coordinator,
and a signal inside the run of the first; `MaxCursor = 1` tells a flush of a saved cursor from
one of none. Three cursors are the least with which a chain turns back to a page that is neither
the first nor its own, or skips one; two objects are one per chat, or two of a chat whose cached object does not
fit; two changes remove a chat and bring it back. The theorems below hold for all values of all
these constants.

Deadlock is not checked: the poll thread stops for good after a shutdown or an incompatible
Core, the process of `Shutdown` exits, and the bounds stop Core and the crashes.

Each property is shown to depend on the code by a fault: an operator before the one it
replaces (`\* Fault: ...`), such as releasing the reservation when the master raises,
swallowing a handler's exception, reporting the stream head as the checkpoint while more
pages follow, forgetting RESERVED rows at a start, or failing a media effect whose budget is
spent, keying a repeated request by the uid the first one returned, replacing a row of the mapping
instead of updating it, letting a second signal run the shutdown again, moving the cursor back to
a new initial cursor, saving the cursor of the whole page with its first event, replacing the alias
file by a dictionary that never loaded it, draining the same channel again, or taking the first page
for the listing. With the fault in place TLC finds the property violated.

### What the safety properties say

* `AtMostOnceDelivery`: over events, retries, failures and restarts `sent[m] <= 1`; what was
  sent is RESERVED, DELIVERED or UNCERTAIN; DELIVERED means sent.
* `KeepsPromise`: `Delivery` implements `AtMostOnce`. The refinement maps the status of a row
  to an outcome (no row and PENDING_MEDIA are *unseen*, RESERVED is *attempting*). Beyond the
  invariant it says that only messages at or after the floor are attempted and that an ended
  attempt is never taken up again.
* `NoSilentLoss`: behind the cursor every owed message has a row, or waits in the deferral
  store, unless it is a recognised echo, was pushed out of the full store, or went by during
  a shutdown. The last two are real losses in the code; they are named, not hidden.
* `CheckpointCovered`: the checkpoint never covers an event of the polled account that is not
  behind the cursor on disk, so nothing is reported as done that a restart would still need. It
  does not say that the checkpoint is at most the cursor: with one account in the filter it is not.
* `RecoverableMediaKept`: MEDIA_FAILED only if Core made a statement about that media: it called
  it broken, named or served another role than the original, or served it empty. `condemned`
  records these. Transient errors, spent budgets, parking, deferral and restarts are not enough.
  That a thumbnail or an empty file closes media whose original Core has later is what the code
  does, and is not excluded.
* `EchoStaysQuiet`: an echo whose alias was in memory and in the file before its message was first
  looked at never gets an effect, not even by a retry loop, after a later write that fails or
  after a restart; excepted are two threads that met in the store and a file that could not be
  read (`spoiled`). An alias that never reached the file is lost with the process, and its echo
  is then delivered.
* `ReadsInOrder` (`Delivery`, `Subscription`): each implements `StreamReader`. In `Delivery` the
  map looks at the program counter: `save` is *done*, `skip` is *passed*, a handler or a retry
  loop inside an event is *taken*. So an exception anywhere inside an event gives up the whole of
  it, the cursor never moves twice for one event nor while retries inside it are going on, and
  what a shutdown passes over is passed only after the flag. In `Subscription` the beginnings are
  the records of Core; alignment moves the cursor between two events only, and forward.
* `CursorMonotone`: no bootstrap, restart or outage moves the saved cursor back. It is proved;
  the run checks it as a part of `ReadsInOrder`, but for the loss of a saved 0.
* `NothingSkipped`: the cursor passes over an event only if the handler had it, or some record
  of Core puts the beginning after it.
* `HistoryBlocked`: nothing before every initial cursor is handled, unless 0 was saved blind.
* `JustifiedByAnchor`: a delivered message belongs to the time after some bootstrap record of Core,
  a suppressed one to the time before some record; before anything is known neither happens.
  `After` and `Before` say what that means in terms of Core's stream and clocks: of a
  message judged by its cursor, where its events lie; of one judged by `created_at`, the instant
  of the bootstrap; and of a record without that instant, whether the message is older than every
  event from the initial cursor on. They do not mention the floor, nor how it is derived.
* `SubmittedOnce`: Core accepts one request of a message that came with a uid, over lost
  answers, later errors, changed uids and restarts.
* `ReplyTargetFinal`: a reply goes out with the reconciled id of the message it replies to.
* `LinkedRowsKept`: a row of the mapping that has learned a message id keeps it.
* `UidTranslates`: behind the cursor, the uid the master holds and the message id translate into
  each other, in this process and the next; excepted are threads that met in `EchoStore`.
* `AliasesKept`: while no two threads have met in `EchoStore`, no write of the alias file, in
  whichever process and after whichever failed write, loses an alias.
* `SendsAsPromised`: `Sending` implements `Messenger`: an answered request is not repeated by the
  process that has the answer, not even for messages without a uid of their own; a reply names a
  request whose message was shown; the master holds ids of its own message; a message id is learned
  after WeChat has shown the message, and not lost again.
* `FlushedOnce`, `MasterStoppedOnce`: once each, over repeated signals and threads.
* `DrainedFirst`: the master is stopped and the process ended only when every channel to drain
  is suppressed, stopped and has had its flush, also if a signal interrupts the run.
* `RegisteredCaptures`: a coordinator that was replaced while its installer waited never wraps
  the master.
* `WaitsEnd`: signals start runs inside runs and inside flushes of the same thread, and poll
  threads take the same locks; still a thread waits only for one that goes on itself, and the
  drain never for a flush that it interrupted. Excepted is the blockade of `stop_polling` below.
* `GetsOn`: no step leads a thread back. What is left of a call (the channels still to drain,
  then its place in the sequence) falls with each of its steps, and the calls that a signal interrupted
  stay as they are. With `WaitsEnd` this is why a run ends, without any assumption about other threads.
* `RemovedWasAbsent`: with sensible cursors a chat is announced as removed only if Core was
  without it at some time since the event was taken up.
* `IndicesAgree`, `NoGhosts`: the two dictionaries agree, and no removed chat is left when its
  updates are handled; threads in each other's way are excepted.
* `WellPlaced`, `CallReserved`, `FloorRespected`, `EventAtHand`, `Numbered` and
  `RefusalKnown` are the
  strengthenings the proofs of `Delivery` use. They are no properties of a run: they were checked as invariants
  of `text`, `media` and `echo` before they were proved.

`SendsAsPromised` is in no run, because the check of the refinement over `sending` takes longer
than the whole of that run. It was checked by TLC on the constants of `Sending.cfg`, and with the
reply, instead of the first message, having a uid of its own (1.7 M states), before it was proved.

### Progress and fairness

`Fairness` is: the thread keeps taking steps (EFB runs `poll` in a thread of its own, every
exception but `CoreContractError` is logged and the loop goes on; a supervisor restarts an
ended process); a shutdown that has raised the flag goes on to stop polling (the next
statement); a due media retry is eventually seen as due, given that cycles keep beginning
(`next_retry_at` is finite), which is strong fairness because a cycle begins with one choice
of the due rows; and outages end: from some moment on no call raises
(`<>[][~(Raises \/ LinkRaises)]_vars`). The last one is needed: a chat that never resolves, or any error that
never ends, blocks the head of the stream, which is what "cursor retained for retry" means.
Nothing is assumed of the master, of transient media errors, of shutdowns, or of what Core
publishes. `StreamDrains`, `OwedTextSettles` and `ActiveRetriesEnd` except a thread that has
stopped (`Over`).

`Subscription`: the process is started again and its thread goes on, and Core answers again and
again (strong fairness of the step that reads the record and stores the floor); without it
`FloorArrives` could not hold, since a floor comes from Core alone. `Shutdown`: the main thread,
the deferred installers and the poll threads go on, and calls to Core return (they have a
timeout); nothing is assumed of the master's `stop_polling`, of signals, or of whether the poll
thread ends its work, since the budgets end those waits. `Directory`: each thread goes on, which
includes that a page is answered or fails; nothing is assumed of what Core answers. `Sending`
states no progress: whether a send ends depends on Core and the master.

### Disagreements found

1. `skip`: during a shutdown the cursor of an unhandled event is saved, although the comment
   says the preserved cursor replays it (`ComWechat.py:1405`, `1503`).
2. `suppress`: a retry loop in progress goes on delivering after the flag is raised, although
   "no new outbound delivery may be attempted from here on" (`ComWechat.py:311`, `1361`).
3. `parked`: a deferral entry that outlives its classification un-parks a parked effect,
   although "only an authoritative signal may wake them" (`EffectLedger.py:528`,
   `ComWechat.py:529`).
4. `wake`: a wake-up by `media.ready` that meets one transient error parks the effect again
   with nothing left to wake it, although it "re-activates it and delivers exactly once"
   (`ComWechat.py:1070`, `1055`).

Other differences between code and comments were met but do not call for a run:

* `stop_polling` says it may be re-entered (`ComWechat.py:1560`), but takes a plain lock: a
  signal whose handler runs on the thread that is inside waits for itself. `Shutdown` has this
  state (`SelfBlocked`), and its progress properties except it.
* A cold start that does not reach Core saves cursor 0 and is not aligned again before a restart
  has found Core; history is then read from 0 and only the floor keeps it from being delivered.
  `HistoryBlocked` excepts it (`blind`).
* An account that appears after a floor was derived for others has none of its own, unless there
  is a wildcard record; its messages stay deferred until a restart. After a second bootstrap with
  the account list unreachable only the wildcard's floor is refreshed, and an account's older
  one is preferred.
* A floor without a usable `bootstrap_at` is derived from the event at `initial_cursor`, the last
  one before the subscription begins; the docstring (`Provenance.py:486-491`) calls its instant an
  upper bound of the bootstrap's, biased toward suppression. After an `at_head` bootstrap it is a
  lower bound: a message created between that event and the bootstrap is delivered.
* An object whose origin cursor is the initial cursor counts as new (`<` in `Provenance.py:213-220`,
  pinned by `tests/test_rc14_unknown_identity_hardening.py:340-360`), while alignment puts the
  event with that cursor behind the beginning.
* An entry whose message was suppressed as a re-projection is not taken out of the deferral
  store by that decision (`ComWechat.py:523`, `1217`) and offered again in every cycle.
* `ensure_from_core` "never raises", but writing the file may.
* Two threads in `EchoStore` may undo each other's links, and two threads in the directory may leave its
  dictionaries different or bring a removed chat back until its next update. The properties
  except exactly these encounters.

## 4. Proofs

Assumptions: `EffectLedgerAssumption`, `ProvenanceAssumption` and `DeliveryAssumption`, which
say that the limits are positive, the message classes are sets of messages and the catalogue
holds events; `SubscriptionAssumption`, `SendingAssumption`, `ShutdownAssumption` and
`DirectoryAssumption`, which type the constants of their models and keep the values that stand
for *none* apart from the others. They follow from the `max(1, ...)` of the constructor and from the types. TLC
evaluates them in every run.

| Theorem | States | Argument |
|---|---|---|
| `TypeCorrect` | `Spec => []TypeOK` | `TypeOK /\ WellPlaced` is inductive. `WellPlaced` is needed because the deferral loop reads entries of a snapshot from the store (they are still there: within the loop the store only changes for the message at hand) and because a page lies inside the stream. |
| `DeliveredAtMostOnce` | `Spec => []AtMostOnceDelivery` | With `CallReserved`: from the reservation to the end of the call the row is RESERVED and `sent` is 0, then 1. Only ten actions write the ledger or call the master (`Loud`); every other step is `Quiet`. |
| `ImplementsAtMostOnce` | `Spec => KeepsPromise` | With `FloorRespected`: no row for a pre-floor message, and none passes the decision. Each loud action maps to `Attempt`, `Reach`, `Confirm`, `Fail` or `GiveUp`; a restart maps to one `GiveUp` of all reserved effects. |
| `CheckpointNeverAhead` | `Spec => []CheckpointCovered` | With `Numbered`: Core's cursors grow (`PublishNumbers`), and a page with nothing more to follow holds every own event up to the head it names, however many others lie between. So when such a page is done, the head covers only what is behind the cursor (`ReportNumbers`), as a saved cursor does (`SavedCursorCovers`); an event published later has a greater cursor than any report. |
| `NothingLost` | `Spec => []NoSilentLoss` | With `EventAtHand`: while the page is worked on, the event behind the cursor is the one at hand, and when its cursor is about to be saved it is accounted for. What is accounted for stays so (`AccountedStays`): no transaction deletes a row (`RowStays`), the deferral store loses an entry only to a row or to the dropped, aliases stay. Each way the handler returns leaves its message accounted for or not owed (`ReturnsDone`). |
| `RecoverableNeverFailed` | `Spec => []RecoverableMediaKept` | With `RefusalKnown`: a payload that calls media broken or a thumbnail, in the stream (`StreamRecorded`), in the deferral store (`StoreRecorded`) or at hand (`HandRecorded`), and an endpoint that turned (`TurnsRecorded`), are on record, and no record is taken back (`CondemnedStays`). Only `_fail_media` writes MEDIA_FAILED, and it runs only on such a payload or on such an answer. |
| `EchoNeverShown` | `Spec => EchoStaysQuiet` | With `EchoKnown`: the alias is in memory and in the file, there is no row, and a handler that has the message at hand is still before the question. It holds from the first such moment on, until the store is spoiled: every write of the file writes a memory that holds the alias, and a restart reads it from the file (`AliasStays`); a message comes to hand only at the top of the handler (`ComesToHand`), from there a known echo leaves it without a row (`EchoAtHandLeaves`), and no other step makes a row for a message that is not at hand (`NoRowOutOfHand`). |
| `StreamReadInOrder` | `Delivery`: `Spec => ReadsInOrder` | With `EventAtHand` and `WellPlaced`. Each step either stays put as the reader sees it or lets the event go (`StaysOrLetsGo`), but for taking an event, returning from its handler, passing it over and saving its cursor, which map to `Take`, `Handle`, `PassOver` and `Advance`. |
| `Typed` | `Subscription`: `[]TypeOK` | With `AnchorsBehindHead`: a bootstrap record lies within the stream of its time, and the stream only grows (`Grows`). |
| `Monotone`, `NoneSkipped`, `Blocked` | `CursorMonotone`, `NothingSkipped`, `HistoryBlocked` | Only alignment and `SaveCursor` write the cursor. Alignment takes the greater of the saved and the initial cursor; `SaveCursor` goes one on, to an event that was offered (`SavedIsHandled`). That the cursor is at or behind some beginning, unless 0 was saved blind, is `CursorAnchored`. |
| `ReadInOrder` | `Subscription`: `ReadsInOrder` | With `AnchorsBehindHead`. A bootstrap is a `Begin` that leaves the cursor, an alignment one that may move it to the initial cursor of the record (`AlignmentMoves`); `HandleNext` and `SaveCursor` map to `Handle` and `Advance`. |
| `Justified` | `JustifiedByAnchor` | With `FloorsAnchored`, `TimesGrow` and `OriginsTrue`: the cursor and the instant of each floor, in memory and on disk, are those of a record Core has had, events follow each other in time, and an origin cursor is that of the message's first event. So the event a floor is derived from is the earliest one from the initial cursor on (`EarliestFrom`), a comparison tells on which side of the record a message lies (`OriginTells`), and it stays there whatever Core appends (`SidesStay`). |
| `SendingTyped` | `Sending`: `[]TypeOK` | With `WellPlaced`: which locals a thread has at which place of `send_message` and of the store. |
| `NamedSubmittedOnce` | `SubmittedOnce` | With `KeysRight`: every key a call of a named message uses, and the key kept on the message object, is the message's own uid, and Core has accepted each key once. |
| `ReplyNamesFinal` | `ReplyTargetFinal` | With `NamesRight` (receipts, uids and targets are of requests of the message they are about) and `NotesRight` (an alias or a row's message id is of a request Core has reconciled). |
| `RowsKept`, `UidsTranslate` | `LinkedRowsKept`, `UidTranslates` | A row's id can only be that of its uid (`NotesRight`), and only `record` and `link_core_message` write it. While no two threads have met in the store, `InStep`: what the file holds reaches the dictionary, and what the cursor has passed is in the file. |
| `FileGrows` | `AliasesKept` | With `StoreInStep`, the part of the invariant about threads that have not met: the copy a thread writes was made from a dictionary that holds what the file holds. |
| `PromiseKept` | `Sending`: `Spec => SendsAsPromised` | With `KeyKept`: Core has accepted a request under the key a message carries, and a call in progress uses that key. So a second request of an answered message is one Core has already; a restart, which drops the keys, is an `End`. |
| `ShutdownTyped` | `Shutdown`: `[]TypeOK` | With `LoadingRight` (who is in the registry, what is drained, who wrapped the master) and the two lock invariants: the owner of a lock is in the part it guards, once. |
| `CheckpointOnce`, `MasterOnce`, `DrainComesFirst`, `OnlyRegisteredCaptures` | the invariants of the same idea | `FramesOK` describes the whole stack. A call that *works* has drained every channel but those it names as still to come; only one call of a coordinator works (`ran` is set before it begins), so a repeat that interrupts it finds nothing to do. `FlushesRight` ties a flush to its flag under the lock, `StoppedRight` and `ExitedRight` tie the end to the drained channels. The channel to drain next exists because numbers are well-founded. |
| `WaitingEnds` | `WaitsEnd` | With `OneCoordinator` and `OneCall`: every call on the main thread that has a coordinator has the registered one, because the registry changes only while the main thread is in no call, and a poll thread is in one call. So a run that finds the flush lock taken finds it taken by a poll thread, which does not wait while it holds it; the run of the same coordinator further down would be a second one that works. |
| `CallsGetOn` | `GetsOn` | From `FramesOK` and the type: the channels are finite, each drain takes one out of those left (`DrainLeft`), every other step goes to a lower place (`StepOn`), a signal or a poll thread that starts adds a call above the others (`Beginning`). |
| `DirectoryTyped`, `RemovedOnlyAbsent` | `Directory`: `TypeOK`, `RemovedWasAbsent` | With `Tasks` (what a thread holds at which place) and `Pages`: the pages read and the next one contain the next of each, so when the last is read and cursors are sound, all were; a wanted chat not among the records was absent when its page was read. |
| `DictionariesAgree`, `NoGhostsLeft` | `IndicesAgree`, `NoGhosts` | With `Indices` and `Ghosts`, which say the same of every state in which the threads are between their writes, counting the write that is under way as done: the object in hand of the one thread that builds is the object of its uid, and a listed or indexed chat is there or has an update to come. |

The lemmas of `ProvenanceProofs` say what the deferral store's operators keep: the type, the
cap, the other messages' entries, what it says of a message, and that `defer` loses an entry
only by dropping it.

The other parts of the invariants were checked by TLC before they were proved; they are no
properties of a run.

Only model-checked: the progress properties (`StreamDrains`, `OwedTextSettles`,
`ActiveRetriesEnd`, `FloorArrives`, `ShutdownEnds`, `MasterWrapped`, `ListingEnds`), since
liveness under fairness and ENABLED are beyond the prover. `CallsGetOn` and `WaitingEnds` are the
safety part of `ShutdownEnds`. Every other property of a passing run is also a theorem.

## 5. Not modelled

* Display data: names, authors, substitutions, text, members of a chat, the payloads `send_message`
  builds, the cache of messages; file contents and formats, the encoding of uids, logging,
  configuration. No property tells their values apart.
* `get_message_projection`: its paging is like that of `list_chats`; in `Delivery` it is one
  call with an answer or none. Retries inside an HTTP request, timing values.
* In `Shutdown`: several channel ids, each with a coordinator of its own; `shutdown_hard_exit`
  switched off, where the run returns instead of ending the process; a second master.
* Operations without a caller in the program (`record_delivered`, `core_message_id`,
  `get_by_core`), and `checkpoint_wal`, which changes no row.
* The mock Core of `stack/` is a test double: its endpoints appear as the external Core of the
  models, with its lines mapped where it answers. The qualification scripts start containers and collect evidence, the build
  files have no state.

## 6. Plan

1. **Delivery** (`EffectLedger`, `Provenance`, `AtMostOnce`, `Delivery`): modelled, checked and,
   but for progress, proved; it implements `StreamReader`.
2. **Shutdown**: done, proved but for progress.
3. **Sending**: done and proved; it implements `Messenger`.
4. **Subscription**: done, proved but for progress; it implements `StreamReader`.
5. **Directory**: done, proved but for progress.

Left: `get_message_projection` as a module of its own beside `Directory`; the safety part of the
other progress properties, as `CallsGetOn` is of `ShutdownEnds`.
