------------------------------ MODULE Sending ------------------------------
(***************************************************************************)
(* Sending to WeChat: send_message in the threads of the EFB master, Core's *)
(* idempotent send endpoint, and send.updated in the poll thread.  The two  *)
(* sides meet in EchoStore (a dictionary and a file, no lock) and in the    *)
(* message mapping (one SQLite transaction per call).                      *)
(*                                                                         *)
(* Core's requests are numbered as it accepts them.  Request i has the send *)
(* id SendId(i) and, once WeChat has shown the message, the message id     *)
(* EchoId(i).  A uid is one of the two; a Core message id is a number i.   *)
(***************************************************************************)
EXTENDS Naturals, Sequences

CONSTANTS Messages,    \* what the master hands to send_message
          Named,       \* of these, the ones that come with a uid of their own
          ReplyTo,     \* the message of the same chat each one replies to
          NoMessage,   \* ... or none
          Poller,      \* the poll thread; a message stands for its sending thread
          MaxSends,    \* bound: requests Core accepts
          MaxEnds      \* bound: how often the process ends

ASSUME SendingAssumption ==
  /\ Named \subseteq Messages
  /\ NoMessage \notin Messages
  /\ ReplyTo \in [Messages -> Messages \cup {NoMessage}]
  /\ Poller \notin Messages
  /\ MaxSends \in Nat
  /\ MaxEnds \in Nat

Threads == Messages \cup {Poller}

Sends == 1 .. MaxSends

Uids == [kind : {"send", "echo"}, of : Sends]
SendId(i) == [kind |-> "send", of |-> i]
EchoId(i) == [kind |-> "echo", of |-> i]
NoUid     == [kind |-> "none", of |-> 0]

\* Idempotency keys: try 0 is the message's own uid, any other a fresh uuid.
Keys  == [msg : Messages, try : 0 .. MaxSends]
NoKey == [msg |-> NoMessage, try |-> 0]

VARIABLES
  \* Core: accepted requests in order, those whose echo it has reconciled.
  accepted, echoed,
  \* EchoStore: the dictionary, whether it was loaded, the file; each thread's
  \* place in the store and what it has read or is about to write.
  memory, loaded, disk, place, snap,
  \* The message mapping: rows by uid, with their core_message_id or 0.
  rows, coreId,
  \* Where each thread is, and the locals of the calls of send_message.
  at, call,
  \* On the message object: vendor_specific.core.client_request_id.
  requestId,
  \* The uid the master got back, which it stores.
  uid,
  \* The poll thread: the send.updated at hand, and those behind the cursor.
  event, consumed,
  \* History: two threads were in the EchoStore at once; process ends.
  overlapped, ends

coreVars  == <<accepted, echoed>>
storeVars == <<memory, loaded, disk, place, snap>>
mapVars   == <<rows, coreId>>
pollVars  == <<event, consumed>>
pastVars  == <<overlapped, ends>>
vars == <<coreVars, storeVars, mapVars, call, at, requestId, uid, pollVars, pastVars>>

\* The idempotency key, the uid of the reply target and the message id found for
\* it, the receipt.
Calls == [key : Keys \cup {NoKey}, wanted : Uids \cup {NoUid}, target : 0 .. MaxSends,
          send : 0 .. MaxSends, withEcho : BOOLEAN]
NoCall == [key |-> NoKey, wanted |-> NoUid, target |-> 0, send |-> 0, withEcho |-> FALSE]

SendSteps  == {"idle", "lookup", "request", "answer", "mark", "record"}
PollSteps  == {"idle", "link", "linkrow", "save"}
StoreSteps == {"out", "enter", "read", "assign", "use", "dump", "replace"}

-----------------------------------------------------------------------------
(***************************************************************************)
(* EchoStore.  link and mark_pending load, change the dictionary and save; *)
(* linked_echo loads and reads.  What mark_pending writes besides the      *)
(* aliases is read by nobody.                                              *)
(***************************************************************************)
InStore(t) == place[t] \notin {"out", "enter"}

\* _load: the flag is set before the file is read.
StartLoad(t) ==
  /\ place[t] = "enter" /\ ~loaded
  /\ overlapped' = (overlapped \/ \E u \in Threads : InStore(u))
  /\ loaded' = TRUE
  /\ place' = [place EXCEPT ![t] = "read"]
  /\ UNCHANGED <<coreVars, memory, disk, snap, mapVars, call, at, requestId, uid, pollVars, ends>>

ReadFile(t) ==
  /\ place[t] = "read"
  /\ snap' = [snap EXCEPT ![t] = disk]
  /\ place' = [place EXCEPT ![t] = "assign"]
  /\ UNCHANGED <<coreVars, memory, loaded, disk, mapVars, call, at, requestId, uid,
                 pollVars, pastVars>>

AssignLoaded(t) ==
  /\ place[t] = "assign"
  /\ memory' = snap[t]
  /\ place' = [place EXCEPT ![t] = "use"]
  /\ UNCHANGED <<coreVars, loaded, disk, snap, mapVars, call, at, requestId, uid,
                 pollVars, pastVars>>

\* The dictionary is read or changed once _load has returned.
UseStore(t) ==
  /\ place[t] \in (IF loaded THEN {"enter", "use"} ELSE {"use"})
  /\ overlapped' = (overlapped \/ \E u \in Threads \ {t} : InStore(u))

\* A thread leaves the store and goes on.
LeaveStore(t, next) ==
  /\ place' = [place EXCEPT ![t] = "out"]
  /\ snap' = [snap EXCEPT ![t] = {}]
  /\ at' = [at EXCEPT ![t] = next]

\* Fault: an id the store does not know is passed on as it is.
LookUpOrPassOn(m, native) ==
  LET target == call[m].wanted
      found  == native /\ target.kind = "send"
  IN /\ at[m] = "lookup" /\ UseStore(m)
     /\ call' = [call EXCEPT ![m].wanted = NoUid, ![m].target = IF found THEN target.of ELSE 0]
     /\ LeaveStore(m, "request")
     /\ UNCHANGED <<coreVars, memory, loaded, disk, mapVars, requestId, uid, pollVars, ends>>

\* linked_echo(target_uid), in _send_target_id.
LookUp(m, native) ==
  LET target == call[m].wanted
      found  == native /\ target.kind = "send" /\ target.of \in memory
  IN /\ at[m] = "lookup" /\ UseStore(m)
     /\ call' = [call EXCEPT ![m].wanted = NoUid, ![m].target = IF found THEN target.of ELSE 0]
     /\ LeaveStore(m, "request")
     /\ UNCHANGED <<coreVars, memory, loaded, disk, mapVars, requestId, uid, pollVars, ends>>

\* The alias a thread is about to store: of a receipt that names the echo, or
\* of send.updated.  mark_pending stores none.
NewAlias(t) ==
  IF t = Poller THEN {event} ELSE IF call[t].withEcho THEN {call[t].send} ELSE {}

\* Fault: the dictionary is changed as it is, without _load.
ChangeUnloaded(t) ==
  /\ at[t] \in {"mark", "link"} /\ place[t] \in {"enter", "use"}
  /\ overlapped' = (overlapped \/ \E u \in Threads \ {t} : InStore(u))
  /\ memory' = memory \cup NewAlias(t)
  /\ place' = [place EXCEPT ![t] = "dump"]
  /\ UNCHANGED <<coreVars, loaded, disk, snap, mapVars, call, at, requestId, uid, pollVars, ends>>

ChangeStore(t) ==
  /\ at[t] \in {"mark", "link"} /\ UseStore(t)
  /\ memory' = memory \cup NewAlias(t)
  /\ place' = [place EXCEPT ![t] = "dump"]
  /\ UNCHANGED <<coreVars, loaded, disk, snap, mapVars, call, at, requestId, uid, pollVars, ends>>

\* _save: the dictionary is written to a temporary file, which then replaces
\* the file.
DumpStore(t) ==
  /\ place[t] = "dump"
  /\ snap' = [snap EXCEPT ![t] = memory]
  /\ place' = [place EXCEPT ![t] = "replace"]
  /\ UNCHANGED <<coreVars, memory, loaded, disk, mapVars, call, at, requestId, uid,
                 pollVars, pastVars>>

\* Fault: the file is left as it was.
ReplaceNothing(t) ==
  /\ place[t] = "replace"
  /\ LeaveStore(t, IF t = Poller THEN "linkrow" ELSE "record")
  /\ UNCHANGED <<coreVars, memory, loaded, disk, mapVars, call, requestId, uid, pollVars,
                 pastVars>>

ReplaceFile(t) ==
  /\ place[t] = "replace"
  /\ disk' = snap[t]
  /\ LeaveStore(t, IF t = Poller THEN "linkrow" ELSE "record")
  /\ UNCHANGED <<coreVars, memory, loaded, mapVars, call, requestId, uid, pollVars, pastVars>>

\* The file cannot be written: the exception leaves send_message, or the poll
\* cycle with the event still before the cursor.
SaveFails(t) ==
  /\ place[t] = "replace"
  /\ LeaveStore(t, "idle")
  /\ call' = IF t = Poller THEN call ELSE [call EXCEPT ![t] = NoCall]
  /\ event' = IF t = Poller THEN 0 ELSE event
  /\ UNCHANGED <<coreVars, memory, loaded, disk, mapVars, requestId, uid, consumed, pastVars>>

-----------------------------------------------------------------------------
(***************************************************************************)
(* send_message.                                                           *)
(***************************************************************************)
\* Fault: the uid the message has now is the key; after a send it is the send id.
KeyFromUid(m) == [msg |-> m, try |-> uid[m].of]

RequestKey(m) ==
  IF requestId[m] # NoKey THEN requestId[m]
  ELSE [msg |-> m, try |-> IF m \in Named THEN 0 ELSE Len(accepted) + 1]

TargetUid(m) == IF ReplyTo[m] = NoMessage THEN NoUid ELSE uid[ReplyTo[m]]

MappedId(u) == IF u \in rows THEN coreId[u] ELSE 0

\* The target is resolved in the mapping, then in the EchoStore; what neither
\* knows is quoted in the text.  Without native_reply it is quoted as well.
\* The master replies to a message it got back from an earlier call.  A call that is
\* refused before the request (unknown account, another chat's target, a quote in a
\* message that is no text) changes nothing.
Begin(m, native) ==
  LET target == TargetUid(m)
      found  == MappedId(target)
      ask    == target # NoUid /\ found = 0
  IN /\ at[m] = "idle" /\ Len(accepted) < MaxSends
     /\ ReplyTo[m] # NoMessage => target # NoUid
     /\ call' = [call EXCEPT ![m].key = RequestKey(m),
                             ![m].wanted = IF ask THEN target ELSE NoUid,
                             ![m].target = IF native THEN found ELSE 0]
     /\ at' = [at EXCEPT ![m] = IF ask THEN "lookup" ELSE "request"]
     /\ place' = [place EXCEPT ![m] = IF ask THEN "enter" ELSE "out"]
     /\ UNCHANGED <<coreVars, memory, loaded, disk, snap, mapVars, requestId, uid, pollVars,
                    pastVars>>

\* Core answers a key it knows with the receipt of the first request.
AcceptedWith(k) == {i \in DOMAIN accepted : accepted[i].key = k}

Accept(m) ==
  /\ at[m] = "request" /\ Len(accepted) < MaxSends
  /\ accepted' = IF AcceptedWith(call[m].key) = {}
                   THEN Append(accepted, [key |-> call[m].key, target |-> call[m].target])
                   ELSE accepted
  /\ call' = [call EXCEPT ![m].target = 0]
  /\ at' = [at EXCEPT ![m] = "answer"]
  /\ UNCHANGED <<echoed, storeVars, mapVars, requestId, uid, pollVars, pastVars>>

\* send_message is left.
Leave(m) == call' = [call EXCEPT ![m] = NoCall] /\ at' = [at EXCEPT ![m] = "idle"]

\* Core rejects the request, or the request or its answer is lost.
RequestFails(m) ==
  /\ at[m] \in {"request", "answer"}
  /\ Leave(m)
  /\ UNCHANGED <<coreVars, storeVars, mapVars, requestId, uid, pollVars, pastVars>>

\* The receipt arrives, with the echo if Core has it and says so.
Answer(m, withEcho) ==
  /\ at[m] = "answer"
  /\ \E i \in AcceptedWith(call[m].key) :
       /\ withEcho => i \in echoed
       /\ call' = [call EXCEPT ![m] = [NoCall EXCEPT !.send = i, !.withEcho = withEcho]]
  /\ requestId' = [requestId EXCEPT ![m] = call[m].key]
  /\ at' = [at EXCEPT ![m] = "mark"]
  /\ place' = [place EXCEPT ![m] = "enter"]
  /\ UNCHANGED <<coreVars, memory, loaded, disk, snap, mapVars, uid, pollVars, pastVars>>

ReceiptUid(m) == IF call[m].withEcho THEN EchoId(call[m].send) ELSE SendId(call[m].send)

\* Fault: record replaces the row.
RecordReplaces(m) ==
  /\ at[m] = "record"
  /\ rows' = rows \cup {ReceiptUid(m)}
  /\ coreId' = [coreId EXCEPT ![ReceiptUid(m)] = IF call[m].withEcho THEN call[m].send ELSE 0]
  /\ uid' = [uid EXCEPT ![m] = ReceiptUid(m)]
  /\ Leave(m)
  /\ UNCHANGED <<coreVars, storeVars, requestId, pollVars, pastVars>>

\* The upsert never empties a core_message_id.  Then the call returns.
Record(m) ==
  /\ at[m] = "record"
  /\ rows' = rows \cup {ReceiptUid(m)}
  /\ coreId' = [coreId EXCEPT ![ReceiptUid(m)] = IF call[m].withEcho THEN call[m].send ELSE @]
  /\ uid' = [uid EXCEPT ![m] = ReceiptUid(m)]
  /\ Leave(m)
  /\ UNCHANGED <<coreVars, storeVars, requestId, pollVars, pastVars>>

RecordFails(m) ==
  /\ at[m] = "record"
  /\ Leave(m)
  /\ UNCHANGED <<coreVars, storeVars, mapVars, requestId, uid, pollVars, pastVars>>

-----------------------------------------------------------------------------
(***************************************************************************)
(* Core and the poll thread.                                               *)
(***************************************************************************)
\* WeChat shows the message; Core publishes send.updated with the echo.
Reconcile(i) ==
  /\ i \in DOMAIN accepted \ echoed
  /\ echoed' = echoed \cup {i}
  /\ UNCHANGED <<accepted, storeVars, mapVars, call, at, requestId, uid, pollVars, pastVars>>

\* Fault: an update without an echo is handled like one with it.
SendUpdatedEarly(i) ==
  /\ at[Poller] = "idle" /\ i \in DOMAIN accepted
  /\ event' = i
  /\ at' = [at EXCEPT ![Poller] = "link"]
  /\ place' = [place EXCEPT ![Poller] = "enter"]
  /\ UNCHANGED <<coreVars, memory, loaded, disk, snap, mapVars, call, requestId, uid, consumed,
                 pastVars>>

\* _handle_send_update: a new event, one read again, or a later one of the send.
\* An update without an echo is only logged.
SendUpdated(i) ==
  /\ at[Poller] = "idle" /\ i \in echoed
  /\ event' = i
  /\ at' = [at EXCEPT ![Poller] = "link"]
  /\ place' = [place EXCEPT ![Poller] = "enter"]
  /\ UNCHANGED <<coreVars, memory, loaded, disk, snap, mapVars, call, requestId, uid,
                 consumed, pastVars>>

\* link_core_message is an UPDATE: without a row it does nothing.
LinkRow ==
  /\ at[Poller] = "linkrow"
  /\ coreId' = IF SendId(event) \in rows THEN [coreId EXCEPT ![SendId(event)] = event]
                                         ELSE coreId
  /\ at' = [at EXCEPT ![Poller] = "save"]
  /\ UNCHANGED <<coreVars, storeVars, rows, call, requestId, uid, pollVars, pastVars>>

\* poll_once saves the event's cursor.
SaveCursor ==
  /\ at[Poller] = "save"
  /\ consumed' = consumed \cup {event} /\ event' = 0
  /\ at' = [at EXCEPT ![Poller] = "idle"]
  /\ UNCHANGED <<coreVars, storeVars, mapVars, call, requestId, uid, pastVars>>

\* The process ends and starts again.  The files, Core and the uids the master
\* stored stay; a message sent again is a new object.
End ==
  /\ ends < MaxEnds
  /\ ends' = ends + 1
  /\ memory' = {} /\ loaded' = FALSE
  /\ place' = [t \in Threads |-> "out"]
  /\ snap' = [t \in Threads |-> {}]
  /\ at' = [t \in Threads |-> "idle"]
  /\ call' = [m \in Messages |-> NoCall]
  /\ requestId' = [m \in Messages |-> NoKey]
  /\ event' = 0
  /\ UNCHANGED <<coreVars, disk, mapVars, uid, consumed, overlapped>>

-----------------------------------------------------------------------------
Init ==
  /\ accepted = <<>> /\ echoed = {}
  /\ memory = {} /\ loaded = FALSE /\ disk = {}
  /\ place = [t \in Threads |-> "out"]
  /\ snap = [t \in Threads |-> {}]
  /\ rows = {} /\ coreId = [u \in Uids |-> 0]
  /\ at = [t \in Threads |-> "idle"]
  /\ call = [m \in Messages |-> NoCall]
  /\ requestId = [m \in Messages |-> NoKey]
  /\ uid = [m \in Messages |-> NoUid]
  /\ event = 0 /\ consumed = {}
  /\ overlapped = FALSE /\ ends = 0

SendStep(m) ==
  \/ \E native \in BOOLEAN : Begin(m, native) \/ LookUp(m, native)
  \/ Accept(m)
  \/ RequestFails(m)
  \/ \E withEcho \in BOOLEAN : Answer(m, withEcho)
  \/ Record(m)
  \/ RecordFails(m)

StoreStep(t) ==
  \/ StartLoad(t)
  \/ ReadFile(t)
  \/ AssignLoaded(t)
  \/ ChangeStore(t)
  \/ DumpStore(t)
  \/ ReplaceFile(t)
  \/ SaveFails(t)

Next ==
  \/ \E m \in Messages : SendStep(m)
  \/ \E t \in Threads : StoreStep(t)
  \/ \E i \in Sends : Reconcile(i) \/ SendUpdated(i)
  \/ LinkRow
  \/ SaveCursor
  \/ End

Spec == Init /\ [][Next]_vars

-----------------------------------------------------------------------------
(***************************************************************************)
(* What sending promises.                                                  *)
(***************************************************************************)
TypeOK ==
  /\ accepted \in Seq([key : Keys, target : 0 .. MaxSends]) /\ Len(accepted) <= MaxSends
  /\ echoed \subseteq DOMAIN accepted /\ consumed \subseteq echoed
  /\ memory \subseteq Sends /\ disk \subseteq Sends /\ loaded \in BOOLEAN
  /\ place \in [Threads -> StoreSteps] /\ snap \in [Threads -> SUBSET Sends]
  /\ rows \subseteq Uids /\ coreId \in [Uids -> 0 .. MaxSends]
  /\ at \in [Threads -> SendSteps \cup PollSteps]
  /\ call \in [Messages -> Calls] /\ requestId \in [Messages -> Keys \cup {NoKey}]
  /\ uid \in [Messages -> Uids \cup {NoUid}]
  /\ event \in 0 .. MaxSends
  /\ overlapped \in BOOLEAN /\ ends \in 0 .. MaxEnds

\* A message that came with a uid is submitted to WeChat at most once, however
\* often the master sends it: after a lost answer, after an error that followed
\* Core's acceptance, after a success that replaced the uid, after a restart.
SubmittedOnce ==
  \A i, j \in DOMAIN accepted :
    accepted[i].key.msg = accepted[j].key.msg /\ accepted[i].key.msg \in Named => i = j

\* The target_message_id of a reply is the final id of the message replied to,
\* reconciled by Core; a send id, another message's id or a guess never goes out.
ReplyTargetFinal ==
  \A i \in DOMAIN accepted :
    LET target == accepted[i].target
    IN target # 0 =>
         target \in echoed /\ accepted[target].key.msg = ReplyTo[accepted[i].key.msg]

\* A message id learned for a row of the mapping stays: sending the message again
\* returns a receipt without the echo, and record must not empty the row.
LinkedRowsKept ==
  [][\A u \in Uids : coreId[u] # 0 => coreId'[u] = coreId[u]]_vars

\* The requests, the answers and the ids the master holds, as Messenger sees them.
Submitted == [i \in DOMAIN accepted |->
                [msg |-> accepted[i].key.msg, target |-> accepted[i].target]]
Answered  == {m \in Messages : requestId[m] # NoKey}
Held      == [m \in Messages |-> uid[m].of]
Learned   == {i \in Sends : coreId[SendId(i)] # 0 \/ coreId[EchoId(i)] # 0}

Messaging == INSTANCE Messenger WITH sent <- Submitted, shown <- echoed, answered <- Answered,
                                     held <- Held, learned <- Learned

\* Sending keeps that promise step by step: one request per named message, and per
\* process one for any other that was answered; final targets; the ids handed to the
\* master are its own message's, and what is learned of them is neither early nor lost.
SendsAsPromised == Messaging!Spec

\* While no two threads meet in the EchoStore, its file loses no alias: every writer
\* has loaded it, across ends of the process and writes that fail.
AliasesKept == [][~overlapped' => disk \subseteq disk']_vars

\* The aliases the next reader of the store sees.
Aliases == IF loaded THEN memory ELSE disk

\* What _send_target_id and efb_message_id make of the ids of send i.
TargetOf(u) ==
  IF MappedId(u) # 0 THEN MappedId(u)
  ELSE IF u.kind = "send" /\ u.of \in Aliases THEN u.of ELSE 0
MasterUid(i) == IF i \in Aliases THEN SendId(i) ELSE EchoId(i)

\* Once the cursor has passed the send.updated of a send whose send id the
\* master holds, that uid and the message id translate into each other, in this
\* process and in every later one: for this the alias file, the mapping row and
\* the cursor must agree across failed writes and ends of the process.  It holds
\* unless two threads were in the EchoStore at once.
UidTranslates ==
  (~overlapped /\ \A t \in Threads : ~InStore(t)) =>
    \A m \in Messages : \A i \in consumed :
      uid[m] = SendId(i) => TargetOf(SendId(i)) = i /\ MasterUid(i) = SendId(i)
=============================================================================
