---------------------------- MODULE SendingProofs ----------------------------
(***************************************************************************)
(* Theorems about Sending, for every value of its constants: type          *)
(* correctness, one submission per named message, final reply targets, and  *)
(* uids that keep translating.                                             *)
(***************************************************************************)
EXTENDS Sending, TLAPS

(***************************************************************************)
(* The invariant.                                                          *)
(***************************************************************************)
\* A thread is in the store only at a line that uses it; the poll thread has an
\* echo at hand while it works on one.
WellPlaced ==
  /\ at[Poller] \in PollSteps
  /\ \A m \in Messages : at[m] \in SendSteps
  /\ \A t \in Threads :
       /\ place[t] # "out" => at[t] \in {"lookup", "mark", "link"}
       /\ place[t] \in {"dump", "replace"} => at[t] \in {"mark", "link"}
  /\ at[Poller] # "idle" => event \in echoed

\* Keys belong to their messages, and Core has each key once.
KeyOf(m, k) == k \in Keys /\ k.msg = m /\ (m \in Named => k.try = 0)

KeysRight ==
  /\ \A m \in Messages :
       /\ at[m] \in {"lookup", "request", "answer"} => KeyOf(m, call[m].key)
       /\ requestId[m] # NoKey => KeyOf(m, requestId[m])
  /\ \A i \in DOMAIN accepted : KeyOf(accepted[i].key.msg, accepted[i].key)
  /\ \A i, j \in DOMAIN accepted : accepted[i].key = accepted[j].key => i = j

\* Receipts, uids and reply targets name sends of the message they are about.
SendOf(m, i) == i \in DOMAIN accepted /\ accepted[i].key.msg = m
FinalSendOf(m, i) == SendOf(m, i) /\ i \in echoed

NamesRight ==
  /\ \A m \in Messages :
       /\ at[m] \in {"mark", "record"} => SendOf(m, call[m].send)
       /\ call[m].withEcho => call[m].send \in echoed
       /\ uid[m] # NoUid => SendOf(m, uid[m].of)
       /\ call[m].wanted # NoUid => SendOf(ReplyTo[m], call[m].wanted.of)
       /\ call[m].target # 0 => FinalSendOf(ReplyTo[m], call[m].target)
  /\ \A i \in DOMAIN accepted :
       accepted[i].target # 0 => FinalSendOf(ReplyTo[accepted[i].key.msg], accepted[i].target)

\* What is noted of an echo is one Core has reconciled.
NotesRight ==
  /\ memory \subseteq echoed /\ disk \subseteq echoed
  /\ \A t \in Threads : snap[t] \subseteq echoed
  /\ \A u \in Uids : coreId[u] # 0 => coreId[u] = u.of /\ u.of \in echoed

\* While no two threads have met in the store, what the file holds reaches the
\* dictionary, and what the cursor has passed reaches the file.
InStep ==
  /\ \A t \in Threads : InStore(t) => loaded
  /\ \A t, u \in Threads : InStore(t) /\ InStore(u) => t = u
  /\ \A t \in Threads : place[t] \in {"assign", "replace"} => disk \subseteq snap[t]
  /\ \A t \in Threads : place[t] = "replace" => snap[t] \subseteq memory
  /\ loaded /\ (\A t \in Threads : place[t] \notin {"read", "assign"}) => disk \subseteq memory
  /\ place[Poller] = "dump" => event \in memory
  /\ place[Poller] = "replace" => event \in snap[Poller]
  /\ at[Poller] \in {"linkrow", "save"} => event \in disk
  /\ consumed \subseteq disk

StoreInStep == ~overlapped => InStep

\* What the theorems of this module share.
SendingInv == TypeOK /\ WellPlaced /\ KeysRight /\ NamesRight /\ NotesRight

-----------------------------------------------------------------------------
(***************************************************************************)
(* The invariant holds at first.                                           *)
(***************************************************************************)
LEMMA InitInv == Init => SendingInv /\ StoreInStep
<1> SUFFICES ASSUME Init PROVE SendingInv /\ StoreInStep
  OBVIOUS
<1>1. TypeOK
  <2>1. NoCall \in Calls
    BY SendingAssumption DEF NoCall, Calls
  <2>2. accepted \in Seq([key : Keys, target : 0 .. MaxSends]) /\ Len(accepted) = 0
    BY DEF Init
  <2>3. /\ place \in [Threads -> StoreSteps] /\ snap \in [Threads -> SUBSET Sends]
        /\ at \in [Threads -> SendSteps \cup PollSteps]
    BY DEF Init, StoreSteps, SendSteps
  <2>4. /\ call \in [Messages -> Calls] /\ requestId \in [Messages -> Keys \cup {NoKey}]
        /\ uid \in [Messages -> Uids \cup {NoUid}] /\ coreId \in [Uids -> 0 .. MaxSends]
    BY <2>1, SendingAssumption DEF Init
  <2>5. event \in 0 .. MaxSends /\ ends \in 0 .. MaxEnds
    BY SendingAssumption DEF Init
  <2>6. /\ echoed \subseteq DOMAIN accepted /\ consumed \subseteq echoed
        /\ memory \subseteq Sends /\ disk \subseteq Sends /\ loaded \in BOOLEAN
        /\ rows \subseteq Uids /\ overlapped \in BOOLEAN
    BY DEF Init
  <2> QED
    BY <2>2, <2>3, <2>4, <2>5, <2>6, SendingAssumption DEF TypeOK
<1>2. WellPlaced
  BY SendingAssumption DEF Init, WellPlaced, Threads, PollSteps, SendSteps
<1>3. KeysRight /\ NamesRight
  <2>1. DOMAIN accepted = {}
    BY DEF Init
  <2>2. \A m \in Messages : /\ at[m] = "idle" /\ call[m] = NoCall
                             /\ requestId[m] = NoKey /\ uid[m] = NoUid
    BY SendingAssumption DEF Init, Threads
  <2> QED
    BY <2>1, <2>2 DEF KeysRight, NamesRight, NoCall
<1>4. NotesRight /\ StoreInStep
  BY SendingAssumption DEF Init, NotesRight, StoreInStep, InStep, InStore, Threads
<1> QED
  BY <1>1, <1>2, <1>3, <1>4 DEF SendingInv

-----------------------------------------------------------------------------
(***************************************************************************)
(* What only grows, and what a state's records contain.                    *)
(***************************************************************************)
Grown ==
  /\ \A i \in DOMAIN accepted : i \in DOMAIN accepted' /\ accepted'[i] = accepted[i]
  /\ echoed \subseteq echoed'

\* The numbers of the sends, and the fields of accepted and call.
LEMMA Fields ==
  ASSUME TypeOK
  PROVE  /\ DOMAIN accepted \subseteq Sends /\ echoed \subseteq Sends
         /\ \A i \in DOMAIN accepted :
              accepted[i].key \in Keys /\ accepted[i].key.msg \in Messages
         /\ \A m \in Messages :
              /\ call[m].key \in Keys \cup {NoKey} /\ call[m].wanted \in Uids \cup {NoUid}
              /\ call[m].target \in 0 .. MaxSends /\ call[m].send \in 0 .. MaxSends
              /\ call[m].withEcho \in BOOLEAN
         /\ \A u \in Uids : u.of \in Sends
<1>1. DOMAIN accepted = 1 .. Len(accepted) /\ DOMAIN accepted \subseteq Sends
  BY SendingAssumption DEF TypeOK, Sends
<1>2. ASSUME NEW i \in DOMAIN accepted
      PROVE  accepted[i].key \in Keys /\ accepted[i].key.msg \in Messages
  <2>1. accepted[i] \in [key : Keys, target : 0 .. MaxSends]
    <3> DEFINE Requests == [key : Keys, target : 0 .. MaxSends]
    <3>1. accepted \in Seq(Requests) /\ i \in 1 .. Len(accepted)
      BY <1>1 DEF TypeOK
    <3> HIDE DEF Requests
    <3>2. accepted[i] \in Requests
      BY <3>1
    <3> QED
      BY <3>2 DEF Requests
  <2> QED
    BY <2>1 DEF Keys
<1>3. ASSUME NEW m \in Messages
      PROVE  /\ call[m].key \in Keys \cup {NoKey} /\ call[m].wanted \in Uids \cup {NoUid}
             /\ call[m].target \in 0 .. MaxSends /\ call[m].send \in 0 .. MaxSends
             /\ call[m].withEcho \in BOOLEAN
  <2>1. call[m] \in Calls
    BY DEF TypeOK
  <2> QED
    BY <2>1 DEF Calls
<1> QED
  BY <1>1, <1>2, <1>3 DEF TypeOK, Uids

\* A message is no poll thread.
LEMMA Apart == Poller \in Threads /\ \A m \in Messages : m \in Threads /\ m # Poller
BY SendingAssumption DEF Threads

-----------------------------------------------------------------------------
(***************************************************************************)
(* The steps in the store.                                                 *)
(***************************************************************************)
\* The lines of _load and _save change the place, the copies and the history.
LEMMA StoreMoves ==
  ASSUME SendingInv, NEW t \in Threads,
         StartLoad(t) \/ ReadFile(t) \/ AssignLoaded(t) \/ DumpStore(t)
  PROVE  SendingInv' /\ Grown
<1>1. UNCHANGED <<coreVars, disk, mapVars, call, at, requestId, uid, pollVars, ends>>
  BY DEF StartLoad, ReadFile, AssignLoaded, DumpStore, pastVars
<1>2. /\ memory' \in {memory, snap[t]}
      /\ snap' = [snap EXCEPT ![t] = disk] \/ snap' = [snap EXCEPT ![t] = memory] \/ snap' = snap
      /\ loaded' \in {loaded, TRUE}
      /\ overlapped' \in BOOLEAN
  BY DEF SendingInv, TypeOK, StartLoad, ReadFile, AssignLoaded, DumpStore, pastVars
<1>3. \E p \in StoreSteps : /\ place' = [place EXCEPT ![t] = p]
                            /\ place[t] # "out"
                            /\ p \in {"dump", "replace"} => place[t] = "dump"
  BY DEF StartLoad, ReadFile, AssignLoaded, DumpStore, StoreSteps
<1>4. TypeOK'
  <2>1. memory' \subseteq Sends /\ snap' \in [Threads -> SUBSET Sends] /\ loaded' \in BOOLEAN
    BY <1>2 DEF SendingInv, TypeOK
  <2>2. place' \in [Threads -> StoreSteps]
    BY <1>3 DEF SendingInv, TypeOK
  <2> QED
    BY <1>1, <1>2, <2>1, <2>2 DEF SendingInv, TypeOK, coreVars, mapVars, pollVars
<1>5. WellPlaced'
  BY <1>1, <1>3 DEF SendingInv, TypeOK, WellPlaced, coreVars, pollVars
<1>6. KeysRight' /\ NamesRight'
  BY <1>1 DEF SendingInv, KeysRight, NamesRight, SendOf, FinalSendOf, coreVars
<1>7. NotesRight'
  BY <1>1, <1>2 DEF SendingInv, TypeOK, NotesRight, coreVars, mapVars
<1> QED
  BY <1>1, <1>4, <1>5, <1>6, <1>7 DEF SendingInv, Grown, coreVars

\* What linked_echo finds is the final id of a send of the target.
LEMMA LookUpStep ==
  ASSUME SendingInv, NEW m \in Messages, NEW native \in BOOLEAN, LookUp(m, native)
  PROVE  SendingInv' /\ Grown
<1> DEFINE target == call[m].wanted
           found  == native /\ target.kind = "send" /\ target.of \in memory
           result == IF found THEN target.of ELSE 0
<1>1. result # 0 => FinalSendOf(ReplyTo[m], result)
  <2>1. CASE found
    <3>1. target # NoUid
      BY <2>1 DEF NoUid
    <3> QED
      BY <2>1, <3>1 DEF SendingInv, NamesRight, NotesRight, FinalSendOf
  <2> QED
    BY <2>1
<1>2. result \in 0 .. MaxSends
  <2>1. found => result \in Sends
    BY DEF SendingInv, TypeOK
  <2>2. ~found => result = 0
    OBVIOUS
  <2> HIDE DEF result, found
  <2> QED
    BY <2>1, <2>2, SendingAssumption DEF Sends
<1>3. call' = [call EXCEPT ![m].wanted = NoUid, ![m].target = result]
  BY DEF LookUp
<1>4. /\ at' = [at EXCEPT ![m] = "request"] /\ place' = [place EXCEPT ![m] = "out"]
      /\ snap' = [snap EXCEPT ![m] = {}] /\ at[m] = "lookup"
      /\ overlapped' \in BOOLEAN
      /\ UNCHANGED <<coreVars, memory, loaded, disk, mapVars, requestId, uid, pollVars, ends>>
  BY DEF LookUp, LeaveStore, UseStore, SendingInv, TypeOK
<1> HIDE DEF result
<1>5. TypeOK'
  <2>1. call' \in [Messages -> Calls]
    <3>1. [call[m] EXCEPT !.wanted = NoUid, !.target = result] \in Calls
      BY <1>2 DEF SendingInv, TypeOK, Calls
    <3>2. call' = [call EXCEPT ![m] = [call[m] EXCEPT !.wanted = NoUid, !.target = result]]
      BY <1>3 DEF SendingInv, TypeOK
    <3> QED
      BY <3>1, <3>2 DEF SendingInv, TypeOK
  <2>2. /\ at' \in [Threads -> SendSteps \cup PollSteps] /\ place' \in [Threads -> StoreSteps]
        /\ snap' \in [Threads -> SUBSET Sends]
    BY <1>4, Apart DEF SendingInv, TypeOK, SendSteps, StoreSteps
  <2> QED
    BY <1>4, <2>1, <2>2 DEF SendingInv, TypeOK, coreVars, mapVars, pollVars
<1>6. WellPlaced'
  BY <1>4, Apart DEF SendingInv, TypeOK, WellPlaced, SendSteps, coreVars, pollVars
<1>7. \A x \in Messages :
        /\ call'[x].key = call[x].key /\ call'[x].send = call[x].send
        /\ call'[x].withEcho = call[x].withEcho
        /\ x = m => call'[x].wanted = NoUid /\ call'[x].target = result
        /\ x # m => call'[x] = call[x] /\ at'[x] = at[x]
  BY <1>3, <1>4, Apart DEF SendingInv, TypeOK, Calls
<1>8. KeysRight'
  BY <1>4, <1>7, Apart DEF SendingInv, TypeOK, KeysRight, coreVars
<1>9. NamesRight'
  BY <1>1, <1>4, <1>7, Apart DEF SendingInv, TypeOK, NamesRight, SendOf, FinalSendOf, coreVars
<1>10. NotesRight'
  BY <1>4, Apart DEF SendingInv, TypeOK, NotesRight, coreVars, mapVars
<1> QED
  BY <1>4, <1>5, <1>6, <1>8, <1>9, <1>10 DEF SendingInv, Grown, coreVars

\* The alias stored is of an echo Core has reconciled.
LEMMA ChangeStoreStep ==
  ASSUME SendingInv, NEW t \in Threads, ChangeStore(t)
  PROVE  SendingInv' /\ Grown
<1>1. NewAlias(t) \subseteq echoed
  <2>1. CASE t = Poller
    BY <2>1 DEF ChangeStore, NewAlias, SendingInv, WellPlaced
  <2>2. CASE t \in Messages
    BY <2>2, Apart DEF ChangeStore, NewAlias, SendingInv, NamesRight
  <2> QED
    BY <2>1, <2>2 DEF Threads
<1>2. /\ memory' = memory \cup NewAlias(t) /\ place' = [place EXCEPT ![t] = "dump"]
      /\ at[t] \in {"mark", "link"} /\ overlapped' \in BOOLEAN
      /\ UNCHANGED <<coreVars, loaded, disk, snap, mapVars, call, at, requestId, uid, pollVars,
                     ends>>
  BY DEF ChangeStore, UseStore, SendingInv, TypeOK
<1>3. TypeOK'
  <2>1. memory' \subseteq Sends
    BY <1>1, <1>2, Fields DEF SendingInv, TypeOK
  <2>2. place' \in [Threads -> StoreSteps]
    BY <1>2 DEF SendingInv, TypeOK, StoreSteps
  <2> QED
    BY <1>2, <2>1, <2>2 DEF SendingInv, TypeOK, coreVars, mapVars, pollVars
<1>4. WellPlaced'
  BY <1>2 DEF SendingInv, TypeOK, WellPlaced, coreVars, pollVars
<1>5. KeysRight' /\ NamesRight'
  BY <1>2 DEF SendingInv, KeysRight, NamesRight, SendOf, FinalSendOf, coreVars
<1>6. NotesRight'
  BY <1>1, <1>2 DEF SendingInv, NotesRight, coreVars, mapVars
<1> QED
  BY <1>2, <1>3, <1>4, <1>5, <1>6 DEF SendingInv, Grown, coreVars

\* The file is replaced, or cannot be: the thread leaves the store.
LEMMA ReplaceStep ==
  ASSUME SendingInv, NEW t \in Threads, ReplaceFile(t) \/ SaveFails(t)
  PROVE  SendingInv' /\ Grown
<1> DEFINE next == IF SaveFails(t) THEN "idle" ELSE IF t = Poller THEN "linkrow" ELSE "record"
<1>1. /\ place[t] = "replace" /\ place' = [place EXCEPT ![t] = "out"]
      /\ snap' = [snap EXCEPT ![t] = {}]
      /\ UNCHANGED <<coreVars, memory, loaded, mapVars, requestId, uid, consumed, pastVars>>
  BY DEF ReplaceFile, SaveFails, LeaveStore, pollVars
<1>2. disk' \in {disk, snap[t]}
  BY DEF ReplaceFile, SaveFails
<1>3. \/ /\ at' = [at EXCEPT ![t] = "idle"]
         /\ call' = IF t = Poller THEN call ELSE [call EXCEPT ![t] = NoCall]
         /\ event' = IF t = Poller THEN 0 ELSE event
      \/ /\ at' = [at EXCEPT ![t] = IF t = Poller THEN "linkrow" ELSE "record"]
         /\ UNCHANGED <<call, event>>
  BY DEF ReplaceFile, SaveFails, LeaveStore, pollVars
<1>4. t = Poller => at[t] = "link"
  BY <1>1, Apart DEF SendingInv, WellPlaced, PollSteps
<1>5. t # Poller => t \in Messages /\ at[t] = "mark"
  <2> SUFFICES ASSUME t # Poller PROVE t \in Messages /\ at[t] = "mark"
    OBVIOUS
  <2>1. t \in Messages
    BY DEF Threads
  <2>2. at[t] \in SendSteps /\ at[t] \in {"mark", "link"}
    BY <1>1, <2>1 DEF SendingInv, WellPlaced
  <2> QED
    BY <2>1, <2>2 DEF SendSteps
<1>6. NoCall \in Calls /\ NoCall.withEcho = FALSE /\ NoCall.wanted = NoUid /\ NoCall.target = 0
  BY SendingAssumption DEF NoCall, Calls
<1>7. TypeOK'
  <2>1. /\ at' \in [Threads -> SendSteps \cup PollSteps] /\ place' \in [Threads -> StoreSteps]
        /\ snap' \in [Threads -> SUBSET Sends] /\ disk' \subseteq Sends
    BY <1>1, <1>2, <1>3 DEF SendingInv, TypeOK, SendSteps, PollSteps, StoreSteps
  <2>2. call' \in [Messages -> Calls] /\ event' \in 0 .. MaxSends
    BY <1>3, <1>5, <1>6, SendingAssumption DEF SendingInv, TypeOK
  <2> QED
    BY <1>1, <2>1, <2>2 DEF SendingInv, TypeOK, coreVars, mapVars, pastVars
<1>8. WellPlaced'
  <2>1. at'[Poller] \in PollSteps /\ (at'[Poller] # "idle" => event' \in echoed)
    BY <1>1, <1>3, <1>4, <1>5, Apart DEF SendingInv, TypeOK, WellPlaced, PollSteps
  <2>2. \A m \in Messages : at'[m] \in SendSteps
    BY <1>1, <1>3, Apart DEF SendingInv, TypeOK, WellPlaced, SendSteps
  <2>3. \A u \in Threads :
          /\ place'[u] # "out" => u # t /\ at'[u] \in {"lookup", "mark", "link"}
          /\ place'[u] \in {"dump", "replace"} => at'[u] \in {"mark", "link"}
    BY <1>1, <1>3 DEF SendingInv, TypeOK, WellPlaced
  <2> QED
    BY <1>1, <2>1, <2>2, <2>3 DEF WellPlaced, coreVars
<1>9. \A x \in Messages :
        \/ /\ call'[x] = NoCall /\ at'[x] = "idle"
        \/ call'[x] = call[x] /\ (at'[x] = at[x] \/ (at[x] = "mark" /\ at'[x] = "record"))
  BY <1>3, <1>5, Apart DEF SendingInv, TypeOK
<1>10. KeysRight'
  BY <1>1, <1>9 DEF SendingInv, KeysRight, coreVars
<1>11. NamesRight'
  BY <1>1, <1>6, <1>9 DEF SendingInv, NamesRight, SendOf, FinalSendOf, coreVars
<1>12. NotesRight'
  BY <1>1, <1>2 DEF SendingInv, TypeOK, NotesRight, coreVars, mapVars
<1> QED
  BY <1>1, <1>7, <1>8, <1>10, <1>11, <1>12 DEF SendingInv, Grown, coreVars

-----------------------------------------------------------------------------
(***************************************************************************)
(* The steps of send_message.                                              *)
(***************************************************************************)
\* The key of a call belongs to the message.
LEMMA RequestKeyOf ==
  ASSUME SendingInv, NEW m \in Messages, Len(accepted) < MaxSends
  PROVE  KeyOf(m, RequestKey(m))
<1>1. CASE requestId[m] # NoKey
  BY <1>1 DEF SendingInv, KeysRight, RequestKey
<1>2. CASE requestId[m] = NoKey
  <2>1. Len(accepted) + 1 \in 0 .. MaxSends /\ 0 \in 0 .. MaxSends
    BY SendingAssumption DEF SendingInv, TypeOK
  <2> QED
    BY <1>2, <2>1 DEF RequestKey, KeyOf, Keys
<1> QED
  BY <1>1, <1>2

\* The uid of the reply target is of a send of the target, and the mapping only
\* has the final id of that send for it.
LEMMA TargetRight ==
  ASSUME SendingInv, NEW m \in Messages
  PROVE  LET target == TargetUid(m)
         IN /\ target \in Uids \cup {NoUid}
            /\ target # NoUid => SendOf(ReplyTo[m], target.of)
            /\ MappedId(target) \in 0 .. MaxSends
            /\ MappedId(target) # 0 => FinalSendOf(ReplyTo[m], MappedId(target))
<1> DEFINE target == TargetUid(m)
<1>1. ReplyTo[m] # NoMessage => ReplyTo[m] \in Messages
  BY SendingAssumption
<1>2. target \in Uids \cup {NoUid} /\ (target # NoUid => SendOf(ReplyTo[m], target.of))
  BY <1>1 DEF TargetUid, SendingInv, TypeOK, NamesRight
<1>3. NoUid \notin Uids
  BY DEF NoUid, Uids
<1> HIDE DEF target
<1>4. MappedId(target) \in 0 .. MaxSends
  BY SendingAssumption DEF MappedId, SendingInv, TypeOK
<1>5. MappedId(target) # 0 => FinalSendOf(ReplyTo[m], MappedId(target))
  <2> SUFFICES ASSUME MappedId(target) # 0 PROVE FinalSendOf(ReplyTo[m], MappedId(target))
    OBVIOUS
  <2>1. target \in rows /\ coreId[target] # 0 /\ MappedId(target) = coreId[target]
    BY DEF MappedId
  <2>2. target \in Uids /\ target # NoUid
    BY <1>3, <2>1 DEF SendingInv, TypeOK
  <2>3. coreId[target] = target.of /\ target.of \in echoed
    BY <2>1, <2>2 DEF SendingInv, NotesRight
  <2> QED
    BY <1>2, <2>1, <2>2, <2>3 DEF FinalSendOf
<1> QED
  BY <1>2, <1>4, <1>5 DEF target

\* A call begins: its key is the message's, its target is of the message replied to.
LEMMA BeginStep ==
  ASSUME SendingInv, NEW m \in Messages, NEW native \in BOOLEAN, Begin(m, native)
  PROVE  SendingInv' /\ Grown
<1> DEFINE target == TargetUid(m)
           found  == MappedId(target)
           ask    == target # NoUid /\ found = 0
           wanted == IF ask THEN target ELSE NoUid
           id     == IF native THEN found ELSE 0
           c      == [call[m] EXCEPT !.key = RequestKey(m), !.wanted = wanted, !.target = id]
<1>1. KeyOf(m, RequestKey(m))
  BY RequestKeyOf DEF Begin
<1>2. /\ wanted \in Uids \cup {NoUid} /\ (wanted # NoUid => SendOf(ReplyTo[m], wanted.of))
      /\ id \in 0 .. MaxSends /\ (id # 0 => FinalSendOf(ReplyTo[m], id))
  BY TargetRight, SendingAssumption
<1>3. call' = [call EXCEPT ![m] = c]
  BY DEF Begin, SendingInv, TypeOK
<1>4. /\ at[m] = "idle" /\ at' = [at EXCEPT ![m] = IF ask THEN "lookup" ELSE "request"]
      /\ place' = [place EXCEPT ![m] = IF ask THEN "enter" ELSE "out"]
      /\ UNCHANGED <<coreVars, memory, loaded, disk, snap, mapVars, requestId, uid, pollVars,
                     pastVars>>
  BY DEF Begin
<1> HIDE DEF target, found, ask, wanted, id
<1>5. /\ c \in Calls /\ c.key = RequestKey(m) /\ c.wanted = wanted /\ c.target = id
      /\ c.withEcho = call[m].withEcho /\ c.send = call[m].send
  BY <1>1, <1>2 DEF SendingInv, TypeOK, Calls, KeyOf
<1> HIDE DEF c
<1>6. \A x \in Messages : /\ x = m => call'[x] = c
                          /\ x # m => call'[x] = call[x] /\ at'[x] = at[x]
  BY <1>3, <1>4, Apart DEF SendingInv, TypeOK
<1>7. at'[m] \in {"lookup", "request"}
  BY <1>4, Apart DEF SendingInv, TypeOK
<1>8. TypeOK'
  <2>1. call' \in [Messages -> Calls]
    BY <1>3, <1>5 DEF SendingInv, TypeOK
  <2>2. at' \in [Threads -> SendSteps \cup PollSteps] /\ place' \in [Threads -> StoreSteps]
    BY <1>4, Apart DEF SendingInv, TypeOK, SendSteps, StoreSteps
  <2> QED
    BY <1>4, <2>1, <2>2 DEF SendingInv, TypeOK, coreVars, mapVars, pollVars, pastVars
<1>9. WellPlaced'
  BY <1>4, Apart DEF SendingInv, TypeOK, WellPlaced, SendSteps, coreVars, pollVars
<1>10. KeysRight'
  BY <1>1, <1>4, <1>5, <1>6 DEF SendingInv, KeysRight, coreVars
<1>11. NamesRight'
  BY <1>2, <1>4, <1>5, <1>6, <1>7 DEF SendingInv, NamesRight, SendOf, FinalSendOf, coreVars
<1>12. NotesRight'
  BY <1>4 DEF SendingInv, NotesRight, coreVars, mapVars
<1> QED
  BY <1>4, <1>8, <1>9, <1>10, <1>11, <1>12 DEF SendingInv, Grown, coreVars

\* Core appends a request only under a key it does not know.
LEMMA AcceptStep ==
  ASSUME SendingInv, NEW m \in Messages, Accept(m)
  PROVE  SendingInv' /\ Grown
<1> DEFINE request == [key |-> call[m].key, target |-> call[m].target]
           Requests == [key : Keys, target : 0 .. MaxSends]
           c == [call[m] EXCEPT !.target = 0]
<1>1. KeyOf(m, call[m].key) /\ call[m].key \in Keys /\ call[m].key.msg = m
  BY DEF Accept, SendingInv, KeysRight, KeyOf
<1>2. request \in Requests /\ accepted \in Seq(Requests) /\ Len(accepted) < MaxSends
  BY <1>1, Fields DEF Accept, SendingInv, TypeOK
<1>3. \/ accepted' = accepted
      \/ accepted' = Append(accepted, request) /\ AcceptedWith(call[m].key) = {}
  BY DEF Accept
<1>4. /\ request.key = call[m].key /\ request.target = call[m].target
      /\ call' = [call EXCEPT ![m] = c] /\ at' = [at EXCEPT ![m] = "answer"] /\ at[m] = "request"
      /\ UNCHANGED <<echoed, storeVars, mapVars, requestId, uid, pollVars, pastVars>>
  BY DEF Accept, SendingInv, TypeOK
<1>5. /\ c \in Calls /\ c.key = call[m].key /\ c.target = 0 /\ c.wanted = call[m].wanted
      /\ c.send = call[m].send /\ c.withEcho = call[m].withEcho
  <2>1. call[m] \in Calls /\ 0 \in 0 .. MaxSends
    BY SendingAssumption DEF SendingInv, TypeOK
  <2> QED
    BY <2>1 DEF Calls
<1> HIDE DEF request, Requests, c
<1>6. /\ accepted' \in Seq(Requests) /\ Len(accepted') <= MaxSends
      /\ \A i \in DOMAIN accepted : i \in DOMAIN accepted' /\ accepted'[i] = accepted[i]
      /\ \A i \in DOMAIN accepted' \ DOMAIN accepted :
           accepted'[i] = request /\ AcceptedWith(call[m].key) = {}
      /\ \A i, j \in DOMAIN accepted' \ DOMAIN accepted : i = j
  <2>1. CASE accepted' = accepted
    BY <1>2, <2>1, SendingAssumption
  <2>2. CASE accepted' = Append(accepted, request) /\ AcceptedWith(call[m].key) = {}
    <3>1. /\ accepted' \in Seq(Requests) /\ Len(accepted') = Len(accepted) + 1
          /\ Len(accepted) \in Nat /\ MaxSends \in Nat
          /\ DOMAIN accepted = 1 .. Len(accepted) /\ DOMAIN accepted' = 1 .. Len(accepted) + 1
          /\ \A i \in 1 .. Len(accepted) : accepted'[i] = accepted[i]
          /\ accepted'[Len(accepted) + 1] = request
      BY <1>2, <2>2, SendingAssumption
    <3> QED
      BY <1>2, <2>2, <3>1
  <2> QED
    BY <1>3, <2>1, <2>2
<1>7. Grown
  BY <1>4, <1>6 DEF Grown
<1>8. \A x \in Messages : /\ x = m => call'[x] = c /\ at'[x] = "answer"
                          /\ x # m => call'[x] = call[x] /\ at'[x] = at[x]
  BY <1>4, Apart DEF SendingInv, TypeOK
<1>9. TypeOK'
  <2>1. call' \in [Messages -> Calls]
    BY <1>4, <1>5 DEF SendingInv, TypeOK
  <2>2. at' \in [Threads -> SendSteps \cup PollSteps]
    BY <1>4, Apart DEF SendingInv, TypeOK, SendSteps
  <2>3. echoed' \subseteq DOMAIN accepted'
    BY <1>4, <1>6 DEF SendingInv, TypeOK
  <2> QED
    BY <1>4, <1>6, <2>1, <2>2, <2>3
    DEF SendingInv, TypeOK, Requests, storeVars, mapVars, pollVars, pastVars
<1>10. WellPlaced'
  BY <1>4, Apart DEF SendingInv, TypeOK, WellPlaced, SendSteps, storeVars, pollVars
<1>11. KeysRight'
  <2>1. \A i \in DOMAIN accepted' : KeyOf(accepted'[i].key.msg, accepted'[i].key)
    BY <1>1, <1>4, <1>6 DEF SendingInv, KeysRight
  <2>2. \A i, j \in DOMAIN accepted' : accepted'[i].key = accepted'[j].key => i = j
    BY <1>4, <1>6 DEF SendingInv, KeysRight, AcceptedWith
  <2>3. \A x \in Messages : at'[x] \in {"lookup", "request", "answer"} => KeyOf(x, call'[x].key)
    BY <1>1, <1>5, <1>8 DEF SendingInv, KeysRight
  <2> QED
    BY <1>4, <2>1, <2>2, <2>3 DEF SendingInv, KeysRight
<1>12. NamesRight'
  <2>1. \A i \in DOMAIN accepted :
          i \in DOMAIN accepted' /\ accepted'[i].key.msg = accepted[i].key.msg
    BY <1>6
  <2>2. \A x \in Messages :
          /\ at'[x] \in {"mark", "record"} => call'[x].send = call[x].send /\ at[x] = at'[x]
          /\ call'[x].withEcho = call[x].withEcho /\ call'[x].send = call[x].send
          /\ call'[x].wanted = call[x].wanted
          /\ call'[x].target # 0 => call'[x].target = call[x].target
    BY <1>5, <1>8
  <2>3. ASSUME NEW i \in DOMAIN accepted', accepted'[i].target # 0
        PROVE  FinalSendOf(ReplyTo[accepted[i].key.msg], accepted[i].target)'
    <3>1. CASE i \in DOMAIN accepted
      <4>1. accepted'[i] = accepted[i]
        BY <1>6, <3>1
      <4> QED
        BY <1>4, <2>1, <2>3, <3>1, <4>1 DEF SendingInv, NamesRight, SendOf, FinalSendOf
    <3>2. CASE i \notin DOMAIN accepted
      <4>1. accepted'[i].key.msg = m /\ accepted'[i].target = call[m].target
        BY <1>1, <1>4, <1>6, <3>2
      <4> QED
        BY <1>4, <2>1, <2>3, <4>1 DEF SendingInv, NamesRight, SendOf, FinalSendOf
    <3> QED
      BY <3>1, <3>2
  <2> QED
    BY <1>4, <2>1, <2>2, <2>3 DEF SendingInv, NamesRight, SendOf, FinalSendOf
<1>13. NotesRight'
  BY <1>4 DEF SendingInv, NotesRight, storeVars, mapVars
<1> QED
  BY <1>7, <1>9, <1>10, <1>11, <1>12, <1>13 DEF SendingInv

\* A call that fails forgets its locals.
LEMMA FailStep ==
  ASSUME SendingInv, NEW m \in Messages, RequestFails(m) \/ RecordFails(m)
  PROVE  SendingInv' /\ Grown
<1>1. /\ call' = [call EXCEPT ![m] = NoCall] /\ at' = [at EXCEPT ![m] = "idle"]
      /\ at[m] \in {"request", "answer", "record"}
      /\ UNCHANGED <<coreVars, storeVars, mapVars, requestId, uid, pollVars, pastVars>>
  BY DEF RequestFails, RecordFails, Leave
<1>2. NoCall \in Calls /\ ~NoCall.withEcho /\ NoCall.wanted = NoUid /\ NoCall.target = 0
  BY SendingAssumption DEF NoCall, Calls
<1>3. \A x \in Messages : \/ call'[x] = NoCall /\ at'[x] = "idle"
                          \/ call'[x] = call[x] /\ at'[x] = at[x]
  BY <1>1, Apart DEF SendingInv, TypeOK
<1>4. TypeOK'
  <2>1. call' \in [Messages -> Calls] /\ at' \in [Threads -> SendSteps \cup PollSteps]
    BY <1>1, <1>2, Apart DEF SendingInv, TypeOK, SendSteps
  <2> QED
    BY <1>1, <2>1 DEF SendingInv, TypeOK, coreVars, storeVars, mapVars, pollVars, pastVars
<1>5. WellPlaced'
  BY <1>1, Apart DEF SendingInv, TypeOK, WellPlaced, SendSteps, coreVars, storeVars, pollVars
<1>6. KeysRight'
  BY <1>1, <1>3 DEF SendingInv, KeysRight, coreVars
<1>7. NamesRight'
  BY <1>1, <1>2, <1>3 DEF SendingInv, NamesRight, SendOf, FinalSendOf, coreVars
<1>8. NotesRight'
  BY <1>1 DEF SendingInv, NotesRight, coreVars, storeVars, mapVars
<1> QED
  BY <1>1, <1>4, <1>5, <1>6, <1>7, <1>8 DEF SendingInv, Grown, coreVars

\* The receipt is of a request with the message's key.
LEMMA AnswerStep ==
  ASSUME SendingInv, NEW m \in Messages, NEW withEcho \in BOOLEAN, Answer(m, withEcho)
  PROVE  SendingInv' /\ Grown
<1>1. PICK i \in AcceptedWith(call[m].key) :
        /\ withEcho => i \in echoed
        /\ call' = [call EXCEPT ![m] = [NoCall EXCEPT !.send = i, !.withEcho = withEcho]]
  BY DEF Answer
<1> DEFINE c == [NoCall EXCEPT !.send = i, !.withEcho = withEcho]
<1>2. /\ at[m] = "answer" /\ at' = [at EXCEPT ![m] = "mark"]
      /\ place' = [place EXCEPT ![m] = "enter"]
      /\ requestId' = [requestId EXCEPT ![m] = call[m].key]
      /\ UNCHANGED <<coreVars, memory, loaded, disk, snap, mapVars, uid, pollVars, pastVars>>
  BY DEF Answer
<1>3. KeyOf(m, call[m].key) /\ call[m].key \in Keys /\ call[m].key.msg = m
  BY <1>2 DEF SendingInv, KeysRight, KeyOf
<1>4. SendOf(m, i) /\ i \in 0 .. MaxSends
  BY <1>3, Fields, SendingAssumption DEF AcceptedWith, SendOf, SendingInv, Sends
<1>5. /\ c \in Calls /\ c.send = i /\ c.withEcho = withEcho /\ c.wanted = NoUid /\ c.target = 0
  <2>1. NoCall \in Calls
    BY SendingAssumption DEF NoCall, Calls
  <2> QED
    BY <1>4, <2>1 DEF Calls, NoCall
<1> HIDE DEF c
<1>6. \A x \in Messages :
        /\ x = m => call'[x] = c /\ at'[x] = "mark" /\ requestId'[x] = call[m].key
        /\ x # m => call'[x] = call[x] /\ at'[x] = at[x] /\ requestId'[x] = requestId[x]
  BY <1>1, <1>2, Apart DEF SendingInv, TypeOK, c
<1>7. TypeOK'
  <2>1. call' \in [Messages -> Calls]
    BY <1>1, <1>5 DEF SendingInv, TypeOK, c
  <2>2. /\ at' \in [Threads -> SendSteps \cup PollSteps] /\ place' \in [Threads -> StoreSteps]
        /\ requestId' \in [Messages -> Keys \cup {NoKey}]
    BY <1>2, <1>3, Apart DEF SendingInv, TypeOK, SendSteps, StoreSteps
  <2> QED
    BY <1>2, <2>1, <2>2 DEF SendingInv, TypeOK, coreVars, mapVars, pollVars, pastVars
<1>8. WellPlaced'
  BY <1>2, Apart DEF SendingInv, TypeOK, WellPlaced, SendSteps, coreVars, pollVars
<1>9. KeysRight'
  BY <1>2, <1>3, <1>6 DEF SendingInv, KeysRight, coreVars
<1>10. NamesRight'
  <2>1. \A x \in Messages :
          /\ at'[x] \in {"mark", "record"} => SendOf(x, call'[x].send)
          /\ call'[x].withEcho => call'[x].send \in echoed
          /\ call'[x].wanted # NoUid => call'[x].wanted = call[x].wanted
          /\ call'[x].target # 0 => call'[x].target = call[x].target
    BY <1>1, <1>4, <1>5, <1>6 DEF SendingInv, NamesRight
  <2> QED
    BY <1>2, <2>1 DEF SendingInv, NamesRight, SendOf, FinalSendOf, coreVars
<1>11. NotesRight'
  BY <1>2 DEF SendingInv, NotesRight, coreVars, mapVars
<1> QED
  BY <1>2, <1>7, <1>8, <1>9, <1>10, <1>11 DEF SendingInv, Grown, coreVars

\* The row, and the uid the master gets, are of the receipt's send.
LEMMA RecordStep ==
  ASSUME SendingInv, NEW m \in Messages, Record(m)
  PROVE  /\ SendingInv' /\ Grown
         /\ \A u \in Uids : coreId[u] # 0 => coreId'[u] = coreId[u]
<1> DEFINE u == ReceiptUid(m)
           i == call[m].send
<1>1. at[m] = "record" /\ SendOf(m, i) /\ i \in Sends /\ (call[m].withEcho => i \in echoed)
  BY Fields DEF Record, SendingInv, NamesRight, SendOf
<1>2. u \in Uids /\ u # NoUid /\ u.of = i
  BY <1>1 DEF ReceiptUid, EchoId, SendId, Uids, NoUid
<1>3. /\ rows' = rows \cup {u}
      /\ coreId' = [coreId EXCEPT ![u] = IF call[m].withEcho THEN i ELSE @]
      /\ uid' = [uid EXCEPT ![m] = u]
      /\ call' = [call EXCEPT ![m] = NoCall] /\ at' = [at EXCEPT ![m] = "idle"]
      /\ UNCHANGED <<coreVars, storeVars, requestId, pollVars, pastVars>>
  BY DEF Record, Leave
<1>4. NoCall \in Calls /\ ~NoCall.withEcho /\ NoCall.wanted = NoUid /\ NoCall.target = 0
  BY SendingAssumption DEF NoCall, Calls
<1> HIDE DEF u, i
<1>5. \A x \in Messages : /\ x = m => call'[x] = NoCall /\ at'[x] = "idle" /\ uid'[x] = u
                          /\ x # m => call'[x] = call[x] /\ at'[x] = at[x] /\ uid'[x] = uid[x]
  BY <1>3, Apart DEF SendingInv, TypeOK
<1>6. \A v \in Uids : \/ coreId'[v] = coreId[v]
                      \/ v = u /\ coreId'[v] = i /\ i \in echoed
  BY <1>1, <1>3 DEF SendingInv, TypeOK, i
<1>7. TypeOK'
  <2>1. call' \in [Messages -> Calls] /\ at' \in [Threads -> SendSteps \cup PollSteps]
    BY <1>3, <1>4, Apart DEF SendingInv, TypeOK, SendSteps
  <2>2. rows' \subseteq Uids /\ uid' \in [Messages -> Uids \cup {NoUid}]
    BY <1>2, <1>3 DEF SendingInv, TypeOK
  <2>3. coreId' \in [Uids -> 0 .. MaxSends]
    <3>1. i \in 0 .. MaxSends
      BY <1>1, SendingAssumption DEF Sends
    <3> QED
      BY <1>2, <1>3, <3>1 DEF SendingInv, TypeOK
  <2> QED
    BY <1>3, <2>1, <2>2, <2>3 DEF SendingInv, TypeOK, coreVars, storeVars, pollVars, pastVars
<1>8. WellPlaced'
  BY <1>1, <1>3, Apart DEF SendingInv, TypeOK, WellPlaced, SendSteps, coreVars, storeVars, pollVars
<1>9. KeysRight'
  BY <1>3, <1>5 DEF SendingInv, KeysRight, coreVars
<1>10. NamesRight'
  BY <1>1, <1>2, <1>3, <1>4, <1>5 DEF SendingInv, NamesRight, SendOf, FinalSendOf, coreVars
<1>11. NotesRight'
  BY <1>2, <1>3, <1>6 DEF SendingInv, NotesRight, coreVars, storeVars
<1>12. \A v \in Uids : coreId[v] # 0 => coreId'[v] = coreId[v]
  BY <1>2, <1>6 DEF SendingInv, NotesRight
<1> QED
  BY <1>3, <1>7, <1>8, <1>9, <1>10, <1>11, <1>12 DEF SendingInv, Grown, coreVars

-----------------------------------------------------------------------------
(***************************************************************************)
(* The steps of Core and of the poll thread, and the end of the process.   *)
(***************************************************************************)
LEMMA ReconcileStep ==
  ASSUME SendingInv, NEW i \in Sends, Reconcile(i)
  PROVE  SendingInv' /\ Grown
<1>1. /\ echoed' = echoed \cup {i} /\ i \in DOMAIN accepted
      /\ UNCHANGED <<accepted, storeVars, mapVars, call, at, requestId, uid, pollVars, pastVars>>
  BY DEF Reconcile
<1>2. TypeOK'
  BY <1>1 DEF SendingInv, TypeOK, storeVars, mapVars, pollVars, pastVars
<1>3. WellPlaced'
  BY <1>1 DEF SendingInv, WellPlaced, storeVars, pollVars
<1>4. KeysRight'
  BY <1>1 DEF SendingInv, KeysRight
<1>5. NamesRight'
  BY <1>1 DEF SendingInv, NamesRight, SendOf, FinalSendOf
<1>6. NotesRight'
  BY <1>1 DEF SendingInv, NotesRight, storeVars, mapVars
<1> QED
  BY <1>1, <1>2, <1>3, <1>4, <1>5, <1>6 DEF SendingInv, Grown

\* The poll thread works on an echo until its cursor is saved.
LEMMA PollStep ==
  ASSUME SendingInv, (\E i \in Sends : SendUpdated(i)) \/ LinkRow \/ SaveCursor
  PROVE  /\ SendingInv' /\ Grown
         /\ \A u \in Uids : coreId[u] # 0 => coreId'[u] = coreId[u]
<1>1. /\ UNCHANGED <<coreVars, memory, loaded, disk, snap, rows, call, requestId, uid, pastVars>>
      /\ \E p \in PollSteps : at' = [at EXCEPT ![Poller] = p]
      /\ event' \in echoed \cup {0} /\ (at'[Poller] # "idle" => event' \in echoed)
      /\ consumed' \subseteq echoed
      /\ \/ place' = place
         \/ place' = [place EXCEPT ![Poller] = "enter"] /\ at' = [at EXCEPT ![Poller] = "link"]
      /\ place[Poller] # "out" => at'[Poller] = "link"
  <2>1. CASE \E i \in Sends : SendUpdated(i)
    <3>1. PICK i \in Sends : SendUpdated(i)
      BY <2>1
    <3>2. at' = [at EXCEPT ![Poller] = "link"] /\ event' = i /\ i \in echoed
      BY <3>1 DEF SendUpdated
    <3>3. place' = [place EXCEPT ![Poller] = "enter"] /\ at[Poller] = "idle"
      BY <3>1 DEF SendUpdated
    <3>4. /\ UNCHANGED <<coreVars, memory, loaded, disk, snap, rows, call, requestId, uid,
                           pastVars>>
          /\ consumed' = consumed
      BY <3>1 DEF SendUpdated, mapVars
    <3>5. at'[Poller] = "link" /\ "link" \in PollSteps /\ consumed \subseteq echoed
      BY <3>2, Apart DEF SendingInv, TypeOK, PollSteps
    <3> QED
      BY <3>2, <3>3, <3>4, <3>5
  <2>2. CASE LinkRow
    BY <2>2, Apart
    DEF LinkRow, SendingInv, TypeOK, WellPlaced, PollSteps, storeVars, pollVars
  <2>3. CASE SaveCursor
    BY <2>3, Apart
    DEF SaveCursor, SendingInv, TypeOK, WellPlaced, PollSteps, storeVars, mapVars
  <2> QED
    BY <2>1, <2>2, <2>3
<1>2. \/ coreId' = coreId
      \/ /\ coreId' = [coreId EXCEPT ![SendId(event)] = event]
         /\ SendId(event) \in Uids /\ SendId(event).of = event /\ event \in echoed
  <2>1. CASE LinkRow
    <3>1. event \in echoed
      BY <2>1 DEF LinkRow, SendingInv, WellPlaced
    <3>2. SendId(event) \in Uids /\ SendId(event).of = event
      BY <3>1, Fields DEF SendingInv, SendId, Uids
    <3> QED
      BY <2>1, <3>1, <3>2 DEF LinkRow
  <2>2. CASE ~LinkRow
    BY <2>2 DEF SendUpdated, SaveCursor, mapVars
  <2> QED
    BY <2>1, <2>2
<1>3. \A u \in Uids : coreId'[u] = coreId[u] \/ (coreId'[u] = u.of /\ u.of \in echoed)
  BY <1>2 DEF SendingInv, TypeOK
<1>4. TypeOK'
  <2>1. at' \in [Threads -> SendSteps \cup PollSteps] /\ place' \in [Threads -> StoreSteps]
    BY <1>1 DEF SendingInv, TypeOK, StoreSteps
  <2>2. event' \in 0 .. MaxSends
    <3>1. event' \in Sends \cup {0}
      BY <1>1, Fields DEF SendingInv
    <3> QED
      BY <3>1, SendingAssumption DEF Sends
  <2>3. coreId' \in [Uids -> 0 .. MaxSends]
    BY <1>2 DEF SendingInv, TypeOK
  <2> QED
    BY <1>1, <2>1, <2>2, <2>3 DEF SendingInv, TypeOK, coreVars, pastVars
<1>5. WellPlaced'
  <2>1. \A m \in Messages : at'[m] = at[m] /\ place'[m] = place[m]
    BY <1>1, Apart DEF SendingInv, TypeOK
  <2>2. at'[Poller] \in PollSteps /\ place'[Poller] \in {place[Poller], "enter"}
    BY <1>1, Apart DEF SendingInv, TypeOK
  <2>3. place'[Poller] # "out" => at'[Poller] = "link"
    BY <1>1, Apart DEF SendingInv, TypeOK
  <2> QED
    BY <1>1, <2>1, <2>2, <2>3 DEF SendingInv, WellPlaced, Threads, coreVars
<1>6. \A m \in Messages : at'[m] = at[m]
  BY <1>1, Apart DEF SendingInv, TypeOK
<1>7. KeysRight' /\ NamesRight'
  BY <1>1, <1>6 DEF SendingInv, KeysRight, NamesRight, SendOf, FinalSendOf, coreVars
<1>8. NotesRight'
  BY <1>1, <1>3 DEF SendingInv, NotesRight, coreVars
<1>9. \A u \in Uids : coreId[u] # 0 => coreId'[u] = coreId[u]
  BY <1>3 DEF SendingInv, NotesRight
<1> QED
  BY <1>1, <1>4, <1>5, <1>7, <1>8, <1>9 DEF SendingInv, Grown, coreVars

\* The process ends; what is on disk stays.
LEMMA EndStep ==
  ASSUME SendingInv, End
  PROVE  SendingInv' /\ Grown
<1>1. /\ memory' = {} /\ loaded' = FALSE /\ event' = 0
      /\ place' = [t \in Threads |-> "out"] /\ snap' = [t \in Threads |-> {}]
      /\ at' = [t \in Threads |-> "idle"] /\ call' = [m \in Messages |-> NoCall]
      /\ requestId' = [m \in Messages |-> NoKey]
      /\ ends' \in 0 .. MaxEnds
      /\ UNCHANGED <<coreVars, disk, mapVars, uid, consumed, overlapped>>
  BY SendingAssumption DEF End, SendingInv, TypeOK
<1>2. NoCall \in Calls /\ ~NoCall.withEcho /\ NoCall.wanted = NoUid /\ NoCall.target = 0
  BY SendingAssumption DEF NoCall, Calls
<1>3. TypeOK'
  <2>1. /\ place' \in [Threads -> StoreSteps] /\ snap' \in [Threads -> SUBSET Sends]
        /\ at' \in [Threads -> SendSteps \cup PollSteps]
    BY <1>1 DEF StoreSteps, SendSteps
  <2>2. /\ call' \in [Messages -> Calls] /\ requestId' \in [Messages -> Keys \cup {NoKey}]
        /\ event' \in 0 .. MaxSends
    BY <1>1, <1>2, SendingAssumption
  <2> QED
    BY <1>1, <2>1, <2>2 DEF SendingInv, TypeOK, coreVars, mapVars
<1>4. WellPlaced'
  BY <1>1, Apart DEF WellPlaced, PollSteps, SendSteps
<1>5. KeysRight'
  BY <1>1, Apart DEF SendingInv, KeysRight, coreVars
<1>6. NamesRight'
  BY <1>1, <1>2, Apart DEF SendingInv, NamesRight, SendOf, FinalSendOf, coreVars
<1>7. NotesRight'
  BY <1>1 DEF SendingInv, NotesRight, coreVars, mapVars
<1> QED
  BY <1>1, <1>3, <1>4, <1>5, <1>6, <1>7 DEF SendingInv, Grown, coreVars

\* Every step keeps the invariant, and what has grown stays.
LEMMA SendingStep ==
  SendingInv /\ [Next]_vars =>
    /\ SendingInv' /\ Grown
    /\ \A u \in Uids : coreId[u] # 0 => coreId'[u] = coreId[u]
<1> SUFFICES ASSUME SendingInv, [Next]_vars
             PROVE  /\ SendingInv' /\ Grown
                    /\ \A u \in Uids : coreId[u] # 0 => coreId'[u] = coreId[u]
  OBVIOUS
<1>1. ASSUME NEW m \in Messages, SendStep(m)
      PROVE  /\ SendingInv' /\ Grown
             /\ \A u \in Uids : coreId[u] # 0 => coreId'[u] = coreId[u]
  <2>1. CASE Record(m)
    BY <2>1, RecordStep
  <2>2. CASE ~Record(m)
    <3>1. coreId' = coreId
      BY <1>1, <2>2
      DEF SendStep, Begin, LookUp, Accept, RequestFails, Answer, RecordFails, mapVars
    <3>2. SendingInv' /\ Grown
      BY <1>1, <2>2, BeginStep, LookUpStep, AcceptStep, AnswerStep, FailStep DEF SendStep
    <3> QED
      BY <3>1, <3>2
  <2> QED
    BY <2>1, <2>2
<1>2. ASSUME NEW t \in Threads, StoreStep(t)
      PROVE  SendingInv' /\ Grown /\ coreId' = coreId
  <2>1. coreId' = coreId
    BY <1>2
    DEF StoreStep, StartLoad, ReadFile, AssignLoaded, ChangeStore, DumpStore, ReplaceFile,
        SaveFails, mapVars
  <2> QED
    BY <1>2, <2>1, StoreMoves, ChangeStoreStep, ReplaceStep DEF StoreStep
<1>3. ASSUME NEW i \in Sends, Reconcile(i)
      PROVE  SendingInv' /\ Grown /\ coreId' = coreId
  BY <1>3, ReconcileStep DEF Reconcile, mapVars
<1>4. CASE (\E i \in Sends : SendUpdated(i)) \/ LinkRow \/ SaveCursor
  BY <1>4, PollStep
<1>5. CASE End
  BY <1>5, EndStep DEF End, mapVars
<1>6. CASE UNCHANGED vars
  BY <1>6
  DEF vars, coreVars, storeVars, mapVars, pollVars, pastVars, Grown, SendingInv, TypeOK,
      WellPlaced, KeysRight, NamesRight, SendOf, FinalSendOf, NotesRight
<1> QED
  BY <1>1, <1>2, <1>3, <1>4, <1>5, <1>6 DEF Next

-----------------------------------------------------------------------------
(***************************************************************************)
(* The theorems.                                                           *)
(***************************************************************************)
\* The invariant holds in every reachable state.
THEOREM SendingInvariant == Spec => []SendingInv
<1>1. Init => SendingInv
  BY InitInv
<1>2. SendingInv /\ [Next]_vars => SendingInv'
  BY SendingStep
<1> QED
  BY <1>1, <1>2, PTL DEF Spec

\* The state is well typed: the threads are where they may be, and everything
\* numbered is a request Core accepted.
THEOREM SendingTyped == Spec => []TypeOK
<1>1. SendingInv => TypeOK
  BY DEF SendingInv
<1> QED
  BY <1>1, SendingInvariant, PTL

\* However often a named message is sent, and whatever is lost in between, Core
\* accepts one request of it.
THEOREM NamedSubmittedOnce == Spec => []SubmittedOnce
<1>1. SendingInv => SubmittedOnce
  <2> SUFFICES ASSUME SendingInv, NEW i \in DOMAIN accepted, NEW j \in DOMAIN accepted,
                      accepted[i].key.msg = accepted[j].key.msg, accepted[i].key.msg \in Named
               PROVE  i = j
    BY DEF SubmittedOnce
  <2>1. KeyOf(accepted[i].key.msg, accepted[i].key) /\ KeyOf(accepted[j].key.msg, accepted[j].key)
    BY DEF SendingInv, KeysRight
  <2>2. accepted[i].key = accepted[j].key
    BY <2>1 DEF KeyOf, Keys
  <2> QED
    BY <2>2 DEF SendingInv, KeysRight
<1> QED
  BY <1>1, SendingInvariant, PTL

\* A reply only names the final id of the message it replies to.
THEOREM ReplyNamesFinal == Spec => []ReplyTargetFinal
<1>1. SendingInv => ReplyTargetFinal
  BY DEF SendingInv, NamesRight, ReplyTargetFinal, FinalSendOf, SendOf
<1> QED
  BY <1>1, SendingInvariant, PTL

\* A row of the mapping keeps the message id it has learned.
THEOREM RowsKept == Spec => LinkedRowsKept
<1>1. SendingInv /\ [Next]_vars =>
        [\A u \in Uids : coreId[u] # 0 => coreId'[u] = coreId[u]]_vars
  BY SendingStep
<1> QED
  BY <1>1, SendingInvariant, PTL DEF Spec, LinkedRowsKept

-----------------------------------------------------------------------------
(***************************************************************************)
(* The store, while no two threads meet in it.                             *)
(***************************************************************************)
\* A step outside the store, except the poll thread's.
LEMMA OutsideInStep ==
  ASSUME SendingInv, InStep, NEW m \in Messages, NEW p \in {"out", "enter"},
         place' = [place EXCEPT ![m] = p] \/ place' = place,
         place[m] = "out" \/ place' = place,
         \E s : at' = [at EXCEPT ![m] = s],
         UNCHANGED <<memory, loaded, disk, snap, event, consumed>>
  PROVE  InStep'
<1>1. at'[Poller] = at[Poller]
  BY Apart DEF SendingInv, TypeOK
<1>2. \A t \in Threads :
        /\ place'[t] = place[t] \/ (place[t] = "out" /\ place'[t] \in {"out", "enter"})
        /\ InStore(t)' <=> InStore(t)
  BY Apart DEF SendingInv, TypeOK, InStore
<1> QED
  BY <1>1, <1>2, Apart DEF InStep

\* The steps of send_message outside the store.
LEMMA SendInStep ==
  ASSUME SendingInv, InStep, NEW m \in Messages, NEW native \in BOOLEAN, NEW withEcho \in BOOLEAN,
         \/ Begin(m, native) \/ Accept(m) \/ RequestFails(m) \/ Answer(m, withEcho)
         \/ Record(m) \/ RecordFails(m)
  PROVE  InStep'
<1>1. at[m] \notin {"lookup", "mark", "link"}
  BY DEF Begin, Accept, RequestFails, Answer, Record, RecordFails
<1>2. place[m] = "out"
  BY <1>1, Apart DEF SendingInv, WellPlaced
<1>3. UNCHANGED <<memory, loaded, disk, snap, event, consumed>>
  BY DEF Begin, Accept, RequestFails, Answer, Record, RecordFails, storeVars, pollVars
<1>4. \E s : at' = [at EXCEPT ![m] = s]
  BY DEF Begin, Accept, RequestFails, Answer, Record, RecordFails, Leave
<1>5. \E p \in {"out", "enter"} : place' = [place EXCEPT ![m] = p] \/ place' = place
  BY DEF Begin, Accept, RequestFails, Answer, Record, RecordFails, storeVars
<1> QED
  BY <1>2, <1>3, <1>4, <1>5, OutsideInStep

\* A thread that finds nobody in the store is the only one there.
LEMMA StoreStepInStep ==
  ASSUME SendingInv, InStep, NEW t \in Threads, ~overlapped', StoreStep(t)
  PROVE  InStep'
<1>1. CASE StartLoad(t)
  <2>1. /\ \A u \in Threads : ~InStore(u)
        /\ loaded' /\ place' = [place EXCEPT ![t] = "read"]
        /\ UNCHANGED <<memory, disk, snap, at, event, consumed>>
    BY <1>1 DEF StartLoad, pollVars
  <2>2. \A u \in Threads : IF u = t THEN place'[u] = "read" ELSE place'[u] \in {"out", "enter"}
    BY <2>1 DEF SendingInv, TypeOK, InStore
  <2> QED
    BY <2>1, <2>2, Apart DEF InStep, InStore
<1>2. CASE ReadFile(t)
  <2>1. /\ InStore(t) /\ place' = [place EXCEPT ![t] = "assign"]
        /\ snap' = [snap EXCEPT ![t] = disk]
        /\ UNCHANGED <<memory, loaded, disk, at, event, consumed>>
    BY <1>2 DEF ReadFile, pollVars, InStore
  <2>2. \A u \in Threads : IF u = t THEN place'[u] = "assign" /\ snap'[u] = disk
                           ELSE place'[u] \in {"out", "enter"}
    BY <2>1 DEF SendingInv, TypeOK, InStore, InStep
  <2> QED
    BY <2>1, <2>2, Apart DEF InStep, InStore
<1>3. CASE AssignLoaded(t)
  <2>1. /\ place[t] = "assign" /\ InStore(t) /\ place' = [place EXCEPT ![t] = "use"]
        /\ memory' = snap[t]
        /\ UNCHANGED <<snap, loaded, disk, at, event, consumed>>
    BY <1>3 DEF AssignLoaded, pollVars, InStore
  <2>2. \A u \in Threads : IF u = t THEN place'[u] = "use" ELSE place'[u] \in {"out", "enter"}
    BY <2>1 DEF SendingInv, TypeOK, InStore, InStep
  <2> QED
    BY <2>1, <2>2, Apart DEF InStep, InStore
<1>4. CASE ChangeStore(t)
  <2>1. /\ \A u \in Threads \ {t} : ~InStore(u)
        /\ loaded /\ place[t] \in {"enter", "use"}
        /\ place' = [place EXCEPT ![t] = "dump"] /\ memory' = memory \cup NewAlias(t)
        /\ UNCHANGED <<snap, loaded, disk, at, event, consumed>>
    BY <1>4 DEF ChangeStore, UseStore, pollVars, InStep, InStore
  <2>2. \A u \in Threads : IF u = t THEN place'[u] = "dump" ELSE place'[u] \in {"out", "enter"}
    BY <2>1 DEF SendingInv, TypeOK, InStore
  <2>3. disk \subseteq memory
    BY <2>1 DEF SendingInv, TypeOK, InStep, InStore, StoreSteps
  <2>4. t = Poller => event \in memory'
    BY <2>1 DEF NewAlias
  <2> QED
    BY <2>1, <2>2, <2>3, <2>4, Apart DEF InStep, InStore
<1>5. CASE DumpStore(t)
  <2>1. /\ InStore(t) /\ loaded /\ place[t] = "dump" /\ place' = [place EXCEPT ![t] = "replace"]
        /\ snap' = [snap EXCEPT ![t] = memory]
        /\ UNCHANGED <<memory, loaded, disk, at, event, consumed>>
    BY <1>5 DEF DumpStore, pollVars, InStep, InStore
  <2>2. \A u \in Threads : u # t => place[u] \in {"out", "enter"}
    BY <2>1 DEF InStore, InStep
  <2>3. disk \subseteq memory
    BY <2>1, <2>2 DEF InStep
  <2>4. \A u \in Threads : IF u = t THEN place'[u] = "replace" /\ snap'[u] = memory
                           ELSE place'[u] \in {"out", "enter"}
    BY <2>1, <2>2 DEF SendingInv, TypeOK
  <2> QED
    BY <2>1, <2>3, <2>4, Apart DEF InStep, InStore
<1>6. CASE ReplaceFile(t) \/ SaveFails(t)
  <2>1. /\ InStore(t) /\ loaded /\ place[t] = "replace" /\ place' = [place EXCEPT ![t] = "out"]
        /\ snap' = [snap EXCEPT ![t] = {}]
        /\ UNCHANGED <<memory, loaded, consumed>>
        /\ disk' \in {disk, snap[t]} /\ disk \subseteq snap[t]
    BY <1>6 DEF ReplaceFile, SaveFails, LeaveStore, pollVars, InStep, InStore
  <2>2. \A u \in Threads : u # t => place[u] \in {"out", "enter"}
    BY <2>1 DEF InStore, InStep
  <2>3. \A u \in Threads : place'[u] \in {"out", "enter"}
    BY <2>1, <2>2 DEF SendingInv, TypeOK
  <2>4. disk' \subseteq memory
    <3>1. snap[t] \subseteq memory
      BY <2>1, <2>2 DEF InStep
    <3> QED
      BY <2>1, <3>1
  <2>5. at'[Poller] \in {"linkrow", "save"} => event' \in disk'
    <3>1. CASE t = Poller
      <4>1. at'[Poller] \in {"linkrow", "save"} => disk' = snap[t] /\ event' = event
        BY <1>6, <3>1, Apart DEF ReplaceFile, SaveFails, LeaveStore, pollVars, SendingInv, TypeOK
      <4> QED
        BY <2>1, <3>1, <4>1 DEF InStep
    <3>2. CASE t # Poller
      <4>1. at'[Poller] = at[Poller] /\ event' = event
        BY <1>6, <3>2, Apart DEF ReplaceFile, SaveFails, LeaveStore, pollVars, SendingInv, TypeOK
      <4> QED
        BY <2>1, <4>1 DEF InStep
    <3> QED
      BY <3>1, <3>2
  <2> QED
    BY <2>1, <2>3, <2>4, <2>5, Apart DEF InStep, InStore
<1> QED
  BY <1>1, <1>2, <1>3, <1>4, <1>5, <1>6 DEF StoreStep

\* A lookup leaves the store as it was.
LEMMA LookUpInStep ==
  ASSUME SendingInv, InStep, NEW m \in Messages, NEW native \in BOOLEAN, LookUp(m, native)
  PROVE  InStep'
<1>1. /\ place' = [place EXCEPT ![m] = "out"] /\ snap' = [snap EXCEPT ![m] = {}]
      /\ at' = [at EXCEPT ![m] = "request"]
      /\ loaded => place[m] \in {"enter", "use"}
      /\ UNCHANGED <<memory, loaded, disk, event, consumed>>
  BY DEF LookUp, LeaveStore, UseStore, pollVars
<1>2. at'[Poller] = at[Poller] /\ place'[Poller] = place[Poller] /\ snap'[Poller] = snap[Poller]
  BY <1>1, Apart DEF SendingInv, TypeOK
<1>3. \A t \in Threads : IF t = m THEN place'[t] = "out"
                         ELSE place'[t] = place[t] /\ snap'[t] = snap[t]
  BY <1>1, Apart DEF SendingInv, TypeOK
<1> QED
  BY <1>1, <1>2, <1>3, Apart DEF InStep, InStore

\* The steps of the poll thread outside the store.
LEMMA PollInStep ==
  ASSUME SendingInv, InStep, (\E i \in Sends : SendUpdated(i)) \/ LinkRow \/ SaveCursor
  PROVE  InStep'
<1>1. CASE \E i \in Sends : SendUpdated(i)
  <2>1. /\ place' = [place EXCEPT ![Poller] = "enter"] /\ at' = [at EXCEPT ![Poller] = "link"]
        /\ at[Poller] = "idle" /\ UNCHANGED <<memory, loaded, disk, snap, consumed>>
    BY <1>1 DEF SendUpdated
  <2>2. place[Poller] = "out"
    BY <2>1, Apart DEF SendingInv, WellPlaced
  <2>3. \A t \in Threads : /\ t = Poller => place'[t] = "enter" /\ place[t] = "out"
                           /\ t # Poller => place'[t] = place[t]
    BY <2>1, <2>2 DEF SendingInv, TypeOK
  <2>4. at'[Poller] = "link"
    BY <2>1, Apart DEF SendingInv, TypeOK
  <2> QED
    BY <2>1, <2>3, <2>4, Apart DEF InStep, InStore
<1>2. CASE LinkRow
  <2>1. at[Poller] = "linkrow" /\ UNCHANGED <<memory, loaded, disk, snap, place, event, consumed>>
    BY <1>2 DEF LinkRow, storeVars, pollVars
  <2> QED
    BY <2>1 DEF InStep, InStore
<1>3. CASE SaveCursor
  <2>1. /\ at[Poller] = "save" /\ consumed' = consumed \cup {event}
        /\ at' = [at EXCEPT ![Poller] = "idle"]
        /\ UNCHANGED <<memory, loaded, disk, snap, place>>
    BY <1>3 DEF SaveCursor, storeVars
  <2>2. place[Poller] = "out" /\ at'[Poller] = "idle"
    BY <2>1, Apart DEF SendingInv, TypeOK, WellPlaced
  <2> QED
    BY <2>1, <2>2 DEF InStep, InStore
<1> QED
  BY <1>1, <1>2, <1>3

\* Every step keeps the store in step while no two threads meet in it.
LEMMA InStepStep ==
  SendingInv /\ StoreInStep /\ [Next]_vars => StoreInStep'
<1> SUFFICES ASSUME SendingInv, StoreInStep, [Next]_vars, ~overlapped' PROVE InStep'
  BY DEF StoreInStep
<1>1. ~overlapped
  BY DEF Next, SendStep, StoreStep, Begin, LookUp, Accept, RequestFails, Answer, Record,
         RecordFails, StartLoad, ReadFile, AssignLoaded, ChangeStore, DumpStore, ReplaceFile,
         SaveFails, UseStore, Reconcile, SendUpdated, LinkRow, SaveCursor, End, vars, pastVars
<1>2. InStep
  BY <1>1 DEF StoreInStep
<1>3. ASSUME NEW m \in Messages, SendStep(m) PROVE InStep'
  BY <1>2, <1>3, SendInStep, LookUpInStep DEF SendStep
<1>4. ASSUME NEW t \in Threads, StoreStep(t) PROVE InStep'
  BY <1>2, <1>4, StoreStepInStep
<1>5. ASSUME NEW i \in Sends, Reconcile(i) PROVE InStep'
  BY <1>2, <1>5 DEF Reconcile, storeVars, pollVars, InStep, InStore
<1>6. CASE (\E i \in Sends : SendUpdated(i)) \/ LinkRow \/ SaveCursor
  BY <1>2, <1>6, PollInStep
<1>7. CASE End
  <2>1. /\ ~loaded' /\ \A t \in Threads : place'[t] = "out" /\ at'[t] = "idle"
        /\ UNCHANGED <<disk, consumed>>
    BY <1>7 DEF End
  <2> QED
    BY <1>2, <2>1, Apart DEF InStep, InStore
<1>8. CASE UNCHANGED vars
  BY <1>2, <1>8 DEF vars, storeVars, pollVars, InStep, InStore
<1> QED
  BY <1>3, <1>4, <1>5, <1>6, <1>7, <1>8 DEF Next

\* Once the cursor has passed a send.updated, the uid and the message id of its
\* send translate into each other, unless two threads have met in the store.
THEOREM UidsTranslate == Spec => []UidTranslates
<1>1. SendingInv /\ StoreInStep => UidTranslates
  <2> SUFFICES ASSUME SendingInv, StoreInStep, ~overlapped, \A t \in Threads : ~InStore(t),
                      NEW m \in Messages, NEW i \in consumed, uid[m] = SendId(i)
               PROVE  TargetOf(SendId(i)) = i /\ MasterUid(i) = SendId(i)
    BY DEF UidTranslates
  <2>1. i \in Sends /\ SendId(i) \in Uids /\ SendId(i).of = i /\ SendId(i).kind = "send"
    BY Fields DEF SendingInv, TypeOK, SendId, Uids
  <2>2. i \in Aliases
    <3>1. i \in disk
      BY DEF StoreInStep, InStep
    <3>2. loaded => disk \subseteq memory
      BY DEF StoreInStep, InStep, InStore
    <3> QED
      BY <3>1, <3>2 DEF Aliases
  <2>3. MappedId(SendId(i)) \in {0, i}
    BY <2>1 DEF MappedId, SendingInv, NotesRight
  <2> QED
    BY <2>1, <2>2, <2>3 DEF TargetOf, MasterUid
<1>2. Init => SendingInv /\ StoreInStep
  BY InitInv
<1>3. (SendingInv /\ StoreInStep) /\ [Next]_vars => (SendingInv /\ StoreInStep)'
  BY SendingStep, InStepStep
<1> QED
  BY <1>1, <1>2, <1>3, PTL DEF Spec

\* While no two threads meet in the store, the file loses no alias.
THEOREM FileGrows == Spec => AliasesKept
<1>1. SendingInv /\ StoreInStep /\ [Next]_vars => [~overlapped' => disk \subseteq disk']_vars
  <2> SUFFICES ASSUME SendingInv, StoreInStep, [Next]_vars, ~overlapped'
               PROVE  disk \subseteq disk'
    OBVIOUS
  <2>1. CASE \E t \in Threads : ReplaceFile(t)
    <3>1. PICK t \in Threads : ReplaceFile(t)
      BY <2>1
    <3>2. place[t] = "replace" /\ disk' = snap[t] /\ ~overlapped
      BY <3>1 DEF ReplaceFile, pastVars
    <3> QED
      BY <3>2 DEF StoreInStep, InStep
  <2>2. CASE ~\E t \in Threads : ReplaceFile(t)
    <3>1. disk' = disk
      BY <2>2
      DEF Next, SendStep, StoreStep, Begin, LookUp, Accept, RequestFails, Answer, Record,
          RecordFails, StartLoad, ReadFile, AssignLoaded, ChangeStore, DumpStore, SaveFails,
          Reconcile, SendUpdated, LinkRow, SaveCursor, End, vars, storeVars
    <3> QED
      BY <3>1
  <2> QED
    BY <2>1, <2>2
<1>2. Init => SendingInv /\ StoreInStep
  BY InitInv
<1>3. (SendingInv /\ StoreInStep) /\ [Next]_vars => (SendingInv /\ StoreInStep)'
  BY SendingStep, InStepStep
<1> QED
  BY <1>1, <1>2, <1>3, PTL DEF Spec, AliasesKept

-----------------------------------------------------------------------------
(***************************************************************************)
(* Sending implements Messenger.  That an answered message is not submitted *)
(* again by the same process needs that its later calls use the key it      *)
(* carries, under which Core has accepted a request.                       *)
(***************************************************************************)
Asking(m) == at[m] \in {"lookup", "request", "answer"}

KeyKept ==
  \A m \in Messages : requestId[m] # NoKey =>
    /\ AcceptedWith(requestId[m]) # {}
    /\ Asking(m) => call[m].key = requestId[m]

\* What a step may do to the key a message carries: drop it, keep it for the calls
\* there are and for new ones, or take it from an answer.
KeyGoesOn(m) ==
  \/ requestId'[m] = NoKey
  \/ /\ requestId'[m] = requestId[m]
     /\ Asking(m)' => \/ Asking(m) /\ call'[m].key = call[m].key
                      \/ requestId[m] # NoKey => call'[m].key = requestId[m]
  \/ /\ AcceptedWith(requestId'[m]) # {}
     /\ at'[m] = "mark"

LEMMA KeysGoOn ==
  ASSUME KeyKept, Grown, \A m \in Messages : KeyGoesOn(m)
  PROVE  KeyKept'
<1> SUFFICES ASSUME NEW m \in Messages, requestId'[m] # NoKey
             PROVE  /\ AcceptedWith(requestId[m])' # {}
                    /\ Asking(m)' => call'[m].key = requestId'[m]
  BY DEF KeyKept
<1>1. ASSUME AcceptedWith(requestId'[m]) # {} PROVE AcceptedWith(requestId[m])' # {}
  BY <1>1 DEF AcceptedWith, Grown
<1>2. KeyGoesOn(m) /\ (at'[m] = "mark" => ~Asking(m)')
  BY DEF Asking
<1> QED
  BY <1>1, <1>2 DEF KeyGoesOn, KeyKept

\* Every step keeps the keys.
LEMMA KeyStep ==
  ASSUME SendingInv, KeyKept, [Next]_vars
  PROVE  KeyKept'
<1> DEFINE GoesOn == \A x \in Messages : KeyGoesOn(x)
<1> SUFFICES GoesOn
  BY SendingStep, KeysGoOn
<1>1. ASSUME NEW m \in Messages, SendStep(m) PROVE GoesOn
  <2>1. \A x \in Messages : x # m => /\ requestId'[x] = requestId[x]
                                     /\ at'[x] = at[x] /\ call'[x] = call[x]
    BY <1>1, Apart
    DEF SendStep, Begin, LookUp, Accept, RequestFails, Answer, Record, RecordFails, Leave,
        LeaveStore, SendingInv, TypeOK
  <2>2. at \in [Threads -> SendSteps \cup PollSteps] /\ call \in [Messages -> Calls] /\ m \in Threads
    BY Apart DEF SendingInv, TypeOK
  <2>3. CASE \E native \in BOOLEAN : Begin(m, native)
    <3>1. call'[m].key = RequestKey(m) /\ requestId' = requestId
      BY <2>2, <2>3 DEF Begin, Calls
    <3> QED
      BY <2>1, <3>1 DEF KeyGoesOn, RequestKey, Asking
  <2>4. CASE \E native \in BOOLEAN : LookUp(m, native)
    <3>1. call'[m].key = call[m].key /\ requestId' = requestId /\ at[m] = "lookup"
      BY <2>2, <2>4 DEF LookUp, Calls
    <3> QED
      BY <2>1, <3>1 DEF KeyGoesOn, Asking
  <2>5. CASE Accept(m)
    <3>1. call'[m].key = call[m].key /\ requestId' = requestId /\ at[m] = "request"
      BY <2>2, <2>5 DEF Accept, Calls
    <3> QED
      BY <2>1, <3>1 DEF KeyGoesOn, Asking
  <2>6. CASE \E withEcho \in BOOLEAN : Answer(m, withEcho)
    <3>1. requestId'[m] = call[m].key /\ at'[m] = "mark" /\ AcceptedWith(call[m].key) # {}
      BY <2>2, <2>6 DEF Answer, SendingInv, TypeOK
    <3> QED
      BY <2>1, <3>1 DEF KeyGoesOn, Asking
  <2>7. CASE RequestFails(m) \/ Record(m) \/ RecordFails(m)
    <3>1. at'[m] = "idle" /\ requestId' = requestId
      BY <2>2, <2>7 DEF RequestFails, Record, RecordFails, Leave
    <3> QED
      BY <2>1, <3>1 DEF KeyGoesOn, Asking
  <2> QED
    BY <1>1, <2>3, <2>4, <2>5, <2>6, <2>7 DEF SendStep
<1>2. ASSUME NEW t \in Threads, StoreStep(t) PROVE GoesOn
  <2>1. /\ requestId' = requestId
        /\ \A x \in Messages : \/ at'[x] = at[x] /\ call'[x] = call[x]
                               \/ at'[x] \in {"idle", "record"}
    BY <1>2, Apart
    DEF StoreStep, StartLoad, ReadFile, AssignLoaded, ChangeStore, DumpStore, ReplaceFile,
        SaveFails, LeaveStore, SendingInv, TypeOK
  <2> QED
    BY <2>1 DEF KeyGoesOn, Asking
<1>3. CASE (\E i \in Sends : Reconcile(i) \/ SendUpdated(i)) \/ LinkRow \/ SaveCursor
           \/ UNCHANGED vars
  <2>1. UNCHANGED <<call, requestId>> /\ \A x \in Messages : at'[x] = at[x]
    BY <1>3, Apart
    DEF Reconcile, SendUpdated, LinkRow, SaveCursor, vars, SendingInv, TypeOK
  <2> QED
    BY <2>1 DEF KeyGoesOn, Asking
<1>4. CASE End
  BY <1>4 DEF End, KeyGoesOn
<1> HIDE DEF GoesOn
<1> QED
  BY <1>1, <1>2, <1>3, <1>4 DEF Next

\* A step that leaves these alone is none of Messenger's.
LEMMA Unseen ==
  ASSUME UNCHANGED <<accepted, echoed, requestId, uid, coreId>>
  PROVE  UNCHANGED Messaging!vars
BY DEF Messaging!vars, Submitted, Answered, Held, Learned

\* The requests of a message.
LEMMA RequestsOf ==
  ASSUME NEW m
  PROVE  Messaging!Of(m) = {i \in DOMAIN accepted : SendOf(m, i)}
BY DEF Messaging!Of, Submitted, SendOf

\* Core accepts a request that it does not know: the message is submitted.
LEMMA AcceptPromised ==
  ASSUME SendingInv, KeyKept, NEW m \in Messages, Accept(m)
  PROVE  [Messaging!Next]_Messaging!vars
<1> DEFINE request == [key |-> call[m].key, target |-> call[m].target]
           target == call[m].target
<1>1. CASE AcceptedWith(call[m].key) # {}
  BY <1>1, Unseen DEF Accept, mapVars
<1>2. CASE AcceptedWith(call[m].key) = {}
  <2>1. /\ accepted' = Append(accepted, request) /\ Asking(m)
        /\ UNCHANGED <<echoed, requestId, uid, coreId>>
    BY <1>2 DEF Accept, Asking, mapVars
  <2>2. KeyOf(m, call[m].key) /\ call[m].key.msg = m
    BY <2>1 DEF Asking, SendingInv, KeysRight, KeyOf
  <2>3. m \notin Answered
    BY <1>2, <2>1 DEF Answered, KeyKept
  <2>4. m \in Named => Messaging!Of(m) = {}
    <3> SUFFICES ASSUME m \in Named, NEW i \in DOMAIN accepted, SendOf(m, i) PROVE FALSE
      BY RequestsOf
    <3>1. KeyOf(m, accepted[i].key)
      BY DEF SendingInv, KeysRight, SendOf
    <3>2. accepted[i].key = call[m].key
      BY <2>2, <3>1 DEF KeyOf, Keys
    <3> QED
      BY <1>2, <3>2 DEF AcceptedWith
  <2>5. target # 0 => target \in Messaging!Of(ReplyTo[m]) \cap echoed
    BY RequestsOf DEF SendingInv, NamesRight, FinalSendOf, SendOf
  <2>6. Submitted' = Append(Submitted, [msg |-> m, target |-> target])
    <3>1. Len(accepted) \in Nat /\ DOMAIN accepted = 1 .. Len(accepted)
      BY DEF SendingInv, TypeOK
    <3>2. /\ DOMAIN accepted' = 1 .. Len(accepted) + 1
          /\ \A i \in 1 .. Len(accepted) : accepted'[i] = accepted[i]
          /\ accepted'[Len(accepted) + 1] = request
      BY <2>1, <3>1 DEF SendingInv, TypeOK
    <3> DEFINE one(r) == [msg |-> r.key.msg, target |-> r.target]
    <3>3. Submitted = [i \in 1 .. Len(accepted) |-> one(accepted[i])]
      BY <3>1 DEF Submitted
    <3>4. Submitted' = [i \in 1 .. Len(accepted) + 1 |-> one(accepted'[i])]
      BY <3>2 DEF Submitted
    <3>5. one(request) = [msg |-> m, target |-> target]
      BY <2>2
    <3> HIDE DEF one, request, target
    <3>6. Submitted' = [i \in 1 .. Len(accepted) + 1 |->
                          IF i <= Len(accepted) THEN Submitted[i] ELSE [msg |-> m, target |-> target]]
      BY <3>1, <3>2, <3>3, <3>4, <3>5
    <3> DEFINE last == [msg |-> m, target |-> target]
    <3>7. Len(Submitted) = Len(accepted)
      BY <3>1, <3>3
    <3> HIDE DEF last
    <3>8. Append(Submitted, last) = [i \in 1 .. Len(Submitted) + 1 |->
                                       IF i <= Len(Submitted) THEN Submitted[i] ELSE last]
      BY <3>1, <3>3, <3>7
    <3> QED
      BY <3>6, <3>7, <3>8 DEF last
  <2>7. Answered' = Answered /\ Held' = Held /\ Learned' = Learned
    BY <2>1 DEF Answered, Held, Learned
  <2>8. Messaging!Submit(m, target) /\ target \in {0} \cup echoed
    BY <2>1, <2>3, <2>4, <2>5, <2>6, <2>7 DEF Messaging!Submit
  <2> QED
    BY <2>8 DEF Messaging!Next
<1> QED
  BY <1>1, <1>2

\* The answer reaches a message whose request Core has accepted.
LEMMA AnswerPromised ==
  ASSUME SendingInv, NEW m \in Messages, NEW withEcho \in BOOLEAN, Answer(m, withEcho)
  PROVE  [Messaging!Next]_Messaging!vars
<1>1. /\ Asking(m) /\ AcceptedWith(call[m].key) # {}
      /\ requestId' = [requestId EXCEPT ![m] = call[m].key]
      /\ UNCHANGED <<accepted, echoed, uid, coreId>>
  BY DEF Answer, Asking, coreVars, mapVars
<1>2. KeyOf(m, call[m].key) /\ call[m].key # NoKey
  BY <1>1, SendingAssumption DEF Asking, SendingInv, KeysRight, KeyOf, NoKey
<1>3. Messaging!Of(m) # {}
  <2>1. PICK i \in DOMAIN accepted : accepted[i].key = call[m].key
    BY <1>1 DEF AcceptedWith
  <2>2. SendOf(m, i)
    BY <1>2, <2>1 DEF KeyOf, SendOf
  <2> QED
    BY <2>2, RequestsOf
<1>4. Answered' = Answered \cup {m}
  BY <1>1, <1>2 DEF Answered, SendingInv, TypeOK
<1>5. Submitted' = Submitted /\ Held' = Held /\ Learned' = Learned
  BY <1>1 DEF Submitted, Held, Learned
<1> QED
  BY <1>1, <1>3, <1>4, <1>5 DEF Messaging!Answer, Messaging!Next

\* The call returns a uid of its own request, and what it writes into the mapping
\* is the id of a message that WeChat has shown.
LEMMA RecordPromised ==
  ASSUME SendingInv, NEW m \in Messages, Record(m)
  PROVE  [Messaging!Next]_Messaging!vars
<1> DEFINE u == ReceiptUid(m)
           i == call[m].send
<1>1. at[m] = "record" /\ SendOf(m, i) /\ i \in Sends /\ (call[m].withEcho => i \in echoed)
  BY Fields DEF Record, SendingInv, NamesRight, SendOf
<1>2. u \in Uids /\ u.of = i /\ (call[m].withEcho => u = EchoId(i))
  BY <1>1 DEF ReceiptUid, EchoId, SendId, Uids
<1>3. /\ coreId' = [coreId EXCEPT ![u] = IF call[m].withEcho THEN i ELSE @]
      /\ uid' = [uid EXCEPT ![m] = u]
      /\ UNCHANGED <<accepted, echoed, requestId>>
  BY DEF Record, coreVars
<1> HIDE DEF u, i
<1>4. Held' = [Held EXCEPT ![m] = i]
  <2>1. \A x \in Messages : uid'[x].of = IF x = m THEN i ELSE uid[x].of
    BY <1>2, <1>3 DEF SendingInv, TypeOK
  <2> QED
    BY <2>1 DEF Held
<1>5. Learned' = Learned \/ (i \in echoed /\ Learned' = Learned \cup {i})
  <2>1. CASE ~call[m].withEcho
    <3>1. coreId' = coreId
      BY <1>2, <1>3, <2>1 DEF SendingInv, TypeOK
    <3> QED
      BY <3>1 DEF Learned
  <2>2. CASE call[m].withEcho
    <3>1. \A v \in Uids : coreId'[v] = IF v = EchoId(i) THEN i ELSE coreId[v]
      BY <1>2, <1>3, <2>2 DEF SendingInv, TypeOK
    <3>2. i # 0 /\ \A j \in Sends : /\ SendId(j) \in Uids /\ EchoId(j) \in Uids
                                    /\ SendId(j) # EchoId(i)
                                    /\ (EchoId(j) = EchoId(i)) <=> (j = i)
      BY <1>1 DEF SendId, EchoId, Uids, Sends
    <3>3. \A j \in Sends : (coreId'[SendId(j)] # 0 \/ coreId'[EchoId(j)] # 0)
                           <=> (j = i \/ coreId[SendId(j)] # 0 \/ coreId[EchoId(j)] # 0)
      <4> SUFFICES ASSUME NEW j \in Sends
                   PROVE  (coreId'[SendId(j)] # 0 \/ coreId'[EchoId(j)] # 0)
                            <=> (j = i \/ coreId[SendId(j)] # 0 \/ coreId[EchoId(j)] # 0)
        OBVIOUS
      <4>1. coreId'[SendId(j)] = coreId[SendId(j)]
        BY <3>1, <3>2
      <4>2. coreId'[EchoId(j)] = IF j = i THEN i ELSE coreId[EchoId(j)]
        BY <3>1, <3>2
      <4> QED
        BY <3>2, <4>1, <4>2
    <3> QED
      BY <1>1, <2>2, <3>3 DEF Learned
  <2> QED
    BY <2>1, <2>2
<1>6. Submitted' = Submitted /\ Answered' = Answered
  BY <1>3 DEF Submitted, Answered
<1>7. i \in Messaging!Of(m)
  BY <1>1, RequestsOf DEF SendOf
<1> QED
  BY <1>3, <1>4, <1>5, <1>6, <1>7 DEF Messaging!Return, Messaging!Next

\* WeChat shows a message; the poll thread learns of it.
LEMMA ShownAndLearned ==
  ASSUME SendingInv, (\E i \in Sends : Reconcile(i)) \/ LinkRow
  PROVE  [Messaging!Next]_Messaging!vars
<1>1. CASE \E i \in Sends : Reconcile(i)
  <2>1. PICK i \in Sends : Reconcile(i)
    BY <1>1
  <2>2. /\ i \in DOMAIN accepted \ echoed /\ echoed' = echoed \cup {i}
        /\ UNCHANGED <<accepted, requestId, uid, coreId>>
    BY <2>1 DEF Reconcile, mapVars
  <2>3. UNCHANGED <<Submitted, Answered, Held, Learned>> /\ DOMAIN Submitted = DOMAIN accepted
    BY <2>2 DEF Submitted, Answered, Held, Learned
  <2> QED
    BY <2>2, <2>3 DEF Messaging!Show, Messaging!Next
<1>2. CASE LinkRow
  <2>1. event \in echoed /\ event \in Sends /\ event \in DOMAIN accepted /\ event # 0
    BY <1>2, Fields DEF LinkRow, SendingInv, WellPlaced, TypeOK, Sends
  <2>2. UNCHANGED <<accepted, echoed, requestId, uid>>
    BY <1>2 DEF LinkRow, coreVars
  <2>3. UNCHANGED <<Submitted, Answered, Held>> /\ DOMAIN Submitted = DOMAIN accepted
    BY <2>2 DEF Submitted, Answered, Held
  <2>4. CASE SendId(event) \notin rows
    BY <1>2, <2>2, <2>4, Unseen DEF LinkRow
  <2>5. CASE SendId(event) \in rows
    <3>1. \A v \in Uids : coreId'[v] = IF v = SendId(event) THEN event ELSE coreId[v]
      BY <1>2, <2>5 DEF LinkRow, SendingInv, TypeOK
    <3>2. \A j \in Sends : /\ SendId(j) \in Uids /\ EchoId(j) \in Uids
                           /\ EchoId(j) # SendId(event)
                           /\ (SendId(j) = SendId(event)) <=> (j = event)
      BY <2>1 DEF SendId, EchoId, Uids
    <3>3. \A j \in Sends : (coreId'[SendId(j)] # 0 \/ coreId'[EchoId(j)] # 0)
                           <=> (j = event \/ coreId[SendId(j)] # 0 \/ coreId[EchoId(j)] # 0)
      <4> SUFFICES ASSUME NEW j \in Sends
                   PROVE  (coreId'[SendId(j)] # 0 \/ coreId'[EchoId(j)] # 0)
                            <=> (j = event \/ coreId[SendId(j)] # 0 \/ coreId[EchoId(j)] # 0)
        OBVIOUS
      <4>1. coreId'[SendId(j)] = IF j = event THEN event ELSE coreId[SendId(j)]
        BY <3>1, <3>2
      <4>2. coreId'[EchoId(j)] = coreId[EchoId(j)]
        BY <3>1, <3>2
      <4> QED
        BY <2>1, <4>1, <4>2
    <3>4. Learned' = Learned \cup {event}
      BY <2>1, <3>3 DEF Learned
    <3>5. Messaging!Learn(event)
      BY <2>1, <2>2, <2>3, <3>4 DEF Messaging!Learn
    <3> QED
      BY <2>1, <2>3, <3>5 DEF Messaging!Next
  <2> QED
    BY <2>4, <2>5
<1> QED
  BY <1>1, <1>2

\* The process ends: Messenger forgets who was answered.
LEMMA EndPromised ==
  ASSUME SendingInv, End
  PROVE  [Messaging!Next]_Messaging!vars
<1>1. /\ requestId' = [m \in Messages |-> NoKey]
      /\ UNCHANGED <<accepted, echoed, uid, coreId>>
  BY DEF End, coreVars, mapVars
<1>2. Answered' = {}
  BY <1>1 DEF Answered
<1>3. UNCHANGED <<Submitted, Held, Learned>>
  BY <1>1 DEF Submitted, Held, Learned
<1> QED
  BY <1>1, <1>2, <1>3 DEF Messaging!End, Messaging!Next

\* Every step is a step of Messenger, or none of its business.
LEMMA PromiseStep ==
  SendingInv /\ KeyKept /\ [Next]_vars => [Messaging!Next]_Messaging!vars
<1> SUFFICES ASSUME SendingInv, KeyKept, [Next]_vars PROVE [Messaging!Next]_Messaging!vars
  OBVIOUS
<1>1. ASSUME NEW m \in Messages, SendStep(m) PROVE [Messaging!Next]_Messaging!vars
  <2>1. CASE Accept(m) \/ Record(m) \/ \E withEcho \in BOOLEAN : Answer(m, withEcho)
    BY <2>1, AcceptPromised, RecordPromised, AnswerPromised
  <2>2. CASE \/ \E native \in BOOLEAN : Begin(m, native) \/ LookUp(m, native)
             \/ RequestFails(m) \/ RecordFails(m)
    BY <2>2, Unseen DEF Begin, LookUp, RequestFails, RecordFails, coreVars, mapVars
  <2> QED
    BY <1>1, <2>1, <2>2 DEF SendStep
<1>2. ASSUME NEW t \in Threads, StoreStep(t) PROVE [Messaging!Next]_Messaging!vars
  <2>1. UNCHANGED <<accepted, echoed, requestId, uid, coreId>>
    BY <1>2
    DEF StoreStep, StartLoad, ReadFile, AssignLoaded, ChangeStore, DumpStore, ReplaceFile,
        SaveFails, coreVars, mapVars
  <2> QED
    BY <2>1, Unseen
<1>3. CASE (\E i \in Sends : SendUpdated(i)) \/ SaveCursor \/ UNCHANGED vars
  BY <1>3, Unseen DEF SendUpdated, SaveCursor, vars, coreVars, mapVars
<1> QED
  BY <1>1, <1>2, <1>3, ShownAndLearned, EndPromised DEF Next

\* Sending keeps Messenger's promise, for every set of messages and whichever of
\* them have a uid of their own.
THEOREM PromiseKept == Spec => SendsAsPromised
<1>1. Init => Messaging!Init
  BY DEF Init, Messaging!Init, Submitted, Answered, Held, Learned, NoUid, SendId, EchoId, Uids
<1>2. Init => SendingInv /\ KeyKept
  BY InitInv DEF Init, KeyKept
<1>3. (SendingInv /\ KeyKept) /\ [Next]_vars => (SendingInv /\ KeyKept)'
  BY SendingStep, KeyStep
<1>4. (SendingInv /\ KeyKept) /\ [Next]_vars => [Messaging!Next]_Messaging!vars
  BY PromiseStep
<1> QED
  BY <1>1, <1>2, <1>3, <1>4, PTL DEF Spec, SendsAsPromised, Messaging!Spec
=============================================================================
