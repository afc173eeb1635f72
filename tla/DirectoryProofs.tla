--------------------------- MODULE DirectoryProofs ---------------------------
(***************************************************************************)
(* Theorems about Directory, for any chats, pages, cursors and changes of   *)
(* Core: the two dictionaries, and chats that are announced as removed.    *)
(***************************************************************************)
EXTENDS Directory, TLAPS

(***************************************************************************)
(* The invariant.                                                          *)
(***************************************************************************)
ForUpdate(t) == task[t] \in {"new", "old"}

\* What a thread's step says of its task; an event in hand is still pending.
Tasks ==
  /\ \A t \in Threads : at[t] = "idle" => rows[t] = {} /\ seen[t] = {} /\ cursor[t] = First
  /\ ~ForUpdate(Master)
  /\ ForUpdate(Poller) => at[Poller] # "idle" /\ want[Poller] \in Chats /\ pending[want[Poller]] > 0
  /\ at[Poller] \in {"remove", "unindex"} => ForUpdate(Poller) /\ rows[Poller] = {}
  /\ \A c \in Chats : pending[c] <= changes

\* The pages a listing has read: all the cursors it has followed, but the next.
Visited(t) == {First} \cup seen[t]

\* The cursors followed lead to each other, and the chats on pages read that were
\* there throughout are listed.
Pages ==
  /\ at[Poller] # "idle" => Chats \ chats \subseteq absent
  /\ at[Poller] = "page" =>
       /\ cursor[Poller] \in Visited(Poller)
       /\ \A p \in Visited(Poller) \ {cursor[Poller]} : nextOf[p] \in Visited(Poller)
       /\ \A c \in Chats \ absent :
            PageOf[c] \in Visited(Poller) \ {cursor[Poller]} => c \in rows[Poller]

\* Between the two writes of one thread the dictionaries differ in one chat.
Halfway(t, c) ==
  \/ at[t] = "core" /\ record[t] = c
  \/ at[t] = "unindex" /\ want[t] = c

Indices ==
  ~raced =>
    /\ \A t \in Threads : Building(t) => ~Building(Other(t))
    /\ \A t \in Threads : at[t] = "core" => object[t] = byUid[record[t]]
    /\ at[Poller] = "unindex" => byCore[want[Poller]] = 0
    /\ \A c \in Chats : byUid[c] = byCore[c] \/ \E t \in Threads : Halfway(t, c)

\* A chat is in the directory, or on its way there.
HeldBy(t, c) == c \in rows[t] \/ (at[t] \in {"uid", "core"} /\ record[t] = c)
Held(c)      == byCore[c] # 0 \/ \E t \in Threads : HeldBy(t, c)

\* The update in hand will be taken for handled, with what was listed.
Committed(c) ==
  /\ ForUpdate(Poller) /\ want[Poller] = c
  /\ at[Poller] \in {"records", "uid", "core", "found", "unindex"} \/ c \in rows[Poller]

\* A chat held that is gone has an update pending besides a committed one.
Ghosts ==
  ~raced => \A c \in Chats : Held(c) /\ c \notin chats =>
              pending[c] > 0 /\ (Committed(c) => pending[c] > 1)

DirectoryInv ==
  TypeOK /\ Tasks /\ Pages /\ RemovedWasAbsent /\ Indices /\ Ghosts

-----------------------------------------------------------------------------
\* The master's thread and the poll thread are all there are.
LEMMA TwoThreads ==
  /\ Master \in Threads /\ Poller \in Threads /\ Master # Poller
  /\ \A t \in Threads : t = Master \/ t = Poller
  /\ \A t \in Threads : Other(t) \in Threads /\ Other(t) # t /\ Other(Other(t)) = t
  /\ Other(Master) = Poller /\ Other(Poller) = Master
BY DirectoryAssumption DEF Threads, Other

\* What a call begins with.
Begins(t, what, c) ==
  /\ Begin(t, what, c)
  /\ t = Master => what \in {"all", "one"}
  /\ what \in {"new", "old"} => c \in Chats /\ pending[c] > 0

\* Every call begins alike, the master's for no update.
LEMMA Beginning ==
  ASSUME BeginStep
  PROVE  \E t \in Threads, what \in {"all", "one", "new", "old"}, c \in Chats \cup {NoChat} :
           Begins(t, what, c)
<1>1. CASE GetChats
  <2>1. Begins(Master, "all", NoChat)
    BY <1>1 DEF GetChats, Begins
  <2> QED
    BY <2>1, TwoThreads
<1>2. ASSUME NEW c \in Chats, GetChat(c) PROVE Begins(Master, "one", c)
  BY <1>2 DEF GetChat, Begins
<1>3. ASSUME NEW c \in Chats, ResolveChat(c) PROVE Begins(Poller, "one", c)
  BY <1>3, TwoThreads DEF ResolveChat, Begins
<1>4. ASSUME NEW c \in Chats, ChatUpdated(c)
      PROVE  \E what \in {"new", "old"} : Begins(Poller, what, c)
  BY <1>4, TwoThreads DEF ChatUpdated, Begins
<1> QED
  BY <1>1, <1>2, <1>3, <1>4, TwoThreads DEF BeginStep

\* Types.
LEMMA TypesStay ==
  ASSUME TypeOK, Tasks, [Next]_vars
  PROVE  TypeOK'
<1>1. ASSUME NEW c \in Chats, ChatChanges(c)
      PROVE  TypeOK'
  BY <1>1, DirectoryAssumption DEF ChatChanges, indexVars, callVars, TypeOK, Tasks
<1>2. ASSUME NEW t \in Threads, NEW what \in {"all", "one", "new", "old"}, NEW c \in Chats \cup {NoChat},
             Begins(t, what, c)
      PROVE  TypeOK'
  BY <1>2 DEF Begins, Begin, coreVars, indexVars, TypeOK
<1>3. ASSUME NEW t \in Threads, ReadPage(t)
      PROVE  TypeOK'
  <2>1. nextOf[cursor[t]] \in Cursors \cup {Last} /\ cursor[t] \in Cursors
    BY DirectoryAssumption DEF TypeOK
  <2>2. /\ cursor' \in [Threads -> Cursors] /\ seen' \in [Threads -> SUBSET Cursors]
        /\ rows' \in [Threads -> SUBSET Chats]
    BY <1>3, <2>1, DirectoryAssumption DEF ReadPage, ForBuilding, TypeOK
  <2>3. /\ at' \in [Threads -> {"idle", "page", "records", "uid", "core", "found", "remove", "unindex"}]
        /\ at'[t] \notin {"uid", "core", "unindex"} /\ (at'[t] = "remove" => ForUpdate(t))
        /\ \A u \in Threads : u # t => at'[u] = at[u]
    BY <1>3 DEF ReadPage, AfterListing, ForUpdate, TypeOK
  <2>4. UNCHANGED <<coreVars, indexVars, task, want, record, object, pastVars>>
    BY <1>3 DEF ReadPage
  <2>5. at'[Master] \notin {"remove", "unindex"}
    BY <2>3, TwoThreads DEF TypeOK, Tasks
  <2> QED
    BY <2>2, <2>3, <2>4, <2>5 DEF TypeOK, coreVars, indexVars, pastVars
<1>4. ASSUME NEW t \in Threads, ListingFails(t)
      PROVE  TypeOK'
  BY <1>4, DirectoryAssumption DEF ListingFails, Leaves, coreVars, indexVars, pastVars, TypeOK
<1>5. ASSUME NEW t \in Threads, NEW c \in Chats, NEW fits \in BOOLEAN,
             TakeRecord(t, c, fits)
      PROVE  TypeOK'
  <2>1. /\ objects' \in 0 .. MaxObjects /\ objects' >= objects
        /\ object' \in [Threads -> 0 .. objects'] /\ object'[t] # 0
        /\ \A u \in Threads : u # t => object'[u] = object[u]
    BY <1>5, DirectoryAssumption DEF TakeRecord, TypeOK
  <2>2. byUid' \in [Chats -> 0 .. objects'] /\ byCore' \in [Chats -> 0 .. objects']
    BY <1>5, <2>1, DirectoryAssumption DEF TakeRecord, TypeOK
  <2>3. /\ chats' \subseteq Chats /\ pending' \in [Chats -> 0 .. MaxChanges] /\ nextOf' \in Pagings
        /\ task' \in [Threads -> {"none", "all", "one", "new", "old"}]
        /\ want' \in [Threads -> Chats \cup {NoChat}] /\ cursor' \in [Threads -> Cursors]
        /\ seen' \in [Threads -> SUBSET Cursors] /\ rows' \in [Threads -> SUBSET Chats]
        /\ absent' \subseteq Chats /\ raced' \in BOOLEAN /\ changes' \in 0 .. MaxChanges
    BY <1>5 DEF TakeRecord, TypeOK, coreVars
  <2>4. /\ record' \in [Threads -> Chats \cup {NoChat}] /\ record'[t] # NoChat
        /\ \A u \in Threads : u # t => record'[u] = record[u] /\ at'[u] = at[u]
        /\ at' \in [Threads -> {"idle", "page", "records", "uid", "core", "found", "remove", "unindex"}]
        /\ at'[t] \in {"uid", "core"}
    BY <1>5, DirectoryAssumption DEF TakeRecord, TypeOK
  <2> QED
    BY <2>1, <2>2, <2>3, <2>4, TwoThreads DEF TypeOK
<1>6. ASSUME NEW t \in Threads, IndexByUid(t)
      PROVE  TypeOK'
  BY <1>6 DEF IndexByUid, coreVars, callVars, pastVars, TypeOK
<1>7. ASSUME NEW t \in Threads, IndexByCore(t)
      PROVE  TypeOK'
  BY <1>7 DEF IndexByCore, coreVars, pastVars, TypeOK
<1>8. CASE Remove
  BY <1>8, TwoThreads DEF Remove, coreVars, TypeOK, Tasks
<1>9. CASE AnnounceRemoved
  BY <1>9, TwoThreads, DirectoryAssumption DEF AnnounceRemoved, Leaves, pastVars, TypeOK, Tasks
<1>10. CASE NothingToRemove
  BY <1>10, TwoThreads, DirectoryAssumption DEF NothingToRemove, Leaves, indexVars, TypeOK, Tasks
<1>11. ASSUME NEW t \in Threads, Found(t)
      PROVE  TypeOK'
  BY <1>11, TwoThreads, DirectoryAssumption
  DEF Found, Leaves, indexVars, pastVars, TypeOK, Tasks, ForUpdate
<1>12. ASSUME NEW t \in Threads, RecordsEnd(t)
      PROVE  TypeOK'
  BY <1>12, DirectoryAssumption DEF RecordsEnd, Leaves, coreVars, indexVars, pastVars, TypeOK
<1>13. CASE UNCHANGED vars
  BY <1>13 DEF vars, coreVars, indexVars, callVars, pastVars, TypeOK
<1> QED
  BY <1>1, <1>2, <1>3, <1>4, <1>5, <1>6, <1>7, <1>8, <1>9, <1>10, <1>11, <1>12, <1>13, Beginning
  DEF Next, ThreadStep, RemoveStep

\* The steps of a task.
LEMMA TasksStay ==
  ASSUME TypeOK, Tasks, [Next]_vars
  PROVE  Tasks'
<1>1. ASSUME NEW c \in Chats, ChatChanges(c)
      PROVE  Tasks'
  BY <1>1 DEF ChatChanges, callVars, TypeOK, Tasks, ForUpdate
<1>2. ASSUME NEW t \in Threads, NEW what \in {"all", "one", "new", "old"}, NEW c \in Chats \cup {NoChat},
             Begins(t, what, c)
      PROVE  Tasks'
  BY <1>2 DEF Begins, Begin, coreVars, TypeOK, Tasks, ForUpdate
<1>3. ASSUME NEW t \in Threads, ReadPage(t)
      PROVE  Tasks'
  BY <1>3, TwoThreads
  DEF ReadPage, ForBuilding, AfterListing, coreVars, pastVars, TypeOK, Tasks, ForUpdate
<1>4. ASSUME NEW t \in Threads, ListingFails(t)
      PROVE  Tasks'
  BY <1>4 DEF ListingFails, Leaves, coreVars, pastVars, TypeOK, Tasks, ForUpdate
<1>5. ASSUME NEW t \in Threads, NEW c \in Chats, NEW fits \in BOOLEAN,
             TakeRecord(t, c, fits)
      PROVE  Tasks'
  BY <1>5, TwoThreads DEF TakeRecord, coreVars, TypeOK, Tasks, ForUpdate
<1>6. ASSUME NEW t \in Threads, IndexByUid(t)
      PROVE  Tasks'
  BY <1>6 DEF IndexByUid, coreVars, callVars, pastVars, Tasks, ForUpdate
<1>7. ASSUME NEW t \in Threads, IndexByCore(t)
      PROVE  Tasks'
  BY <1>7 DEF IndexByCore, coreVars, pastVars, Tasks, ForUpdate
<1>8. CASE Remove
  BY <1>8 DEF Remove, coreVars, Tasks, ForUpdate
<1>9. CASE AnnounceRemoved
  BY <1>9, TwoThreads DEF AnnounceRemoved, Leaves, pastVars, TypeOK, Tasks, ForUpdate
<1>10. CASE NothingToRemove
  BY <1>10, TwoThreads DEF NothingToRemove, Leaves, TypeOK, Tasks, ForUpdate
<1>11. ASSUME NEW t \in Threads, Found(t)
      PROVE  Tasks'
  BY <1>11, TwoThreads DEF Found, Leaves, pastVars, TypeOK, Tasks, ForUpdate
<1>12. ASSUME NEW t \in Threads, RecordsEnd(t)
      PROVE  Tasks'
  BY <1>12 DEF RecordsEnd, Leaves, coreVars, pastVars, TypeOK, Tasks, ForUpdate
<1>13. CASE UNCHANGED vars
  BY <1>13 DEF vars, coreVars, callVars, pastVars, Tasks, ForUpdate
<1> QED
  BY <1>1, <1>2, <1>3, <1>4, <1>5, <1>6, <1>7, <1>8, <1>9, <1>10, <1>11, <1>12, <1>13, Beginning
  DEF Next, ThreadStep, RemoveStep

\* Pages read.
LEMMA PagesStay ==
  ASSUME TypeOK, Tasks, Pages, [Next]_vars
  PROVE  Pages'
<1>1. ASSUME NEW c \in Chats, ChatChanges(c)
      PROVE  Pages'
  BY <1>1 DEF ChatChanges, callVars, Pages, Visited
<1>2. ASSUME NEW t \in Threads, NEW what \in {"all", "one", "new", "old"}, NEW c \in Chats \cup {NoChat},
             Begins(t, what, c)
      PROVE  Pages'
  BY <1>2 DEF Begins, Begin, coreVars, Tasks, Pages, Visited
<1>3. ASSUME NEW t \in Threads, ReadPage(t)
      PROVE  Pages'
  BY <1>3, TwoThreads
  DEF ReadPage, ForBuilding, AfterListing, coreVars, pastVars, TypeOK, Pages, Visited
<1>4. ASSUME NEW t \in Threads, ListingFails(t)
      PROVE  Pages'
  BY <1>4 DEF ListingFails, Leaves, coreVars, pastVars, TypeOK, Pages, Visited
<1>5. ASSUME NEW t \in Threads, NEW c \in Chats, NEW fits \in BOOLEAN,
             TakeRecord(t, c, fits)
      PROVE  Pages'
  BY <1>5, TwoThreads DEF TakeRecord, coreVars, TypeOK, Pages, Visited
<1>6. ASSUME NEW t \in Threads, IndexByUid(t)
      PROVE  Pages'
  BY <1>6 DEF IndexByUid, coreVars, callVars, pastVars, Pages, Visited
<1>7. ASSUME NEW t \in Threads, IndexByCore(t)
      PROVE  Pages'
  BY <1>7 DEF IndexByCore, coreVars, pastVars, Pages, Visited
<1>8. CASE Remove
  BY <1>8 DEF Remove, coreVars, Pages
<1>9. CASE AnnounceRemoved
  BY <1>9 DEF AnnounceRemoved, Leaves, pastVars, Pages
<1>10. CASE NothingToRemove
  BY <1>10 DEF NothingToRemove, Leaves, Pages
<1>11. ASSUME NEW t \in Threads, Found(t)
      PROVE  Pages'
  BY <1>11 DEF Found, Leaves, pastVars, Pages, Visited
<1>12. ASSUME NEW t \in Threads, RecordsEnd(t)
      PROVE  Pages'
  BY <1>12 DEF RecordsEnd, Leaves, coreVars, pastVars, Pages, Visited
<1>13. CASE UNCHANGED vars
  BY <1>13 DEF vars, coreVars, callVars, pastVars, Pages, Visited
<1> QED
  BY <1>1, <1>2, <1>3, <1>4, <1>5, <1>6, <1>7, <1>8, <1>9, <1>10, <1>11, <1>12, <1>13, Beginning
  DEF Next, ThreadStep, RemoveStep

\* A chat that a sound listing did not find was absent.
LEMMA RemovedStays ==
  ASSUME TypeOK, Tasks, Pages, RemovedWasAbsent, [Next]_vars
  PROVE  RemovedWasAbsent'
<1>0. Sound' <=> Sound
  <2>1. nextOf' = nextOf
    BY DEF Next, ChatChanges, BeginStep, GetChats, GetChat, ResolveChat, ChatUpdated, Begin,
       ThreadStep, ReadPage, ListingFails, TakeRecord, IndexByUid, IndexByCore, Found, RecordsEnd,
       RemoveStep, Remove, AnnounceRemoved, NothingToRemove, Leaves, vars, coreVars
  <2> QED
    BY <2>1 DEF Sound
<1>1. ASSUME NEW c \in Chats, ChatChanges(c)
      PROVE  RemovedWasAbsent'
  BY <1>1, <1>0 DEF ChatChanges, callVars, RemovedWasAbsent
<1>2. ASSUME NEW t \in Threads, NEW what \in {"all", "one", "new", "old"}, NEW c \in Chats \cup {NoChat},
             Begins(t, what, c)
      PROVE  RemovedWasAbsent'
  BY <1>2, <1>0 DEF Begins, Begin, RemovedWasAbsent
<1>3. ASSUME NEW t \in Threads, ReadPage(t)
      PROVE  RemovedWasAbsent'
  <2> DEFINE listed == rows[t] \cup {c \in chats : PageOf[c] = cursor[t]}
  <2>1. /\ at[t] = "page" /\ UNCHANGED <<task, want, absent, chats>>
        /\ \A u \in Threads : u # t => at'[u] = at[u]
        /\ at'[t] \in {"remove", "unindex"} =>
             /\ at'[t] = "remove" /\ want[t] \notin listed /\ ForUpdate(t)
             /\ nextOf[cursor[t]] \in {Last, cursor[t]}
    BY <1>3 DEF ReadPage, AfterListing, ForUpdate, TypeOK, coreVars, pastVars
  <2>2. CASE t = Master
    BY <1>0, <2>1, <2>2, TwoThreads DEF RemovedWasAbsent
  <2>3. CASE t = Poller
    <3> SUFFICES ASSUME at'[Poller] \in {"remove", "unindex"}, Sound, want[Poller] \notin absent
                 PROVE  FALSE
      BY <1>0, <2>1, <2>3 DEF RemovedWasAbsent
    <3>1. want[Poller] \in Chats /\ want[Poller] \in chats
      BY <2>1, <2>3 DEF Tasks, Pages
    <3>2. /\ Visited(Poller) \in SUBSET Cursors /\ First \in Visited(Poller)
          /\ \A p \in Visited(Poller) : nextOf[p] \in Visited(Poller) \cup {Last}
      BY <2>1, <2>3, TwoThreads, DirectoryAssumption DEF Pages, Visited, TypeOK
    <3>3. Visited(Poller) = Cursors
      BY <3>2 DEF Sound
    <3>4. PageOf[want[Poller]] \in Cursors
      BY <3>1, DirectoryAssumption
    <3>5. want[Poller] \in listed
      BY <2>1, <2>3, <3>1, <3>3, <3>4 DEF Pages
    <3> QED
      BY <2>1, <2>3, <3>5
  <2> QED
    BY <2>2, <2>3, TwoThreads
<1>4. ASSUME NEW t \in Threads, ListingFails(t)
      PROVE  RemovedWasAbsent'
  BY <1>4, <1>0 DEF ListingFails, Leaves, pastVars, RemovedWasAbsent
<1>5. ASSUME NEW t \in Threads, NEW c \in Chats, NEW fits \in BOOLEAN,
             TakeRecord(t, c, fits)
      PROVE  RemovedWasAbsent'
  BY <1>5, <1>0, TwoThreads DEF TakeRecord, TypeOK, RemovedWasAbsent
<1>6. ASSUME NEW t \in Threads, IndexByUid(t)
      PROVE  RemovedWasAbsent'
  BY <1>6, <1>0 DEF IndexByUid, callVars, pastVars, RemovedWasAbsent
<1>7. ASSUME NEW t \in Threads, IndexByCore(t)
      PROVE  RemovedWasAbsent'
  BY <1>7, <1>0 DEF IndexByCore, pastVars, RemovedWasAbsent
<1>8. CASE Remove
  BY <1>8, <1>0 DEF Remove, RemovedWasAbsent
<1>9. CASE AnnounceRemoved
  BY <1>9, <1>0 DEF AnnounceRemoved, Leaves, pastVars, TypeOK, RemovedWasAbsent
<1>10. CASE NothingToRemove
  BY <1>10, <1>0 DEF NothingToRemove, Leaves, TypeOK, RemovedWasAbsent
<1>11. ASSUME NEW t \in Threads, Found(t)
      PROVE  RemovedWasAbsent'
  BY <1>11, <1>0 DEF Found, Leaves, pastVars, RemovedWasAbsent
<1>12. ASSUME NEW t \in Threads, RecordsEnd(t)
      PROVE  RemovedWasAbsent'
  BY <1>12, <1>0 DEF RecordsEnd, Leaves, pastVars, RemovedWasAbsent
<1>13. CASE UNCHANGED vars
  BY <1>13, <1>0 DEF vars, callVars, pastVars, RemovedWasAbsent
<1> QED
  BY <1>1, <1>2, <1>3, <1>4, <1>5, <1>6, <1>7, <1>8, <1>9, <1>10, <1>11, <1>12, <1>13, Beginning
  DEF Next, ThreadStep, RemoveStep

\* The two dictionaries.
LEMMA IndicesStay ==
  ASSUME TypeOK, Tasks, Indices, [Next]_vars
  PROVE  Indices'
<1>1. ASSUME NEW c \in Chats, ChatChanges(c)
      PROVE  Indices'
  BY <1>1 DEF ChatChanges, indexVars, callVars, Indices, Building, Halfway
<1>2. ASSUME NEW t \in Threads, NEW what \in {"all", "one", "new", "old"}, NEW c \in Chats \cup {NoChat},
             Begins(t, what, c)
      PROVE  Indices'
  <2>1. ~raced' => \A u \in Threads : Building(u)' => ~Building(Other(u))'
    BY <1>2 DEF Begins, Begin, Indices, Building
  <2>2. ~raced' => \A u \in Threads : at'[u] = "core" => object'[u] = byUid'[record'[u]]
    BY <1>2 DEF Begins, Begin, indexVars, Indices
  <2>3. ~raced' /\ at'[Poller] = "unindex" => byCore'[want'[Poller]] = 0
    BY <1>2 DEF Begins, Begin, indexVars, Indices
  <2>4. ~raced' => \A d \in Chats : byUid'[d] = byCore'[d] \/ \E u \in Threads : Halfway(u, d)'
    BY <1>2 DEF Begins, Begin, indexVars, Indices, Halfway
  <2> QED
    BY <2>1, <2>2, <2>3, <2>4 DEF Indices
<1>3. ASSUME NEW t \in Threads, ReadPage(t)
      PROVE  Indices'
  BY <1>3, TwoThreads
  DEF ReadPage, ForBuilding, AfterListing, indexVars, pastVars, TypeOK, Indices, Building, Halfway
<1>4. ASSUME NEW t \in Threads, ListingFails(t)
      PROVE  Indices'
  BY <1>4 DEF ListingFails, Leaves, indexVars, pastVars, Indices, Building, Halfway
<1>5. ASSUME NEW t \in Threads, NEW c \in Chats, NEW fits \in BOOLEAN,
             TakeRecord(t, c, fits)
      PROVE  Indices'
  <2>1. ~raced' => \A u \in Threads : Building(u)' => ~Building(Other(u))'
    <3>1. ~raced' => ~Building(Other(t))
      BY <1>5, TwoThreads DEF TakeRecord, Other
    <3>2. \A u \in Threads : u # t => at'[u] = at[u]
      BY <1>5 DEF TakeRecord, TypeOK
    <3>3. ~raced' => ~Building(Other(t))'
      BY <3>1, <3>2, TwoThreads DEF Building
    <3> QED
      BY <3>3, TwoThreads
  <2>2. ~raced' => \A u \in Threads : at'[u] = "core" => object'[u] = byUid'[record'[u]]
    BY <1>5 DEF TakeRecord, TypeOK, Indices
  <2>3. ~raced' /\ at'[Poller] = "unindex" => byCore'[want'[Poller]] = 0
    BY <1>5, TwoThreads DEF TakeRecord, TypeOK, Indices
  <2>4. ~raced' => \A d \in Chats : byUid'[d] = byCore'[d] \/ \E u \in Threads : Halfway(u, d)'
    BY <1>5 DEF TakeRecord, TypeOK, Indices, Halfway
  <2> QED
    BY <2>1, <2>2, <2>3, <2>4 DEF Indices
<1>6. ASSUME NEW t \in Threads, IndexByUid(t)
      PROVE  Indices'
  <2>1. ~raced' => \A u \in Threads : Building(u)' => ~Building(Other(u))'
    BY <1>6 DEF IndexByUid, pastVars, Indices, Building
  <2>2. ~raced' => \A u \in Threads : at'[u] = "core" => object'[u] = byUid'[record'[u]]
    BY <1>6, TwoThreads DEF IndexByUid, callVars, pastVars, TypeOK, Indices, Building
  <2>3. ~raced' /\ at'[Poller] = "unindex" => byCore'[want'[Poller]] = 0
    BY <1>6 DEF IndexByUid, callVars, pastVars, Indices
  <2>4. ~raced' => \A d \in Chats : byUid'[d] = byCore'[d] \/ \E u \in Threads : Halfway(u, d)'
    BY <1>6 DEF IndexByUid, callVars, pastVars, TypeOK, Indices, Halfway
  <2> QED
    BY <2>1, <2>2, <2>3, <2>4 DEF Indices
<1>7. ASSUME NEW t \in Threads, IndexByCore(t)
      PROVE  Indices'
  <2>1. ~raced' => \A u \in Threads : Building(u)' => ~Building(Other(u))'
    BY <1>7 DEF IndexByCore, pastVars, Indices, Building
  <2>2. ~raced' => \A u \in Threads : at'[u] = "core" => object'[u] = byUid'[record'[u]]
    BY <1>7 DEF IndexByCore, pastVars, TypeOK, Indices
  <2>3. ~raced' /\ at'[Poller] = "unindex" => byCore'[want'[Poller]] = 0
    BY <1>7, TwoThreads DEF IndexByCore, pastVars, Indices, Building
  <2>4. ~raced' => \A d \in Chats : byUid'[d] = byCore'[d] \/ \E u \in Threads : Halfway(u, d)'
    BY <1>7 DEF IndexByCore, pastVars, TypeOK, Indices, Halfway
  <2> QED
    BY <2>1, <2>2, <2>3, <2>4 DEF Indices
<1>8. CASE Remove
  <2>1. ~raced' => \A u \in Threads : Building(u)' => ~Building(Other(u))'
    <3>1. ~raced' => ~Building(Other(Poller))
      BY <1>8, TwoThreads DEF Remove, Other
    <3>2. \A u \in Threads : u # Poller => at'[u] = at[u]
      BY <1>8 DEF Remove, TypeOK
    <3>3. ~raced' => ~Building(Other(Poller))'
      BY <3>1, <3>2, TwoThreads DEF Building
    <3> QED
      BY <3>3, TwoThreads
  <2>2. ~raced' => \A u \in Threads : at'[u] = "core" => object'[u] = byUid'[record'[u]]
    BY <1>8 DEF Remove, TypeOK, Indices
  <2>3. ~raced' /\ at'[Poller] = "unindex" => byCore'[want'[Poller]] = 0
    BY <1>8 DEF Remove, TypeOK, Tasks, Indices
  <2>4. ~raced' => \A d \in Chats : byUid'[d] = byCore'[d] \/ \E u \in Threads : Halfway(u, d)'
    BY <1>8, TwoThreads DEF Remove, TypeOK, Indices, Halfway
  <2> QED
    BY <2>1, <2>2, <2>3, <2>4 DEF Indices
<1>9. CASE AnnounceRemoved
  <2>1. ~raced' => \A u \in Threads : Building(u)' => ~Building(Other(u))'
    BY <1>9 DEF AnnounceRemoved, Leaves, pastVars, Indices, Building
  <2>2. ~raced' => \A u \in Threads : at'[u] = "core" => object'[u] = byUid'[record'[u]]
    BY <1>9, TwoThreads DEF AnnounceRemoved, Leaves, pastVars, Indices, Building
  <2>3. ~raced' /\ at'[Poller] = "unindex" => byCore'[want'[Poller]] = 0
    BY <1>9 DEF AnnounceRemoved, Leaves, pastVars, TypeOK, Indices
  <2>4. ~raced' => \A d \in Chats : byUid'[d] = byCore'[d] \/ \E u \in Threads : Halfway(u, d)'
    BY <1>9 DEF AnnounceRemoved, Leaves, pastVars, TypeOK, Indices, Halfway
  <2> QED
    BY <2>1, <2>2, <2>3, <2>4 DEF Indices
<1>10. CASE NothingToRemove
  BY <1>10 DEF NothingToRemove, Leaves, indexVars, TypeOK, Indices, Building, Halfway
<1>11. ASSUME NEW t \in Threads, Found(t)
      PROVE  Indices'
  BY <1>11 DEF Found, Leaves, indexVars, pastVars, Indices, Building, Halfway
<1>12. ASSUME NEW t \in Threads, RecordsEnd(t)
      PROVE  Indices'
  BY <1>12 DEF RecordsEnd, Leaves, indexVars, pastVars, Indices, Building, Halfway
<1>13. CASE UNCHANGED vars
  BY <1>13 DEF vars, indexVars, callVars, pastVars, Indices, Building, Halfway
<1> QED
  BY <1>1, <1>2, <1>3, <1>4, <1>5, <1>6, <1>7, <1>8, <1>9, <1>10, <1>11, <1>12, <1>13, Beginning
  DEF Next, ThreadStep, RemoveStep

\* Chats that are gone.
LEMMA GhostsStay ==
  ASSUME TypeOK, Tasks, Ghosts, [Next]_vars
  PROVE  Ghosts'
<1>1. ASSUME NEW c \in Chats, ChatChanges(c)
      PROVE  Ghosts'
  BY <1>1
  DEF ChatChanges, indexVars, callVars, TypeOK, Tasks, ForUpdate, Ghosts, Held, HeldBy, Committed
<1>2. ASSUME NEW t \in Threads, NEW what \in {"all", "one", "new", "old"}, NEW c \in Chats \cup {NoChat},
             Begins(t, what, c)
      PROVE  Ghosts'
  BY <1>2 DEF Begins, Begin, coreVars, indexVars, Tasks, ForUpdate, Ghosts, Held, HeldBy, Committed
<1>3. ASSUME NEW t \in Threads, ReadPage(t)
      PROVE  Ghosts'
  <2> DEFINE listed == rows[t] \cup {c \in chats : PageOf[c] = cursor[t]}
  <2>1. /\ at[t] = "page" /\ UNCHANGED <<chats, pending, byCore, raced, task, want, record>>
        /\ \A u \in Threads : u # t => at'[u] = at[u] /\ rows'[u] = rows[u]
        /\ at'[t] \in {"page", "records", "remove"} /\ rows'[t] \subseteq listed
        /\ at'[t] = "page" => rows'[t] = listed
        /\ at'[t] = "records" /\ ForUpdate(t) => want[t] \in listed
    BY <1>3
    DEF ReadPage, ForBuilding, AfterListing, ForUpdate, TypeOK, coreVars, indexVars, pastVars
  <2>2. \A c \in Chats : Held(c)' /\ c \notin chats => Held(c)
    BY <2>1, TwoThreads DEF Held, HeldBy
  <2>3. \A c \in Chats : Committed(c)' /\ c \notin chats => Committed(c)
    <3>1. CASE t = Master
      BY <2>1, <3>1, TwoThreads DEF Committed, ForUpdate
    <3>2. CASE t = Poller
      BY <2>1, <3>2, TwoThreads DEF Committed, ForUpdate
    <3> QED
      BY <3>1, <3>2, TwoThreads
  <2> QED
    BY <2>1, <2>2, <2>3 DEF Ghosts
<1>4. ASSUME NEW t \in Threads, ListingFails(t)
      PROVE  Ghosts'
  BY <1>4
  DEF ListingFails, Leaves, coreVars, indexVars, pastVars, TypeOK, ForUpdate, Ghosts, Held,
      HeldBy, Committed
<1>5. ASSUME NEW t \in Threads, NEW c \in Chats, NEW fits \in BOOLEAN,
             TakeRecord(t, c, fits)
      PROVE  Ghosts'
  BY <1>5, TwoThreads DEF TakeRecord, coreVars, TypeOK, ForUpdate, Ghosts, Held, HeldBy, Committed
<1>6. ASSUME NEW t \in Threads, IndexByUid(t)
      PROVE  Ghosts'
  BY <1>6 DEF IndexByUid, coreVars, callVars, pastVars, ForUpdate, Ghosts, Held, HeldBy, Committed
<1>7. ASSUME NEW t \in Threads, IndexByCore(t)
      PROVE  Ghosts'
  BY <1>7 DEF IndexByCore, coreVars, pastVars, TypeOK, ForUpdate, Ghosts, Held, HeldBy, Committed
<1>8. CASE Remove
  BY <1>8, TwoThreads
  DEF Remove, coreVars, TypeOK, Tasks, Ghosts, Held, HeldBy, Committed, Listing, Building
<1>9. CASE AnnounceRemoved
  BY <1>9, TwoThreads
  DEF AnnounceRemoved, Leaves, pastVars, TypeOK, Tasks, Ghosts, Held, HeldBy, Committed
<1>10. CASE NothingToRemove
  <2> DEFINE w == want[Poller]
  <2>1. /\ at[Poller] = "remove" /\ byCore[w] = 0 /\ w \in Chats /\ rows[Poller] = {}
        /\ \A c \in Chats : c # w => pending'[c] = pending[c]
        /\ UNCHANGED <<chats, byCore>>
        /\ rows' = [rows EXCEPT ![Poller] = {}] /\ at' = [at EXCEPT ![Poller] = "idle"]
        /\ record' = [record EXCEPT ![Poller] = NoChat]
        /\ task' = [task EXCEPT ![Poller] = "none"]
        /\ ~raced' => ~raced /\ ~Listing(Master) /\ ~Building(Master)
    <3>1. /\ at[Poller] = "remove" /\ byCore[w] = 0 /\ UNCHANGED <<chats, byCore>>
          /\ \A c \in Chats : c # w => pending'[c] = pending[c]
          /\ rows' = [rows EXCEPT ![Poller] = {}] /\ at' = [at EXCEPT ![Poller] = "idle"]
          /\ record' = [record EXCEPT ![Poller] = NoChat]
          /\ task' = [task EXCEPT ![Poller] = "none"]
      BY <1>10 DEF NothingToRemove, Leaves, indexVars, TypeOK
    <3>3. ~raced' => ~raced /\ ~Listing(Master) /\ ~Building(Master)
      BY <1>10 DEF NothingToRemove
    <3>2. w \in Chats /\ rows[Poller] = {}
      BY <3>1 DEF Tasks
    <3> QED
      BY <3>1, <3>2, <3>3
  <2>2. rows'[Master] = rows[Master] /\ at'[Master] = at[Master] /\ record'[Master] = record[Master]
    BY <2>1, TwoThreads DEF TypeOK
  <2>3. rows'[Poller] = {} /\ at'[Poller] = "idle" /\ task'[Poller] = "none"
    BY <2>1, TwoThreads DEF TypeOK
  <2>4. \A c : ~Committed(c)'
    BY <2>3 DEF Committed, ForUpdate
  <2>5. ~raced' => rows[Master] = {} /\ at[Master] \notin {"uid", "core"}
    BY <2>1, TwoThreads DEF Listing, Building, Tasks
  <2>6. ~raced' => \A c \in Chats : Held(c)' => Held(c) /\ c # w
    BY <2>1, <2>2, <2>3, <2>5, TwoThreads DEF Held, HeldBy
  <2> HIDE DEF w
  <2> QED
    BY <2>1, <2>4, <2>6 DEF Ghosts
<1>11. ASSUME NEW t \in Threads, Found(t)
      PROVE  Ghosts'
  BY <1>11, TwoThreads
  DEF Found, Leaves, indexVars, pastVars, TypeOK, Tasks, ForUpdate, Ghosts, Held, HeldBy,
      Committed
<1>12. ASSUME NEW t \in Threads, RecordsEnd(t)
      PROVE  Ghosts'
  BY <1>12
  DEF RecordsEnd, Leaves, coreVars, indexVars, pastVars, TypeOK, ForUpdate, Ghosts, Held, HeldBy,
      Committed
<1>13. CASE UNCHANGED vars
  BY <1>13
  DEF vars, coreVars, indexVars, callVars, pastVars, ForUpdate, Ghosts, Held, HeldBy, Committed
<1> QED
  BY <1>1, <1>2, <1>3, <1>4, <1>5, <1>6, <1>7, <1>8, <1>9, <1>10, <1>11, <1>12, <1>13, Beginning
  DEF Next, ThreadStep, RemoveStep

-----------------------------------------------------------------------------
(***************************************************************************)
(* The invariant holds.                                                    *)
(***************************************************************************)
\* The invariant holds at the start.
LEMMA DirectoryInit == ASSUME Init PROVE DirectoryInv
<1>1. TypeOK
  <2>1. /\ pending \in [Chats -> 0 .. MaxChanges]
        /\ byUid \in [Chats -> 0 .. objects] /\ byCore \in [Chats -> 0 .. objects]
        /\ objects \in 0 .. MaxObjects /\ changes \in 0 .. MaxChanges
    BY DirectoryAssumption DEF Init
  <2>2. /\ at \in [Threads -> {"idle", "page", "records", "uid", "core", "found", "remove", "unindex"}]
        /\ task \in [Threads -> {"none", "all", "one", "new", "old"}]
        /\ want \in [Threads -> Chats \cup {NoChat}] /\ cursor \in [Threads -> Cursors]
        /\ seen \in [Threads -> SUBSET Cursors] /\ rows \in [Threads -> SUBSET Chats]
        /\ record \in [Threads -> Chats \cup {NoChat}] /\ object \in [Threads -> 0 .. objects]
    BY DirectoryAssumption DEF Init
  <2>3. chats \subseteq Chats /\ nextOf \in Pagings /\ absent \subseteq Chats /\ raced \in BOOLEAN
    BY DEF Init
  <2>4. \A t \in Threads : at[t] = "idle"
    BY DEF Init
  <2> QED
    BY <2>1, <2>2, <2>3, <2>4, TwoThreads DEF TypeOK
<1>2. Tasks
  BY TwoThreads, DirectoryAssumption DEF Init, Tasks, ForUpdate
<1>3. Pages /\ RemovedWasAbsent
  BY TwoThreads DEF Init, Pages, RemovedWasAbsent
<1>4. Indices
  BY TwoThreads DEF Init, Indices, Building
<1>5. Ghosts
  BY TwoThreads DEF Init, Ghosts, Held, HeldBy
<1> QED
  BY <1>1, <1>2, <1>3, <1>4, <1>5 DEF DirectoryInv

\* The strengthening is an invariant of the specification.
THEOREM DirectoryInvariant == Spec => []DirectoryInv
<1>1. Init => DirectoryInv
  BY DirectoryInit
<1>2. DirectoryInv /\ [Next]_vars => DirectoryInv'
  BY TypesStay, TasksStay, PagesStay, RemovedStays, IndicesStay, GhostsStay DEF DirectoryInv
<1> QED
  BY <1>1, <1>2, PTL DEF Spec

\* Every variable keeps its type, and an update in hand is still pending in Core.
THEOREM DirectoryTyped == Spec => []TypeOK
<1>1. DirectoryInv => TypeOK
  BY DEF DirectoryInv
<1> QED
  BY <1>1, DirectoryInvariant, PTL

\* Whatever sound paging Core answers, a chat that chat.updated removes from the
\* directory was absent from Core at some time since the event was taken up.
THEOREM RemovedOnlyAbsent == Spec => []RemovedWasAbsent
<1>1. DirectoryInv => RemovedWasAbsent
  BY DEF DirectoryInv
<1> QED
  BY <1>1, DirectoryInvariant, PTL

\* Both dictionaries hold the same object for every chat, unless the threads were
\* in each other's way.
THEOREM DictionariesAgree == Spec => []IndicesAgree
<1>1. DirectoryInv => IndicesAgree
  <2> SUFFICES ASSUME DirectoryInv, ~raced, \A t \in Threads : ~Building(t) PROVE byUid = byCore
    BY DEF IndicesAgree
  <2>1. \A c \in Chats : byUid[c] = byCore[c]
    BY DEF DirectoryInv, Indices, Building, Halfway
  <2> QED
    BY <2>1 DEF DirectoryInv, TypeOK
<1> QED
  BY <1>1, DirectoryInvariant, PTL

\* When all updates are handled no chat that is gone is left in the directory, unless
\* the threads were in each other's way.
THEOREM NoGhostsLeft == Spec => []NoGhosts
<1>1. DirectoryInv => NoGhosts
  BY DEF DirectoryInv, Ghosts, Held, NoGhosts
<1> QED
  BY <1>1, DirectoryInvariant, PTL
=============================================================================
