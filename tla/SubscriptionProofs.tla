------------------------- MODULE SubscriptionProofs -------------------------
(***************************************************************************)
(* Theorems about Subscription, for every value of its constants: type     *)
(* correctness, and the safety properties of the cursor and the floors.    *)
(***************************************************************************)
EXTENDS Subscription, TLAPS

(***************************************************************************)
(* The invariant.                                                          *)
(***************************************************************************)
\* Core's records and the events it hands out only point into the stream.
AnchorsBehindHead == \A b \in DOMAIN boots : boots[b].cursor <= Len(stream)

\* The instant an anchor stands for, once there is one.
InstantOf(b) == IF b.dated THEN b.at ELSE InstantFrom(b.cursor)

\* What a floor can be compared with is the instant, or the initial cursor, of a
\* record Core has or had.
Backed(at) == \E b \in DOMAIN boots : InstantOf(boots[b]) = at

BackedCursor(n) == \E b \in DOMAIN boots : boots[b].cursor = n

Anchored(floor) == /\ floor.at # None => Backed(floor.at)
                   /\ floor.cursor # None => BackedCursor(floor.cursor)

FloorsAnchored == \A s \in Scopes : Anchored(floors[s]) /\ Anchored(floorFile[s])

\* Core's clock stands behind each event, and each event behind those before it.
TimesGrow ==
  /\ \A n \in DOMAIN stream : stream[n].at < now
  /\ \A i, j \in DOMAIN stream : i < j => stream[i].at < stream[j].at

\* The origin cursor of a message is that of its first event, and a message that
\* was deferred has one.
OriginsTrue ==
  /\ \A n \in DOMAIN stream : firstSeen[stream[n].msg] \in 1 .. n
  /\ \A m \in Messages :
       firstSeen[m] # 0 => firstSeen[m] \in DOMAIN stream /\ stream[firstSeen[m]].msg = m
  /\ \A m \in Messages : attempts[m] # 0 \/ m \in todo => firstSeen[m] # 0

\* The event whose cursor is being saved has been handled.
SavedIsHandled == pc = "save" => cursor + 1 \in offered

\* A cursor that was not saved blindly is at or after an initial cursor.
CursorAnchored ==
  ~blind /\ cursor # None => \E b \in DOMAIN boots : boots[b].cursor <= cursor

\* What only grows.
Grows ==
  /\ \A b \in DOMAIN boots : b \in DOMAIN boots' /\ boots'[b] = boots[b]
  /\ \A n \in DOMAIN stream : n \in DOMAIN stream' /\ stream'[n] = stream[n]
  /\ Len(stream) <= Len(stream')

-----------------------------------------------------------------------------
(***************************************************************************)
(* Type correctness.                                                       *)
(***************************************************************************)
LEMMA InitTyped == Init => TypeOK /\ AnchorsBehindHead
<1> SUFFICES ASSUME Init PROVE TypeOK /\ AnchorsBehindHead
  OBVIOUS
<1>1. stream \in Seq(Events) /\ boots \in Seq(Anchors) /\ Len(stream) = 0 /\ DOMAIN boots = {}
  BY DEF Init
<1>2. floorFile \in [Scopes -> Floors \cup {NoFloor}] /\ floors \in [Scopes -> Floors \cup {NoFloor}]
  BY DEF Init, NoFloors
<1>3. /\ now \in Instants /\ firstSeen \in [Messages -> Instants]
      /\ attempts \in [Messages -> 0 .. ProvenanceMaxAttempts] /\ ends \in 0 .. MaxEnds
  BY SubscriptionAssumption DEF Init, Instants
<1>4. page \in 0 .. Len(stream) /\ offered \subseteq 1 .. Len(stream) /\ Len(stream) <= now
  BY <1>1 DEF Init
<1>5. pc = "down" /\ pc \in Steps /\ cursor = None
  BY DEF Init, Steps
<1>6. coreAccounts = {} /\ todo = {} /\ delivered = {} /\ suppressed = {} /\ blind = FALSE
  BY DEF Init
<1> QED
  BY <1>1, <1>2, <1>3, <1>4, <1>5, <1>6 DEF TypeOK, AnchorsBehindHead

\* An element of the stream, or of the bootstrap records.
LEMMA Elements ==
  ASSUME TypeOK
  PROVE  /\ \A n \in 1 .. Len(stream) :
              /\ n \in DOMAIN stream /\ stream[n] \in Events
              /\ stream[n].msg \in Messages /\ stream[n].at \in Instants
         /\ \A b \in DOMAIN boots :
              /\ boots[b] \in Anchors
              /\ boots[b].cursor \in Instants /\ boots[b].at \in Instants
         /\ boots # <<>> => Len(boots) \in DOMAIN boots
<1>1. ASSUME NEW n \in 1 .. Len(stream)
      PROVE  /\ n \in DOMAIN stream /\ stream[n] \in Events
             /\ stream[n].msg \in Messages /\ stream[n].at \in Instants
  <2>1. n \in DOMAIN stream /\ stream[n] \in Events
    BY DEF TypeOK
  <2> QED
    BY <2>1 DEF Events
<1>2. ASSUME NEW b \in DOMAIN boots
      PROVE  /\ boots[b] \in Anchors
             /\ boots[b].cursor \in Instants /\ boots[b].at \in Instants
  <2>1. boots[b] \in Anchors
    BY DEF TypeOK
  <2> QED
    BY <2>1 DEF Anchors
<1>3. boots # <<>> => Len(boots) \in DOMAIN boots
  BY DEF TypeOK
<1> QED
  BY <1>1, <1>2, <1>3

\* What Core says of the floor is a floor.
LEMMA FloorType ==
  ASSUME TypeOK, boots # <<>>, NEW derived \in BOOLEAN
  PROVE  FloorFromCore(derived) \in Floors
<1>1. Anchor \in Anchors
  BY DEF TypeOK, Anchor
<1>2. InstantFrom(Anchor.cursor) \in Instants \cup {None}
  <2>1. FirstFrom(Anchor.cursor) \in Nat \ {0}
    BY <1>1, SubscriptionAssumption DEF FirstFrom, Anchors, Instants
  <2>2. Len(stream) \in Nat
    BY DEF TypeOK
  <2> QED
    BY <2>1, <2>2, Elements DEF InstantFrom
<1> QED
  BY <1>1, <1>2 DEF FloorFromCore, Floors, Anchors

\* What becomes of a message leaves well-typed attempts and sets.
LEMMA HandleType ==
  ASSUME TypeOK, NEW m \in Messages, HandleMessage(m)
  PROVE  /\ attempts' \in [Messages -> 0 .. ProvenanceMaxAttempts]
         /\ delivered' \subseteq Messages /\ suppressed' \subseteq Messages
<1>1. CASE Close(m)
  BY <1>1, SubscriptionAssumption DEF Close, TypeOK
<1>2. ASSUME NEW readable \in BOOLEAN, DeferMessage(m, readable)
      PROVE  /\ attempts' \in [Messages -> 0 .. ProvenanceMaxAttempts]
             /\ UNCHANGED <<delivered, suppressed>>
  BY <1>2, SubscriptionAssumption DEF DeferMessage, TypeOK
<1>3. CASE Suppress(m)
  BY <1>3 DEF Suppress, TypeOK
<1>4. CASE Deliver(m)
  BY <1>4, SubscriptionAssumption DEF Deliver, TypeOK
<1> QED
  BY <1>1, <1>2, <1>3, <1>4 DEF HandleMessage, TypeOK

\* The steps of Core.
LEMMA CoreStepTyped ==
  ASSUME TypeOK, AnchorsBehindHead, CoreStep
  PROVE  TypeOK' /\ AnchorsBehindHead' /\ Grows
<1>1. ASSUME NEW m \in Messages, Project(m) PROVE TypeOK' /\ AnchorsBehindHead' /\ Grows
  <2>1. [msg |-> m, at |-> now] \in Events
    BY DEF TypeOK, Events
  <2>2. /\ stream' \in Seq(Events) /\ Len(stream') = Len(stream) + 1 /\ Len(stream) \in Nat
        /\ \A n \in DOMAIN stream : n \in DOMAIN stream' /\ stream'[n] = stream[n]
    BY <1>1, <2>1 DEF Project, TypeOK
  <2>3. now \in Nat /\ now' = now + 1 /\ now' \in Instants
    BY <1>1, SubscriptionAssumption DEF Project, Passes, TypeOK, Instants
  <2>6. firstSeen' \in [Messages -> Instants]
    <3>1. Len(stream) + 1 \in Instants
      BY <2>2, <2>3, SubscriptionAssumption DEF TypeOK, Instants
    <3> QED
      BY <1>1, <3>1 DEF Project, TypeOK
  <2>4. AnchorsBehindHead' /\ Grows
    BY <1>1, <2>2, Elements, SubscriptionAssumption DEF Project, AnchorsBehindHead, Grows, Instants
  <2>5. /\ page' \in 0 .. Len(stream') /\ offered' \subseteq 1 .. Len(stream')
        /\ cursor' # None => cursor' <= Len(stream')
    BY <1>1, <2>2, SubscriptionAssumption
    DEF Project, TypeOK, loopVars, pastVars, Instants
  <2> QED
    BY <1>1, <2>2, <2>3, <2>4, <2>5, <2>6 DEF Project, TypeOK, loopVars, workVars, pastVars
<1>2. ASSUME NEW from \in 0 .. Len(stream), NEW dated \in BOOLEAN, Rebootstrap(from, dated)
      PROVE  TypeOK' /\ AnchorsBehindHead' /\ Grows
  <2>1. [cursor |-> from, at |-> now, dated |-> dated] \in Anchors
    BY SubscriptionAssumption DEF TypeOK, Anchors, Instants
  <2> QED
    BY <1>2, <2>1, SubscriptionAssumption
    DEF Rebootstrap, Passes, TypeOK, AnchorsBehindHead, Grows, Instants, loopVars, workVars,
        pastVars
<1>3. ASSUME NEW a \in Accounts, AccountJoins(a) PROVE TypeOK' /\ AnchorsBehindHead' /\ Grows
  BY <1>3 DEF AccountJoins, TypeOK, AnchorsBehindHead, Grows, loopVars, workVars, pastVars
<1> QED
  BY <1>1, <1>2, <1>3 DEF CoreStep

\* align_with_core.
LEMMA AlignTyped ==
  ASSUME TypeOK, AnchorsBehindHead, NEW get \in BOOLEAN,
         NEW post \in {"answered", "lost", "unreached"}, NEW dated \in BOOLEAN,
         NEW saved \in BOOLEAN, Align(get, post, dated, saved)
  PROVE  TypeOK' /\ AnchorsBehindHead' /\ Grows
<1>1. boots' \in Seq(Anchors) /\ now' \in Instants /\ now <= now'
  <2>1. [cursor |-> Len(stream), at |-> now, dated |-> dated] \in Anchors
    BY SubscriptionAssumption DEF TypeOK, Anchors, Instants
  <2> QED
    BY <2>1, SubscriptionAssumption DEF Align, Passes, TypeOK, Instants
<1>2. AnchorsBehindHead' /\ Grows
  BY DEF Align, TypeOK, AnchorsBehindHead, Grows
<1>3. cursor' \in Instants \cup {None} /\ (cursor' # None => cursor' <= Len(stream))
  <2> DEFINE init == IF (get /\ boots # <<>>) \/ post = "answered"
                       THEN boots'[Len(boots')].cursor ELSE 0
  <2>1. cursor' = IF saved THEN Aligned(init) ELSE cursor
    BY DEF Align
  <2>2. (get /\ boots # <<>>) \/ post = "answered" => boots' # <<>>
    BY DEF Align, TypeOK
  <2>3. init \in Instants /\ init <= Len(stream)
    <3>1. CASE (get /\ boots # <<>>) \/ post = "answered"
      <4>1. Len(boots') \in DOMAIN boots'
        BY <3>1, <2>2, <1>1
      <4>2. stream' = stream
        BY DEF Align
      <4> QED
        <5>1. boots'[Len(boots')].cursor \in Instants
          <6>1. boots'[Len(boots')] \in Anchors
            BY <4>1, <1>1
          <6> QED
            BY <6>1 DEF Anchors
        <5>2. boots'[Len(boots')].cursor <= Len(stream)
          BY <4>1, <4>2, <1>2 DEF AnchorsBehindHead
        <5> QED
          BY <3>1, <5>1, <5>2
    <3>2. CASE ~((get /\ boots # <<>>) \/ post = "answered")
      BY <3>2, SubscriptionAssumption DEF TypeOK, Instants
    <3> HIDE DEF init
    <3> QED
      BY <3>1, <3>2
  <2> HIDE DEF init
  <2> QED
    BY <2>1, <2>3 DEF Aligned, TypeOK
<1>4. pc' \in Steps /\ (pc' \in {"fetch", "events", "save"} => cursor' # None) /\ pc' # "save"
  <2> DEFINE init == IF (get /\ boots # <<>>) \/ post = "answered"
                       THEN boots'[Len(boots')].cursor ELSE 0
  <2>1. cursor' = IF saved THEN Aligned(init) ELSE cursor
    BY DEF Align
  <2>2. (get /\ boots # <<>>) \/ post = "answered" => boots' # <<>>
    BY DEF Align, TypeOK
  <2>3. init \in Nat
    <3>1. boots' # <<>> => boots'[Len(boots')] \in Anchors
      BY <1>1
    <3> QED
      BY <3>1, <2>2 DEF Anchors, Instants
  <2> QED
    BY <2>1, <2>3, SubscriptionAssumption DEF Align, Aligned, TypeOK, Steps, Instants
<1> QED
  BY <1>1, <1>2, <1>3, <1>4 DEF Align, TypeOK, Instants, loopVars, workVars

\* The steps that establish the floor.
LEMMA FloorStepTyped ==
  ASSUME TypeOK, AnchorsBehindHead, FloorStep
  PROVE  TypeOK' /\ AnchorsBehindHead' /\ Grows
<1>1. ASSUME NEW listed \in BOOLEAN, NEW derived \in BOOLEAN, EnsureFloor(listed, derived)
      PROVE  TypeOK' /\ AnchorsBehindHead' /\ Grows
  <2>1. FloorFromCore(derived) \in Floors
    BY <1>1, FloorType DEF EnsureFloor
  <2>2. floors' \in [Scopes -> Floors \cup {NoFloor}] /\ floorFile' = floors'
    BY <1>1, <2>1 DEF EnsureFloor, TypeOK
  <2>3. pc' \in Steps /\ pc' \notin {"fetch", "events", "save"}
    BY <1>1 DEF EnsureFloor, AfterFloor, Steps
  <2> QED
    BY <1>1, <2>2, <2>3
    DEF EnsureFloor, TypeOK, AnchorsBehindHead, Grows, coreVars, loopVars, workVars, pastVars
<1>2. ASSUME NEW listed \in BOOLEAN, NEW derived \in BOOLEAN, FloorSaveFails(listed, derived)
      PROVE  TypeOK' /\ AnchorsBehindHead' /\ Grows
  <2>1. FloorFromCore(derived) \in Floors
    BY <1>2, FloorType DEF FloorSaveFails
  <2>2. floors' \in [Scopes -> Floors \cup {NoFloor}]
    BY <1>2, <2>1 DEF FloorSaveFails, TypeOK
  <2> QED
    BY <1>2, <2>2
    DEF FloorSaveFails, TypeOK, Steps, AnchorsBehindHead, Grows, coreVars, loopVars, workVars,
        pastVars
<1>3. ASSUME FloorUnread PROVE TypeOK' /\ AnchorsBehindHead' /\ Grows
  BY <1>3
  DEF FloorUnread, AfterFloor, TypeOK, Steps, AnchorsBehindHead, Grows, coreVars, loopVars,
      workVars, pastVars
<1> QED
  BY <1>1, <1>2, <1>3 DEF FloorStep

\* The steps of a cycle.
LEMMA CycleStepTyped ==
  ASSUME TypeOK, AnchorsBehindHead, CycleStep
  PROVE  TypeOK' /\ AnchorsBehindHead' /\ Grows
<1> DEFINE Goal == TypeOK' /\ AnchorsBehindHead' /\ Grows
<1>1. ASSUME BeginCycle PROVE Goal
  BY <1>1
  DEF BeginCycle, Due, TypeOK, Steps, AnchorsBehindHead, Grows, coreVars, workVars, pastVars
<1>2. ASSUME NEW m \in Messages, Retry(m) PROVE Goal
  <2>1. /\ attempts' \in [Messages -> 0 .. ProvenanceMaxAttempts]
        /\ delivered' \subseteq Messages /\ suppressed' \subseteq Messages
    BY <1>2, HandleType DEF Retry
  <2> QED
    BY <1>2, <2>1 DEF Retry, TypeOK, AnchorsBehindHead, Grows, coreVars, pastVars
<1>3. ASSUME RetriesEnd PROVE Goal
  BY <1>3
  DEF RetriesEnd, TypeOK, Steps, AnchorsBehindHead, Grows, coreVars, loopVars, workVars, pastVars
<1>4. ASSUME Fetch PROVE Goal
  BY <1>4
  DEF Fetch, TypeOK, Steps, AnchorsBehindHead, Grows, coreVars, workVars, pastVars
<1>5. ASSUME HandleNext PROVE Goal
  <2>1. cursor \in Nat /\ cursor + 1 \in DOMAIN stream /\ cursor + 1 \in 1 .. Len(stream)
    BY <1>5 DEF HandleNext, TypeOK, Instants
  <2>2. stream[cursor + 1].msg \in Messages
    BY <2>1, Elements
  <2>3. /\ attempts' \in [Messages -> 0 .. ProvenanceMaxAttempts]
        /\ delivered' \subseteq Messages /\ suppressed' \subseteq Messages
    <3>1. CASE HandleMessage(stream[cursor + 1].msg)
      BY <2>2, <3>1, HandleType
    <3>2. CASE UNCHANGED workVars
      BY <3>2 DEF TypeOK, workVars
    <3> QED
      BY <1>5, <3>1, <3>2 DEF HandleNext
  <2> QED
    BY <1>5, <2>1, <2>3
    DEF HandleNext, TypeOK, Steps, AnchorsBehindHead, Grows, coreVars, loopVars
<1>6. ASSUME SaveCursor PROVE Goal
  BY <1>6, SubscriptionAssumption
  DEF SaveCursor, TypeOK, Steps, Instants, AnchorsBehindHead, Grows, coreVars, loopVars, workVars,
      pastVars
<1>7. ASSUME EndCycle PROVE Goal
  BY <1>7
  DEF EndCycle, TypeOK, Steps, AnchorsBehindHead, Grows, coreVars, workVars, pastVars
<1> QED
  BY <1>1, <1>2, <1>3, <1>4, <1>5, <1>6, <1>7 DEF CycleStep

\* Every step.
LEMMA StepTyped ==
  TypeOK /\ AnchorsBehindHead /\ [Next]_vars => TypeOK' /\ AnchorsBehindHead' /\ Grows
<1> SUFFICES ASSUME TypeOK, AnchorsBehindHead, [Next]_vars
             PROVE  TypeOK' /\ AnchorsBehindHead' /\ Grows
  OBVIOUS
<1>1. CASE CoreStep
  BY <1>1, CoreStepTyped
<1>2. CASE Start
  BY <1>2
  DEF Start, TypeOK, Steps, AnchorsBehindHead, Grows, coreVars, loopVars, workVars, pastVars
<1>3. CASE AlignStep
  BY <1>3, AlignTyped DEF AlignStep
<1>4. CASE FloorStep
  BY <1>4, FloorStepTyped
<1>5. CASE CycleStep
  BY <1>5, CycleStepTyped
<1>6. CASE CycleFails
  BY <1>6
  DEF CycleFails, TypeOK, Steps, AnchorsBehindHead, Grows, coreVars, workVars, pastVars
<1>7. CASE End
  BY <1>7, SubscriptionAssumption
  DEF End, TypeOK, Steps, NoFloors, Scopes, AnchorsBehindHead, Grows, coreVars, workVars
<1>8. CASE UNCHANGED vars
  BY <1>8
  DEF vars, TypeOK, AnchorsBehindHead, Grows, coreVars, loopVars, workVars, pastVars
<1> QED
  BY <1>1, <1>2, <1>3, <1>4, <1>5, <1>6, <1>7, <1>8 DEF Next

\* The state is well typed, and Core's records lie within the stream, in every
\* reachable state.
THEOREM Typed == Spec => []TypeOK
<1>1. Init => TypeOK /\ AnchorsBehindHead
  BY InitTyped
<1>2. (TypeOK /\ AnchorsBehindHead) /\ [Next]_vars => (TypeOK /\ AnchorsBehindHead)'
  BY StepTyped
<1> QED
  BY <1>1, <1>2, PTL DEF Spec

-----------------------------------------------------------------------------
(***************************************************************************)
(* Core's stream, its clock and the origins of messages.                   *)
(***************************************************************************)
\* A step leaves the stream alone, or appends one event to it.
LEMMA StreamMoves ==
  ASSUME TypeOK, [Next]_vars
  PROVE  \/ UNCHANGED <<stream, firstSeen>> /\ now <= now'
         \/ \E m \in Messages : Project(m)
<1>1. now \in Nat
  BY SubscriptionAssumption DEF TypeOK, Instants
<1>2. CASE CoreStep
  <2>1. ASSUME NEW from, NEW dated, Rebootstrap(from, dated)
        PROVE  UNCHANGED <<stream, firstSeen>> /\ now <= now'
    BY <1>1, <2>1 DEF Rebootstrap, Passes
  <2>2. ASSUME NEW a, AccountJoins(a) PROVE UNCHANGED <<stream, firstSeen>> /\ now <= now'
    BY <1>1, <2>2 DEF AccountJoins
  <2> QED
    BY <1>2, <2>1, <2>2 DEF CoreStep
<1>3. CASE AlignStep
  BY <1>1, <1>3 DEF AlignStep, Align, Passes
<1>4. CASE FloorStep
  BY <1>1, <1>4 DEF FloorStep, EnsureFloor, FloorSaveFails, FloorUnread, coreVars
<1>5. CASE CycleStep
  BY <1>1, <1>5
  DEF CycleStep, BeginCycle, Retry, RetriesEnd, Fetch, HandleNext, SaveCursor, EndCycle, coreVars
<1>6. CASE Start \/ CycleFails \/ End \/ UNCHANGED vars
  BY <1>1, <1>6 DEF Start, CycleFails, End, vars, coreVars
<1> QED
  BY <1>2, <1>3, <1>4, <1>5, <1>6 DEF Next

\* The event that is appended.
LEMMA Projected ==
  ASSUME TypeOK, NEW m \in Messages, Project(m)
  PROVE  /\ Len(stream) \in Nat /\ DOMAIN stream = 1 .. Len(stream)
         /\ DOMAIN stream' = 1 .. Len(stream) + 1
         /\ \A n \in DOMAIN stream : stream'[n] = stream[n]
         /\ stream'[Len(stream) + 1].msg = m /\ stream'[Len(stream) + 1].at = now
         /\ firstSeen' = [firstSeen EXCEPT ![m] = IF @ = 0 THEN Len(stream) + 1 ELSE @]
         /\ now \in Nat /\ now' = now + 1
         /\ UNCHANGED <<boots, attempts, todo>>
<1>1. [msg |-> m, at |-> now] \in Events
  BY DEF TypeOK, Events
<1>2. now \in Nat
  BY SubscriptionAssumption DEF TypeOK, Instants
<1> QED
  BY <1>1, <1>2 DEF Project, Passes, TypeOK, loopVars, workVars

\* Time goes on with the stream.
LEMMA StepInTime ==
  ASSUME TypeOK, TypeOK', TimesGrow, [Next]_vars
  PROVE  TimesGrow'
<1>1. now \in Nat /\ now' \in Nat
  BY SubscriptionAssumption DEF TypeOK, Instants
<1>2. \A n \in DOMAIN stream : stream[n].at \in Nat
  <2>1. DOMAIN stream = 1 .. Len(stream)
    BY DEF TypeOK
  <2> QED
    BY <2>1, Elements, SubscriptionAssumption DEF Instants
<1>3. CASE UNCHANGED <<stream, firstSeen>> /\ now <= now'
  BY <1>1, <1>2, <1>3 DEF TimesGrow
<1>4. ASSUME NEW m \in Messages, Project(m) PROVE TimesGrow'
  <2>1. \A n \in DOMAIN stream' : n \in DOMAIN stream \/ n = Len(stream) + 1
    BY <1>4, Projected
  <2>2. ASSUME NEW n \in DOMAIN stream' PROVE stream'[n].at < now'
    BY <1>1, <1>2, <1>4, <2>1, <2>2, Projected DEF TimesGrow
  <2>3. ASSUME NEW i \in DOMAIN stream', NEW j \in DOMAIN stream', i < j
        PROVE  stream'[i].at < stream'[j].at
    <3>1. i \in DOMAIN stream
      BY <1>4, <2>3, Projected
    <3>2. CASE j \in DOMAIN stream
      BY <1>4, <2>3, <3>1, <3>2, Projected DEF TimesGrow
    <3>3. CASE j = Len(stream) + 1
      BY <1>4, <3>1, <3>3, Projected DEF TimesGrow
    <3> QED
      BY <2>1, <2>3, <3>2, <3>3
  <2> QED
    BY <2>2, <2>3 DEF TimesGrow
<1> QED
  BY <1>3, <1>4, StreamMoves

\* The event that is handed on is in the stream.
LEMMA NextEvent ==
  ASSUME TypeOK, HandleNext
  PROVE  cursor + 1 \in DOMAIN stream /\ stream[cursor + 1].msg \in Messages
<1>1. cursor + 1 \in 1 .. Len(stream)
  BY SubscriptionAssumption DEF HandleNext, TypeOK, Instants
<1> QED
  BY <1>1, Elements

\* A message that is handled has an event, and only such a message is deferred.
LEMMA StepDefersSeen ==
  ASSUME TypeOK, OriginsTrue, [Next]_vars, UNCHANGED <<stream, firstSeen>>
  PROVE  \A m \in Messages : attempts'[m] # 0 \/ m \in todo' => firstSeen[m] # 0
<1>1. ASSUME UNCHANGED attempts, todo' \subseteq todo \cup Due
      PROVE  \A m \in Messages : attempts'[m] # 0 \/ m \in todo' => firstSeen[m] # 0
  BY <1>1, SubscriptionAssumption DEF OriginsTrue, Due, TypeOK
<1>2. ASSUME NEW x \in Messages, HandleMessage(x) \/ UNCHANGED workVars, firstSeen[x] # 0,
             todo' \subseteq todo
      PROVE  \A m \in Messages : attempts'[m] # 0 \/ m \in todo' => firstSeen[m] # 0
  <2>1. \A m \in Messages : m # x => attempts'[m] = attempts[m]
    BY <1>2 DEF HandleMessage, Close, DeferMessage, Suppress, Deliver, TypeOK, workVars
  <2> QED
    BY <1>2, <2>1 DEF OriginsTrue
<1>3. CASE CoreStep \/ Start \/ AlignStep \/ FloorStep
  BY <1>1, <1>3
  DEF CoreStep, Project, Rebootstrap, AccountJoins, Start, AlignStep, Align, FloorStep,
      EnsureFloor, FloorSaveFails, FloorUnread, loopVars, workVars
<1>4. CASE BeginCycle \/ RetriesEnd \/ Fetch \/ SaveCursor \/ EndCycle \/ CycleFails \/ End
  BY <1>1, <1>4
  DEF BeginCycle, RetriesEnd, Fetch, SaveCursor, EndCycle, CycleFails, End, loopVars, workVars
<1>5. ASSUME NEW m \in Messages, Retry(m)
      PROVE  \A x \in Messages : attempts'[x] # 0 \/ x \in todo' => firstSeen[x] # 0
  <2>1. firstSeen[m] # 0 /\ HandleMessage(m) /\ todo' \subseteq todo
    BY <1>5 DEF Retry, OriginsTrue
  <2> QED
    BY <1>2, <2>1
<1>6. CASE HandleNext
  <2>1. cursor + 1 \in DOMAIN stream /\ stream[cursor + 1].msg \in Messages
    BY <1>6, NextEvent
  <2>2. firstSeen[stream[cursor + 1].msg] # 0
    BY <2>1 DEF OriginsTrue
  <2>3. /\ HandleMessage(stream[cursor + 1].msg) \/ UNCHANGED workVars
        /\ todo' = todo
    BY <1>6 DEF HandleNext, loopVars
  <2> QED
    BY <1>2, <2>1, <2>2, <2>3
<1>7. CASE UNCHANGED vars
  BY <1>1, <1>7 DEF vars, loopVars, workVars
<1> QED
  BY <1>3, <1>4, <1>5, <1>6, <1>7 DEF Next, CycleStep

\* The origins Core keeps stay those of the first events.
LEMMA StepKeepsOrigins ==
  ASSUME TypeOK, OriginsTrue, [Next]_vars
  PROVE  OriginsTrue'
<1>1. CASE UNCHANGED <<stream, firstSeen>>
  <2>1. \A m \in Messages : attempts'[m] # 0 \/ m \in todo' => firstSeen'[m] # 0
    BY <1>1, StepDefersSeen
  <2> QED
    BY <1>1, <2>1 DEF OriginsTrue
<1>2. ASSUME NEW m \in Messages, Project(m) PROVE OriginsTrue'
  <2>1. /\ DOMAIN stream = 1 .. Len(stream) /\ Len(stream) \in Nat
        /\ \A n \in DOMAIN stream' : n \in DOMAIN stream \/ n = Len(stream) + 1
        /\ DOMAIN stream' = 1 .. Len(stream) + 1
        /\ \A n \in DOMAIN stream : stream'[n] = stream[n] /\ stream[n].msg \in Messages
        /\ stream'[Len(stream) + 1].msg = m
    BY <1>2, Projected, Elements
  <2>2. \A x \in Messages : firstSeen'[x] = IF x = m /\ firstSeen[x] = 0 THEN Len(stream) + 1
                                            ELSE firstSeen[x]
    BY <1>2, Projected DEF TypeOK
  <2>3. ASSUME NEW n \in DOMAIN stream' PROVE firstSeen'[stream'[n].msg] \in 1 .. n
    <3>1. CASE n \in DOMAIN stream
      <4>1. firstSeen[stream[n].msg] \in 1 .. n
        BY <3>1 DEF OriginsTrue
      <4> QED
        BY <2>1, <2>2, <3>1, <4>1
    <3>2. CASE n = Len(stream) + 1
      <4>1. firstSeen[m] # 0 => firstSeen[m] \in 1 .. Len(stream)
        BY <2>1 DEF OriginsTrue
      <4> QED
        BY <2>1, <2>2, <3>2, <4>1
    <3> QED
      BY <2>1, <3>1, <3>2
  <2>4. ASSUME NEW x \in Messages, firstSeen'[x] # 0
        PROVE  firstSeen'[x] \in DOMAIN stream' /\ stream'[firstSeen'[x]].msg = x
    <3>1. CASE x = m /\ firstSeen[x] = 0
      BY <2>1, <2>2, <3>1
    <3>2. CASE ~(x = m /\ firstSeen[x] = 0)
      <4>1. firstSeen'[x] = firstSeen[x]
        BY <2>2, <3>2
      <4>2. firstSeen[x] \in DOMAIN stream /\ stream[firstSeen[x]].msg = x
        BY <2>4, <4>1 DEF OriginsTrue
      <4> QED
        BY <2>1, <4>1, <4>2
    <3> QED
      BY <3>1, <3>2
  <2>5. ASSUME NEW x \in Messages, attempts'[x] # 0 \/ x \in todo' PROVE firstSeen'[x] # 0
    <3>1. firstSeen[x] # 0
      BY <1>2, <2>5, Projected DEF OriginsTrue
    <3> QED
      BY <2>1, <2>2, <3>1
  <2> QED
    BY <2>3, <2>4, <2>5 DEF OriginsTrue
<1> QED
  BY <1>1, <1>2, StreamMoves

-----------------------------------------------------------------------------
(***************************************************************************)
(* Messages are judged by the floors, and the floors by the records.       *)
(***************************************************************************)
\* An instant a record stands for stays, whatever Core appends.
LEMMA BackedStable ==
  ASSUME TypeOK, Grows
  PROVE  \A b \in DOMAIN boots :
           InstantOf(boots[b]) # None =>
             b \in DOMAIN boots' /\ InstantOf(boots[b])' = InstantOf(boots[b])
<1> SUFFICES ASSUME NEW b \in DOMAIN boots, InstantOf(boots[b]) # None
             PROVE  b \in DOMAIN boots' /\ InstantOf(boots[b])' = InstantOf(boots[b])
  OBVIOUS
<1>1. b \in DOMAIN boots' /\ boots'[b] = boots[b]
  BY DEF Grows
<1>2. boots[b].cursor \in Nat
  BY Elements, SubscriptionAssumption DEF Instants
<1>3. InstantFrom(boots[b].cursor) # None =>
        /\ FirstFrom(boots[b].cursor) \in 1 .. Len(stream)
        /\ Len(stream) <= Len(stream')
        /\ stream'[FirstFrom(boots[b].cursor)] = stream[FirstFrom(boots[b].cursor)]
  BY <1>2, Elements DEF InstantFrom, FirstFrom, Grows, TypeOK
<1>4. CASE boots[b].dated
  BY <1>1, <1>4 DEF InstantOf
<1>5. CASE ~boots[b].dated
  BY <1>1, <1>3, <1>5 DEF InstantOf, InstantFrom, FirstFrom
<1> QED
  BY <1>4, <1>5

\* A floor that is anchored in a record stays anchored.
LEMMA FloorStable ==
  ASSUME TypeOK, Grows, NEW floor, Anchored(floor)
  PROVE  Anchored(floor)'
<1>1. floor.at # None => Backed(floor.at)'
  BY BackedStable DEF Anchored, Backed
<1>2. floor.cursor # None => BackedCursor(floor.cursor)'
  BY DEF Anchored, BackedCursor, Grows
<1> QED
  BY <1>1, <1>2 DEF Anchored

\* A message stays where it is, before a record or after it.
LEMMA SidesStay ==
  ASSUME TypeOK, AnchorsBehindHead, Grows, TimesGrow, [Next]_vars,
         NEW m \in Messages, NEW b \in DOMAIN boots
  PROVE  /\ b \in DOMAIN boots'
         /\ After(m, boots[b]) => After(m, boots[b])'
         /\ Before(m, boots[b]) => Before(m, boots[b])'
<1>1. b \in DOMAIN boots' /\ boots'[b] = boots[b]
  BY DEF Grows
<1>2. boots[b].cursor \in Nat /\ boots[b].cursor <= Len(stream) /\ Born[m] \in Nat
  BY Elements, SubscriptionAssumption DEF Instants, AnchorsBehindHead
<1>3. CASE UNCHANGED <<stream, firstSeen>>
  BY <1>1, <1>3 DEF After, Before
<1>4. ASSUME NEW x \in Messages, Project(x)
      PROVE  /\ After(m, boots[b]) => After(m, boots[b])'
             /\ Before(m, boots[b]) => Before(m, boots[b])'
  <2>1. /\ Len(stream) \in Nat /\ DOMAIN stream = 1 .. Len(stream)
        /\ DOMAIN stream' = 1 .. Len(stream) + 1
        /\ \A n \in DOMAIN stream : n \in DOMAIN stream' /\ stream'[n] = stream[n]
        /\ stream'[Len(stream) + 1].at = now /\ now \in Nat
    BY <1>4, Projected
  <2>2. \A n \in DOMAIN stream' : n \in DOMAIN stream \/ n = Len(stream) + 1
    BY <2>1
  <2>3. \A n \in DOMAIN stream : stream[n].at \in Nat /\ stream[n].at < now
    BY <2>1, Elements, SubscriptionAssumption DEF Instants, TimesGrow
  <2>4. CASE m \in Cursored
    <3>1. After(m, boots[b]) => After(m, boots[b])'
      BY <1>1, <1>2, <2>1, <2>2, <2>4 DEF After
    <3>2. Before(m, boots[b]) => Before(m, boots[b])'
      BY <1>1, <2>1, <2>4 DEF Before
    <3> QED
      BY <3>1, <3>2
  <2>5. CASE m \notin Cursored /\ boots[b].dated
    BY <1>1, <2>5 DEF After, Before
  <2>6. CASE m \notin Cursored /\ ~boots[b].dated
    <3>1. After(m, boots[b]) => After(m, boots[b])'
      BY <1>1, <2>1, <2>6 DEF After
    <3>2. ASSUME Before(m, boots[b]) PROVE Before(m, boots[b])'
      <4>1. PICK k \in DOMAIN stream : k >= boots[b].cursor /\ Born[m] < stream[k].at
        BY <2>6, <3>2 DEF Before
      <4>2. Born[m] < now
        BY <1>2, <2>1, <2>3, <4>1
      <4>3. ASSUME NEW n \in DOMAIN stream', n >= boots[b].cursor PROVE Born[m] < stream'[n].at
        BY <2>1, <2>2, <2>6, <3>2, <4>2, <4>3 DEF Before
      <4> QED
        BY <1>1, <2>1, <2>6, <4>1, <4>3 DEF Before
    <3> QED
      BY <3>1, <3>2
  <2> QED
    BY <2>4, <2>5, <2>6
<1> QED
  BY <1>1, <1>3, <1>4, StreamMoves

\* Without a new verdict, the old ones keep their reasons.
LEMMA VerdictsKept ==
  ASSUME TypeOK, AnchorsBehindHead, Grows, TimesGrow, [Next]_vars, JustifiedByAnchor,
         delivered' = delivered, suppressed' = suppressed
  PROVE  JustifiedByAnchor'
<1>1. delivered \subseteq Messages /\ suppressed \subseteq Messages
  BY DEF TypeOK
<1>2. ASSUME NEW m \in delivered PROVE \E b \in DOMAIN boots' : After(m, boots[b])'
  <2>1. PICK b \in DOMAIN boots : After(m, boots[b])
    BY DEF JustifiedByAnchor
  <2> QED
    BY <1>1, <2>1, SidesStay
<1>3. ASSUME NEW m \in suppressed PROVE \E b \in DOMAIN boots' : Before(m, boots[b])'
  <2>1. PICK b \in DOMAIN boots : Before(m, boots[b])
    BY DEF JustifiedByAnchor
  <2> QED
    BY <1>1, <2>1, SidesStay
<1> QED
  BY <1>2, <1>3 DEF JustifiedByAnchor

\* The instant a record without a date stands for is that of the earliest event from
\* its initial cursor on.
LEMMA EarliestFrom ==
  ASSUME TypeOK, TimesGrow, NEW b \in DOMAIN boots, InstantFrom(boots[b].cursor) # None
  PROVE  \E k \in DOMAIN stream :
           /\ k >= boots[b].cursor /\ InstantFrom(boots[b].cursor) = stream[k].at
           /\ \A n \in DOMAIN stream : n >= boots[b].cursor => stream[k].at <= stream[n].at
<1> DEFINE k == FirstFrom(boots[b].cursor)
<1>1. boots[b].cursor \in Nat
  BY Elements, SubscriptionAssumption DEF Instants
<1>2. k \in Nat /\ k >= boots[b].cursor /\ k >= 1
  BY <1>1 DEF FirstFrom
<1>3. DOMAIN stream = 1 .. Len(stream) /\ Len(stream) \in Nat
  BY DEF TypeOK
<1>4. k \in DOMAIN stream /\ InstantFrom(boots[b].cursor) = stream[k].at
  BY <1>2, <1>3 DEF InstantFrom
<1>5. ASSUME NEW n \in DOMAIN stream, n >= boots[b].cursor PROVE k <= n
  BY <1>1, <1>3, <1>5 DEF FirstFrom
<1>6. ASSUME NEW n \in DOMAIN stream, n >= boots[b].cursor PROVE stream[k].at <= stream[n].at
  <2>1. stream[k].at \in Nat /\ stream[n].at \in Nat
    BY <1>3, <1>4, Elements, SubscriptionAssumption DEF Instants
  <2>2. k = n \/ k < n
    BY <1>2, <1>3, <1>5, <1>6
  <2> QED
    BY <1>4, <2>1, <2>2 DEF TimesGrow
<1> HIDE DEF k
<1> QED
  BY <1>2, <1>4, <1>6

\* A comparison with a floor that is anchored in a record tells on which side of that
\* record the message lies.
LEMMA OriginTells ==
  ASSUME TypeOK, TimesGrow, OriginsTrue, FloorsAnchored,
         NEW m \in Messages, firstSeen[m] # 0, Comparable(m)
  PROVE  /\ Origin(m) >= Bound(m) => \E b \in DOMAIN boots : After(m, boots[b])
         /\ Origin(m) < Bound(m) => \E b \in DOMAIN boots : Before(m, boots[b])
<1>1. Anchored(FloorOf(AccountOf[m]))
  <2>1. AccountOf[m] \in Scopes /\ Wildcard \in Scopes
    BY SubscriptionAssumption DEF Scopes
  <2> QED
    BY <2>1 DEF FloorOf, FloorsAnchored
<1>2. DOMAIN stream = 1 .. Len(stream) /\ Len(stream) \in Nat /\ Born[m] \in Nat
  BY SubscriptionAssumption DEF TypeOK
<1>3. CASE m \in Cursored
  <2>1. PICK b \in DOMAIN boots : boots[b].cursor = Bound(m)
    BY <1>1, <1>3 DEF Comparable, Bound, Anchored, BackedCursor
  <2>2. boots[b].cursor \in Nat
    BY Elements, SubscriptionAssumption DEF Instants
  <2>3. /\ firstSeen[m] \in DOMAIN stream /\ stream[firstSeen[m]].msg = m
        /\ \A n \in DOMAIN stream : stream[n].msg = m => firstSeen[m] \in 1 .. n
    BY DEF OriginsTrue
  <2>4. Origin(m) >= Bound(m) => After(m, boots[b])
    BY <1>2, <1>3, <2>1, <2>2, <2>3 DEF Origin, After
  <2>5. Origin(m) < Bound(m) => Before(m, boots[b])
    BY <1>2, <1>3, <2>1, <2>2, <2>3 DEF Origin, Before
  <2> QED
    BY <2>4, <2>5
<1>4. CASE m \notin Cursored
  <2>1. PICK b \in DOMAIN boots : InstantOf(boots[b]) = Bound(m)
    BY <1>1, <1>4 DEF Comparable, Bound, Anchored, Backed
  <2>2. Bound(m) # None /\ Origin(m) = Born[m]
    BY <1>4 DEF Comparable, Origin
  <2>3. CASE boots[b].dated
    BY <1>4, <2>1, <2>2, <2>3 DEF InstantOf, After, Before
  <2>4. CASE ~boots[b].dated
    <3>1. InstantFrom(boots[b].cursor) = Bound(m)
      BY <2>1, <2>4 DEF InstantOf
    <3>2. PICK k \in DOMAIN stream :
            /\ k >= boots[b].cursor /\ Bound(m) = stream[k].at
            /\ \A n \in DOMAIN stream : n >= boots[b].cursor => stream[k].at <= stream[n].at
      BY <2>2, <3>1, EarliestFrom
    <3>3. \A n \in DOMAIN stream : stream[n].at \in Nat
      BY <1>2, Elements, SubscriptionAssumption DEF Instants
    <3>4. Origin(m) >= Bound(m) => After(m, boots[b])
      BY <1>4, <2>2, <2>4, <3>2 DEF After
    <3>5. ASSUME Origin(m) < Bound(m) PROVE Before(m, boots[b])
      <4>1. ASSUME NEW n \in DOMAIN stream, n >= boots[b].cursor PROVE Born[m] < stream[n].at
        BY <1>2, <2>2, <3>2, <3>3, <3>5, <4>1
      <4> QED
        BY <1>4, <2>4, <3>2, <4>1 DEF Before
    <3> QED
      BY <3>4, <3>5
  <2> QED
    BY <2>3, <2>4
<1> QED
  BY <1>3, <1>4

\* A new verdict has the floor of the account, or the wildcard's, for its reason.
LEMMA VerdictJustified ==
  ASSUME TypeOK, TimesGrow, OriginsTrue, FloorsAnchored, JustifiedByAnchor,
         UNCHANGED <<stream, boots>>, NEW m \in Messages, firstSeen[m] # 0, HandleMessage(m)
  PROVE  JustifiedByAnchor'
<1>1. \A x, b : After(x, boots[b])' = After(x, boots[b]) /\ Before(x, boots[b])' = Before(x, boots[b])
  BY DEF After, Before
<1>2. ASSUME NEW x \in delivered' PROVE \E b \in DOMAIN boots : After(x, boots[b])
  <2>1. CASE x \in delivered
    BY <2>1 DEF JustifiedByAnchor
  <2>2. CASE x \notin delivered
    <3>1. x = m /\ Comparable(m) /\ Origin(m) >= Bound(m)
      BY <1>2, <2>2 DEF HandleMessage, Close, DeferMessage, Suppress, Deliver
    <3> QED
      BY <3>1, OriginTells
  <2> QED
    BY <2>1, <2>2
<1>3. ASSUME NEW x \in suppressed' PROVE \E b \in DOMAIN boots : Before(x, boots[b])
  <2>1. CASE x \in suppressed
    BY <2>1 DEF JustifiedByAnchor
  <2>2. CASE x \notin suppressed
    <3>1. x = m /\ Comparable(m) /\ Origin(m) < Bound(m)
      BY <1>3, <2>2 DEF HandleMessage, Close, DeferMessage, Suppress, Deliver
    <3> QED
      BY <3>1, OriginTells
  <2> QED
    BY <2>1, <2>2
<1> QED
  BY <1>1, <1>2, <1>3 DEF JustifiedByAnchor

\* What ensure_from_core writes is anchored in the record in force.
LEMMA WrittenAnchored ==
  ASSUME TypeOK, boots # <<>>, NEW derived \in BOOLEAN
  PROVE  Anchored(FloorFromCore(derived))
<1>1. Len(boots) \in DOMAIN boots
  BY Elements
<1>2. FloorFromCore(derived).at # None => InstantOf(Anchor) = FloorFromCore(derived).at
  BY DEF InstantOf, FloorFromCore
<1>3. FloorFromCore(derived).cursor = Anchor.cursor
  BY DEF FloorFromCore
<1> QED
  BY <1>1, <1>2, <1>3 DEF Anchored, Backed, BackedCursor, Anchor

\* What a floor is anchored in depends on Core alone.
LEMMA FloorsStable ==
  ASSUME TypeOK, Grows, FloorsAnchored,
         \A s \in Scopes :
           /\ floors'[s] = floors[s] \/ floors'[s] = floorFile[s]
                \/ (boots # <<>> /\ \E derived \in BOOLEAN : floors'[s] = FloorFromCore(derived))
                \/ floors'[s] = NoFloor
           /\ floorFile'[s] = floorFile[s] \/ floorFile'[s] = floors'[s]
  PROVE  FloorsAnchored'
<1>1. Anchored(NoFloor)
  BY DEF Anchored, NoFloor
<1>2. ASSUME NEW s \in Scopes PROVE Anchored(floors'[s]) /\ Anchored(floorFile'[s])
  BY <1>1, WrittenAnchored DEF FloorsAnchored
<1>3. ASSUME NEW s \in Scopes PROVE Anchored(floors[s])' /\ Anchored(floorFile[s])'
  <2>1. ASSUME NEW floor, Anchored(floor) PROVE Anchored(floor)'
    BY <2>1, FloorStable
  <2> QED
    BY <1>2, FloorStable DEF Anchored, Backed, BackedCursor
<1> QED
  BY <1>3 DEF FloorsAnchored

\* Every step keeps the floors anchored in records.
LEMMA StepFloors ==
  ASSUME TypeOK, Grows, FloorsAnchored, [Next]_vars
  PROVE  FloorsAnchored'
<1>1. CASE UNCHANGED <<floors, floorFile>>
  BY <1>1, FloorsStable
<1>2. CASE Start
  BY <1>2, FloorsStable DEF Start
<1>3. ASSUME NEW listed \in BOOLEAN, NEW derived \in BOOLEAN,
             EnsureFloor(listed, derived) \/ FloorSaveFails(listed, derived)
      PROVE  FloorsAnchored'
  <2>1. /\ \A s \in Scopes : floors'[s] = FloorFromCore(derived) \/ floors'[s] = floors[s]
        /\ floorFile' = floors' \/ floorFile' = floorFile
        /\ boots # <<>>
    BY <1>3 DEF EnsureFloor, FloorSaveFails
  <2> QED
    BY <2>1, FloorsStable
<1>4. CASE End
  BY <1>4, FloorsStable DEF End, NoFloors
<1> QED
  BY <1>1, <1>2, <1>3, <1>4
  DEF Next, CoreStep, Project, Rebootstrap, AccountJoins, AlignStep, Align, FloorStep, FloorUnread,
      CycleStep, BeginCycle, Retry, RetriesEnd, Fetch, HandleNext, SaveCursor, EndCycle, CycleFails,
      vars

\* Every step keeps the verdicts justified.
LEMMA StepJustified ==
  ASSUME TypeOK, AnchorsBehindHead, Grows, TimesGrow, OriginsTrue, FloorsAnchored,
         JustifiedByAnchor, [Next]_vars
  PROVE  JustifiedByAnchor'
<1>1. CASE UNCHANGED <<delivered, suppressed>>
  BY <1>1, VerdictsKept
<1>2. ASSUME NEW m \in Messages, Retry(m) PROVE JustifiedByAnchor'
  <2>1. firstSeen[m] # 0 /\ HandleMessage(m) /\ UNCHANGED <<stream, boots>>
    BY <1>2 DEF Retry, OriginsTrue, coreVars
  <2> QED
    BY <2>1, VerdictJustified
<1>3. CASE HandleNext
  <2>1. stream[cursor + 1].msg \in Messages /\ firstSeen[stream[cursor + 1].msg] # 0
    BY <1>3, NextEvent DEF OriginsTrue
  <2>2. CASE HandleMessage(stream[cursor + 1].msg)
    <3>1. UNCHANGED <<stream, boots>>
      BY <1>3 DEF HandleNext, coreVars
    <3> QED
      BY <2>1, <2>2, <3>1, VerdictJustified
  <2>3. CASE UNCHANGED workVars
    BY <1>1, <2>3 DEF workVars
  <2> QED
    BY <1>3, <2>2, <2>3 DEF HandleNext
<1> QED
  BY <1>1, <1>2, <1>3
  DEF Next, CoreStep, Project, Rebootstrap, AccountJoins, Start, AlignStep, Align, FloorStep,
      EnsureFloor, FloorSaveFails, FloorUnread, CycleStep, BeginCycle, RetriesEnd, Fetch, SaveCursor,
      EndCycle, CycleFails, End, vars, workVars

\* Every delivered message belongs to the time after a bootstrap record of Core, and
\* every suppressed one to the time before one, for any stream, any outages, any
\* number of bootstraps, and whether messages are judged by cursor or by clock.
THEOREM Justified == Spec => []JustifiedByAnchor
<1> DEFINE I == /\ TypeOK /\ AnchorsBehindHead /\ TimesGrow /\ OriginsTrue
                /\ FloorsAnchored /\ JustifiedByAnchor
<1>1. Init => I
  <2> SUFFICES ASSUME Init PROVE I
    OBVIOUS
  <2>1. DOMAIN stream = {} /\ FloorsAnchored /\ JustifiedByAnchor
    BY DEF Init, FloorsAnchored, Anchored, JustifiedByAnchor, NoFloors, NoFloor
  <2>2. TimesGrow
    BY <2>1 DEF TimesGrow
  <2>3. OriginsTrue
    BY <2>1 DEF OriginsTrue, Init
  <2> QED
    BY <2>1, <2>2, <2>3, InitTyped
<1>2. I /\ [Next]_vars => I'
  BY StepTyped, StepInTime, StepKeepsOrigins, StepFloors, StepJustified
<1> QED
  BY <1>1, <1>2, PTL DEF Spec

-----------------------------------------------------------------------------
(***************************************************************************)
(* The cursor.                                                             *)
(***************************************************************************)
\* What an alignment makes of the cursor: it leaves it, or moves it up to the
\* initial cursor of the record in force; a blind one starts at 0.
LEMMA AlignedCursor ==
  ASSUME TypeOK, AlignStep
  PROVE  /\ \/ cursor' = cursor
            \/ /\ cursor = None \/ cursor <= cursor'
               /\ \E b \in DOMAIN boots' : cursor' = boots'[b].cursor
            \/ cursor = None /\ cursor' = 0 /\ blind'
         /\ blind => blind'
         /\ stream' = stream /\ offered' = offered /\ pc' # "save"
<1> PICK get \in BOOLEAN, dated \in BOOLEAN, saved \in BOOLEAN,
         post \in {"answered", "lost", "unreached"} : Align(get, post, dated, saved)
  BY DEF AlignStep
<1> DEFINE told == (get /\ boots # <<>>) \/ post = "answered"
           init == boots'[Len(boots')].cursor
<1>1. /\ cursor' = IF saved THEN Aligned(IF told THEN init ELSE 0) ELSE cursor
      /\ blind' = (blind \/ (saved /\ cursor = None /\ ~told))
      /\ stream' = stream /\ offered' = offered /\ pc' # "save"
  BY DEF Align
<1>2. told => Len(boots') \in DOMAIN boots' /\ init \in Nat
  <2>1. boots' \in Seq(Anchors)
    <3>1. [cursor |-> Len(stream), at |-> now, dated |-> dated] \in Anchors
      BY SubscriptionAssumption DEF TypeOK, Anchors, Instants
    <3> QED
      BY <3>1 DEF Align, TypeOK
  <2>2. told => boots' # <<>>
    BY DEF Align, TypeOK
  <2>3. told => Len(boots') \in DOMAIN boots' /\ boots'[Len(boots')] \in Anchors
    BY <2>1, <2>2
  <2> QED
    BY <2>3, SubscriptionAssumption DEF Anchors, Instants
<1>3. cursor = None \/ cursor \in Nat
  BY SubscriptionAssumption DEF TypeOK, Instants
<1> HIDE DEF told, init
<1>4. CASE saved /\ told
  <2>1. cursor' = cursor \/ ((cursor = None \/ cursor <= cursor') /\ cursor' = init)
    BY <1>1, <1>2, <1>3, <1>4 DEF Aligned
  <2>2. Len(boots') \in DOMAIN boots' /\ init = boots'[Len(boots')].cursor
    BY <1>2, <1>4 DEF init
  <2> QED
    BY <1>1, <2>1, <2>2
<1>5. CASE saved /\ ~told
  <2>1. cursor' = Aligned(0)
    BY <1>1, <1>5
  <2>2. CASE cursor = None
    BY <1>1, <1>5, <2>1, <2>2 DEF Aligned
  <2>3. CASE cursor \in Nat
    <3>1. ~(cursor < 0) /\ cursor # None
      BY <2>3, SubscriptionAssumption
    <3> QED
      BY <1>1, <2>1, <3>1 DEF Aligned
  <2> QED
    BY <1>3, <2>2, <2>3
<1>6. CASE ~saved
  BY <1>1, <1>6
<1> QED
  BY <1>4, <1>5, <1>6

\* The other steps leave the cursor alone, but for the one that saves it.
LEMMA OtherCursor ==
  ASSUME TypeOK, [Next]_vars, ~AlignStep
  PROVE  /\ cursor' = cursor \/ (SaveCursor /\ cursor' = cursor + 1)
         /\ blind' = blind
BY DEF Next, CoreStep, Project, Rebootstrap, AccountJoins, Start, FloorStep, EnsureFloor,
       FloorSaveFails, FloorUnread, CycleStep, BeginCycle, Retry, RetriesEnd, Fetch, HandleNext,
       SaveCursor, EndCycle, CycleFails, End, vars, pastVars

\* Events are handed on one at a time, and the cursor then waits to be saved.
LEMMA OfferedStep ==
  ASSUME TypeOK, [Next]_vars
  PROVE  /\ offered' = offered \/ (HandleNext /\ offered' = offered \cup {cursor + 1})
         /\ pc' = "save" => (pc = "save" /\ cursor' = cursor) \/ HandleNext
<1>1. CASE AlignStep
  BY <1>1, AlignedCursor
<1>2. CASE FloorStep
  BY <1>2 DEF FloorStep, EnsureFloor, FloorSaveFails, FloorUnread, AfterFloor, pastVars
<1>3. CASE ~AlignStep /\ ~FloorStep
  BY <1>3
  DEF Next, CoreStep, Project, Rebootstrap, AccountJoins, Start, CycleStep, BeginCycle, Retry,
      RetriesEnd, Fetch, HandleNext, SaveCursor, EndCycle, CycleFails, End, vars, pastVars
<1> QED
  BY <1>1, <1>2, <1>3

\* The saved cursor never moves back: not by a bootstrap, an outage or a restart.
THEOREM Monotone == Spec => CursorMonotone
<1>1. TypeOK /\ [Next]_vars => [cursor # None => cursor' # None /\ cursor' >= cursor]_vars
  <2> SUFFICES ASSUME TypeOK, [Next]_vars, cursor # None
               PROVE  cursor' # None /\ cursor' >= cursor
    OBVIOUS
  <2>1. cursor \in Nat
    BY SubscriptionAssumption DEF TypeOK, Instants
  <2>2. CASE AlignStep
    <3>1. cursor' = cursor \/ cursor <= cursor'
      BY <2>2, AlignedCursor
    <3>2. cursor' \in Nat
      <4>1. cursor' = cursor \/ \E b \in DOMAIN boots' : cursor' = boots'[b].cursor
        BY <2>2, AlignedCursor
      <4>2. boots' \in Seq(Anchors)
        <5>1. \A dated \in BOOLEAN :
                [cursor |-> Len(stream), at |-> now, dated |-> dated] \in Anchors
          BY SubscriptionAssumption DEF TypeOK, Anchors, Instants
        <5> QED
          BY <2>2, <5>1 DEF AlignStep, Align, TypeOK
      <4>3. \A b \in DOMAIN boots' : boots'[b] \in Anchors
        BY <4>2
      <4> QED
        BY <2>1, <4>1, <4>3, SubscriptionAssumption DEF Anchors, Instants
    <3> QED
      BY <2>1, <3>1, <3>2, SubscriptionAssumption
  <2>3. CASE ~AlignStep
    BY <2>1, <2>3, OtherCursor, SubscriptionAssumption
  <2> QED
    BY <2>2, <2>3
<1>2. Spec => []TypeOK
  BY Typed
<1> QED
  BY <1>1, <1>2, PTL DEF Spec, CursorMonotone

\* Every step keeps the cursor behind what was handled.
LEMMA StepSkipsNothing ==
  ASSUME TypeOK, Grows, SavedIsHandled, NothingSkipped, [Next]_vars
  PROVE  SavedIsHandled' /\ NothingSkipped'
<1>1. SavedIsHandled'
  BY OfferedStep DEF SavedIsHandled, HandleNext
<1>2. offered \subseteq offered'
  BY OfferedStep
<1>3. ASSUME cursor' # None, NEW n \in 1 .. cursor'
      PROVE  n \in offered' \/ \E b \in DOMAIN boots' : n <= boots'[b].cursor
  <2>1. CASE cursor' = cursor
    BY <1>2, <1>3, <2>1 DEF NothingSkipped, Grows
  <2>2. CASE SaveCursor /\ cursor' = cursor + 1
    <3>1. cursor \in Nat /\ cursor # None /\ cursor + 1 \in offered
      BY <2>2, SubscriptionAssumption DEF SaveCursor, SavedIsHandled, TypeOK, Instants
    <3>2. n \in 1 .. cursor \/ n = cursor + 1
      BY <1>3, <2>2, <3>1
    <3> QED
      BY <1>2, <3>1, <3>2 DEF NothingSkipped, Grows
  <2>3. CASE \E b \in DOMAIN boots' : cursor' = boots'[b].cursor
    BY <1>3, <2>3
  <2>4. CASE cursor' = 0
    BY <1>3, <2>4
  <2> QED
    BY <2>1, <2>2, <2>3, <2>4, AlignedCursor, OtherCursor
<1> QED
  BY <1>1, <1>3 DEF NothingSkipped

\* The cursor passes over no event that the handler has not had, unless Core put
\* the beginning of the subscription after it.
THEOREM NoneSkipped == Spec => []NothingSkipped
<1> DEFINE I == TypeOK /\ AnchorsBehindHead /\ SavedIsHandled /\ NothingSkipped
<1>1. Init => I
  <2>1. Init => SavedIsHandled /\ NothingSkipped
    BY DEF Init, SavedIsHandled, NothingSkipped
  <2> QED
    BY <2>1, InitTyped
<1>2. I /\ [Next]_vars => I'
  BY StepTyped, StepSkipsNothing
<1> QED
  BY <1>1, <1>2, PTL DEF Spec

\* Every step keeps the cursor at or after an initial cursor.
LEMMA StepBlocksHistory ==
  ASSUME TypeOK, Grows, CursorAnchored, HistoryBlocked, [Next]_vars
  PROVE  CursorAnchored' /\ HistoryBlocked'
<1>1. blind => blind'
  BY AlignedCursor, OtherCursor
<1>2. cursor # None => cursor \in Nat
  BY SubscriptionAssumption DEF TypeOK, Instants
<1>3. \A b \in DOMAIN boots : boots[b].cursor \in Nat
  BY Elements, SubscriptionAssumption DEF Instants
<1>4. CursorAnchored'
  <2>1. CASE cursor' = cursor
    BY <1>1, <2>1 DEF CursorAnchored, Grows
  <2>2. CASE SaveCursor /\ cursor' = cursor + 1
    <3>1. cursor # None
      BY <2>2 DEF SaveCursor, TypeOK
    <3>2. \A b \in DOMAIN boots : boots[b].cursor <= cursor => boots[b].cursor <= cursor + 1
      BY <1>2, <1>3, <3>1
    <3> QED
      BY <1>1, <2>2, <3>1, <3>2 DEF CursorAnchored, Grows
  <2>3. CASE AlignStep /\ \E b \in DOMAIN boots' : cursor' = boots'[b].cursor
    <3>1. boots' \in Seq(Anchors)
      <4>1. \A dated \in BOOLEAN :
              [cursor |-> Len(stream), at |-> now, dated |-> dated] \in Anchors
        BY SubscriptionAssumption DEF TypeOK, Anchors, Instants
      <4> QED
        BY <2>3, <4>1 DEF AlignStep, Align, TypeOK
    <3>2. \A b \in DOMAIN boots' : boots'[b] \in Anchors
      BY <3>1
    <3>3. \A b \in DOMAIN boots' : boots'[b].cursor \in Nat
      BY <3>2, SubscriptionAssumption DEF Anchors, Instants
    <3> QED
      BY <2>3, <3>3 DEF CursorAnchored
  <2>4. CASE blind'
    BY <2>4 DEF CursorAnchored
  <2> QED
    BY <2>1, <2>2, <2>3, <2>4, AlignedCursor, OtherCursor
<1>5. HistoryBlocked'
  <2>1. CASE offered' = offered
    BY <1>1, <2>1 DEF HistoryBlocked, Grows
  <2>2. CASE HandleNext /\ offered' = offered \cup {cursor + 1}
    <3>1. cursor # None
      BY <2>2 DEF HandleNext, TypeOK
    <3>2. ~blind => \E b \in DOMAIN boots : cursor + 1 > boots[b].cursor
      BY <1>2, <1>3, <3>1 DEF CursorAnchored
    <3> QED
      BY <1>1, <2>2, <3>2 DEF HistoryBlocked, Grows
  <2> QED
    BY <2>1, <2>2, OfferedStep
<1> QED
  BY <1>4, <1>5

\* Unless 0 was saved for want of an answer, no event is handled that lies before
\* every beginning Core gave the subscription.
THEOREM Blocked == Spec => []HistoryBlocked
<1> DEFINE I == TypeOK /\ AnchorsBehindHead /\ CursorAnchored /\ HistoryBlocked
<1>1. Init => I
  <2>1. Init => CursorAnchored /\ HistoryBlocked
    BY DEF Init, CursorAnchored, HistoryBlocked
  <2> QED
    BY <2>1, InitTyped
<1>2. I /\ [Next]_vars => I'
  BY StepTyped, StepBlocksHistory
<1> QED
  BY <1>1, <1>2, PTL DEF Spec

-----------------------------------------------------------------------------
(***************************************************************************)
(* The subscription implements StreamReader.                               *)
(***************************************************************************)
\* A new record adds its cursor to the beginnings.
LEMMA RecordAdds ==
  ASSUME TypeOK, NEW r \in Anchors, boots' = Append(boots, r)
  PROVE  Beginnings' = Beginnings \cup {r.cursor}
<1>1. /\ DOMAIN boots = 1 .. Len(boots) /\ Len(boots) \in Nat
      /\ DOMAIN boots' = 1 .. Len(boots) + 1
      /\ \A b \in 1 .. Len(boots) : boots'[b] = boots[b]
      /\ boots'[Len(boots) + 1] = r
  BY DEF TypeOK
<1>2. ASSUME NEW n \in Beginnings' PROVE n \in Beginnings \cup {r.cursor}
  <2>1. PICK b \in 1 .. Len(boots) + 1 : n = boots'[b].cursor
    BY <1>1, <1>2 DEF Beginnings
  <2>2. b = Len(boots) + 1 \/ b \in 1 .. Len(boots)
    BY <1>1, <2>1
  <2> QED
    BY <1>1, <2>1, <2>2 DEF Beginnings
<1>3. ASSUME NEW n \in Beginnings \cup {r.cursor} PROVE n \in Beginnings'
  <2>1. CASE n = r.cursor
    <3>1. Len(boots) + 1 \in DOMAIN boots'
      BY <1>1
    <3> QED
      BY <1>1, <2>1, <3>1 DEF Beginnings
  <2>2. CASE n \in Beginnings
    <3>1. PICK b \in 1 .. Len(boots) : n = boots[b].cursor
      BY <1>1, <2>2 DEF Beginnings
    <3>2. b \in DOMAIN boots' /\ boots'[b].cursor = n
      BY <1>1, <3>1
    <3> QED
      BY <3>2 DEF Beginnings
  <2> QED
    BY <1>3, <2>1, <2>2
<1> QED
  BY <1>2, <1>3

\* Core appends, bootstraps again, lists an account.
LEMMA CoreReads ==
  ASSUME TypeOK, CoreStep PROVE [Reading!Next]_(Reading!vars)
<1>1. ASSUME NEW m \in Messages, Project(m) PROVE [Reading!Next]_(Reading!vars)
  <2>1. Len(stream') = Len(stream) + 1 /\ UNCHANGED <<boots, cursor, pc>>
    <3>1. [msg |-> m, at |-> now] \in Events
      BY DEF TypeOK, Events
    <3> QED
      BY <1>1, <3>1 DEF Project, TypeOK
  <2>2. Reading!Publish
    BY <2>1 DEF Reading!Publish, Beginnings, LastRead
  <2> QED
    BY <2>2 DEF Reading!Next
<1>2. ASSUME NEW from \in 0 .. Len(stream), NEW dated \in BOOLEAN, Rebootstrap(from, dated)
      PROVE  [Reading!Next]_(Reading!vars)
  <2> DEFINE r == [cursor |-> from, at |-> now, dated |-> dated]
  <2>1. r \in Anchors
    BY SubscriptionAssumption DEF TypeOK, Anchors, Instants
  <2>2. boots' = Append(boots, r) /\ UNCHANGED <<stream, cursor, pc>>
    BY <1>2 DEF Rebootstrap
  <2>3. Beginnings' = Beginnings \cup {from}
    <3> HIDE DEF r
    <3>1. Beginnings' = Beginnings \cup {r.cursor}
      BY <2>1, <2>2, RecordAdds
    <3> QED
      BY <3>1 DEF r
  <2>4. Reading!Begin(from)
    BY <2>2, <2>3 DEF Reading!Begin, LastRead
  <2> QED
    BY <2>4 DEF Reading!Next
<1>3. ASSUME NEW a \in Accounts, AccountJoins(a) PROVE [Reading!Next]_(Reading!vars)
  BY <1>3 DEF AccountJoins, Reading!vars, Beginnings, LastRead
<1> QED
  BY <1>1, <1>2, <1>3 DEF CoreStep

\* What Aligned makes of the cursor: it moves up to n, or stays.
LEMMA AlignmentMoves ==
  ASSUME cursor = None \/ cursor \in Nat, NEW n \in Nat, cursor' = Aligned(n)
  PROVE  LastRead \in Nat /\ (LastRead' = LastRead \/ (LastRead < n /\ LastRead' = n))
<1>1. None \notin Nat
  BY SubscriptionAssumption
<1>2. CASE cursor = None
  <2>1. cursor' = n /\ LastRead = 0
    BY <1>2 DEF Aligned, LastRead
  <2>2. LastRead' = n
    BY <1>1, <2>1 DEF LastRead
  <2> QED
    BY <2>1, <2>2
<1>3. CASE cursor \in Nat
  <2>1. cursor' = IF cursor < n THEN n ELSE cursor
    BY <1>1, <1>3 DEF Aligned
  <2>2. LastRead = cursor /\ LastRead' = cursor'
    BY <1>1, <1>3, <2>1 DEF LastRead
  <2> QED
    BY <1>3, <2>1, <2>2
<1> QED
  BY <1>2, <1>3

\* An alignment meets or makes the record in force, and moves the cursor up to it or
\* leaves it; without an answer a missing cursor becomes 0.
LEMMA AlignReads ==
  ASSUME TypeOK, AnchorsBehindHead, AlignStep PROVE [Reading!Next]_(Reading!vars)
<1> PICK get \in BOOLEAN, dated \in BOOLEAN, saved \in BOOLEAN,
         post \in {"answered", "lost", "unreached"} : Align(get, post, dated, saved)
  BY DEF AlignStep
<1> DEFINE told == (get /\ boots # <<>>) \/ post = "answered"
           init == boots'[Len(boots')].cursor
           r == [cursor |-> Len(stream), at |-> now, dated |-> dated]
<1>1. /\ cursor' = IF saved THEN Aligned(IF told THEN init ELSE 0) ELSE cursor
      /\ stream' = stream /\ pc \in {"align", "realign"} /\ pc' # "save"
  BY DEF Align
<1>2. r \in Anchors
  BY SubscriptionAssumption DEF TypeOK, Anchors, Instants
<1>3. TypeOK' /\ AnchorsBehindHead'
  BY AlignTyped
<1>4. \/ boots' = Append(boots, r)
      \/ boots' = boots /\ (told => boots # <<>>)
  BY DEF Align
<1>5. ASSUME boots' # <<>>
      PROVE  init \in 0 .. Len(stream) /\ Beginnings' = Beginnings \cup {init}
  <2>1. Len(boots') \in DOMAIN boots' /\ boots'[Len(boots')] \in Anchors
    BY <1>3, <1>5 DEF TypeOK
  <2>2. init \in 0 .. Len(stream)
    <3>1. init \in Nat /\ init <= Len(stream)
      BY <1>1, <1>3, <2>1, SubscriptionAssumption DEF AnchorsBehindHead, Anchors, Instants
    <3>2. Len(stream) \in Nat
      BY DEF TypeOK
    <3> QED
      BY <3>1, <3>2
  <2>3. CASE boots' = Append(boots, r)
    <3>1. boots'[Len(boots')] = r
      BY <1>2, <2>3 DEF TypeOK
    <3>2. Beginnings' = Beginnings \cup {r.cursor}
      <4> HIDE DEF r
      <4> QED
        BY <1>2, <2>3, RecordAdds
    <3> QED
      BY <2>2, <3>1, <3>2
  <2>4. CASE boots' = boots
    <3>1. init \in Beginnings /\ Beginnings' = Beginnings
      BY <2>1, <2>4 DEF Beginnings
    <3> QED
      BY <2>2, <3>1
  <2> QED
    BY <1>4, <2>3, <2>4
<1>6. cursor = None \/ cursor \in Nat
  BY SubscriptionAssumption DEF TypeOK, Instants
<1>7. told => boots' # <<>>
  <2>1. boots' = Append(boots, r) => boots' # <<>>
    BY <1>2 DEF TypeOK
  <2> QED
    BY <1>4, <2>1
<1> HIDE DEF told, init, r
<1>8. CASE boots' # <<>>
  <2>1. LastRead' = LastRead \/ (LastRead < init /\ LastRead' = init)
    <3>1. init \in Nat /\ 0 <= init /\ init # None
      BY <1>5, <1>8, SubscriptionAssumption
    <3>2. CASE saved /\ told
      <4>1. cursor' = Aligned(init)
        BY <1>1, <3>2
      <4> QED
        BY <1>6, <3>1, <4>1, AlignmentMoves
    <3>3. CASE saved /\ ~told
      <4>1. cursor' = Aligned(0)
        BY <1>1, <3>3
      <4> QED
        <5>1. LastRead \in Nat /\ (LastRead' = LastRead \/ LastRead < 0)
          BY <1>6, <4>1, AlignmentMoves
        <5> QED
          BY <5>1
    <3>4. CASE ~saved
      BY <1>1, <3>4 DEF LastRead
    <3> QED
      BY <3>2, <3>3, <3>4
  <2>2. Reading!Begin(init)
    BY <1>1, <1>5, <1>8, <2>1 DEF Reading!Begin
  <2> QED
    BY <1>5, <1>8, <2>2 DEF Reading!Next
<1>9. CASE boots' = <<>>
  <2>1. LastRead' = LastRead
    <3>1. ~told
      BY <1>7, <1>9
    <3>2. cursor' = IF saved THEN Aligned(0) ELSE cursor
      BY <1>1, <3>1
    <3>3. CASE saved
      <4>1. LastRead \in Nat /\ (LastRead' = LastRead \/ LastRead < 0)
        BY <1>6, <3>2, <3>3, AlignmentMoves
      <4> QED
        BY <4>1
    <3>4. CASE ~saved
      BY <3>2, <3>4 DEF LastRead
    <3> QED
      BY <3>3, <3>4
  <2>2. boots' = boots
    BY <1>2, <1>4, <1>9 DEF TypeOK
  <2>3. UNCHANGED Reading!vars
    BY <1>1, <2>1, <2>2 DEF Reading!vars, Beginnings
  <2> QED
    BY <2>3
<1> QED
  BY <1>8, <1>9

\* With every bootstrap, outage and restart the saved cursor goes through the stream
\* in order: over one handled event at a time, or forward to a beginning that Core
\* keeps of the subscription.
THEOREM ReadInOrder == Spec => ReadsInOrder
<1>1. Init => Reading!Init
  <2> SUFFICES ASSUME Init PROVE Reading!Init
    OBVIOUS
  <2>1. Beginnings = {} /\ Len(stream) = 0
    BY DEF Init, Beginnings
  <2> QED
    BY <2>1 DEF Init, Reading!Init, LastRead
<1>2. ASSUME TypeOK, AnchorsBehindHead, [Next]_vars PROVE [Reading!Next]_(Reading!vars)
  <2>1. CASE HandleNext
    <3>1. cursor \in Nat /\ cursor # None /\ page \in Nat /\ Len(stream) \in Nat
      BY <1>2, <2>1, SubscriptionAssumption DEF HandleNext, TypeOK, Instants
    <3>2. cursor < Len(stream) /\ pc = "events" /\ pc' = "save" /\ UNCHANGED <<stream, boots, cursor>>
      BY <1>2, <2>1, <3>1 DEF HandleNext, TypeOK, coreVars
    <3>3. Reading!Handle
      BY <3>1, <3>2 DEF Reading!Handle, Beginnings, LastRead
    <3> QED
      BY <3>3 DEF Reading!Next
  <2>2. CASE SaveCursor
    <3>1. cursor \in Nat /\ cursor # None /\ cursor + 1 # None
      BY <1>2, <2>2, SubscriptionAssumption DEF SaveCursor, TypeOK, Instants
    <3>2. Reading!Advance
      BY <2>2, <3>1 DEF SaveCursor, coreVars, Reading!Advance, Beginnings, LastRead
    <3> QED
      BY <3>2 DEF Reading!Next
  <2>3. ASSUME ~(CoreStep \/ AlignStep \/ HandleNext \/ SaveCursor)
        PROVE  [Reading!Next]_(Reading!vars)
    <3>1. UNCHANGED <<stream, boots, cursor>> /\ (pc' # "save" \/ pc' = pc)
      BY <1>2, <2>3
      DEF Next, Start, FloorStep, EnsureFloor, FloorSaveFails, FloorUnread, AfterFloor, CycleStep,
          BeginCycle, Retry, RetriesEnd, Fetch, EndCycle, CycleFails, End, vars, coreVars
    <3>2. UNCHANGED Reading!vars \/ Reading!GiveUp
      BY <3>1 DEF Reading!vars, Reading!GiveUp, Beginnings, LastRead
    <3> QED
      BY <3>2 DEF Reading!Next
  <2> QED
    BY <1>2, <2>1, <2>2, <2>3, CoreReads, AlignReads
<1>3. (TypeOK /\ AnchorsBehindHead) /\ [Next]_vars => (TypeOK /\ AnchorsBehindHead)'
  BY StepTyped
<1> QED
  BY <1>1, <1>2, <1>3, InitTyped, PTL DEF Spec, ReadsInOrder, Reading!Spec
=============================================================================
