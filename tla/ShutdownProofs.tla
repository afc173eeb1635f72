---------------------------- MODULE ShutdownProofs ----------------------------
(***************************************************************************)
(* Theorems about Shutdown, for every number of channels, signals and      *)
(* cursors: type correctness and the order of the phases.                  *)
(***************************************************************************)
EXTENDS Shutdown, TLAPS, WellFoundedInduction, FiniteSetTheorems

(***************************************************************************)
(* The invariant.                                                          *)
(***************************************************************************)
\* While a channel is made, it and the coordinator it gets exist.  The coordinator that
\* wrapped the master knows.
LoadingRight ==
  /\ loading # "no" => made \in Channels
  /\ loading \in {"install", "assign"} => got \in Channels
  /\ wrappedBy # 0 => wrappedBy \in Channels /\ installed[wrappedBy]

\* What a drained channel has behind it.
Done(g) == suppressed[g] /\ stopped[g] /\ g \in tried

\* A call that does the work of a coordinator has drained all that is not still to
\* come, and the channel at hand up to the step it is at.
Works(f) ==
  /\ f.step # "poll" /\ f.by \in Channels /\ ran[f.by]
  /\ \A g \in drains[f.by] : g \in f.rest \/ g = f.chan \/ Done(g)
  /\ f.step \in {"stop", "set", "join", "flush", "load", "call"} => suppressed[f.chan]
  /\ f.step \in {"join", "flush", "load", "call"} => stopped[f.chan]
  /\ f.step \in {"master", "wait", "exit"} => f.rest = {} /\ f.chan = 0

\* Each call is at a step of its kind.
FrameOK(t, f) ==
  /\ f.step \notin {"run", "master", "wait", "exit"} => f.chan \in Channels
  /\ f.step = "run" => f.rest = {}
  /\ t # Main => f.by = 0 /\ f.chan = t /\ f.step \in {"poll", "flush", "load", "call"}
  /\ t = Main /\ f.by = 0 => f.step \in {"stop", "set"}
  /\ t = Main /\ f.by # 0 /\ f.step # "run" => Works(f)

FramesOK == \A t \in Threads : \A i \in DOMAIN stack[t] : FrameOK(t, stack[t][i])

\* Who holds the locks of a channel.
HoldsStop(f, g)  == f.step = "set" /\ f.chan = g
HoldsFlush(f, g) == f.step \in {"load", "call"} /\ f.chan = g

StopLocks ==
  \A t \in Threads : \A g \in Channels :
    /\ \A i \in DOMAIN stack[t] : HoldsStop(stack[t][i], g) => stopLock[g] = t
    /\ stopLock[g] = t => \E i \in DOMAIN stack[t] : HoldsStop(stack[t][i], g)
    /\ \A i, j \in DOMAIN stack[t] :
         HoldsStop(stack[t][i], g) /\ HoldsStop(stack[t][j], g) => i = j

FlushLocks ==
  \A t \in Threads : \A g \in Channels :
    /\ \A i \in DOMAIN stack[t] : HoldsFlush(stack[t][i], g) => flushLock[g] = t
    /\ flushLock[g] = t => \E i \in DOMAIN stack[t] : HoldsFlush(stack[t][i], g)
    /\ \A i, j \in DOMAIN stack[t] :
         HoldsFlush(stack[t][i], g) /\ HoldsFlush(stack[t][j], g) => i = j

\* A coordinator works in one call, which stays until the process ends.
Working(i) == stack[Main][i].by # 0 /\ stack[Main][i].step # "run"

WorkOnce ==
  /\ \A i, j \in DOMAIN stack[Main] :
       Working(i) /\ Working(j) /\ stack[Main][i].by = stack[Main][j].by => i = j
  /\ (\E c \in Channels : ran[c]) /\ exited = 0 => \E i \in DOMAIN stack[Main] : Working(i)

\* Only the coordinator that wrapped the master has stopped it, after its drain.
StoppedRight ==
  /\ masterStops <= 1
  /\ masterStops > 0 =>
       /\ wrappedBy \in Channels /\ ran[wrappedBy]
       /\ \A g \in drains[wrappedBy] : Done(g)
       /\ \A i \in DOMAIN stack[Main] :
            Working(i) /\ stack[Main][i].by = wrappedBy => stack[Main][i].step \in {"wait", "exit"}

\* The process ends after the drain of the coordinator that ends it.
ExitedRight == exited # 0 => exited \in Channels /\ \A g \in drains[exited] : Done(g)

\* A flush in progress is of a channel whose flush is not complete.
FlushesRight ==
  \A g \in Channels :
    /\ Len(flushes[g]) <= 1
    /\ flushes[g] # <<>> => flushed[g]
    /\ flushed[g] => g \in tried
    /\ \A t \in Threads : \A i \in DOMAIN stack[t] : HoldsFlush(stack[t][i], g) => ~flushed[g]

ShutdownInv ==
  /\ TypeOK /\ LoadingRight /\ RegisteredCaptures /\ FramesOK /\ StopLocks /\ FlushLocks
  /\ WorkOnce /\ StoppedRight /\ ExitedRight /\ FlushesRight

-----------------------------------------------------------------------------
(***************************************************************************)
(* Lemmas about calls and the stack.                                       *)
(***************************************************************************)
LEMMA ThreadsAndChannels ==
  /\ Main \in Threads /\ Main \notin Channels /\ Channels \subseteq Threads
  /\ \A t \in Threads : t # Main => t \in Channels
  /\ Free \notin Threads /\ Channels \subseteq Nat /\ MaxChannels \in Nat
BY ShutdownAssumption DEF Main, Threads, Channels, Free

\* The fields of a call.
LEMMA CallType ==
  ASSUME NEW f \in Calls
  PROVE  /\ f.by \in Threads /\ f.chan \in Threads /\ f.rest \in SUBSET Channels
         /\ f.read \in 0 .. MaxCursor
         /\ f.step \in {"run", "suppress", "stop", "set", "join", "flush", "load", "call",
                        "master", "wait", "exit", "poll"}
BY DEF Calls

\* The call a busy thread is in.
LEMMA TopType ==
  ASSUME TypeOK, NEW t \in Threads, Busy(t)
  PROVE  /\ Len(stack[t]) \in DOMAIN stack[t] /\ Len(stack[t]) \in Nat
         /\ Top(t) \in Calls /\ Top(t) = stack[t][Len(stack[t])]
<1>1. stack[t] \in Seq(Calls)
  BY DEF TypeOK
<1>2. stack[t] # <<>>
  BY DEF Busy
<1> HIDE DEF Calls
<1>3. Len(stack[t]) \in 1 .. Len(stack[t]) /\ stack[t][Len(stack[t])] \in Calls
  BY <1>1, <1>2
<1> QED
  BY <1>1, <1>3 DEF Top

\* The three ways a stack changes.
ChangeTop(t, f) ==
  /\ stack' \in [Threads -> Seq(Calls)]
  /\ \A u \in Threads : DOMAIN stack'[u] = DOMAIN stack[u]
  /\ \A u \in Threads : \A i \in DOMAIN stack[u] :
       stack'[u][i] = IF u = t /\ i = Len(stack[t]) THEN f ELSE stack[u][i]

PopTop(t) ==
  /\ stack' \in [Threads -> Seq(Calls)]
  /\ \A u \in Threads : DOMAIN stack'[u] = IF u = t THEN DOMAIN stack[u] \ {Len(stack[t])}
                                                    ELSE DOMAIN stack[u]
  /\ \A u \in Threads : \A i \in DOMAIN stack'[u] : stack'[u][i] = stack[u][i]

PushTop(t, f) ==
  /\ stack' \in [Threads -> Seq(Calls)]
  /\ \A u \in Threads :
       /\ DOMAIN stack[u] \subseteq DOMAIN stack'[u]
       /\ \A i \in DOMAIN stack[u] : stack'[u][i] = stack[u][i]
       /\ \A i \in DOMAIN stack'[u] \ DOMAIN stack[u] : u = t /\ stack'[u][i] = f

\* The innermost call goes on as another.
LEMMA Becoming ==
  ASSUME TypeOK, NEW t \in Threads, Busy(t), NEW f \in Calls, Becomes(t, f)
  PROVE  ChangeTop(t, f)
<1>1. stack \in [Threads -> Seq(Calls)] /\ stack[t] \in Seq(Calls)
  BY DEF TypeOK
<1>2. Len(stack[t]) \in DOMAIN stack[t]
  BY TopType
<1> DEFINE s == [stack[t] EXCEPT ![Len(stack[t])] = f]
<1> HIDE DEF Calls
<1>3. s \in Seq(Calls) /\ DOMAIN s = DOMAIN stack[t]
  BY <1>1, <1>2
<1>4. \A i \in DOMAIN stack[t] : s[i] = IF i = Len(stack[t]) THEN f ELSE stack[t][i]
  OBVIOUS
<1>5. stack' = [stack EXCEPT ![t] = s]
  BY <1>1 DEF Becomes
<1> HIDE DEF s
<1> QED
  BY <1>1, <1>3, <1>4, <1>5 DEF ChangeTop

\* The innermost call returns.
LEMMA Returning ==
  ASSUME TypeOK, NEW t \in Threads, Busy(t), Returns(t)
  PROVE  PopTop(t)
<1>1. stack \in [Threads -> Seq(Calls)] /\ stack[t] \in Seq(Calls) /\ stack[t] # <<>>
  BY DEF TypeOK, Busy
<1> DEFINE s == SubSeq(stack[t], 1, Len(stack[t]) - 1)
<1> HIDE DEF Calls
<1>2. /\ Len(stack[t]) \in Nat \ {0} /\ DOMAIN stack[t] = 1 .. Len(stack[t])
      /\ \A i \in 1 .. Len(stack[t]) : stack[t][i] \in Calls
  BY <1>1
<1>3. /\ s \in Seq(Calls) /\ DOMAIN s = 1 .. Len(stack[t]) - 1
      /\ \A i \in 1 .. Len(stack[t]) - 1 : s[i] = stack[t][i]
  BY <1>1, <1>2
<1>4. stack' = [stack EXCEPT ![t] = s]
  BY DEF Returns
<1> HIDE DEF s
<1>5. DOMAIN s = DOMAIN stack[t] \ {Len(stack[t])} /\ \A i \in DOMAIN s : s[i] = stack[t][i]
  BY <1>2, <1>3
<1> QED
  BY <1>1, <1>3, <1>4, <1>5 DEF PopTop

\* A call is made.
LEMMA Pushing ==
  ASSUME TypeOK, NEW t \in Threads, NEW f \in Calls, stack' = [stack EXCEPT ![t] = Append(@, f)]
  PROVE  PushTop(t, f)
<1>1. stack \in [Threads -> Seq(Calls)] /\ stack[t] \in Seq(Calls)
  BY DEF TypeOK
<1> DEFINE s == Append(stack[t], f)
<1> HIDE DEF Calls
<1>2. /\ s \in Seq(Calls) /\ Len(stack[t]) \in Nat
      /\ DOMAIN s = 1 .. Len(stack[t]) + 1 /\ DOMAIN stack[t] = 1 .. Len(stack[t])
      /\ \A i \in 1 .. Len(stack[t]) : s[i] = stack[t][i]
      /\ s[Len(stack[t]) + 1] = f
  BY <1>1
<1>3. stack' = [stack EXCEPT ![t] = s]
  OBVIOUS
<1> HIDE DEF s
<1>4. /\ DOMAIN stack[t] \subseteq DOMAIN s
      /\ \A i \in DOMAIN s \ DOMAIN stack[t] : s[i] = f
  BY <1>2
<1> QED
  BY <1>1, <1>2, <1>3, <1>4 DEF PushTop

\* A set of channels that is not empty has a first one.
LEMMA FirstChannel ==
  ASSUME NEW rest \in SUBSET Channels, rest # {}
  PROVE  \E x \in rest : \A y \in rest : x <= y
<1> DEFINE R == OpToRel(<, Nat)
<1>1. IsWellFoundedOn(R, Nat)
  BY NatLessThanWellFounded
<1>2. \A x, y \in Nat : y < x => <<y, x>> \in R
  BY DEF OpToRel
<1> HIDE DEF R
<1>3. rest \in SUBSET Nat
  BY ThreadsAndChannels
<1>4. PICK x \in rest : \A y \in rest : ~(<<y, x>> \in R)
  BY <1>1, <1>3, WFMin
<1>5. ASSUME NEW y \in rest PROVE x <= y
  <2>1. x \in Nat /\ y \in Nat /\ ~(<<y, x>> \in R)
    BY <1>3, <1>4
  <2>2. ~(y < x)
    BY <1>2, <2>1
  <2> QED
    BY <2>1, <2>2
<1> QED
  BY <1>5

\* The drain goes on with the first of the channels left, or with the master.
LEMMA DrainGoesOn ==
  ASSUME TypeOK, NEW t \in Threads, Busy(t), NEW rest \in SUBSET Channels, DrainNext(t, rest)
  PROVE  \E f \in Calls :
           /\ ChangeTop(t, f) /\ f.by = Top(t).by
           /\ \/ /\ f.step = "suppress" /\ f.chan \in Channels
                 /\ f.chan \notin f.rest /\ rest = f.rest \cup {f.chan}
              \/ f.step = "master" /\ f.chan = 0 /\ rest = {} /\ f.rest = Top(t).rest
<1>1. Top(t) \in Calls
  BY TopType
<1>2. CASE rest = {}
  <2> DEFINE f == [Top(t) EXCEPT !.step = "master", !.chan = 0, !.read = 0]
  <2>1. /\ f \in Calls /\ f.by = Top(t).by /\ f.step = "master" /\ f.chan = 0
        /\ f.rest = Top(t).rest
    <3>1. 0 \in Threads /\ 0 \in 0 .. MaxCursor
      BY ShutdownAssumption DEF Threads
    <3> DEFINE e == Top(t)
    <3>2. e \in Calls /\ f = [e EXCEPT !.step = "master", !.chan = 0, !.read = 0]
      BY <1>1
    <3> HIDE DEF e, f
    <3>3. /\ f \in Calls /\ f.by = e.by /\ f.step = "master" /\ f.chan = 0 /\ f.rest = e.rest
      BY <3>1, <3>2 DEF Calls
    <3> QED
      BY <3>3 DEF e
  <2>2. Becomes(t, f)
    BY <1>2 DEF DrainNext
  <2> HIDE DEF f
  <2> QED
    BY <1>2, <2>1, <2>2, Becoming
<1>3. CASE rest # {}
  <2> DEFINE g == CHOOSE x \in rest : \A y \in rest : x <= y
             f == [Top(t) EXCEPT !.step = "suppress", !.chan = g, !.rest = rest \ {g}, !.read = 0]
  <2>1. g \in rest
    BY <1>3, FirstChannel
  <2>2. Becomes(t, f)
    BY <1>3 DEF DrainNext
  <2> HIDE DEF g
  <2>3. g \in Channels /\ g \in Threads
    BY <2>1, ThreadsAndChannels
  <2>4. /\ f \in Calls /\ f.by = Top(t).by /\ f.step = "suppress" /\ f.chan = g
        /\ f.rest = rest \ {g}
    <3>1. 0 \in 0 .. MaxCursor /\ rest \ {g} \in SUBSET Channels
      BY ShutdownAssumption
    <3> DEFINE e == Top(t)
    <3>2. /\ e \in Calls
          /\ f = [e EXCEPT !.step = "suppress", !.chan = g, !.rest = rest \ {g}, !.read = 0]
      BY <1>1
    <3> HIDE DEF e, f
    <3>3. /\ f \in Calls /\ f.by = e.by /\ f.step = "suppress" /\ f.chan = g
          /\ f.rest = rest \ {g}
      BY <2>3, <3>1, <3>2 DEF Calls
    <3> QED
      BY <3>3 DEF e
  <2> HIDE DEF f
  <2> QED
    BY <2>1, <2>2, <2>3, <2>4, Becoming
<1> QED
  BY <1>2, <1>3

\* The innermost call goes to another step.
LEMMA GoingOn ==
  ASSUME TypeOK, NEW t \in Threads, Busy(t),
         NEW s \in {"stop", "set", "join", "flush", "load", "wait", "exit"}, Goes(t, s)
  PROVE  \E f \in Calls :
           /\ ChangeTop(t, f) /\ f.step = s /\ f.by = Top(t).by /\ f.chan = Top(t).chan
           /\ f.rest = Top(t).rest /\ f.read = Top(t).read
<1> DEFINE e == Top(t)
           f == [e EXCEPT !.step = s]
<1>1. e \in Calls
  BY TopType
<1>2. Becomes(t, f)
  BY DEF Goes
<1> HIDE DEF e
<1>3. /\ f \in Calls /\ f.step = s /\ f.by = e.by /\ f.chan = e.chan /\ f.rest = e.rest
      /\ f.read = e.read
  BY <1>1 DEF Calls
<1> HIDE DEF f
<1> QED
  BY <1>2, <1>3, Becoming DEF e

-----------------------------------------------------------------------------
(***************************************************************************)
(* What the parts of the invariant rest on.                                *)
(***************************************************************************)
LocksAgree ==
  \A t \in Threads, g \in Channels :
    (Stopping(t, g) <=> stopLock[g] = t) /\ (Flushing(t, g) <=> flushLock[g] = t)

\* Calls that were right stay right while flags are only raised.
FlagsRise ==
  /\ drains' = drains /\ tried \subseteq tried'
  /\ \A c \in Channels : /\ ran[c] => ran'[c]
                         /\ suppressed[c] => suppressed'[c]
                         /\ stopped[c] => stopped'[c]

\* A drained channel stays drained.
LEMMA DoneStays ==
  ASSUME TypeOK, FlagsRise
  PROVE  \A g \in Channels : Done(g) => Done(g)'
BY DEF FlagsRise, Done

\* A call that is right stays right when flags rise.
LEMMA FrameStays ==
  ASSUME TypeOK, FlagsRise, NEW t \in Threads, NEW f \in Calls, FrameOK(t, f)
  PROVE  FrameOK(t, f)'
<1>1. Works(f) /\ (f.step \notin {"run", "master", "wait", "exit"} => f.chan \in Channels) =>
        Works(f)'
  <2> SUFFICES ASSUME Works(f), f.step \notin {"run", "master", "wait", "exit"} => f.chan \in Channels
               PROVE  Works(f)'
    OBVIOUS
  <2>1. f.by \in Channels /\ drains[f.by] \subseteq Channels
    BY DEF Works, TypeOK
  <2>2. \A g \in drains'[f.by] : g \in f.rest \/ g = f.chan \/ Done(g)'
    BY <2>1, DoneStays DEF Works, FlagsRise
  <2>3. f.step # "poll" /\ ran'[f.by]
    BY <2>1 DEF Works, FlagsRise
  <2>4. f.step \in {"stop", "set", "join", "flush", "load", "call"} => suppressed'[f.chan]
    BY DEF Works, FlagsRise
  <2>5. f.step \in {"join", "flush", "load", "call"} => stopped'[f.chan]
    BY DEF Works, FlagsRise
  <2>6. f.step \in {"master", "wait", "exit"} => f.rest = {} /\ f.chan = 0
    BY DEF Works
  <2> QED
    BY <2>1, <2>2, <2>3, <2>4, <2>5, <2>6 DEF Works
<1> QED
  BY <1>1 DEF FrameOK

\* All calls stay right if the ones that change are.
LEMMA FramesStay ==
  ASSUME TypeOK, FlagsRise, FramesOK,
         \A u \in Threads : \A i \in DOMAIN stack'[u] :
           \/ i \in DOMAIN stack[u] /\ stack'[u][i] = stack[u][i]
           \/ FrameOK(u, stack[u][i])'
  PROVE  FramesOK'
<1> SUFFICES ASSUME NEW u \in Threads, NEW i \in DOMAIN stack'[u] PROVE FrameOK(u, stack[u][i])'
  BY DEF FramesOK
<1>1. CASE i \in DOMAIN stack[u] /\ stack'[u][i] = stack[u][i]
  <2>1. PICK f \in Calls : f = stack[u][i]
    <3>1. stack[u] \in Seq(Calls)
      BY DEF TypeOK
    <3> HIDE DEF Calls
    <3> QED
      BY <1>1, <3>1
  <2>2. FrameOK(u, f)
    BY <1>1, <2>1 DEF FramesOK
  <2>3. FrameOK(u, f)'
    BY <2>2, FrameStays
  <2> QED
    BY <1>1, <2>1, <2>3
<1> QED
  BY <1>1

\* Locks nobody takes or gives back.
LEMMA StopLocksStay ==
  ASSUME StopLocks, stopLock' = stopLock,
         \A u \in Threads : \A g \in Channels :
           /\ \A i \in DOMAIN stack'[u] : HoldsStop(stack'[u][i], g) =>
                i \in DOMAIN stack[u] /\ HoldsStop(stack[u][i], g)
           /\ \A i \in DOMAIN stack[u] : HoldsStop(stack[u][i], g) =>
                i \in DOMAIN stack'[u] /\ HoldsStop(stack'[u][i], g)
  PROVE  StopLocks'
BY DEF StopLocks, HoldsStop

\* The same for the flush.
LEMMA FlushLocksStay ==
  ASSUME FlushLocks, flushLock' = flushLock,
         \A u \in Threads : \A g \in Channels :
           /\ \A i \in DOMAIN stack'[u] : HoldsFlush(stack'[u][i], g) =>
                i \in DOMAIN stack[u] /\ HoldsFlush(stack[u][i], g)
           /\ \A i \in DOMAIN stack[u] : HoldsFlush(stack[u][i], g) =>
                i \in DOMAIN stack'[u] /\ HoldsFlush(stack'[u][i], g)
  PROVE  FlushLocks'
BY DEF FlushLocks, HoldsFlush

\* The calls that work are the same ones, and none has begun to.
SameWork ==
  /\ \A i \in DOMAIN stack'[Main] : stack'[Main][i].by # 0 /\ stack'[Main][i].step # "run" =>
       /\ i \in DOMAIN stack[Main] /\ Working(i) /\ stack'[Main][i].by = stack[Main][i].by
       /\ stack[Main][i].step \in {"wait", "exit"} => stack'[Main][i].step \in {"wait", "exit"}
  /\ \A i \in DOMAIN stack[Main] : Working(i) =>
       /\ i \in DOMAIN stack'[Main]
       /\ stack'[Main][i].by # 0 /\ stack'[Main][i].step # "run"

\* Who works stays the same.
LEMMA WorkStays ==
  ASSUME WorkOnce, SameWork, ran' = ran, exited' = exited
  PROVE  WorkOnce'
BY DEF WorkOnce, SameWork, Working

\* A step that does not stop the master.
LEMMA StoppedStays ==
  ASSUME TypeOK, StoppedRight, SameWork, FlagsRise, ran' = ran,
         wrappedBy' = wrappedBy \/ masterStops = 0, masterStops' = masterStops
  PROVE  StoppedRight'
<1>1. masterStops > 0 => wrappedBy \in Channels /\ drains[wrappedBy] \subseteq Channels
  BY DEF StoppedRight, TypeOK
<1>2. masterStops \in Nat
  BY DEF TypeOK
<1> QED
  BY <1>1, <1>2, DoneStays DEF StoppedRight, SameWork, FlagsRise, Working

\* A step that does not end the process.
LEMMA ExitedStays ==
  ASSUME TypeOK, ExitedRight, FlagsRise, exited' = exited
  PROVE  ExitedRight'
<1>1. exited # 0 => exited \in Channels /\ drains[exited] \subseteq Channels
  BY DEF ExitedRight, TypeOK
<1> QED
  BY <1>1, DoneStays DEF ExitedRight, FlagsRise

\* A step that flushes nothing.
LEMMA FlushesStay ==
  ASSUME FlushesRight, UNCHANGED <<flushes, flushed>>, tried \subseteq tried',
         \A u \in Threads : \A g \in Channels : \A i \in DOMAIN stack'[u] :
           HoldsFlush(stack'[u][i], g) => i \in DOMAIN stack[u] /\ HoldsFlush(stack[u][i], g)
  PROVE  FlushesRight'
BY DEF FlushesRight, HoldsFlush

-----------------------------------------------------------------------------
(***************************************************************************)
(* Locks that are taken and given back.                                    *)
(***************************************************************************)
\* One call more, or one less, holds a lock.
OneStopMore(t, g, k) ==
  \A u \in Threads : \A h \in Channels :
    /\ \A i \in DOMAIN stack'[u] : HoldsStop(stack'[u][i], h) =>
         \/ u = t /\ i = k /\ h = g
         \/ i \in DOMAIN stack[u] /\ HoldsStop(stack[u][i], h)
    /\ \A i \in DOMAIN stack[u] : HoldsStop(stack[u][i], h) =>
         i \in DOMAIN stack'[u] /\ HoldsStop(stack'[u][i], h)

OneStopLess(t, k) ==
  \A u \in Threads : \A h \in Channels :
    /\ \A i \in DOMAIN stack'[u] : HoldsStop(stack'[u][i], h) =>
         i \in DOMAIN stack[u] /\ HoldsStop(stack[u][i], h) /\ ~(u = t /\ i = k)
    /\ \A i \in DOMAIN stack[u] : HoldsStop(stack[u][i], h) /\ ~(u = t /\ i = k) =>
         i \in DOMAIN stack'[u] /\ HoldsStop(stack'[u][i], h)

OneFlushMore(t, g, k) ==
  \A u \in Threads : \A h \in Channels :
    /\ \A i \in DOMAIN stack'[u] : HoldsFlush(stack'[u][i], h) =>
         \/ u = t /\ i = k /\ h = g
         \/ i \in DOMAIN stack[u] /\ HoldsFlush(stack[u][i], h)
    /\ \A i \in DOMAIN stack[u] : HoldsFlush(stack[u][i], h) =>
         i \in DOMAIN stack'[u] /\ HoldsFlush(stack'[u][i], h)

OneFlushLess(t, k) ==
  \A u \in Threads : \A h \in Channels :
    /\ \A i \in DOMAIN stack'[u] : HoldsFlush(stack'[u][i], h) =>
         i \in DOMAIN stack[u] /\ HoldsFlush(stack[u][i], h) /\ ~(u = t /\ i = k)
    /\ \A i \in DOMAIN stack[u] : HoldsFlush(stack[u][i], h) /\ ~(u = t /\ i = k) =>
         i \in DOMAIN stack'[u] /\ HoldsFlush(stack'[u][i], h)

\* A free lock is taken by the one call that enters its part ...
LEMMA StopLockTaken ==
  ASSUME TypeOK, StopLocks, NEW t \in Threads, NEW k, NEW g \in Channels, stopLock[g] = Free,
         stopLock' = [stopLock EXCEPT ![g] = t], k \in DOMAIN stack'[t],
         HoldsStop(stack'[t][k], g),
         OneStopMore(t, g, k)
  PROVE  StopLocks'
<1>1. \A u \in Threads : \A i \in DOMAIN stack[u] : ~HoldsStop(stack[u][i], g)
  BY ThreadsAndChannels DEF StopLocks
<1>2. stopLock'[g] = t /\ \A h \in Channels : h # g => stopLock'[h] = stopLock[h]
  BY DEF TypeOK
<1> QED
  BY <1>1, <1>2 DEF StopLocks, HoldsStop, OneStopMore

\* ... and is free again when that call leaves it.
LEMMA StopLockGiven ==
  ASSUME TypeOK, StopLocks, NEW t \in Threads, NEW k, NEW g \in Channels,
         stopLock' = [stopLock EXCEPT ![g] = Free], k \in DOMAIN stack[t],
         HoldsStop(stack[t][k], g),
         OneStopLess(t, k)
  PROVE  StopLocks'
<1>1. \A u \in Threads : \A i \in DOMAIN stack[u] : HoldsStop(stack[u][i], g) => u = t /\ i = k
  BY DEF StopLocks
<1>2. stopLock'[g] = Free /\ \A h \in Channels : h # g => stopLock'[h] = stopLock[h]
  BY DEF TypeOK
<1>3. \A h : HoldsStop(stack[t][k], h) => h = g
  BY DEF HoldsStop
<1> QED
  BY <1>1, <1>2, <1>3, ThreadsAndChannels DEF StopLocks, OneStopLess

\* The same for the flush.
LEMMA FlushLockTaken ==
  ASSUME TypeOK, FlushLocks, NEW t \in Threads, NEW k, NEW g \in Channels, flushLock[g] = Free,
         flushLock' = [flushLock EXCEPT ![g] = t], k \in DOMAIN stack'[t],
         HoldsFlush(stack'[t][k], g),
         OneFlushMore(t, g, k)
  PROVE  FlushLocks'
<1>1. \A u \in Threads : \A i \in DOMAIN stack[u] : ~HoldsFlush(stack[u][i], g)
  BY ThreadsAndChannels DEF FlushLocks
<1>2. flushLock'[g] = t /\ \A h \in Channels : h # g => flushLock'[h] = flushLock[h]
  BY DEF TypeOK
<1> QED
  BY <1>1, <1>2 DEF FlushLocks, HoldsFlush, OneFlushMore

\* The lock of the flush is free again.
LEMMA FlushLockGiven ==
  ASSUME TypeOK, FlushLocks, NEW t \in Threads, NEW k, NEW g \in Channels,
         flushLock' = [flushLock EXCEPT ![g] = Free], k \in DOMAIN stack[t],
         HoldsFlush(stack[t][k], g),
         OneFlushLess(t, k)
  PROVE  FlushLocks'
<1>1. \A u \in Threads : \A i \in DOMAIN stack[u] : HoldsFlush(stack[u][i], g) => u = t /\ i = k
  BY DEF FlushLocks
<1>2. flushLock'[g] = Free /\ \A h \in Channels : h # g => flushLock'[h] = flushLock[h]
  BY DEF TypeOK
<1>3. \A h : HoldsFlush(stack[t][k], h) => h = g
  BY DEF HoldsFlush
<1> QED
  BY <1>1, <1>2, <1>3, ThreadsAndChannels DEF FlushLocks, OneFlushLess

-----------------------------------------------------------------------------
(***************************************************************************)
(* Calls that change or return.                                            *)
(***************************************************************************)
LEMMA ChangeKeepsFrames ==
  ASSUME TypeOK, FramesOK, FlagsRise, NEW t \in Threads, Busy(t), NEW f \in Calls, ChangeTop(t, f),
         FrameOK(t, f)'
  PROVE  FramesOK'
<1>1. ASSUME NEW u \in Threads, NEW i \in DOMAIN stack'[u]
      PROVE  \/ i \in DOMAIN stack[u] /\ stack'[u][i] = stack[u][i]
             \/ FrameOK(u, stack[u][i])'
  <2>1. i \in DOMAIN stack[u]
    BY DEF ChangeTop
  <2>2. CASE u = t /\ i = Len(stack[t])
    <3>1. stack'[u][i] = f
      BY <2>1, <2>2 DEF ChangeTop
    <3> QED
      BY <2>2, <3>1
  <2>3. CASE ~(u = t /\ i = Len(stack[t]))
    BY <2>1, <2>3 DEF ChangeTop
  <2> QED
    BY <2>2, <2>3
<1> QED
  BY <1>1, FramesStay

\* A return leaves the other calls right.
LEMMA PopKeepsFrames ==
  ASSUME TypeOK, FramesOK, FlagsRise, NEW t \in Threads, PopTop(t)
  PROVE  FramesOK'
BY FramesStay DEF PopTop

\* A call of a signal's stop_polling, of a repeated run or of a poll thread returns.
LEMMA PopKeepsWork ==
  ASSUME TypeOK, NEW t \in Threads, Busy(t), PopTop(t),
         t = Main => Top(t).by = 0 \/ Top(t).step = "run"
  PROVE  SameWork
<1>1. Len(stack[t]) \in DOMAIN stack[t] /\ Top(t) = stack[t][Len(stack[t])]
  BY TopType
<1> QED
  BY <1>1, ThreadsAndChannels DEF PopTop, SameWork, Working

\* A call that goes on works for the same coordinator.
LEMMA ChangeKeepsWork ==
  ASSUME TypeOK, NEW t \in Threads, Busy(t), NEW f \in Calls, ChangeTop(t, f),
         f.by = Top(t).by, f.step # "run", Top(t).step # "run",
         Top(t).step \in {"wait", "exit"} => f.step \in {"wait", "exit"}
  PROVE  SameWork
<1>1. Len(stack[t]) \in DOMAIN stack[t] /\ Top(t) = stack[t][Len(stack[t])]
  BY TopType
<1> QED
  BY <1>1, ThreadsAndChannels DEF ChangeTop, SameWork, Working

-----------------------------------------------------------------------------
(***************************************************************************)
(* The steps of a run and of a poll thread.                                *)
(***************************************************************************)
\* The parts of a state that no call writes.
Frame == UNCHANGED <<made, loading, got, coordVars, masterVars, signals, exited>>

\* A step of the call a thread is in that takes no lock, gives none back, and
\* neither begins nor ends the work of a coordinator.
LEMMA MoveKeeps ==
  ASSUME ShutdownInv, NEW t \in Threads, Busy(t), NEW f \in Calls, ChangeTop(t, f), f.by = Top(t).by,
         Frame, UNCHANGED <<ran, masterStops, stopLock, flushVars, cursor>>,
         suppressed' \in [Channels -> BOOLEAN], stopped' \in [Channels -> BOOLEAN], FlagsRise,
         FrameOK(t, f)',
         f.step \notin {"run", "set"}, Top(t).step \notin {"run", "set"},
         f.step \in {"load", "call"} <=> Top(t).step \in {"load", "call"},
         f.step \in {"load", "call"} => f.chan = Top(t).chan,
         Top(t).step \in {"wait", "exit"} => f.step \in {"wait", "exit"}
  PROVE  ShutdownInv'
<1>1. TypeOK
  BY DEF ShutdownInv
<1>2. /\ Len(stack[t]) \in DOMAIN stack[t] /\ Top(t) = stack[t][Len(stack[t])]
  BY <1>1, TopType
<1>3. FramesOK'
  BY <1>1, ChangeKeepsFrames DEF ShutdownInv
<1>4. StopLocks'
  <2>1. \A g : ~HoldsStop(f, g) /\ ~HoldsStop(Top(t), g)
    BY DEF HoldsStop
  <2> QED
    BY <1>2, <2>1, StopLocksStay DEF ShutdownInv, ChangeTop
<1>5. \A g : HoldsFlush(f, g) <=> HoldsFlush(Top(t), g)
  BY DEF HoldsFlush
<1>6. FlushLocks' /\ FlushesRight'
  BY <1>2, <1>5, FlushLocksStay, FlushesStay DEF ShutdownInv, ChangeTop, flushVars
<1>7. SameWork
  BY <1>1, ChangeKeepsWork
<1>8. WorkOnce' /\ StoppedRight' /\ ExitedRight'
  BY <1>1, <1>7, WorkStays, StoppedStays, ExitedStays DEF ShutdownInv, Frame, masterVars
<1>9. TypeOK'
  <2>1. LocksAgree'
    BY <1>4, <1>6
    DEF StopLocks, FlushLocks, LocksAgree, Stopping, Flushing, HoldsStop, HoldsFlush
  <2> QED
    BY <1>1, <2>1 DEF TypeOK, LocksAgree, ChangeTop, Frame, coordVars, masterVars, flushVars
<1>10. LoadingRight' /\ RegisteredCaptures'
  BY DEF ShutdownInv, LoadingRight, RegisteredCaptures, Frame, coordVars, masterVars
<1> QED
  BY <1>3, <1>4, <1>6, <1>8, <1>9, <1>10 DEF ShutdownInv

\* The call a thread is in is one of its kind.
LEMMA TopFrame ==
  ASSUME ShutdownInv, NEW t \in Threads, Busy(t)
  PROVE  FrameOK(t, Top(t)) /\ TypeOK /\ Top(t) \in Calls
BY TopType DEF ShutdownInv, FramesOK

\* A channel is suppressed.
LEMMA SuppressStep == ASSUME ShutdownInv, Suppress PROVE ShutdownInv'
<1>1. /\ Busy(Main) /\ Top(Main).step = "suppress" /\ Goes(Main, "stop")
      /\ suppressed' = [suppressed EXCEPT ![Top(Main).chan] = TRUE]
      /\ Frame
      /\ UNCHANGED <<ran, masterStops, stopped, stopLock, flushVars, cursor>>
  BY DEF Suppress, InCall, Frame, madeVars
<1>2. FrameOK(Main, Top(Main)) /\ TypeOK /\ Top(Main) \in Calls /\ Main \in Threads
  BY <1>1, TopFrame, ThreadsAndChannels
<1>3. PICK f \in Calls :
        /\ ChangeTop(Main, f) /\ f.step = "stop" /\ f.by = Top(Main).by
        /\ f.chan = Top(Main).chan /\ f.rest = Top(Main).rest
  BY <1>1, <1>2, GoingOn
<1>4. f.chan \in Channels
  BY <1>1, <1>2, <1>3 DEF FrameOK
<1>5. FlagsRise /\ suppressed' \in [Channels -> BOOLEAN] /\ suppressed'[f.chan]
  BY <1>1, <1>2, <1>3, <1>4 DEF FlagsRise, TypeOK, Frame, coordVars, flushVars
<1>6. FrameOK(Main, f)'
  <2>1. f.by # 0 => Works(Top(Main))
    BY <1>1, <1>2, <1>3 DEF FrameOK
  <2>2. f.by # 0 => Works(f)'
    <3> SUFFICES ASSUME f.by # 0 PROVE Works(f)'
      OBVIOUS
    <3>1. f.by \in Channels /\ ran'[f.by]
      BY <1>1, <1>3, <2>1 DEF Works
    <3>2. drains[f.by] \subseteq Channels
      BY <1>2, <3>1 DEF TypeOK
    <3>3. \A g \in drains'[f.by] : g \in f.rest \/ g = f.chan \/ Done(g)'
      BY <1>2, <1>3, <1>5, <2>1, <3>2, DoneStays DEF Works, FlagsRise
    <3> QED
      BY <1>3, <1>5, <3>1, <3>3 DEF Works
  <2> QED
    BY <1>3, <1>4, <2>2 DEF FrameOK
<1>7. stopped' \in [Channels -> BOOLEAN]
  BY <1>1, <1>2 DEF TypeOK
<1> QED
  BY <1>1, <1>2, <1>3, <1>5, <1>6, <1>7, MoveKeeps

\* The join of the poll thread is over.
LEMMA JoinStep == ASSUME ShutdownInv, Join PROVE ShutdownInv'
<1>1. /\ Busy(Main) /\ Top(Main).step = "join" /\ Goes(Main, "flush") /\ Frame
      /\ UNCHANGED <<ran, masterStops, flagVars, flushVars, cursor>>
  BY DEF Join, InCall, Frame, madeVars
<1>2. FrameOK(Main, Top(Main)) /\ TypeOK /\ Top(Main) \in Calls /\ Main \in Threads
  BY <1>1, TopFrame, ThreadsAndChannels
<1>3. PICK f \in Calls :
        /\ ChangeTop(Main, f) /\ f.step = "flush" /\ f.by = Top(Main).by
        /\ f.chan = Top(Main).chan /\ f.rest = Top(Main).rest
  BY <1>1, <1>2, GoingOn
<1>4. FlagsRise /\ suppressed' \in [Channels -> BOOLEAN] /\ stopped' \in [Channels -> BOOLEAN]
  BY <1>1, <1>2 DEF FlagsRise, TypeOK, Frame, coordVars, flagVars, flushVars
<1>5. FrameOK(Main, f)
  BY <1>1, <1>2, <1>3 DEF FrameOK, Works
<1>6. FrameOK(Main, f)'
  BY <1>2, <1>4, <1>5, FrameStays
<1> QED
  BY <1>1, <1>2, <1>3, <1>4, <1>6, MoveKeeps DEF flagVars

\* The budget of the master's stop ends.
LEMMA BudgetStep == ASSUME ShutdownInv, BudgetEnds PROVE ShutdownInv'
<1>1. /\ Busy(Main) /\ Top(Main).step = "wait" /\ Goes(Main, "exit") /\ Frame
      /\ UNCHANGED <<ran, masterStops, flagVars, flushVars, cursor>>
  BY DEF BudgetEnds, InCall, Frame, madeVars
<1>2. FrameOK(Main, Top(Main)) /\ TypeOK /\ Top(Main) \in Calls /\ Main \in Threads
  BY <1>1, TopFrame, ThreadsAndChannels
<1>3. PICK f \in Calls :
        /\ ChangeTop(Main, f) /\ f.step = "exit" /\ f.by = Top(Main).by
        /\ f.chan = Top(Main).chan /\ f.rest = Top(Main).rest
  BY <1>1, <1>2, GoingOn
<1>4. FlagsRise /\ suppressed' \in [Channels -> BOOLEAN] /\ stopped' \in [Channels -> BOOLEAN]
  BY <1>1, <1>2 DEF FlagsRise, TypeOK, Frame, coordVars, flagVars, flushVars
<1>5. FrameOK(Main, f)
  BY <1>1, <1>2, <1>3 DEF FrameOK, Works
<1>6. FrameOK(Main, f)'
  BY <1>2, <1>4, <1>5, FrameStays
<1> QED
  BY <1>1, <1>2, <1>3, <1>4, <1>6, MoveKeeps DEF flagVars

\* A poll thread comes to its last flush.
LEMMA PollEndsStep == ASSUME ShutdownInv, NEW g \in Channels, PollEnds(g) PROVE ShutdownInv'
<1>1. /\ Busy(g) /\ Top(g).step = "poll" /\ Goes(g, "flush") /\ Frame
      /\ UNCHANGED <<ran, masterStops, flagVars, flushVars, cursor>>
  BY DEF PollEnds, InCall, Frame, madeVars
<1>2. FrameOK(g, Top(g)) /\ TypeOK /\ Top(g) \in Calls /\ g \in Threads /\ g # Main
  BY <1>1, TopFrame, ThreadsAndChannels
<1>3. PICK f \in Calls :
        /\ ChangeTop(g, f) /\ f.step = "flush" /\ f.by = Top(g).by
        /\ f.chan = Top(g).chan /\ f.rest = Top(g).rest
  BY <1>1, <1>2, GoingOn
<1>4. FlagsRise /\ suppressed' \in [Channels -> BOOLEAN] /\ stopped' \in [Channels -> BOOLEAN]
  BY <1>1, <1>2 DEF FlagsRise, TypeOK, Frame, coordVars, flagVars, flushVars
<1>5. FrameOK(g, f)
  BY <1>1, <1>2, <1>3 DEF FrameOK, Works
<1>6. FrameOK(g, f)'
  BY <1>2, <1>4, <1>5, FrameStays
<1> QED
  BY <1>1, <1>2, <1>3, <1>4, <1>6, MoveKeeps DEF flagVars

\* The cursor is loaded: the innermost call goes on as the call to Core.
LEMMA Loading ==
  ASSUME TypeOK, NEW t \in Threads, LoadCursor(t)
  PROVE  \E f \in Calls :
           /\ ChangeTop(t, f) /\ f.step = "call" /\ f.by = Top(t).by /\ f.chan = Top(t).chan
           /\ f.rest = Top(t).rest
<1> DEFINE e == Top(t)
           f == [e EXCEPT !.step = "call", !.read = cursor]
<1>1. Busy(t) /\ Becomes(t, f)
  BY DEF LoadCursor, InCall
<1>2. e \in Calls /\ cursor \in 0 .. MaxCursor
  BY <1>1, TopType DEF TypeOK
<1> HIDE DEF e
<1>3. f \in Calls /\ f.step = "call" /\ f.by = e.by /\ f.chan = e.chan /\ f.rest = e.rest
  BY <1>2 DEF Calls
<1> HIDE DEF f
<1> QED
  BY <1>1, <1>3, Becoming DEF e

\* The cursor is loaded under the lock of the flush.
LEMMA LoadCursorStep == ASSUME ShutdownInv, NEW t \in Threads, LoadCursor(t) PROVE ShutdownInv'
<1> DEFINE e == Top(t)
<1>1. /\ Busy(t) /\ e.step = "load" /\ Frame
      /\ UNCHANGED <<ran, masterStops, flagVars, flushVars, cursor>>
  BY DEF LoadCursor, InCall, Frame, madeVars
<1>2. FrameOK(t, e) /\ TypeOK /\ e \in Calls
  BY <1>1, TopFrame
<1> HIDE DEF e
<1>3. PICK f \in Calls :
        /\ ChangeTop(t, f) /\ f.step = "call" /\ f.by = e.by /\ f.chan = e.chan /\ f.rest = e.rest
  BY <1>2, Loading DEF e
<1>4. FlagsRise /\ suppressed' \in [Channels -> BOOLEAN] /\ stopped' \in [Channels -> BOOLEAN]
  BY <1>1, <1>2 DEF FlagsRise, TypeOK, Frame, coordVars, flagVars, flushVars
<1>5. FrameOK(t, f)
  BY <1>1, <1>2, <1>3 DEF FrameOK, Works
<1>6. FrameOK(t, f)'
  BY <1>2, <1>4, <1>5, FrameStays
<1> QED
  BY <1>1, <1>2, <1>3, <1>4, <1>6, MoveKeeps DEF flagVars, e

\* The invariants of the locks say what the type invariant says of them.
LEMMA LocksAgreeNext ==
  ASSUME StopLocks', FlushLocks'
  PROVE  LocksAgree'
BY DEF StopLocks, FlushLocks, LocksAgree, Stopping, Flushing, HoldsStop, HoldsFlush

\* Calls that hold no lock, before and after.
LEMMA PopKeepsLocks ==
  ASSUME TypeOK, StopLocks, FlushLocks, FlushesRight, NEW t \in Threads, Busy(t), PopTop(t),
         Top(t).step \notin {"set", "load", "call"}, UNCHANGED <<stopLock, flushVars>>
  PROVE  StopLocks' /\ FlushLocks' /\ FlushesRight'
<1>1. Len(stack[t]) \in DOMAIN stack[t] /\ Top(t) = stack[t][Len(stack[t])]
  BY TopType
<1>2. \A g : ~HoldsStop(stack[t][Len(stack[t])], g) /\ ~HoldsFlush(stack[t][Len(stack[t])], g)
  BY <1>1 DEF HoldsStop, HoldsFlush
<1>3. \A u \in Threads :
        /\ \A i \in DOMAIN stack'[u] : i \in DOMAIN stack[u] /\ stack'[u][i] = stack[u][i]
        /\ \A i \in DOMAIN stack[u] : \/ u = t /\ i = Len(stack[t])
                                      \/ i \in DOMAIN stack'[u] /\ stack'[u][i] = stack[u][i]
  BY DEF PopTop
<1>4. StopLocks'
  BY <1>2, <1>3, StopLocksStay
<1>5. FlushLocks'
  BY <1>2, <1>3, FlushLocksStay DEF flushVars
<1>6. FlushesRight'
  BY <1>3, FlushesStay DEF flushVars
<1> QED
  BY <1>4, <1>5, <1>6

\* A call that goes on outside the locks.
LEMMA ChangeKeepsLocks ==
  ASSUME TypeOK, StopLocks, FlushLocks, FlushesRight, NEW t \in Threads, Busy(t),
         NEW f \in Calls, ChangeTop(t, f),
         f.step \notin {"set", "load", "call"}, Top(t).step \notin {"set", "load", "call"},
         UNCHANGED <<stopLock, flushVars>>
  PROVE  StopLocks' /\ FlushLocks' /\ FlushesRight'
<1>1. Len(stack[t]) \in DOMAIN stack[t] /\ Top(t) = stack[t][Len(stack[t])]
  BY TopType
<1>2. \A g : ~HoldsStop(stack[t][Len(stack[t])], g) /\ ~HoldsFlush(stack[t][Len(stack[t])], g)
  BY <1>1 DEF HoldsStop, HoldsFlush
<1>3. \A g : ~HoldsStop(f, g) /\ ~HoldsFlush(f, g)
  BY DEF HoldsStop, HoldsFlush
<1>4. \A u \in Threads :
        /\ \A i \in DOMAIN stack'[u] :
             i \in DOMAIN stack[u] /\ (stack'[u][i] = f \/ stack'[u][i] = stack[u][i])
        /\ \A i \in DOMAIN stack[u] : \/ u = t /\ i = Len(stack[t])
                                      \/ i \in DOMAIN stack'[u] /\ stack'[u][i] = stack[u][i]
  BY DEF ChangeTop
<1>5. StopLocks'
  BY <1>2, <1>3, <1>4, StopLocksStay
<1>6. FlushLocks'
  BY <1>2, <1>3, <1>4, FlushLocksStay DEF flushVars
<1>7. FlushesRight'
  BY <1>3, <1>4, FlushesStay DEF flushVars
<1> QED
  BY <1>5, <1>6, <1>7

\* The first call of run begins the work of its coordinator, any other returns.
LEMMA RunStepKeeps == ASSUME ShutdownInv, Run PROVE ShutdownInv'
<1> DEFINE c == Top(Main).by
           k == Len(stack[Main])
<1>1. /\ Busy(Main) /\ Top(Main).step = "run" /\ exited = 0 /\ Frame
      /\ ran' = [ran EXCEPT ![c] = TRUE]
      /\ IF ran[c] THEN Returns(Main) ELSE DrainNext(Main, drains[c])
      /\ UNCHANGED <<masterStops, flagVars, flushVars, cursor>>
  BY DEF Run, InCall, Frame, madeVars
<1>2. /\ FrameOK(Main, Top(Main)) /\ TypeOK /\ Top(Main) \in Calls /\ Main \in Threads
      /\ k \in DOMAIN stack[Main] /\ Top(Main) = stack[Main][k]
  BY <1>1, TopFrame, TopType, ThreadsAndChannels
<1>3. c \in Channels /\ Top(Main).rest = {}
  <2>1. c # 0 /\ c \in Threads /\ Top(Main).rest = {}
    BY <1>1, <1>2, CallType DEF FrameOK
  <2> QED
    BY <2>1, ThreadsAndChannels DEF Main
<1>4. FlagsRise /\ ran' \in [Channels -> BOOLEAN] /\ ran'[c]
  BY <1>1, <1>2, <1>3 DEF FlagsRise, TypeOK, Frame, coordVars, flagVars, flushVars
<1>5. CASE ran[c]
  <2>1. ran' = ran
    BY <1>1, <1>2, <1>3, <1>5 DEF TypeOK
  <2>2. PopTop(Main)
    BY <1>1, <1>2, <1>5, Returning
  <2>3. FramesOK'
    BY <1>2, <1>4, <2>2, PopKeepsFrames DEF ShutdownInv
  <2>5. StopLocks' /\ FlushLocks' /\ FlushesRight'
    BY <1>1, <1>2, <2>2, PopKeepsLocks DEF ShutdownInv, flagVars
  <2>6. WorkOnce' /\ StoppedRight' /\ ExitedRight'
    BY <1>1, <1>2, <1>4, <2>1, <2>2, PopKeepsWork, WorkStays, StoppedStays, ExitedStays
    DEF ShutdownInv, Frame, masterVars
  <2>7. TypeOK'
    BY <1>1, <1>2, <1>4, <2>2, <2>5, LocksAgreeNext
    DEF TypeOK, LocksAgree, PopTop, Frame, coordVars, masterVars, flagVars, flushVars
  <2>8. LoadingRight' /\ RegisteredCaptures'
    BY <1>1 DEF ShutdownInv, LoadingRight, RegisteredCaptures, Frame, coordVars, masterVars
  <2> QED
    BY <2>3, <2>5, <2>6, <2>7, <2>8 DEF ShutdownInv
<1>6. CASE ~ran[c]
  <2>1. drains[c] \in SUBSET Channels
    BY <1>2, <1>3 DEF TypeOK
  <2>2. PICK f \in Calls :
          /\ ChangeTop(Main, f) /\ f.by = c
          /\ \/ f.step = "suppress" /\ f.chan \in Channels /\ drains[c] = f.rest \cup {f.chan}
             \/ f.step = "master" /\ f.chan = 0 /\ drains[c] = {} /\ f.rest = Top(Main).rest
    BY <1>1, <1>2, <1>6, <2>1, DrainGoesOn
  <2>3. FrameOK(Main, f)'
    <3>1. ran'[c] /\ drains'[c] = drains[c]
      BY <1>4 DEF FlagsRise
    <3>2. f.step = "master" => f.rest = {} /\ f.chan = 0
      BY <1>3, <2>2
    <3>3. \A g \in drains[c] : g \in f.rest \/ g = f.chan
      BY <2>2
    <3>4. f.step \in {"suppress", "master"} /\ f.by = c
      BY <2>2
    <3>5. Works(f)'
      BY <1>3, <3>1, <3>2, <3>3, <3>4 DEF Works
    <3>6. f.step = "suppress" => f.chan \in Channels
      BY <2>2
    <3>7. c # 0
      BY <1>3, ThreadsAndChannels DEF Main
    <3> QED
      BY <3>4, <3>5, <3>6, <3>7 DEF FrameOK
  <2>4. FramesOK'
    BY <1>1, <1>2, <1>4, <2>2, <2>3, ChangeKeepsFrames DEF ShutdownInv
  <2>6. StopLocks' /\ FlushLocks' /\ FlushesRight'
    BY <1>1, <1>2, <2>2, ChangeKeepsLocks DEF ShutdownInv, flagVars
  <2>7. \A i \in DOMAIN stack[Main] : Working(i) => i # k /\ stack[Main][i].by # c
    <3> SUFFICES ASSUME NEW i \in DOMAIN stack[Main], Working(i)
                 PROVE  i # k /\ stack[Main][i].by # c
      OBVIOUS
    <3>1. Works(stack[Main][i])
      BY <1>2 DEF ShutdownInv, FramesOK, FrameOK, Working
    <3> QED
      BY <1>1, <1>2, <1>6, <3>1 DEF Works, Working
  <2>8. /\ DOMAIN stack'[Main] = DOMAIN stack[Main]
        /\ \A i \in DOMAIN stack[Main] : stack'[Main][i] = IF i = k THEN f ELSE stack[Main][i]
    BY <1>2, <2>2 DEF ChangeTop
  <2>9. WorkOnce'
    <3>1. \A i, j \in DOMAIN stack'[Main] :
            Working(i)' /\ Working(j)' /\ stack'[Main][i].by = stack'[Main][j].by => i = j
      BY <2>2, <2>7, <2>8 DEF ShutdownInv, WorkOnce, Working
    <3>2. k \in DOMAIN stack'[Main] /\ stack'[Main][k].by # 0 /\ stack'[Main][k].step # "run"
      BY <1>2, <1>3, <2>2, <2>8, ThreadsAndChannels DEF Main
    <3> QED
      BY <3>1, <3>2 DEF WorkOnce, Working
  <2>10. StoppedRight'
    <3>1. masterStops > 0 => wrappedBy # c /\ wrappedBy \in Channels /\ drains[wrappedBy] \subseteq Channels
      BY <1>2, <1>6 DEF ShutdownInv, StoppedRight, TypeOK
    <3>2. masterStops' = masterStops /\ wrappedBy' = wrappedBy /\ drains' = drains
      BY <1>1 DEF Frame, masterVars, coordVars
    <3>3. masterStops > 0 => \A g \in drains'[wrappedBy'] : Done(g)'
      BY <1>2, <1>4, <3>1, <3>2, DoneStays DEF ShutdownInv, StoppedRight
    <3>4. masterStops > 0 =>
            \A i \in DOMAIN stack'[Main] :
              Working(i)' /\ stack'[Main][i].by = wrappedBy => stack'[Main][i].step \in {"wait", "exit"}
      BY <2>2, <2>8, <3>1 DEF ShutdownInv, StoppedRight, Working
    <3> QED
      BY <1>4, <3>1, <3>2, <3>3, <3>4 DEF ShutdownInv, StoppedRight, FlagsRise
  <2>11. ExitedRight'
    BY <1>1, <1>2, <1>4, ExitedStays DEF ShutdownInv, Frame
  <2>12. TypeOK'
    BY <1>1, <1>2, <1>4, <2>2, <2>6, LocksAgreeNext
    DEF TypeOK, LocksAgree, ChangeTop, Frame, coordVars, masterVars, flagVars, flushVars
  <2>13. LoadingRight' /\ RegisteredCaptures'
    BY <1>1 DEF ShutdownInv, LoadingRight, RegisteredCaptures, Frame, coordVars, masterVars
  <2> QED
    BY <2>4, <2>6, <2>9, <2>10, <2>11, <2>12, <2>13 DEF ShutdownInv
<1> QED
  BY <1>5, <1>6

\* stop_polling takes its lock.
LEMMA TakeStopLockStep == ASSUME ShutdownInv, TakeStopLock PROVE ShutdownInv'
<1>0. /\ Busy(Main) /\ Top(Main).step = "stop"
      /\ FrameOK(Main, Top(Main)) /\ TypeOK /\ Top(Main) \in Calls /\ Main \in Threads
      /\ Len(stack[Main]) \in DOMAIN stack[Main] /\ Top(Main) = stack[Main][Len(stack[Main])]
  BY TopFrame, TopType, ThreadsAndChannels DEF TakeStopLock, InCall
<1>a. PICK k \in DOMAIN stack[Main] : k = Len(stack[Main])
  BY <1>0
<1>b. PICK g \in Channels : g = Top(Main).chan
  BY <1>0 DEF FrameOK
<1>1. /\ Busy(Main) /\ Top(Main).step = "stop" /\ stopLock[g] = Free /\ Goes(Main, "set") /\ Frame
      /\ stopLock' = [stopLock EXCEPT ![g] = Main]
      /\ UNCHANGED <<ran, masterStops, suppressed, stopped, flushVars, cursor>>
  BY <1>b DEF TakeStopLock, InCall, Frame, madeVars
<1>2. /\ FrameOK(Main, Top(Main)) /\ TypeOK /\ Top(Main) \in Calls /\ Main \in Threads
      /\ k \in DOMAIN stack[Main] /\ Top(Main) = stack[Main][k]
  BY <1>0, <1>a
<1>3. PICK f \in Calls :
        /\ ChangeTop(Main, f) /\ f.step = "set" /\ f.by = Top(Main).by
        /\ f.chan = g /\ f.rest = Top(Main).rest
  BY <1>1, <1>2, <1>b, GoingOn
<1>4. g \in Channels
  BY <1>b
<1>5. FlagsRise
  BY <1>1 DEF FlagsRise, Frame, coordVars, flushVars
<1>6. FrameOK(Main, f)
  BY <1>1, <1>2, <1>3, <1>b DEF FrameOK, Works
<1>7. FramesOK'
  <2>1. FrameOK(Main, f)'
    BY <1>2, <1>5, <1>6, FrameStays
  <2> QED
    BY <1>1, <1>2, <1>3, <1>5, <2>1, ChangeKeepsFrames DEF ShutdownInv
<1>8. /\ k \in DOMAIN stack'[Main] /\ stack'[Main][k] = f
      /\ \A u \in Threads : \A i \in DOMAIN stack'[u] :
           /\ i \in DOMAIN stack[u]
           /\ (u = Main /\ i = k) \/ stack'[u][i] = stack[u][i]
      /\ \A u \in Threads : \A i \in DOMAIN stack[u] :
           /\ i \in DOMAIN stack'[u]
           /\ (u = Main /\ i = k) \/ stack'[u][i] = stack[u][i]
  BY <1>2, <1>3, <1>a DEF ChangeTop
<1>9. StopLocks'
  <2>1. \A h : ~HoldsStop(Top(Main), h) /\ (HoldsStop(f, h) <=> h = g)
    BY <1>1, <1>3 DEF HoldsStop
  <2>2. \A u \in Threads : \A h \in Channels :
          /\ \A i \in DOMAIN stack'[u] : HoldsStop(stack'[u][i], h) =>
               \/ u = Main /\ i = k /\ h = g
               \/ i \in DOMAIN stack[u] /\ HoldsStop(stack[u][i], h)
          /\ \A i \in DOMAIN stack[u] : HoldsStop(stack[u][i], h) =>
               i \in DOMAIN stack'[u] /\ HoldsStop(stack'[u][i], h)
    BY <1>2, <1>8, <2>1
  <2>3. HoldsStop(stack'[Main][k], g)
    BY <1>8, <2>1
  <2>4. /\ stopLock[g] = Free /\ stopLock' = [stopLock EXCEPT ![g] = Main]
        /\ k \in DOMAIN stack'[Main] /\ TypeOK /\ StopLocks /\ Main \in Threads /\ g \in Channels
    BY <1>1, <1>2, <1>4, <1>8 DEF ShutdownInv
  <2>5. OneStopMore(Main, g, k)
    BY <2>2 DEF OneStopMore
  <2> QED
    BY <2>3, <2>4, <2>5, StopLockTaken
<1>10. \A h : ~HoldsFlush(Top(Main), h) /\ ~HoldsFlush(f, h)
  BY <1>1, <1>3 DEF HoldsFlush
<1>11. FlushLocks' /\ FlushesRight'
  BY <1>1, <1>2, <1>8, <1>10, FlushLocksStay, FlushesStay DEF ShutdownInv, flushVars
<1>12. WorkOnce' /\ StoppedRight' /\ ExitedRight'
  <2>1. SameWork
    BY <1>1, <1>2, <1>3, ChangeKeepsWork
  <2> QED
    BY <1>1, <1>2, <1>5, <2>1, WorkStays, StoppedStays, ExitedStays
    DEF ShutdownInv, Frame, masterVars
<1>13. TypeOK'
  <2>1. stopLock' \in [Channels -> Threads \cup {Free}]
    BY <1>1, <1>2 DEF TypeOK
  <2> QED
    BY <1>1, <1>2, <1>3, <1>9, <1>11, <2>1, LocksAgreeNext
    DEF TypeOK, LocksAgree, ChangeTop, Frame, coordVars, masterVars, flushVars
<1>14. LoadingRight' /\ RegisteredCaptures'
  BY <1>1 DEF ShutdownInv, LoadingRight, RegisteredCaptures, Frame, coordVars, masterVars
<1> QED
  BY <1>7, <1>9, <1>11, <1>12, <1>13, <1>14 DEF ShutdownInv

\* All but the call a thread is in stay as they are.
OthersStay(t) ==
  \A u \in Threads :
    /\ \A i \in DOMAIN stack'[u] : i \in DOMAIN stack[u]
    /\ \A i \in DOMAIN stack[u] : \/ u = t /\ i = Len(stack[t])
                                  \/ i \in DOMAIN stack'[u] /\ stack'[u][i] = stack[u][i]

\* The innermost call leaves stop_polling ...
LEMMA StopReleased ==
  ASSUME TypeOK, StopLocks, NEW t \in Threads, Busy(t), NEW g \in Channels,
         HoldsStop(Top(t), g), OthersStay(t), stopLock' = [stopLock EXCEPT ![g] = Free],
         Len(stack[t]) \in DOMAIN stack'[t] => stack'[t][Len(stack[t])].step # "set"
  PROVE  StopLocks'
<1>1. Len(stack[t]) \in DOMAIN stack[t] /\ HoldsStop(stack[t][Len(stack[t])], g)
  BY TopType
<1>2. PICK k \in DOMAIN stack[t] : k = Len(stack[t])
  BY <1>1
<1>3. OneStopLess(t, k)
  BY <1>1, <1>2 DEF OneStopLess, OthersStay, HoldsStop
<1>4. HoldsStop(stack[t][k], g)
  BY <1>1, <1>2
<1> QED
  BY <1>2, <1>3, <1>4, StopLockGiven

\* ... or the flush, and gives the lock back.
LEMMA FlushReleased ==
  ASSUME TypeOK, FlushLocks, NEW t \in Threads, Busy(t), NEW g \in Channels,
         HoldsFlush(Top(t), g), OthersStay(t), flushLock' = [flushLock EXCEPT ![g] = Free],
         Len(stack[t]) \in DOMAIN stack'[t] => stack'[t][Len(stack[t])].step \notin {"load", "call"}
  PROVE  FlushLocks'
<1>1. Len(stack[t]) \in DOMAIN stack[t] /\ HoldsFlush(stack[t][Len(stack[t])], g)
  BY TopType
<1>2. PICK k \in DOMAIN stack[t] : k = Len(stack[t])
  BY <1>1
<1>3. OneFlushLess(t, k)
  BY <1>1, <1>2 DEF OneFlushLess, OthersStay, HoldsFlush
<1>4. HoldsFlush(stack[t][k], g)
  BY <1>1, <1>2
<1> QED
  BY <1>2, <1>3, <1>4, FlushLockGiven

\* A step outside stop_polling ...
LEMMA StopUntouched ==
  ASSUME TypeOK, StopLocks, NEW t \in Threads, Busy(t), OthersStay(t), stopLock' = stopLock,
         Top(t).step # "set",
         Len(stack[t]) \in DOMAIN stack'[t] => stack'[t][Len(stack[t])].step # "set"
  PROVE  StopLocks'
<1>1. Len(stack[t]) \in DOMAIN stack[t] /\ Top(t) = stack[t][Len(stack[t])]
  BY TopType
<1> QED
  BY <1>1, StopLocksStay DEF OthersStay, HoldsStop

\* ... or outside the flush.
LEMMA FlushUntouched ==
  ASSUME TypeOK, FlushLocks, NEW t \in Threads, Busy(t), OthersStay(t), flushLock' = flushLock,
         Top(t).step \notin {"load", "call"},
         Len(stack[t]) \in DOMAIN stack'[t] => stack'[t][Len(stack[t])].step \notin {"load", "call"}
  PROVE  FlushLocks'
<1>1. Len(stack[t]) \in DOMAIN stack[t] /\ Top(t) = stack[t][Len(stack[t])]
  BY TopType
<1> QED
  BY <1>1, FlushLocksStay DEF OthersStay, HoldsFlush

\* When the innermost call goes on, the others stay ...
LEMMA OthersStayChanged ==
  ASSUME TypeOK, NEW t \in Threads, Busy(t), NEW f \in Calls, ChangeTop(t, f)
  PROVE  /\ OthersStay(t)
         /\ Len(stack[t]) \in DOMAIN stack'[t] /\ stack'[t][Len(stack[t])] = f
BY TopType DEF ChangeTop, OthersStay

\* ... and when it returns.
LEMMA OthersStayReturned ==
  ASSUME TypeOK, NEW t \in Threads, Busy(t), PopTop(t)
  PROVE  OthersStay(t) /\ Len(stack[t]) \notin DOMAIN stack'[t]
BY TopType DEF PopTop, OthersStay

\* stop_polling sets the event and gives the lock back.
LEMMA SetStopEventStep == ASSUME ShutdownInv, SetStopEvent PROVE ShutdownInv'
<1>1. /\ Busy(Main) /\ Top(Main).step = "set"
      /\ FrameOK(Main, Top(Main)) /\ TypeOK /\ Top(Main) \in Calls /\ Main \in Threads
  BY TopFrame, ThreadsAndChannels DEF SetStopEvent, InCall
<1>2. PICK g \in Channels : g = Top(Main).chan
  BY <1>1 DEF FrameOK
<1>3. /\ stopped' = [stopped EXCEPT ![g] = TRUE] /\ stopLock' = [stopLock EXCEPT ![g] = Free]
      /\ IF Top(Main).by = 0 THEN Returns(Main) ELSE Goes(Main, "join")
      /\ Frame /\ UNCHANGED <<ran, masterStops, suppressed, flushVars, cursor>>
  BY <1>2 DEF SetStopEvent, Frame, madeVars
<1>4. FlagsRise /\ stopped' \in [Channels -> BOOLEAN] /\ stopped'[g]
  BY <1>1, <1>2, <1>3 DEF FlagsRise, TypeOK, Frame, coordVars, flushVars
<1>5. HoldsStop(Top(Main), g) /\ Top(Main).step \notin {"load", "call"}
  BY <1>1, <1>2 DEF HoldsStop
<1>6. /\ OthersStay(Main) /\ stack' \in [Threads -> Seq(Calls)] /\ FramesOK' /\ SameWork
      /\ Len(stack[Main]) \in DOMAIN stack'[Main] =>
           stack'[Main][Len(stack[Main])].step \notin {"set", "load", "call"}
  <2>1. CASE Top(Main).by = 0
    <3>1. PopTop(Main)
      BY <1>1, <1>3, <2>1, Returning
    <3>2. FramesOK' /\ SameWork
      BY <1>1, <1>4, <2>1, <3>1, PopKeepsFrames, PopKeepsWork DEF ShutdownInv
    <3> QED
      BY <1>1, <3>1, <3>2, OthersStayReturned DEF PopTop
  <2>2. CASE Top(Main).by # 0
    <3>1. PICK f \in Calls :
            /\ ChangeTop(Main, f) /\ f.step = "join" /\ f.by = Top(Main).by
            /\ f.chan = g /\ f.rest = Top(Main).rest
      BY <1>1, <1>2, <1>3, <2>2, GoingOn
    <3>2. Works(Top(Main))
      BY <1>1, <2>2 DEF FrameOK
    <3>3. Works(f)'
      <4>1. f.by \in Channels /\ ran[f.by] /\ drains[f.by] \subseteq Channels /\ suppressed[g]
        BY <1>1, <1>2, <3>1, <3>2 DEF Works, TypeOK
      <4>2. \A h \in drains'[f.by] : h \in f.rest \/ h = f.chan \/ Done(h)'
        BY <1>1, <1>2, <1>4, <3>1, <3>2, <4>1, DoneStays DEF Works, FlagsRise
      <4> QED
        BY <1>4, <3>1, <4>1, <4>2 DEF Works, FlagsRise
    <3>4. FrameOK(Main, f)'
      BY <2>2, <3>1, <3>3 DEF FrameOK
    <3>5. FramesOK' /\ SameWork
      BY <1>1, <1>4, <3>1, <3>4, ChangeKeepsFrames, ChangeKeepsWork DEF ShutdownInv
    <3>6. OthersStay(Main) /\ stack'[Main][Len(stack[Main])] = f
      BY <1>1, <3>1, OthersStayChanged
    <3> QED
      BY <3>1, <3>5, <3>6 DEF ChangeTop
  <2> QED
    BY <2>1, <2>2
<1>7. StopLocks'
  BY <1>1, <1>3, <1>5, <1>6, StopReleased DEF ShutdownInv
<1>8. FlushLocks'
  BY <1>1, <1>3, <1>5, <1>6, FlushUntouched DEF ShutdownInv, flushVars
<1>9. FlushesRight'
  <2>1. \A u \in Threads : \A h \in Channels : \A i \in DOMAIN stack'[u] :
          HoldsFlush(stack'[u][i], h) => i \in DOMAIN stack[u] /\ HoldsFlush(stack[u][i], h)
    BY <1>6 DEF OthersStay, HoldsFlush
  <2> QED
    BY <1>3, <1>4, <2>1, FlushesStay DEF ShutdownInv, flushVars, FlagsRise
<1>10. WorkOnce' /\ StoppedRight' /\ ExitedRight'
  BY <1>1, <1>3, <1>4, <1>6, WorkStays, StoppedStays, ExitedStays
  DEF ShutdownInv, Frame, masterVars
<1>11. TypeOK'
  <2>1. stopLock' \in [Channels -> Threads \cup {Free}]
    BY <1>1, <1>3 DEF TypeOK
  <2> QED
    BY <1>1, <1>3, <1>4, <1>6, <1>7, <1>8, <2>1, LocksAgreeNext
    DEF TypeOK, LocksAgree, Frame, coordVars, masterVars, flushVars
<1>12. LoadingRight' /\ RegisteredCaptures'
  BY <1>3 DEF ShutdownInv, LoadingRight, RegisteredCaptures, Frame, coordVars, masterVars
<1> QED
  BY <1>6, <1>7, <1>8, <1>9, <1>10, <1>11, <1>12 DEF ShutdownInv

\* A flush is over: the call of a poll thread returns, a drain goes on with one
\* channel more behind it.
LEMMA FlushOver ==
  ASSUME ShutdownInv, NEW t \in Threads, Busy(t), Top(t).step \in {"flush", "call"},
         FlushReturns(t), FlagsRise, Top(t).chan \in tried'
  PROVE  /\ OthersStay(t) /\ stack' \in [Threads -> Seq(Calls)] /\ FramesOK' /\ SameWork
         /\ Len(stack[t]) \in DOMAIN stack'[t] =>
              stack'[t][Len(stack[t])].step \notin {"set", "load", "call"}
<1>1. FrameOK(t, Top(t)) /\ TypeOK /\ Top(t) \in Calls
  BY TopFrame
<1>2. CASE t # Main
  <2>1. PopTop(t)
    BY <1>1, <1>2, Returning DEF FlushReturns
  <2>2. FramesOK' /\ SameWork
    BY <1>1, <1>2, <2>1, PopKeepsFrames, PopKeepsWork DEF ShutdownInv
  <2> QED
    BY <1>1, <2>1, <2>2, OthersStayReturned DEF PopTop
<1>3. CASE t = Main
  <2>1. Works(Top(t)) /\ Top(t).rest \in SUBSET Channels /\ Top(t).chan \in Channels
    BY <1>1, <1>3, CallType DEF FrameOK
  <2>a. PICK x \in Channels : x = Top(t).chan
    BY <2>1
  <2>2. PICK f \in Calls :
          /\ ChangeTop(t, f) /\ f.by = Top(t).by
          /\ \/ f.step = "suppress" /\ f.chan \in Channels /\ Top(t).rest = f.rest \cup {f.chan}
             \/ f.step = "master" /\ f.chan = 0 /\ Top(t).rest = {} /\ f.rest = Top(t).rest
    BY <1>1, <1>3, <2>1, DrainGoesOn DEF FlushReturns
  <2>3. f.by \in Channels /\ ran[f.by] /\ drains[f.by] \subseteq Channels
    BY <1>1, <2>1, <2>2 DEF Works, TypeOK
  <2>4. Done(x)'
    BY <2>1, <2>a DEF Works, Done, FlagsRise
  <2>5. \A h \in drains'[f.by] : h \in f.rest \/ h = f.chan \/ Done(h)'
    <3> SUFFICES ASSUME NEW h \in drains[f.by] PROVE h \in f.rest \/ h = f.chan \/ Done(h)'
      BY DEF FlagsRise
    <3>1. h \in Top(t).rest \/ h = Top(t).chan \/ Done(h)
      BY <2>1, <2>2 DEF Works
    <3>2. Done(h) => Done(h)'
      BY <1>1, <2>3, DoneStays
    <3> QED
      BY <2>2, <2>4, <2>a, <3>1, <3>2
  <2>6. f.step \in {"suppress", "master"} /\ (f.step = "master" => f.rest = {} /\ f.chan = 0)
    BY <2>2
  <2>7. Works(f)'
    BY <2>3, <2>5, <2>6 DEF Works, FlagsRise
  <2>8. FrameOK(t, f)'
    <3>1. f.by # 0 /\ (f.step = "suppress" => f.chan \in Channels)
      BY <2>2, <2>3, ThreadsAndChannels DEF Main
    <3> QED
      BY <1>3, <2>6, <2>7, <3>1 DEF FrameOK
  <2>9. FramesOK' /\ SameWork
    BY <1>1, <2>2, <2>6, <2>8, ChangeKeepsFrames, ChangeKeepsWork DEF ShutdownInv
  <2>10. OthersStay(t) /\ stack'[t][Len(stack[t])] = f
    BY <1>1, <2>2, OthersStayChanged
  <2> QED
    BY <2>2, <2>6, <2>9, <2>10 DEF ChangeTop
<1> QED
  BY <1>2, <1>3

\* The flush lock is taken, unless the flush is complete.
LEMMA TakeFlushLockStep == ASSUME ShutdownInv, NEW t \in Threads, TakeFlushLock(t) PROVE ShutdownInv'
<1>1. /\ Busy(t) /\ Top(t).step = "flush"
      /\ FrameOK(t, Top(t)) /\ TypeOK /\ Top(t) \in Calls
      /\ Len(stack[t]) \in DOMAIN stack[t] /\ Top(t) = stack[t][Len(stack[t])]
  BY TopFrame, TopType DEF TakeFlushLock, InCall
<1>2. PICK g \in Channels : g = Top(t).chan
  BY <1>1 DEF FrameOK
<1>3. /\ flushLock[g] = Free
      /\ IF flushed[g] THEN FlushReturns(t) /\ flushLock' = flushLock
                       ELSE Goes(t, "load") /\ flushLock' = [flushLock EXCEPT ![g] = t]
      /\ Frame /\ UNCHANGED <<ran, masterStops, flagVars, flushed, flushes, tried, cursor>>
  BY <1>2 DEF TakeFlushLock, Frame, madeVars
<1>4. FlagsRise
  BY <1>3 DEF FlagsRise, Frame, coordVars, flagVars
<1>5. /\ OthersStay(t) /\ stack' \in [Threads -> Seq(Calls)] /\ FramesOK' /\ SameWork
      /\ Len(stack[t]) \in DOMAIN stack'[t] => stack'[t][Len(stack[t])].step # "set"
      /\ FlushLocks' /\ FlushesRight' /\ flushLock' \in [Channels -> Threads \cup {Free}]
  <2>1. CASE flushed[g]
    <3>1. g \in tried'
      BY <1>3, <2>1 DEF ShutdownInv, FlushesRight
    <3>2. /\ OthersStay(t) /\ stack' \in [Threads -> Seq(Calls)] /\ FramesOK' /\ SameWork
          /\ Len(stack[t]) \in DOMAIN stack'[t] =>
               stack'[t][Len(stack[t])].step \notin {"set", "load", "call"}
      BY <1>1, <1>2, <1>3, <1>4, <2>1, <3>1, FlushOver
    <3>3. FlushLocks'
      BY <1>1, <1>3, <2>1, <3>2, FlushUntouched DEF ShutdownInv
    <3>4. \A u \in Threads : \A h \in Channels : \A i \in DOMAIN stack'[u] :
            HoldsFlush(stack'[u][i], h) => i \in DOMAIN stack[u] /\ HoldsFlush(stack[u][i], h)
      BY <3>2 DEF OthersStay, HoldsFlush
    <3>5. FlushesRight'
      BY <1>3, <1>4, <3>4, FlushesStay DEF ShutdownInv, FlagsRise
    <3> QED
      BY <1>1, <1>3, <2>1, <3>2, <3>3, <3>5 DEF TypeOK
  <2>2. CASE ~flushed[g]
    <3>1. PICK f \in Calls :
            /\ ChangeTop(t, f) /\ f.step = "load" /\ f.by = Top(t).by
            /\ f.chan = g /\ f.rest = Top(t).rest
      BY <1>1, <1>2, <1>3, <2>2, GoingOn
    <3>2. FrameOK(t, f)
      BY <1>1, <1>2, <3>1 DEF FrameOK, Works
    <3>3. FrameOK(t, f)'
      BY <1>1, <1>4, <3>2, FrameStays
    <3>4. FramesOK' /\ SameWork
      BY <1>1, <1>4, <3>1, <3>3, ChangeKeepsFrames, ChangeKeepsWork DEF ShutdownInv
    <3>5. OthersStay(t) /\ Len(stack[t]) \in DOMAIN stack'[t] /\ stack'[t][Len(stack[t])] = f
      BY <1>1, <3>1, OthersStayChanged
    <3>6. PICK k \in DOMAIN stack'[t] : k = Len(stack[t])
      BY <3>5
    <3>7. OneFlushMore(t, g, k)
      BY <1>1, <3>1, <3>5, <3>6 DEF OneFlushMore, OthersStay, HoldsFlush
    <3>8. HoldsFlush(stack'[t][k], g)
      BY <3>1, <3>5, <3>6 DEF HoldsFlush
    <3>9. flushLock' = [flushLock EXCEPT ![g] = t]
      BY <1>3, <2>2
    <3>10. FlushLocks'
      BY <1>1, <1>3, <3>6, <3>7, <3>8, <3>9, FlushLockTaken DEF ShutdownInv
    <3>11. \A u \in Threads : \A h \in Channels : \A i \in DOMAIN stack'[u] :
             HoldsFlush(stack'[u][i], h) =>
               h = g \/ (i \in DOMAIN stack[u] /\ HoldsFlush(stack[u][i], h))
      <4> SUFFICES ASSUME NEW u \in Threads, NEW h \in Channels, NEW i \in DOMAIN stack'[u],
                          HoldsFlush(stack'[u][i], h)
                   PROVE  h = g \/ (i \in DOMAIN stack[u] /\ HoldsFlush(stack[u][i], h))
        OBVIOUS
      <4>1. CASE u = t /\ i = k
        BY <3>8, <4>1 DEF HoldsFlush
      <4>2. CASE ~(u = t /\ i = k)
        BY <3>7, <4>2 DEF OneFlushMore
      <4> QED
        BY <4>1, <4>2
    <3>12. FlushesRight'
      BY <1>3, <2>2, <3>11 DEF ShutdownInv, FlushesRight
    <3> QED
      BY <1>1, <3>1, <3>4, <3>5, <3>9, <3>10, <3>12 DEF ChangeTop, TypeOK
  <2> QED
    BY <2>1, <2>2
<1>6. StopLocks'
  BY <1>1, <1>3, <1>5, StopUntouched DEF ShutdownInv, flagVars
<1>7. WorkOnce' /\ StoppedRight' /\ ExitedRight'
  BY <1>1, <1>3, <1>4, <1>5, WorkStays, StoppedStays, ExitedStays
  DEF ShutdownInv, Frame, masterVars
<1>8. TypeOK'
  BY <1>1, <1>3, <1>5, <1>6, LocksAgreeNext
  DEF TypeOK, LocksAgree, Frame, coordVars, masterVars, flagVars
<1>9. LoadingRight' /\ RegisteredCaptures'
  BY <1>3 DEF ShutdownInv, LoadingRight, RegisteredCaptures, Frame, coordVars, masterVars
<1> QED
  BY <1>5, <1>6, <1>7, <1>8, <1>9 DEF ShutdownInv

\* The call to Core returns or raises.
LEMMA FlushCallStep ==
  ASSUME ShutdownInv, NEW t \in Threads, NEW answered \in BOOLEAN, Flush(t, answered)
  PROVE  ShutdownInv'
<1>1. /\ Busy(t) /\ Top(t).step = "call"
      /\ FrameOK(t, Top(t)) /\ TypeOK /\ Top(t) \in Calls
      /\ Len(stack[t]) \in DOMAIN stack[t] /\ Top(t) = stack[t][Len(stack[t])]
  BY TopFrame, TopType DEF Flush, InCall
<1>2. PICK g \in Channels : g = Top(t).chan
  BY <1>1 DEF FrameOK
<1>3. PICK n \in 0 .. MaxCursor : n = Top(t).read
  BY <1>1, CallType
<1>4. /\ flushed' = [flushed EXCEPT ![g] = answered \/ n = 0]
      /\ flushes' = [flushes EXCEPT ![g] = IF answered /\ n # 0 THEN Append(flushes[g], n) ELSE flushes[g]]
      /\ tried' = tried \cup {g} /\ flushLock' = [flushLock EXCEPT ![g] = Free]
      /\ FlushReturns(t)
      /\ Frame /\ UNCHANGED <<ran, masterStops, flagVars, cursor>>
  <2>1. Top(t).chan = g /\ Top(t).read = n
    BY <1>2, <1>3
  <2> QED
    BY <2>1 DEF Flush, Frame, madeVars
<1>5. FlagsRise /\ g \in tried'
  BY <1>4 DEF FlagsRise, Frame, coordVars, flagVars
<1>6. /\ OthersStay(t) /\ stack' \in [Threads -> Seq(Calls)] /\ FramesOK' /\ SameWork
      /\ Len(stack[t]) \in DOMAIN stack'[t] =>
           stack'[t][Len(stack[t])].step \notin {"set", "load", "call"}
  BY <1>1, <1>2, <1>4, <1>5, FlushOver
<1>7. HoldsFlush(Top(t), g) /\ ~flushed[g]
  <2>1. HoldsFlush(stack[t][Len(stack[t])], g)
    BY <1>1, <1>2 DEF HoldsFlush
  <2> QED
    BY <1>1, <2>1 DEF ShutdownInv, FlushesRight
<1>8. FlushLocks'
  BY <1>1, <1>4, <1>6, <1>7, FlushReleased DEF ShutdownInv
<1>9. StopLocks'
  BY <1>1, <1>4, <1>6, StopUntouched DEF ShutdownInv, flagVars
<1>10. flushes[g] = <<>> /\ flushes \in [Channels -> Seq(1 .. MaxCursor)]
  BY <1>1, <1>7 DEF ShutdownInv, FlushesRight, TypeOK
<1>11. /\ flushes'[g] \in Seq(1 .. MaxCursor) /\ Len(flushes'[g]) <= 1
       /\ flushes'[g] # <<>> => flushed'[g]
       /\ flushed'[g] \in BOOLEAN
  <2>1. flushes'[g] = IF answered /\ n # 0 THEN <<n>> ELSE <<>>
    BY <1>4, <1>10
  <2>2. flushed'[g] = (answered \/ n = 0)
    BY <1>1, <1>4 DEF TypeOK
  <2>3. CASE answered /\ n # 0
    <3>1. n \in 1 .. MaxCursor /\ flushes'[g] = <<n>>
      BY <2>1, <2>3, ShutdownAssumption
    <3>2. <<n>> \in Seq(1 .. MaxCursor) /\ Len(<<n>>) = 1
      BY <3>1
    <3>3. flushed'[g] = TRUE
      BY <2>2, <2>3
    <3>4. flushes'[g] \in Seq(1 .. MaxCursor) /\ Len(flushes'[g]) <= 1
      BY <3>1, <3>2
    <3> QED
      BY <3>3, <3>4
  <2>4. CASE ~(answered /\ n # 0)
    <3>1. flushes'[g] = <<>>
      BY <2>1, <2>4
    <3>2. <<>> \in Seq(1 .. MaxCursor) /\ Len(<<>>) = 0
      OBVIOUS
    <3>3. flushed'[g] \in BOOLEAN
      BY <2>2
    <3> QED
      BY <3>1, <3>2, <3>3
  <2> QED
    BY <2>3, <2>4
<1>12. \A h \in Channels : h # g => flushes'[h] = flushes[h] /\ flushed'[h] = flushed[h]
  BY <1>1, <1>4 DEF TypeOK
<1>13. FlushesRight'
  <2>1. ~\E u \in Threads : \E i \in DOMAIN stack'[u] : HoldsFlush(stack'[u][i], g)
    <3>1. flushLock'[g] = Free
      BY <1>1, <1>4 DEF TypeOK
    <3> QED
      BY <1>8, <3>1, ThreadsAndChannels DEF FlushLocks
  <2>2. \A u \in Threads : \A h \in Channels : \A i \in DOMAIN stack'[u] :
          HoldsFlush(stack'[u][i], h) => i \in DOMAIN stack[u] /\ HoldsFlush(stack[u][i], h)
    BY <1>6 DEF OthersStay, HoldsFlush
  <2>3. ASSUME NEW h \in Channels
        PROVE  /\ Len(flushes'[h]) <= 1
               /\ flushes'[h] # <<>> => flushed'[h]
               /\ flushed'[h] => h \in tried'
               /\ \A u \in Threads : \A i \in DOMAIN stack'[u] :
                    HoldsFlush(stack'[u][i], h) => ~flushed'[h]
    <3>1. CASE h = g
      BY <1>5, <1>11, <2>1, <3>1
    <3>2. CASE h # g
      BY <1>12, <1>4, <2>2, <3>2 DEF ShutdownInv, FlushesRight
    <3> QED
      BY <3>1, <3>2
  <2> QED
    BY <2>3 DEF FlushesRight
<1>14. WorkOnce' /\ StoppedRight' /\ ExitedRight'
  BY <1>1, <1>4, <1>5, <1>6, WorkStays, StoppedStays, ExitedStays
  DEF ShutdownInv, Frame, masterVars
<1>15. TypeOK'
  <2>1. /\ flushLock' \in [Channels -> Threads \cup {Free}] /\ flushed' \in [Channels -> BOOLEAN]
        /\ tried' \subseteq Channels
    BY <1>1, <1>4 DEF TypeOK
  <2>2. flushes' \in [Channels -> Seq(1 .. MaxCursor)]
    BY <1>4, <1>10, <1>11, <1>12
  <2> QED
    BY <1>1, <1>4, <1>6, <1>8, <1>9, <2>1, <2>2, LocksAgreeNext
    DEF TypeOK, LocksAgree, Frame, coordVars, masterVars, flagVars
<1>16. LoadingRight' /\ RegisteredCaptures'
  BY <1>4 DEF ShutdownInv, LoadingRight, RegisteredCaptures, Frame, coordVars, masterVars
<1> QED
  BY <1>6, <1>8, <1>9, <1>13, <1>14, <1>15, <1>16 DEF ShutdownInv

\* Phase 3: the master is stopped by the coordinator that wrapped it.
LEMMA StopMasterStep == ASSUME ShutdownInv, StopMaster PROVE ShutdownInv'
<1>1. /\ Busy(Main) /\ Top(Main).step = "master" /\ exited = 0
      /\ FrameOK(Main, Top(Main)) /\ TypeOK /\ Top(Main) \in Calls /\ Main \in Threads
      /\ Len(stack[Main]) \in DOMAIN stack[Main] /\ Top(Main) = stack[Main][Len(stack[Main])]
  BY TopFrame, TopType, ThreadsAndChannels DEF StopMaster, InCall
<1>2. Works(Top(Main)) /\ Top(Main).by \in Channels
  BY <1>1 DEF FrameOK, Works
<1>3. PICK c \in Channels : c = Top(Main).by
  BY <1>2
<1>4. /\ masterStops' = IF installed[c] THEN masterStops + 1 ELSE masterStops
      /\ Goes(Main, "wait") /\ Frame /\ UNCHANGED <<ran, flagVars, flushVars, cursor>>
  BY <1>3 DEF StopMaster, Frame, madeVars
<1>5. FlagsRise
  BY <1>4 DEF FlagsRise, Frame, coordVars, flagVars, flushVars
<1>6. PICK f \in Calls :
        /\ ChangeTop(Main, f) /\ f.step = "wait" /\ f.by = c
        /\ f.chan = Top(Main).chan /\ f.rest = Top(Main).rest
  BY <1>1, <1>3, <1>4, GoingOn
<1>7. FrameOK(Main, f)
  BY <1>1, <1>2, <1>3, <1>6 DEF FrameOK, Works
<1>8. FramesOK' /\ SameWork
  <2>1. FrameOK(Main, f)'
    BY <1>1, <1>5, <1>7, FrameStays
  <2> QED
    BY <1>1, <1>3, <1>5, <1>6, <2>1, ChangeKeepsFrames, ChangeKeepsWork DEF ShutdownInv
<1>9. StopLocks' /\ FlushLocks' /\ FlushesRight'
  BY <1>1, <1>4, <1>6, ChangeKeepsLocks DEF ShutdownInv, flagVars
<1>10. WorkOnce' /\ ExitedRight'
  BY <1>1, <1>4, <1>5, <1>8, WorkStays, ExitedStays DEF ShutdownInv, Frame
<1>11. c # 0 /\ drains[c] \subseteq Channels /\ ran[c] /\ \A g \in drains[c] : Done(g)
  <2>1. drains[c] \subseteq Channels
    BY <1>1 DEF TypeOK
  <2>2. Top(Main).rest = {} /\ Top(Main).chan = 0
    BY <1>1, <1>2 DEF Works
  <2> QED
    BY <1>2, <1>3, <2>1, <2>2, ThreadsAndChannels DEF Works, Main
<1>12. StoppedRight'
  <2>1. CASE ~installed[c]
    <3>1. masterStops' = masterStops /\ ran' = ran /\ wrappedBy' = wrappedBy
      BY <1>4, <2>1 DEF Frame, masterVars
    <3> QED
      BY <1>1, <1>5, <1>8, <3>1, StoppedStays DEF ShutdownInv
  <2>2. CASE installed[c]
    <3>1. wrappedBy = c
      BY <2>2 DEF ShutdownInv, RegisteredCaptures
    <3>2. Working(Len(stack[Main]))
      BY <1>1, <1>3, <1>11 DEF Working
    <3>3. masterStops = 0
      <4>1. stack[Main][Len(stack[Main])].by = wrappedBy /\ stack[Main][Len(stack[Main])].step = "master"
        BY <1>1, <1>3, <3>1
      <4>2. masterStops > 0 => FALSE
        BY <1>1, <3>2, <4>1 DEF ShutdownInv, StoppedRight
      <4> QED
        BY <1>1, <4>2 DEF TypeOK
    <3>4. masterStops' = 1 /\ wrappedBy' = c /\ ran'[c] /\ drains'[c] = drains[c]
      BY <1>4, <1>11, <2>2, <3>1, <3>3 DEF Frame, masterVars, coordVars
    <3>5. \A g \in drains'[c] : Done(g)'
      BY <1>1, <1>5, <1>11, <3>4, DoneStays
    <3>6. \A i \in DOMAIN stack'[Main] :
            Working(i)' /\ stack'[Main][i].by = c => stack'[Main][i].step \in {"wait", "exit"}
      <4> SUFFICES ASSUME NEW i \in DOMAIN stack'[Main], stack'[Main][i].by # 0,
                          stack'[Main][i].step # "run", stack'[Main][i].by = c
                   PROVE  stack'[Main][i].step \in {"wait", "exit"}
        BY DEF Working
      <4>1. i \in DOMAIN stack[Main] /\ Working(i) /\ stack[Main][i].by = c
        BY <1>8 DEF SameWork
      <4>2. i = Len(stack[Main])
        BY <1>1, <1>3, <3>2, <4>1 DEF ShutdownInv, WorkOnce
      <4>3. stack'[Main][i] = f
        BY <1>1, <1>6, <4>1, <4>2 DEF ChangeTop
      <4> QED
        BY <1>6, <4>3
    <3> QED
      BY <3>4, <3>5, <3>6 DEF StoppedRight
  <2> QED
    BY <2>1, <2>2
<1>13. TypeOK'
  <2>1. masterStops' \in Nat
    BY <1>1, <1>4 DEF TypeOK
  <2> QED
    BY <1>1, <1>4, <1>6, <1>9, <2>1, LocksAgreeNext
    DEF TypeOK, LocksAgree, ChangeTop, Frame, coordVars, masterVars, flagVars, flushVars
<1>14. LoadingRight' /\ RegisteredCaptures'
  BY <1>4 DEF ShutdownInv, LoadingRight, RegisteredCaptures, Frame, coordVars, masterVars
<1> QED
  BY <1>8, <1>9, <1>10, <1>12, <1>13, <1>14 DEF ShutdownInv

\* The process ends.
LEMMA ExitStep == ASSUME ShutdownInv, Exit PROVE ShutdownInv'
<1>1. /\ Busy(Main) /\ Top(Main).step = "exit" /\ exited = 0
      /\ FrameOK(Main, Top(Main)) /\ TypeOK /\ Top(Main) \in Calls /\ Main \in Threads
  BY TopFrame, ThreadsAndChannels DEF Exit, InCall
<1>2. PICK c \in Channels : c = Top(Main).by
  BY <1>1 DEF FrameOK, Works
<1>3. /\ exited' = c
      /\ UNCHANGED <<madeVars, coordVars, ran, masterVars, masterStops, stack, flagVars, flushVars,
                     cursor, signals>>
  BY <1>2 DEF Exit
<1>4. c # 0 /\ c \in Threads
  BY ThreadsAndChannels DEF Main
<1>5. Works(Top(Main))
  BY <1>1, <1>2, <1>4 DEF FrameOK
<1>6. \A g \in drains[c] : Done(g)
  <2>1. drains[c] \subseteq Channels /\ Top(Main).rest = {} /\ Top(Main).chan = 0
    BY <1>1, <1>5 DEF Works, TypeOK
  <2> QED
    BY <1>2, <1>5, <2>1, ThreadsAndChannels DEF Works, Main
<1>7. ExitedRight'
  <2>1. drains' = drains /\ UNCHANGED <<suppressed, stopped, tried>>
    BY <1>3 DEF coordVars, flagVars, flushVars
  <2> QED
    BY <1>3, <1>6, <2>1 DEF ExitedRight, Done
<1>8. WorkOnce'
  BY <1>3, <1>4 DEF ShutdownInv, WorkOnce, Working
<1>9. StopLocks' /\ FlushLocks' /\ FlushesRight'
  BY <1>3 DEF ShutdownInv, StopLocks, FlushLocks, FlushesRight, HoldsStop, HoldsFlush, flagVars, flushVars
<1>10. TypeOK'
  BY <1>1, <1>3, <1>4, <1>9, LocksAgreeNext
  DEF TypeOK, LocksAgree, madeVars, coordVars, masterVars, flagVars, flushVars
<1>11. FramesOK'
  BY <1>3 DEF ShutdownInv, FramesOK, FrameOK, Works, Done, flagVars, flushVars, coordVars
<1>12. StoppedRight'
  BY <1>3 DEF ShutdownInv, StoppedRight, Working, Done, flagVars, flushVars, coordVars, masterVars
<1>13. LoadingRight' /\ RegisteredCaptures'
  BY <1>3 DEF ShutdownInv, LoadingRight, RegisteredCaptures, madeVars, coordVars, masterVars
<1> QED
  BY <1>7, <1>8, <1>9, <1>10, <1>11, <1>12, <1>13 DEF ShutdownInv

-----------------------------------------------------------------------------
(***************************************************************************)
(* Steps that begin a call, and steps outside the calls.                   *)
(***************************************************************************)
LEMMA PushKeeps ==
  ASSUME ShutdownInv, NEW t \in Threads, NEW f \in Calls,
         stack' = [stack EXCEPT ![t] = Append(@, f)],
         f.step \in {"run", "stop", "poll", "flush"}, FrameOK(t, f),
         t = Main => f.by = 0 \/ f.step = "run", signals' \in 0 .. MaxSignals,
         UNCHANGED <<madeVars, coordVars, ran, masterVars, masterStops, flagVars, flushVars, cursor,
                     exited>>
  PROVE  ShutdownInv'
<1>1. TypeOK /\ PushTop(t, f)
  BY Pushing DEF ShutdownInv
<1>2. FlagsRise
  BY DEF FlagsRise, coordVars, flagVars, flushVars
<1>3. \A g : ~HoldsStop(f, g) /\ ~HoldsFlush(f, g)
  BY DEF HoldsStop, HoldsFlush
<1>4. \A u \in Threads :
        /\ \A i \in DOMAIN stack[u] : i \in DOMAIN stack'[u] /\ stack'[u][i] = stack[u][i]
        /\ \A i \in DOMAIN stack'[u] :
             \/ i \in DOMAIN stack[u] /\ stack'[u][i] = stack[u][i]
             \/ u = t /\ stack'[u][i] = f
  BY <1>1 DEF PushTop
<1>5. StopLocks'
  BY <1>3, <1>4, StopLocksStay DEF ShutdownInv, flagVars
<1>6. FlushLocks' /\ FlushesRight'
  BY <1>3, <1>4, FlushLocksStay, FlushesStay DEF ShutdownInv, flushVars
<1>7. FramesOK'
  <2>1. FrameOK(t, f)'
    BY <1>1, <1>2, FrameStays
  <2>2. ASSUME NEW u \in Threads, NEW i \in DOMAIN stack'[u]
        PROVE  \/ i \in DOMAIN stack[u] /\ stack'[u][i] = stack[u][i]
               \/ FrameOK(u, stack[u][i])'
    <3>1. CASE u = t /\ stack'[u][i] = f
      BY <2>1, <3>1
    <3> QED
      BY <1>4, <3>1
  <2> QED
    BY <1>1, <1>2, <2>2, FramesStay DEF ShutdownInv
<1>8. SameWork
  BY <1>4, ThreadsAndChannels DEF SameWork, Working
<1>9. WorkOnce' /\ StoppedRight' /\ ExitedRight'
  BY <1>1, <1>2, <1>8, WorkStays, StoppedStays, ExitedStays DEF ShutdownInv, masterVars
<1>10. TypeOK'
  BY <1>1, <1>5, <1>6, LocksAgreeNext
  DEF TypeOK, LocksAgree, PushTop, madeVars, coordVars, masterVars, flagVars, flushVars
<1>11. LoadingRight' /\ RegisteredCaptures'
  BY DEF ShutdownInv, LoadingRight, RegisteredCaptures, madeVars, coordVars, masterVars
<1> QED
  BY <1>5, <1>6, <1>7, <1>9, <1>10, <1>11 DEF ShutdownInv

\* The fields of a call that is made.
LEMMA NewCall ==
  ASSUME NEW s \in {"run", "stop", "poll", "flush"}, NEW c \in Threads, NEW g \in Threads
  PROVE  /\ Call(s, c, g) \in Calls /\ Call(s, c, g).step = s /\ Call(s, c, g).by = c
         /\ Call(s, c, g).chan = g /\ Call(s, c, g).rest = {}
<1>1. 0 \in 0 .. MaxCursor
  BY ShutdownAssumption
<1> QED
  BY <1>1 DEF Call, Calls

\* A signal interrupts the main thread.
LEMMA SignalStep == ASSUME ShutdownInv, OwnSignal \/ MasterSignal PROVE ShutdownInv'
<1>1. TypeOK /\ Main \in Threads
  BY ThreadsAndChannels DEF ShutdownInv
<1>2. \E f \in Calls :
        /\ Interrupt(f) /\ f.step \in {"run", "stop"} /\ FrameOK(Main, f)
        /\ f.by = 0 \/ f.step = "run"
  <2>1. CASE OwnSignal
    <3>1. made \in Channels /\ made \in Threads /\ 0 \in Threads
      BY <1>1, <2>1, ShutdownAssumption DEF OwnSignal, TypeOK, Channels, Threads
    <3> DEFINE c == coordOf[made]
    <3>2. c \in Threads
      BY <1>1, <3>1 DEF TypeOK
    <3>3. CASE c # 0 /\ ~ran[c]
      <4>1. Interrupt(Call("run", c, 0))
        BY <2>1, <3>3 DEF OwnSignal
      <4> HIDE DEF c
      <4>2. FrameOK(Main, Call("run", c, 0))
        BY <3>1, <3>2, <3>3, NewCall DEF FrameOK
      <4> QED
        BY <3>1, <3>2, <4>1, <4>2, NewCall
    <3>4. CASE ~(c # 0 /\ ~ran[c])
      <4>1. Interrupt(Call("stop", 0, made))
        BY <2>1, <3>4 DEF OwnSignal
      <4>2. FrameOK(Main, Call("stop", 0, made))
        BY <3>1, NewCall DEF FrameOK
      <4> QED
        BY <3>1, <4>1, <4>2, NewCall
    <3> QED
      BY <3>3, <3>4
  <2>2. CASE MasterSignal
    <3>1. wrappedBy \in Threads /\ wrappedBy # 0 /\ 0 \in Threads
      BY <1>1, <2>2, ThreadsAndChannels DEF MasterSignal, TypeOK, Main
    <3>2. FrameOK(Main, Call("run", wrappedBy, 0))
      BY <3>1, NewCall DEF FrameOK
    <3> QED
      BY <2>2, <3>1, <3>2, NewCall DEF MasterSignal
  <2> QED
    BY <2>1, <2>2
<1>3. PICK f \in Calls :
        /\ Interrupt(f) /\ f.step \in {"run", "stop"} /\ FrameOK(Main, f)
        /\ f.by = 0 \/ f.step = "run"
  BY <1>2
<1>4. signals' \in 0 .. MaxSignals
  BY <1>1, <1>3, ShutdownAssumption DEF Interrupt, TypeOK
<1> QED
  BY <1>1, <1>3, <1>4, PushKeeps DEF Interrupt

\* A poll thread starts.
LEMMA StartPollStep == ASSUME ShutdownInv, NEW g \in Channels, StartPoll(g) PROVE ShutdownInv'
<1>1. TypeOK /\ g \in Threads /\ g # Main /\ 0 \in Threads
  BY ThreadsAndChannels DEF ShutdownInv, Main
<1>2. PICK s \in {"poll", "flush"} : stack' = [stack EXCEPT ![g] = <<Call(s, 0, g)>>]
  BY DEF StartPoll
<1>3. PICK f \in Calls : f = Call(s, 0, g) /\ f.step = s /\ f.by = 0 /\ f.chan = g
  BY <1>1, NewCall
<1>4. stack[g] = <<>> /\ stack' = [stack EXCEPT ![g] = <<f>>]
  BY <1>2, <1>3 DEF StartPoll, Busy
<1>5. stack' = [stack EXCEPT ![g] = Append(@, f)]
  <2>1. <<f>> = Append(<<>>, f)
    OBVIOUS
  <2> QED
    BY <1>4, <2>1
<1>6. FrameOK(g, f)
  BY <1>1, <1>3 DEF FrameOK
<1>7. signals' \in 0 .. MaxSignals
  BY <1>1 DEF StartPoll, TypeOK
<1> QED
  BY <1>1, <1>3, <1>5, <1>6, <1>7, PushKeeps DEF StartPoll

\* The calls go on as they were.
LEMMA CallsStay ==
  ASSUME ShutdownInv, wrappedBy' = wrappedBy \/ masterStops = 0,
         UNCHANGED <<drains, ran, masterStops, stack, flagVars, flushVars, exited>>
  PROVE  /\ FramesOK' /\ StopLocks' /\ FlushLocks' /\ WorkOnce' /\ StoppedRight' /\ ExitedRight'
         /\ FlushesRight' /\ LocksAgree'
<1>1. TypeOK /\ FlagsRise
  BY DEF ShutdownInv, FlagsRise, flagVars, flushVars
<1>2. SameWork
  BY DEF SameWork, Working
<1>3. FramesOK'
  BY <1>1, FramesStay DEF ShutdownInv
<1>4. StopLocks' /\ FlushLocks' /\ FlushesRight'
  BY DEF ShutdownInv, StopLocks, FlushLocks, FlushesRight, HoldsStop, HoldsFlush, flagVars, flushVars
<1>5. WorkOnce' /\ StoppedRight' /\ ExitedRight'
  BY <1>1, <1>2, WorkStays, StoppedStays, ExitedStays DEF ShutdownInv
<1> QED
  BY <1>3, <1>4, <1>5, LocksAgreeNext

\* While the main thread loads channels, no shutdown has begun.
LEMMA IdleNothing ==
  ASSUME ShutdownInv, Idle
  PROVE  /\ exited = 0 /\ stack[Main] = <<>> /\ masterStops = 0
         /\ \A c \in Channels : ~ran[c]
<1>1. exited = 0 /\ stack[Main] = <<>>
  BY DEF Idle, Busy
<1>2. \A c \in Channels : ~ran[c]
  <2>1. DOMAIN stack[Main] = {}
    BY <1>1
  <2> QED
    BY <1>1, <2>1 DEF ShutdownInv, WorkOnce
<1>3. masterStops = 0
  BY <1>2 DEF ShutdownInv, StoppedRight, TypeOK
<1> QED
  BY <1>1, <1>2, <1>3

\* The steps of the constructor that only touch its own channel, and the master's making.
LEMMA MakeStep ==
  ASSUME ShutdownInv, MakeChannel \/ InstallLater \/ AssignCoordinator \/ MakeMaster
  PROVE  ShutdownInv'
<1>1. TypeOK /\ LoadingRight
  BY DEF ShutdownInv
<1>2. UNCHANGED <<registry, drains, installed, ran, wrappedBy, masterStops, stack, flagVars,
                  flushVars, cursor, signals, exited>>
  BY DEF MakeChannel, InstallLater, AssignCoordinator, MakeMaster, madeVars, coordVars, masterVars
<1>3. /\ FramesOK' /\ StopLocks' /\ FlushLocks' /\ WorkOnce' /\ StoppedRight' /\ ExitedRight'
      /\ FlushesRight' /\ LocksAgree'
  BY <1>2, CallsStay
<1>4. /\ made' \in 0 .. MaxChannels /\ made <= made' /\ got' \in Threads
      /\ loading' \in {"no", "lookup", "install", "assign"}
      /\ coordOf' \in [Channels -> Threads] /\ master' \in BOOLEAN
      /\ installer' \in [Channels -> {"none", "waits", "done", "late"}]
      /\ loading' # "no" => made' \in Channels
      /\ loading' \in {"install", "assign"} => got' \in Channels
  <2>1. CASE MakeChannel
    BY <1>1, <2>1, ShutdownAssumption DEF MakeChannel, TypeOK, Channels, coordVars, masterVars
  <2>2. CASE InstallLater
    BY <1>1, <2>2, ShutdownAssumption DEF InstallLater, TypeOK, LoadingRight, masterVars
  <2>3. CASE AssignCoordinator
    <3>1. /\ made' = made /\ got' = got /\ loading' = "no" /\ installer' = installer
          /\ master' = master /\ coordOf' = [coordOf EXCEPT ![made] = got]
      BY <2>3 DEF AssignCoordinator, masterVars
    <3>2. /\ made \in 0 .. MaxChannels /\ made <= made /\ got \in Threads /\ master \in BOOLEAN
          /\ coordOf \in [Channels -> Threads]
          /\ installer \in [Channels -> {"none", "waits", "done", "late"}]
      BY <1>1, ShutdownAssumption DEF TypeOK
    <3> QED
      BY <3>1, <3>2
  <2>4. CASE MakeMaster
    BY <1>1, <2>4 DEF MakeMaster, TypeOK, LoadingRight, madeVars, coordVars
  <2> QED
    BY <2>1, <2>2, <2>3, <2>4
<1>5. registry' \in 0 .. made'
  BY <1>1, <1>2, <1>4 DEF TypeOK
<1>6. TypeOK'
  BY <1>1, <1>2, <1>3, <1>4, <1>5 DEF TypeOK, LocksAgree, flagVars, flushVars
<1>7. LoadingRight' /\ RegisteredCaptures'
  BY <1>2, <1>4 DEF ShutdownInv, LoadingRight, RegisteredCaptures
<1> QED
  BY <1>3, <1>6, <1>7 DEF ShutdownInv

\* The constructor finds its coordinator, or registers a new one.
LEMMA LookUpStep == ASSUME ShutdownInv, LookUpCoordinator PROVE ShutdownInv'
<1>1. TypeOK /\ LoadingRight /\ RegisteredCaptures
  BY DEF ShutdownInv
<1>2. exited = 0 /\ stack[Main] = <<>> /\ masterStops = 0 /\ \A c \in Channels : ~ran[c]
  BY IdleNothing DEF LookUpCoordinator
<1>3. made \in Channels /\ registry \in 0 .. made /\ made \in 0 .. MaxChannels
  BY <1>1 DEF LookUpCoordinator, LoadingRight, TypeOK
<1>4. PICK c \in Channels :
        /\ registry' = c /\ got' = c /\ c <= made
        /\ loading' \in {"install", "assign"}
        /\ \E new \in SUBSET Channels : drains' = [drains EXCEPT ![c] = @ \cup new]
        /\ registry = c \/ registry = 0 \/ ~installed[registry]
  <2>1. CASE registry # 0 /\ installed[registry] /\ ~ran[registry]
    <3>1. registry \in Channels
      BY <1>3, <2>1, ShutdownAssumption DEF Channels
    <3>2. /\ registry' = registry /\ got' = registry /\ loading' = "assign"
          /\ drains' = [drains EXCEPT ![registry] = @ \cup {made}]
      BY <2>1 DEF LookUpCoordinator
    <3>3. registry <= made /\ {made} \in SUBSET Channels
      BY <1>3
    <3> QED
      BY <3>1, <3>2, <3>3
  <2>2. CASE ~(registry # 0 /\ installed[registry] /\ ~ran[registry])
    <3>1. registry = 0 \/ ~installed[registry]
      BY <1>2, <1>3, <2>2, ShutdownAssumption DEF Channels
    <3>2. registry' = made /\ got' = made /\ loading' = "install"
      BY <2>2 DEF LookUpCoordinator
    <3>3. PICK earlier \in 0 .. made - 1 :
            drains' = [drains EXCEPT ![made] = @ \cup ({made, earlier} \ {0})]
      BY <2>2 DEF LookUpCoordinator
    <3>4. {made, earlier} \ {0} \in SUBSET Channels
      BY <1>3, ShutdownAssumption DEF Channels
    <3>5. made <= made
      BY <1>3
    <3> QED
      BY <1>3, <3>1, <3>2, <3>3, <3>4, <3>5
  <2> QED
    BY <2>1, <2>2
<1>5. UNCHANGED <<made, coordOf, installed, ran, installer, masterVars, masterStops, stack,
                  flagVars, flushVars, cursor, signals, exited>>
  BY DEF LookUpCoordinator
<1>6. drains' \in [Channels -> SUBSET Channels]
  BY <1>1, <1>4 DEF TypeOK
<1>7. FramesOK'
  <2> SUFFICES ASSUME NEW u \in Threads, NEW i \in DOMAIN stack[u] PROVE FrameOK(u, stack[u][i])'
    BY <1>5 DEF FramesOK
  <2>1. u # Main
    BY <1>2
  <2>2. FrameOK(u, stack[u][i]) /\ stack' = stack
    BY <1>5 DEF ShutdownInv, FramesOK
  <2> QED
    BY <2>1, <2>2 DEF FrameOK
<1>8. StopLocks' /\ FlushLocks' /\ FlushesRight'
  BY <1>5
  DEF ShutdownInv, StopLocks, FlushLocks, FlushesRight, HoldsStop, HoldsFlush, flagVars, flushVars
<1>9. WorkOnce' /\ StoppedRight' /\ ExitedRight'
  BY <1>2, <1>5 DEF WorkOnce, StoppedRight, ExitedRight
<1>10. wrappedBy # 0 => registry = wrappedBy /\ wrappedBy = registry'
  <2> SUFFICES ASSUME wrappedBy # 0 PROVE registry = wrappedBy /\ wrappedBy = registry'
    OBVIOUS
  <2>1. wrappedBy \in Channels /\ installed[wrappedBy] /\ registry = wrappedBy
    BY <1>1 DEF LoadingRight, RegisteredCaptures
  <2> QED
    BY <1>4, <2>1
<1>11. LoadingRight' /\ RegisteredCaptures'
  <2>1. LoadingRight'
    BY <1>1, <1>3, <1>4, <1>5 DEF LoadingRight, masterVars
  <2>2. ASSUME NEW c1 \in Channels, installed'[c1] \/ wrappedBy' = c1
        PROVE  registry' = c1 /\ wrappedBy' = c1
    <3>1. registry = c1 /\ wrappedBy = c1
      BY <1>1, <1>5, <2>2 DEF RegisteredCaptures, masterVars
    <3>2. c1 # 0
      BY ThreadsAndChannels DEF Main
    <3> QED
      BY <1>5, <1>10, <3>1, <3>2 DEF masterVars
  <2> QED
    BY <2>1, <2>2 DEF RegisteredCaptures
<1>12. TypeOK'
  <2>1. registry' \in 0 .. made' /\ got' \in Threads
    BY <1>3, <1>4, <1>5, ThreadsAndChannels DEF Channels
  <2> QED
    BY <1>1, <1>4, <1>5, <1>6, <1>8, <2>1, LocksAgreeNext
    DEF TypeOK, LocksAgree, masterVars, flagVars, flushVars
<1> QED
  BY <1>7, <1>8, <1>9, <1>11, <1>12 DEF ShutdownInv

\* Only the registered coordinator wraps the master, at once or later.
LEMMA InstallStep ==
  ASSUME ShutdownInv, InstallNow \/ \E c \in Channels : DeferredInstall(c)
  PROVE  ShutdownInv'
<1>1. TypeOK /\ LoadingRight /\ RegisteredCaptures
  BY DEF ShutdownInv
<1>2. PICK c \in Channels :
        /\ Install(c) /\ installer' \in [Channels -> {"none", "waits", "done", "late"}]
        /\ loading' \in {"no", "lookup", "install", "assign"}
        /\ loading' # "no" => made \in Channels
        /\ loading' \in {"install", "assign"} => got \in Channels
  <2>1. CASE InstallNow
    BY <1>1, <2>1 DEF InstallNow, LoadingRight, TypeOK
  <2>2. CASE \E c \in Channels : DeferredInstall(c)
    <3>1. PICK c \in Channels : DeferredInstall(c)
      BY <2>2
    <3> QED
      BY <1>1, <3>1 DEF DeferredInstall, LoadingRight, TypeOK, madeVars
  <2> QED
    BY <2>1, <2>2
<1>3. UNCHANGED <<made, got, registry, coordOf, drains, ran, master, masterStops, stack, flagVars,
                  flushVars, cursor, signals, exited>>
  BY DEF InstallNow, DeferredInstall, madeVars
<1>4. /\ registry = c /\ installed' = [installed EXCEPT ![c] = TRUE] /\ wrappedBy' = c
      /\ c # 0 /\ c \in Threads
  BY <1>2, ThreadsAndChannels DEF Install, Main
<1>5. installed' \in [Channels -> BOOLEAN] /\ installed'[c]
  BY <1>1, <1>4 DEF TypeOK
<1>6. wrappedBy' = wrappedBy \/ masterStops = 0
  <2>1. masterStops > 0 => wrappedBy \in Channels /\ registry = wrappedBy
    BY DEF ShutdownInv, StoppedRight, RegisteredCaptures
  <2> QED
    BY <1>1, <1>4, <2>1 DEF TypeOK
<1>7. /\ FramesOK' /\ StopLocks' /\ FlushLocks' /\ WorkOnce' /\ StoppedRight' /\ ExitedRight'
      /\ FlushesRight' /\ LocksAgree'
  BY <1>3, <1>6, CallsStay
<1>8. TypeOK'
  BY <1>1, <1>2, <1>3, <1>4, <1>5, <1>7 DEF TypeOK, LocksAgree, flagVars, flushVars
<1>9. LoadingRight'
  BY <1>2, <1>3, <1>4, <1>5 DEF LoadingRight
<1>10. RegisteredCaptures'
  <2>1. ASSUME NEW d \in Channels, d # c PROVE ~installed'[d]
    BY <1>1, <1>4, <2>1 DEF RegisteredCaptures, TypeOK
  <2> QED
    BY <1>3, <1>4, <2>1 DEF RegisteredCaptures
<1> QED
  BY <1>7, <1>8, <1>9, <1>10 DEF ShutdownInv

\* Steps that write neither calls nor coordinators.
LEMMA OtherStep ==
  ASSUME ShutdownInv,
         \/ \E c \in Channels : DeadlinePasses(c) \/ PollOnce(c)
         \/ UNCHANGED vars
  PROVE  ShutdownInv'
<1>1. TypeOK
  BY DEF ShutdownInv
<1>2. /\ installer' \in [Channels -> {"none", "waits", "done", "late"}]
      /\ cursor' \in 0 .. MaxCursor
      /\ UNCHANGED <<madeVars, registry, coordOf, drains, installed, ran, masterVars, masterStops,
                     stack, flagVars, flushVars, signals, exited>>
  <2>1. ASSUME NEW c \in Channels, DeadlinePasses(c)
        PROVE  /\ installer' \in [Channels -> {"none", "waits", "done", "late"}]
               /\ cursor' \in 0 .. MaxCursor
    BY <1>1, <2>1 DEF DeadlinePasses, TypeOK
  <2>2. ASSUME NEW c \in Channels, PollOnce(c)
        PROVE  /\ installer' \in [Channels -> {"none", "waits", "done", "late"}]
               /\ cursor' \in 0 .. MaxCursor
    BY <1>1, <2>2, ShutdownAssumption DEF PollOnce, TypeOK, coordVars
  <2>3. CASE UNCHANGED vars
    BY <1>1, <2>3 DEF TypeOK, vars, coordVars, madeVars, masterVars
  <2>4. UNCHANGED <<madeVars, registry, coordOf, drains, installed, ran, masterVars, masterStops,
                    stack, flagVars, flushVars, signals, exited>>
    BY DEF DeadlinePasses, PollOnce, vars, coordVars
  <2> QED
    BY <2>1, <2>2, <2>3, <2>4
<1>3. /\ FramesOK' /\ StopLocks' /\ FlushLocks' /\ WorkOnce' /\ StoppedRight' /\ ExitedRight'
      /\ FlushesRight' /\ LocksAgree'
  BY <1>2, CallsStay DEF masterVars
<1>4. TypeOK'
  BY <1>1, <1>2, <1>3 DEF TypeOK, LocksAgree, madeVars, masterVars, flagVars, flushVars
<1>5. LoadingRight' /\ RegisteredCaptures'
  BY <1>2 DEF ShutdownInv, LoadingRight, RegisteredCaptures, madeVars, masterVars
<1> QED
  BY <1>3, <1>4, <1>5 DEF ShutdownInv

-----------------------------------------------------------------------------
(***************************************************************************)
(* The invariant holds.                                                    *)
(***************************************************************************)
LEMMA ShutdownInit == ASSUME Init PROVE ShutdownInv
<1>1. Main \notin Channels /\ Free \notin Threads /\ 0 \in Threads /\ ShutdownAssumption
  BY ThreadsAndChannels, ShutdownAssumption DEF Main
<1>2. \A t \in Threads : stack[t] = <<>> /\ DOMAIN stack[t] = {}
  BY DEF Init
<1>3. \A g \in Channels : g # 0
  BY <1>1 DEF Main
<1>4. stack \in [Threads -> Seq(Calls)]
  <2> HIDE DEF Calls
  <2> QED
    BY DEF Init
<1>5. flushes \in [Channels -> Seq(1 .. MaxCursor)] /\ \A g \in Channels : flushes[g] = <<>>
  BY DEF Init
<1>6. StopLocks /\ FlushLocks
  BY <1>1, <1>2 DEF Init, StopLocks, FlushLocks
<1>7. TypeOK
  <2>1. LocksAgree
    BY <1>1, <1>2 DEF Init, LocksAgree, Stopping, Flushing
  <2>2. /\ made \in 0 .. MaxChannels /\ got \in Threads /\ registry \in 0 .. made
        /\ loading \in {"no", "lookup", "install", "assign"}
        /\ master \in BOOLEAN /\ wrappedBy \in Threads /\ masterStops \in Nat
        /\ cursor \in 0 .. MaxCursor /\ tried \subseteq Channels
        /\ signals \in 0 .. MaxSignals /\ exited \in Threads
    <3>1. /\ made = 0 /\ got = 0 /\ registry = 0 /\ loading = "no" /\ master = FALSE
          /\ wrappedBy = 0 /\ masterStops = 0 /\ cursor = 0 /\ tried = {} /\ signals = 0
          /\ exited = 0
      BY DEF Init
    <3>2. 0 \in 0 .. MaxChannels /\ 0 \in 0 .. 0 /\ 0 \in 0 .. MaxCursor /\ 0 \in 0 .. MaxSignals
      BY ShutdownAssumption
    <3> QED
      BY <1>1, <3>1, <3>2
  <2>3. /\ coordOf \in [Channels -> Threads] /\ drains \in [Channels -> SUBSET Channels]
        /\ installed \in [Channels -> BOOLEAN] /\ ran \in [Channels -> BOOLEAN]
        /\ installer \in [Channels -> {"none", "waits", "done", "late"}]
        /\ suppressed \in [Channels -> BOOLEAN] /\ stopped \in [Channels -> BOOLEAN]
        /\ stopLock \in [Channels -> Threads \cup {Free}]
        /\ flushLock \in [Channels -> Threads \cup {Free}]
        /\ flushed \in [Channels -> BOOLEAN]
    BY <1>1 DEF Init
  <2> QED
    BY <1>4, <1>5, <2>1, <2>2, <2>3 DEF TypeOK, LocksAgree
<1>8. LoadingRight /\ RegisteredCaptures /\ StoppedRight /\ ExitedRight
  BY <1>3 DEF Init, LoadingRight, RegisteredCaptures, StoppedRight, ExitedRight
<1>9. FramesOK /\ WorkOnce
  BY <1>1, <1>2, ThreadsAndChannels DEF Init, FramesOK, WorkOnce
<1>10. FlushesRight
  <2>1. Len(<<>>) <= 1
    OBVIOUS
  <2> QED
    BY <1>2, <1>5, <2>1 DEF Init, FlushesRight
<1> QED
  BY <1>6, <1>7, <1>8, <1>9, <1>10 DEF ShutdownInv

\* Every step keeps the invariant.
LEMMA ShutdownNext == ASSUME ShutdownInv, [Next]_vars PROVE ShutdownInv'
<1>1. ASSUME NEW t \in Threads, FlushStep(t) PROVE ShutdownInv'
  BY <1>1, TakeFlushLockStep, LoadCursorStep, FlushCallStep DEF FlushStep
<1>2. CASE LoadStep
  BY <1>2, MakeStep, LookUpStep, InstallStep DEF LoadStep
<1>3. CASE MakeMaster
  BY <1>3, MakeStep
<1>4. CASE \E c \in Channels : DeferredInstall(c) \/ DeadlinePasses(c)
  BY <1>4, InstallStep, OtherStep
<1>5. CASE OwnSignal \/ MasterSignal
  BY <1>5, SignalStep
<1>6. CASE RunStep
  BY <1>1, <1>6, RunStepKeeps, SuppressStep, TakeStopLockStep, SetStopEventStep, JoinStep,
     StopMasterStep, BudgetStep, ExitStep, ThreadsAndChannels DEF RunStep
<1>7. CASE \E g \in Channels : StartPoll(g) \/ PollStep(g)
  BY <1>1, <1>7, StartPollStep, OtherStep, PollEndsStep, ThreadsAndChannels DEF PollStep
<1>8. CASE UNCHANGED vars
  BY <1>8, OtherStep
<1> QED
  BY <1>2, <1>3, <1>4, <1>5, <1>6, <1>7, <1>8 DEF Next

\* The strengthening is an invariant of the specification.
THEOREM ShutdownInvariant == Spec => []ShutdownInv
<1>1. Init => ShutdownInv
  BY ShutdownInit
<1>2. ShutdownInv /\ [Next]_vars => ShutdownInv'
  BY ShutdownNext
<1> QED
  BY <1>1, <1>2, PTL DEF Spec

\* Every variable keeps its type, and a lock has an owner exactly while that thread
\* is in the part of stop_polling or of the flush that it guards.
THEOREM ShutdownTyped == Spec => []TypeOK
<1>1. ShutdownInv => TypeOK
  BY DEF ShutdownInv
<1> QED
  BY <1>1, ShutdownInvariant, PTL

\* Whoever comes first, the final checkpoint of a channel is flushed at most once.
THEOREM CheckpointOnce == Spec => []FlushedOnce
<1>1. ShutdownInv => FlushedOnce
  BY DEF ShutdownInv, FlushesRight, FlushedOnce
<1> QED
  BY <1>1, ShutdownInvariant, PTL

\* However often signals interrupt the run, the master is stopped and the process
\* ended only after every channel is suppressed, stopped and flushed.
THEOREM DrainComesFirst == Spec => []DrainedFirst
<1>1. ShutdownInv => DrainedFirst
  <2> SUFFICES ASSUME ShutdownInv, NEW c \in Channels,
                      exited = c \/ (masterStops > 0 /\ wrappedBy = c), NEW g \in drains[c]
               PROVE  Done(g)
    BY DEF DrainedFirst, Done
  <2>1. c # 0
    BY ThreadsAndChannels DEF Main
  <2> QED
    BY <2>1 DEF ShutdownInv, ExitedRight, StoppedRight
<1> QED
  BY <1>1, ShutdownInvariant, PTL

\* The stop_polling of the master is called at most once.
THEOREM MasterOnce == Spec => []MasterStoppedOnce
<1>1. ShutdownInv => MasterStoppedOnce
  BY DEF ShutdownInv, StoppedRight, MasterStoppedOnce
<1> QED
  BY <1>1, ShutdownInvariant, PTL

\* Only the registered coordinator ever wraps the master.
THEOREM OnlyRegisteredCaptures == Spec => []RegisteredCaptures
<1>1. ShutdownInv => RegisteredCaptures
  BY DEF ShutdownInv
<1> QED
  BY <1>1, ShutdownInvariant, PTL

-----------------------------------------------------------------------------
(***************************************************************************)
(* Whoever waits, waits for a thread that goes on.  That the drain never   *)
(* waits for a flush of its own thread needs that one coordinator does all *)
(* the work: the registered one, whoever starts its run.                   *)
(***************************************************************************)
OneCoordinator ==
  /\ \A g \in Channels : g > made => coordOf[g] = 0
  /\ loading # "no" => coordOf[made] = 0
  /\ loading \in {"install", "assign"} => got = registry
  /\ made > 0 => coordOf[made] \in {0, registry}
  /\ \A i \in DOMAIN stack[Main] : stack[Main][i].by \in {0, registry}

\* A poll thread is in one call.
OneCall == \A g \in Channels : \A i \in DOMAIN stack[g] : i = 1

\* No new call: those there are keep their coordinator, or return.
NoNewCall ==
  /\ \A t \in Threads : DOMAIN stack'[t] \subseteq DOMAIN stack[t]
  /\ \A i \in DOMAIN stack'[Main] : stack'[Main][i].by = stack[Main][i].by

\* A call that goes on, or returns, is no new call.
LEMMA GoneOn ==
  ASSUME TypeOK, NEW t \in Threads, Busy(t),
         PopTop(t) \/ \E f \in Calls : ChangeTop(t, f) /\ f.by = Top(t).by
  PROVE  NoNewCall
<1>1. Main \in Threads
  BY ThreadsAndChannels
<1>2. CASE PopTop(t)
  BY <1>1, <1>2 DEF PopTop, NoNewCall
<1>3. CASE \E f \in Calls : ChangeTop(t, f) /\ f.by = Top(t).by
  <2>1. PICK f \in Calls : ChangeTop(t, f) /\ f.by = Top(t).by
    BY <1>3
  <2>2. Top(t) = stack[t][Len(stack[t])]
    BY TopType
  <2> QED
    BY <1>1, <2>1, <2>2 DEF ChangeTop, NoNewCall
<1> QED
  BY <1>2, <1>3

\* The steps of a flush make no new call.
LEMMA FlushGoesOn ==
  ASSUME ShutdownInv, NEW t \in Threads, FlushStep(t)
  PROVE  NoNewCall
<1>1. Busy(t) /\ TypeOK /\ Top(t) \in Calls
  BY TopFrame DEF FlushStep, TakeFlushLock, LoadCursor, Flush, InCall
<1>2. CASE FlushReturns(t)
  <2>1. CASE t = Main
    <3>1. Top(t).rest \in SUBSET Channels
      BY <1>1, CallType
    <3>2. \E f \in Calls : ChangeTop(t, f) /\ f.by = Top(t).by
      BY <1>1, <1>2, <2>1, <3>1, DrainGoesOn DEF FlushReturns
    <3> QED
      BY <1>1, <3>2, GoneOn
  <2>2. CASE t # Main
    BY <1>1, <1>2, <2>2, Returning, GoneOn DEF FlushReturns
  <2> QED
    BY <2>1, <2>2
<1>3. CASE Goes(t, "load")
  <2>1. \E f \in Calls : ChangeTop(t, f) /\ f.by = Top(t).by
    BY <1>1, <1>3, GoingOn
  <2> QED
    BY <1>1, <2>1, GoneOn
<1>4. CASE LoadCursor(t)
  <2>1. \E f \in Calls : ChangeTop(t, f) /\ f.by = Top(t).by
    BY <1>1, <1>4, Loading
  <2> QED
    BY <1>1, <2>1, GoneOn
<1> QED
  BY <1>2, <1>3, <1>4 DEF FlushStep, TakeFlushLock, Flush

\* Neither does the run.
LEMMA RunGoesOn ==
  ASSUME ShutdownInv, RunStep
  PROVE  NoNewCall
<1>1. TypeOK /\ Main \in Threads
  BY ThreadsAndChannels DEF ShutdownInv
<1>2. CASE Run
  <2>1. Busy(Main) /\ Top(Main).step = "run"
    BY <1>2 DEF Run, InCall
  <2>2. CASE Returns(Main)
    BY <1>1, <2>1, <2>2, Returning, GoneOn
  <2>3. CASE DrainNext(Main, drains[Top(Main).by])
    <3>1. Top(Main).by \in Channels
      <4>1. FrameOK(Main, Top(Main)) /\ Top(Main).by \in Threads
        BY <1>1, <2>1, TopFrame, CallType
      <4> QED
        BY <2>1, <4>1, ThreadsAndChannels DEF FrameOK, Main
    <3>2. drains[Top(Main).by] \in SUBSET Channels
      BY <1>1, <3>1 DEF TypeOK
    <3>3. \E f \in Calls : ChangeTop(Main, f) /\ f.by = Top(Main).by
      BY <1>1, <2>1, <2>3, <3>2, DrainGoesOn
    <3> QED
      BY <1>1, <2>1, <3>3, GoneOn
  <2> QED
    BY <1>2, <2>2, <2>3 DEF Run
<1>3. CASE Suppress \/ TakeStopLock \/ SetStopEvent \/ Join \/ StopMaster \/ BudgetEnds
  <2>1. Busy(Main)
    BY <1>3 DEF Suppress, TakeStopLock, SetStopEvent, Join, StopMaster, BudgetEnds, InCall
  <2>2. CASE Returns(Main)
    BY <1>1, <2>1, <2>2, Returning, GoneOn
  <2>3. ASSUME NEW s \in {"stop", "set", "join", "flush", "wait", "exit"}, Goes(Main, s)
        PROVE  NoNewCall
    <3>1. \E f \in Calls : ChangeTop(Main, f) /\ f.by = Top(Main).by
      BY <1>1, <2>1, <2>3, GoingOn
    <3> QED
      BY <1>1, <2>1, <3>1, GoneOn
  <2> QED
    BY <1>3, <2>2, <2>3 DEF Suppress, TakeStopLock, SetStopEvent, Join, StopMaster, BudgetEnds
<1>4. CASE Exit
  BY <1>4 DEF Exit, NoNewCall
<1> QED
  BY <1>1, <1>2, <1>3, <1>4, FlushGoesOn DEF RunStep

\* Steps that make no call and leave the coordinators alone.
LEMMA NoNewCallKeeps ==
  ASSUME OneCoordinator, OneCall, NoNewCall,
         UNCHANGED <<made, loading, got, registry, coordOf>>
  PROVE  OneCoordinator' /\ OneCall'
<1>1. Main \in Threads /\ Channels \subseteq Threads
  BY ThreadsAndChannels
<1> QED
  BY <1>1 DEF OneCoordinator, OneCall, NoNewCall

\* The steps of the constructor, during which the main thread is in no call.
LEMMA LoadKeepsOne ==
  ASSUME ShutdownInv, OneCoordinator, OneCall, LoadStep \/ MakeMaster
  PROVE  OneCoordinator' /\ OneCall'
<1>1. TypeOK /\ LoadingRight /\ MaxChannels \in Nat
  BY ShutdownAssumption DEF ShutdownInv
<1>2. stack' = stack /\ stack[Main] = <<>>
  <2>1. Idle
    BY DEF LoadStep, MakeChannel, LookUpCoordinator, InstallNow, InstallLater,
           AssignCoordinator, MakeMaster
  <2>2. stack[Main] = <<>>
    BY <2>1, IdleNothing
  <2> QED
    BY <2>2 DEF LoadStep, MakeChannel, LookUpCoordinator, InstallNow, InstallLater,
                AssignCoordinator, MakeMaster
<1>3. OneCall' /\ \A i \in DOMAIN stack'[Main] : FALSE
  BY <1>2 DEF OneCall
<1>4. /\ made \in Nat /\ made <= MaxChannels /\ Channels = 1 .. MaxChannels
      /\ coordOf \in [Channels -> Threads] /\ registry \in Nat
  BY <1>1 DEF TypeOK, Channels
<1>5. CASE MakeChannel
  <2>1. /\ made' = made + 1 /\ made < MaxChannels /\ loading' = "lookup"
        /\ UNCHANGED <<got, registry, coordOf>>
    BY <1>5 DEF MakeChannel, coordVars
  <2>2. made + 1 \in Channels /\ made + 1 > made
    BY <1>1, <1>4, <2>1
  <2>3. coordOf[made + 1] = 0
    BY <2>2 DEF OneCoordinator
  <2>4. \A g \in Channels : g > made + 1 => g > made
    BY <1>4
  <2> QED
    BY <1>3, <2>1, <2>3, <2>4 DEF OneCoordinator
<1>6. CASE LookUpCoordinator
  BY <1>3, <1>6 DEF LookUpCoordinator, OneCoordinator
<1>7. CASE InstallNow \/ InstallLater
  BY <1>3, <1>7 DEF InstallNow, InstallLater, OneCoordinator
<1>8. CASE AssignCoordinator
  <2>1. /\ loading = "assign" /\ loading' = "no" /\ coordOf' = [coordOf EXCEPT ![made] = got]
        /\ UNCHANGED <<made, got, registry>>
    BY <1>8 DEF AssignCoordinator
  <2>2. got = registry /\ made \in Channels
    BY <1>1, <2>1 DEF OneCoordinator, LoadingRight
  <2>3. coordOf'[made] = registry
    BY <1>4, <2>1, <2>2
  <2>4. \A g \in Channels : g > made => g # made
    BY <1>4
  <2>5. \A g \in Channels : g > made => coordOf'[g] = 0
    BY <1>4, <2>1, <2>4 DEF OneCoordinator
  <2> QED
    BY <1>3, <2>1, <2>3, <2>5 DEF OneCoordinator
<1>9. CASE MakeMaster
  BY <1>3, <1>9 DEF MakeMaster, OneCoordinator, madeVars, coordVars
<1> QED
  BY <1>5, <1>6, <1>7, <1>8, <1>9 DEF LoadStep

\* A signal starts a run of the registered coordinator, or a bare stop_polling.
LEMMA SignalKeepsOne ==
  ASSUME ShutdownInv, OneCoordinator, OneCall, OwnSignal \/ MasterSignal
  PROVE  OneCoordinator' /\ OneCall'
<1>1. TypeOK /\ Main \in Threads /\ Main \notin Channels /\ 0 \in Threads
  BY ThreadsAndChannels DEF ShutdownInv, Main
<1>2. \E f \in Calls : Interrupt(f) /\ f.by \in {0, registry}
  <2>1. CASE OwnSignal
    <3>1. made \in Channels /\ made \in Threads /\ made > 0
      BY <1>1, <2>1, ShutdownAssumption DEF OwnSignal, TypeOK, Channels, Threads
    <3> DEFINE c == coordOf[made]
    <3>2. c \in Threads /\ c \in {0, registry}
      BY <1>1, <3>1 DEF TypeOK, OneCoordinator
    <3>3. Interrupt(Call("run", c, 0)) \/ Interrupt(Call("stop", 0, made))
      BY <2>1 DEF OwnSignal
    <3> HIDE DEF c
    <3> QED
      BY <1>1, <3>1, <3>2, <3>3, NewCall
  <2>2. CASE MasterSignal
    <3>1. wrappedBy \in Channels /\ wrappedBy \in Threads
      BY <1>1, <2>2, ThreadsAndChannels DEF MasterSignal, ShutdownInv, LoadingRight
    <3>2. wrappedBy = registry
      BY <3>1 DEF ShutdownInv, RegisteredCaptures
    <3> QED
      BY <1>1, <2>2, <3>1, <3>2, NewCall DEF MasterSignal
  <2> QED
    BY <2>1, <2>2
<1>3. PICK f \in Calls : Interrupt(f) /\ f.by \in {0, registry}
  BY <1>2
<1>4. PushTop(Main, f)
  BY <1>1, <1>3, Pushing DEF Interrupt
<1>5. UNCHANGED <<made, loading, got, registry, coordOf>>
  BY <1>3 DEF Interrupt, madeVars, coordVars
<1>6. \A i \in DOMAIN stack'[Main] : stack'[Main][i].by \in {0, registry}
  BY <1>1, <1>3, <1>4 DEF PushTop, OneCoordinator
<1>7. OneCall'
  <2>1. \A g \in Channels : g \in Threads /\ g # Main
    BY <1>1, ThreadsAndChannels
  <2> QED
    BY <1>4, <2>1 DEF PushTop, OneCall
<1> QED
  BY <1>5, <1>6, <1>7 DEF OneCoordinator

\* Every step keeps the work with one coordinator, and a poll thread in one call.
LEMMA OneStep ==
  ASSUME ShutdownInv, OneCoordinator, OneCall, [Next]_vars
  PROVE  OneCoordinator' /\ OneCall'
<1>1. Main \in Threads /\ Channels \subseteq Threads /\ Main \notin Channels
  BY ThreadsAndChannels
<1>2. ASSUME NEW t \in Threads, FlushStep(t) PROVE OneCoordinator' /\ OneCall'
  <2>1. NoNewCall
    BY <1>2, FlushGoesOn
  <2>2. UNCHANGED <<made, loading, got, registry, coordOf>>
    BY <1>2 DEF FlushStep, TakeFlushLock, LoadCursor, Flush, madeVars, coordVars
  <2> QED
    BY <2>1, <2>2, NoNewCallKeeps
<1>3. CASE RunStep
  <2>1. NoNewCall
    BY <1>3, RunGoesOn
  <2>2. UNCHANGED <<made, loading, got, registry, coordOf>>
    BY <1>3 DEF RunStep, Run, Suppress, TakeStopLock, SetStopEvent, Join, StopMaster, BudgetEnds,
                Exit, FlushStep, TakeFlushLock, LoadCursor, Flush, madeVars, coordVars
  <2> QED
    BY <2>1, <2>2, NoNewCallKeeps
<1>4. CASE \E g \in Channels : PollEnds(g)
  <2>1. PICK g \in Channels : PollEnds(g)
    BY <1>4
  <2>2. Busy(g) /\ TypeOK /\ g \in Threads /\ Goes(g, "flush")
    BY <1>1, <2>1 DEF PollEnds, InCall, ShutdownInv
  <2>3. \E f \in Calls : ChangeTop(g, f) /\ f.by = Top(g).by
    BY <2>2, GoingOn
  <2>4. NoNewCall
    BY <2>2, <2>3, GoneOn
  <2> QED
    BY <2>1, <2>4, NoNewCallKeeps DEF PollEnds, madeVars, coordVars
<1>5. CASE \E g \in Channels : StartPoll(g)
  <2>1. PICK g \in Channels, f \in Calls : stack' = [stack EXCEPT ![g] = <<f>>] /\ StartPoll(g)
    <3>1. PICK g \in Channels : StartPoll(g)
      BY <1>5
    <3>2. 0 \in Threads /\ g \in Threads
      BY <1>1 DEF Main
    <3>3. \A s \in {"flush", "poll"} : Call(s, 0, g) \in Calls
      BY <3>2, NewCall
    <3>4. Call(IF stopped[g] THEN "flush" ELSE "poll", 0, g) \in Calls
      BY <3>3
    <3> QED
      BY <3>1, <3>4 DEF StartPoll
  <2>2. stack \in [Threads -> Seq(Calls)] /\ g # Main
    BY <1>1 DEF ShutdownInv, TypeOK
  <2>3. stack'[Main] = stack[Main] /\ \A h \in Channels : stack'[h] = IF h = g THEN <<f>> ELSE stack[h]
    <3> HIDE DEF Calls
    <3> QED
      BY <1>1, <2>1, <2>2
  <2>4. DOMAIN <<f>> = {1}
    OBVIOUS
  <2>5. OneCall'
    BY <2>3, <2>4 DEF OneCall
  <2> QED
    BY <2>1, <2>3, <2>5 DEF OneCoordinator, StartPoll, madeVars, coordVars
<1>6. CASE \/ \E c \in Channels : DeferredInstall(c) \/ DeadlinePasses(c) \/ PollOnce(c)
           \/ UNCHANGED vars
  <2>1. UNCHANGED <<made, loading, got, registry, coordOf, stack>>
    BY <1>6 DEF DeferredInstall, DeadlinePasses, PollOnce, vars, madeVars, coordVars
  <2> QED
    BY <2>1 DEF OneCoordinator, OneCall
<1> QED
  BY <1>1, <1>2, <1>3, <1>4, <1>5, <1>6, LoadKeepsOne, SignalKeepsOne DEF Next, PollStep

\* A thread that waits for a stop lock is the main thread, and waits for itself.
LEMMA WaitForStop ==
  ASSUME ShutdownInv, NEW t \in Threads, Waits(t), Top(t).step # "flush"
  PROVE  SelfBlocked
<1>1. Busy(t) /\ Top(t).step = "stop" /\ stopLock[Top(t).chan] # Free
  BY DEF Waits, Awaited
<1>2. FrameOK(t, Top(t)) /\ TypeOK
  BY <1>1, TopFrame
<1>3. t = Main /\ Top(t).chan \in Channels
  BY <1>1, <1>2 DEF FrameOK
<1>4. PICK g \in Channels : g = Top(t).chan
  BY <1>3
<1>5. PICK u \in Threads : stopLock[g] = u
  BY <1>1, <1>2, <1>4 DEF TypeOK
<1>6. PICK i \in DOMAIN stack[u] : HoldsStop(stack[u][i], g)
  BY <1>5 DEF ShutdownInv, StopLocks
<1>7. u = Main
  BY <1>6 DEF ShutdownInv, FramesOK, FrameOK, HoldsStop
<1> QED
  BY <1>1, <1>3, <1>4, <1>5, <1>7 DEF SelfBlocked

\* A thread that waits for a flush waits for one that goes on, unless that one is the
\* main thread and blocks itself.
LEMMA WaitForFlush ==
  ASSUME ShutdownInv, OneCoordinator, OneCall, NEW t \in Threads, Waits(t), Top(t).step = "flush",
         Waits(Awaited(t))
  PROVE  SelfBlocked
<1>1. Busy(t) /\ flushLock[Top(t).chan] # Free /\ Awaited(t) = flushLock[Top(t).chan]
  BY DEF Waits, Awaited
<1>2. FrameOK(t, Top(t)) /\ TypeOK
  BY <1>1, TopFrame
<1>3. Top(t).chan \in Channels
  BY <1>2 DEF FrameOK
<1>4. PICK g \in Channels : g = Top(t).chan
  BY <1>3
<1>5. PICK u \in Threads : flushLock[g] = u /\ Waits(u)
  BY <1>1, <1>2, <1>4 DEF TypeOK
<1>6. PICK i \in DOMAIN stack[u] : HoldsFlush(stack[u][i], g)
  BY <1>5 DEF ShutdownInv, FlushLocks
<1>7. Busy(u) /\ Top(u).step \in {"stop", "flush"}
  BY <1>5 DEF Waits, Awaited
<1>8. Len(stack[u]) \in DOMAIN stack[u] /\ Top(u) = stack[u][Len(stack[u])]
  BY <1>2, <1>7, TopType
<1>9. CASE Top(u).step = "stop"
  BY <1>5, <1>9, WaitForStop
<1>10. CASE Top(u).step = "flush" /\ u # Main
  <2>1. u \in Channels
    BY <1>10, ThreadsAndChannels
  <2>2. i = Len(stack[u])
    BY <1>6, <1>8, <2>1 DEF OneCall
  <2> QED
    BY <1>6, <1>8, <1>10, <2>2 DEF HoldsFlush
<1>11. CASE Top(u).step = "flush" /\ u = Main
  <2>1. FrameOK(Main, stack[Main][i]) /\ FrameOK(Main, Top(Main))
    BY <1>6, <1>8, <1>11, ThreadsAndChannels DEF ShutdownInv, FramesOK
  <2>2. stack[Main][i].by # 0 /\ Top(Main).by # 0
    BY <1>6, <1>11, <2>1 DEF FrameOK, HoldsFlush
  <2>3. stack[Main][i].by = registry /\ Top(Main).by = registry
    BY <1>6, <1>8, <1>11, <2>2 DEF OneCoordinator
  <2>4. Working(i) /\ Working(Len(stack[Main]))
    BY <1>6, <1>8, <1>11, <2>2 DEF Working, HoldsFlush
  <2>5. i = Len(stack[Main])
    BY <1>6, <1>8, <1>11, <2>3, <2>4 DEF ShutdownInv, WorkOnce
  <2> QED
    BY <1>6, <1>8, <1>11, <2>5 DEF HoldsFlush
<1> QED
  BY <1>7, <1>9, <1>10, <1>11

\* No thread waits for a waiting one, and the drain never for a flush that it itself
\* interrupted, for every number of channels and signals; only stop_polling can block
\* the thread that a signal finds inside it.
THEOREM WaitingEnds == Spec => []WaitsEnd
<1>1. Init => OneCoordinator /\ OneCall
  <2> SUFFICES ASSUME Init PROVE OneCoordinator /\ OneCall
    OBVIOUS
  <2>1. \A t \in Threads : DOMAIN stack[t] = {}
    BY DEF Init
  <2> QED
    BY <2>1, ThreadsAndChannels DEF Init, OneCoordinator, OneCall
<1>2. Init => ShutdownInv
  BY ShutdownInit
<1> DEFINE Inv == ShutdownInv /\ OneCoordinator /\ OneCall
<1>3. Inv /\ [Next]_vars => Inv'
  BY ShutdownNext, OneStep
<1>4. Inv => WaitsEnd
  BY WaitForStop, WaitForFlush DEF WaitsEnd
<1> QED
  BY <1>1, <1>2, <1>3, <1>4, PTL DEF Spec

-----------------------------------------------------------------------------
(***************************************************************************)
(* Nothing leads a thread back: every step takes the innermost call of one  *)
(* thread nearer to its end, or returns from it, or makes a new one.       *)
(***************************************************************************)
\* Sets of channels are finite, and none is larger than all of them.
LEMMA RestSize ==
  ASSUME NEW S \in SUBSET Channels
  PROVE  /\ IsFiniteSet(S) /\ Cardinality(S) \in Nat /\ Cardinality(S) <= MaxChannels
         /\ \A g \in S : Cardinality(S \ {g}) = Cardinality(S) - 1
<1>1. MaxChannels \in Nat /\ 1 \in Int
  BY ShutdownAssumption
<1>2. IsFiniteSet(Channels) /\ Cardinality(Channels) = MaxChannels
  BY <1>1, FS_Interval DEF Channels
<1>3. IsFiniteSet(S) /\ Cardinality(S) <= Cardinality(Channels)
  BY <1>2, FS_Subset
<1>4. Cardinality(S) \in Nat
  BY <1>3, FS_CardinalityType
<1>5. \A g \in S : Cardinality(S \ {g}) = Cardinality(S) - 1
  BY <1>3, FS_RemoveElement
<1> QED
  BY <1>2, <1>3, <1>4, <1>5

\* The steps of a call, by what is left after them.
LEMMA Places ==
  /\ Place("suppress") = 9 /\ Place("stop") = 8 /\ Place("set") = 7 /\ Place("join") = 6
  /\ Place("poll") = 6 /\ Place("flush") = 5 /\ Place("load") = 4 /\ Place("call") = 3
  /\ Place("master") = 2 /\ Place("wait") = 1 /\ Place("exit") = 0 /\ Place("run") = 0
BY DEF Place

\* What is left of a call that runs, and of one that has not begun to.
LEMMA LeftOf ==
  ASSUME NEW f \in Calls
  PROVE  /\ f.step # "run" => Left(f) = 10 * Cardinality(f.rest) + Place(f.step)
         /\ f.step = "run" => Left(f) = 10 * (MaxChannels + 1)
         /\ Cardinality(f.rest) \in Nat /\ Cardinality(f.rest) <= MaxChannels
<1>1. f.rest \in SUBSET Channels /\ MaxChannels \in Nat
  BY CallType, ShutdownAssumption
<1>2. Cardinality(f.rest) \in Nat /\ Cardinality(f.rest) <= MaxChannels
  BY <1>1, RestSize
<1>3. f.step # "run" => Left(f) = 10 * Cardinality(f.rest) + Place(f.step)
  BY DEF Left
<1>4. f.step = "run" => Left(f) = 10 * (MaxChannels + 1) + 0
  BY Places DEF Left
<1> QED
  BY <1>1, <1>2, <1>3, <1>4

\* Sequences with the same positions are equally long.
LEMMA SameEnd ==
  ASSUME NEW a \in Nat, NEW b \in Nat, 1 .. a = 1 .. b
  PROVE  a = b
<1>1. \A i \in Int : 1 <= i /\ i <= a <=> 1 <= i /\ i <= b
  OBVIOUS
<1> QED
  BY <1>1

\* A call that goes on has less left.
LEMMA Lessening ==
  ASSUME TypeOK, NEW t \in Threads, Busy(t), NEW f \in Calls, ChangeTop(t, f),
         Left(f) < Left(Top(t))
  PROVE  Nearer(t)
<1>1. Len(stack[t]) \in DOMAIN stack[t] /\ Len(stack[t]) \in Nat
  BY TopType
<1>2. /\ stack[t] \in Seq(Calls) /\ stack'[t] \in Seq(Calls) /\ DOMAIN stack'[t] = DOMAIN stack[t]
      /\ \A i \in DOMAIN stack[t] :
           stack'[t][i] = IF i = Len(stack[t]) THEN f ELSE stack[t][i]
  BY DEF TypeOK, ChangeTop
<1>3. Len(stack'[t]) = Len(stack[t])
  <2> HIDE DEF Calls
  <2>1. /\ Len(stack'[t]) \in Nat /\ Len(stack[t]) \in Nat
        /\ DOMAIN stack'[t] = 1 .. Len(stack'[t]) /\ DOMAIN stack[t] = 1 .. Len(stack[t])
    BY <1>2
  <2>2. 1 .. Len(stack'[t]) = 1 .. Len(stack[t])
    BY <1>2, <2>1
  <2> QED
    BY <2>1, <2>2, SameEnd
<1>4. Top(t)' = f
  BY <1>1, <1>2, <1>3 DEF Top
<1>5. Left(Top(t))' < Left(Top(t))
  BY <1>4
<1>6. \A i \in DOMAIN stack[t] : i < Len(stack[t]) => i # Len(stack[t])
  BY <1>1
<1> QED
  BY <1>2, <1>3, <1>5, <1>6 DEF Nearer

\* A call that returns leaves those below as they are.
LEMMA Ending ==
  ASSUME TypeOK, NEW t \in Threads, Busy(t), PopTop(t)
  PROVE  Nearer(t)
<1>1. /\ stack[t] \in Seq(Calls) /\ stack'[t] \in Seq(Calls)
      /\ DOMAIN stack'[t] = DOMAIN stack[t] \ {Len(stack[t])}
      /\ \A i \in DOMAIN stack'[t] : stack'[t][i] = stack[t][i]
  BY DEF TypeOK, PopTop
<1>2. Len(stack[t]) \in DOMAIN stack[t]
  BY TopType
<1>3. Len(stack'[t]) < Len(stack[t])
  <2> HIDE DEF Calls
  <2>1. /\ Len(stack'[t]) \in Nat /\ Len(stack[t]) \in Nat
        /\ DOMAIN stack'[t] = 1 .. Len(stack'[t]) /\ DOMAIN stack[t] = 1 .. Len(stack[t])
    BY <1>1
  <2>2. Len(stack[t]) \notin 1 .. Len(stack'[t]) /\ Len(stack[t]) >= 1
    BY <1>1, <1>2, <2>1
  <2> QED
    BY <2>1, <2>2
<1> QED
  BY <1>1, <1>3 DEF Nearer

\* A new call leaves those below as they are.
LEMMA Beginning ==
  ASSUME TypeOK, NEW f \in Calls, PushTop(Main, f), signals' > signals
  PROVE  Nearer(Main)
<1>1. Main \in Threads
  BY ThreadsAndChannels
<1> QED
  BY <1>1 DEF PushTop, Nearer

\* What a drain goes on with, and how much is left of it.
LEMMA DrainLeft ==
  ASSUME TypeOK, NEW t \in Threads, Busy(t), NEW rest \in SUBSET Channels, DrainNext(t, rest)
  PROVE  \E f \in Calls :
           /\ ChangeTop(t, f) /\ Cardinality(rest) \in Nat /\ Cardinality(rest) <= MaxChannels
           /\ \/ Left(f) = 10 * (Cardinality(rest) - 1) + 9
              \/ rest = {} /\ Left(f) = 10 * Cardinality(Top(t).rest) + 2
<1>1. PICK f \in Calls :
        /\ ChangeTop(t, f)
        /\ \/ /\ f.step = "suppress" /\ f.chan \in Channels
              /\ f.chan \notin f.rest /\ rest = f.rest \cup {f.chan}
           \/ f.step = "master" /\ f.chan = 0 /\ rest = {} /\ f.rest = Top(t).rest
  BY DrainGoesOn
<1>2. Cardinality(rest) \in Nat /\ Cardinality(rest) <= MaxChannels
  BY RestSize
<1>3. CASE f.step = "suppress"
  <2>1. f.chan \in rest /\ f.rest = rest \ {f.chan}
    BY <1>1, <1>3
  <2>2. Cardinality(f.rest) = Cardinality(rest) - 1
    BY <2>1, RestSize
  <2>3. Left(f) = 10 * Cardinality(f.rest) + 9
    BY <1>3, LeftOf, Places
  <2> QED
    BY <1>1, <1>2, <2>2, <2>3
<1>4. CASE f.step = "master"
  <2>1. Left(f) = 10 * Cardinality(f.rest) + 2
    BY <1>4, LeftOf, Places
  <2> QED
    BY <1>1, <1>2, <1>4, <2>1
<1> QED
  BY <1>1, <1>3, <1>4

\* A drain that begins has less left than the run had.
LEMMA DrainStarts ==
  ASSUME TypeOK, NEW t \in Threads, Busy(t), NEW rest \in SUBSET Channels, DrainNext(t, rest),
         Top(t).step = "run"
  PROVE  Nearer(t)
<1>1. PICK f \in Calls :
        /\ ChangeTop(t, f) /\ Cardinality(rest) \in Nat /\ Cardinality(rest) <= MaxChannels
        /\ \/ Left(f) = 10 * (Cardinality(rest) - 1) + 9
           \/ rest = {} /\ Left(f) = 10 * Cardinality(Top(t).rest) + 2
  BY DrainLeft
<1>2. Top(t) \in Calls /\ MaxChannels \in Nat
  BY TopType, ShutdownAssumption
<1> DEFINE m == Cardinality(Top(t).rest)
           n == Cardinality(rest)
<1>3. Left(Top(t)) = 10 * (MaxChannels + 1) /\ m \in Nat /\ m <= MaxChannels
  BY <1>2, LeftOf
<1>4. Left(f) = 10 * (n - 1) + 9 \/ Left(f) = 10 * m + 2
  BY <1>1
<1>5. n \in Nat /\ n <= MaxChannels
  BY <1>1
<1> HIDE DEF m, n
<1>6. Left(f) < Left(Top(t))
  BY <1>2, <1>3, <1>4, <1>5
<1> QED
  BY <1>1, <1>6, Lessening

\* A drain that goes on after a flush has less left: a channel less, or only the master.
LEMMA DrainLessens ==
  ASSUME TypeOK, NEW t \in Threads, Busy(t), DrainNext(t, Top(t).rest),
         Top(t).step \in {"flush", "call"}
  PROVE  Nearer(t)
<1>1. Top(t) \in Calls
  BY TopType
<1>2. PICK rest \in SUBSET Channels : rest = Top(t).rest
  BY <1>1, CallType
<1>3. DrainNext(t, rest)
  BY <1>2
<1>4. PICK f \in Calls :
        /\ ChangeTop(t, f) /\ Cardinality(rest) \in Nat
        /\ \/ Left(f) = 10 * (Cardinality(rest) - 1) + 9
           \/ rest = {} /\ Left(f) = 10 * Cardinality(Top(t).rest) + 2
  BY <1>3, DrainLeft
<1> DEFINE n == Cardinality(rest)
<1>5. Left(Top(t)) = 10 * n + 5 \/ Left(Top(t)) = 10 * n + 3
  BY <1>1, <1>2, LeftOf, Places
<1>6. Left(f) = 10 * (n - 1) + 9 \/ Left(f) = 10 * n + 2
  BY <1>2, <1>4
<1>7. n \in Nat
  BY <1>4
<1> HIDE DEF n
<1>8. Left(f) < Left(Top(t))
  BY <1>5, <1>6, <1>7
<1> QED
  BY <1>4, <1>8, Lessening

\* A call that goes to a step with a lower place has less left.
LEMMA StepLessens ==
  ASSUME TypeOK, NEW t \in Threads, Busy(t), Top(t).step # "run", NEW f \in Calls,
         ChangeTop(t, f), f.step # "run", f.rest = Top(t).rest,
         NEW p \in 0 .. 9, NEW q \in 0 .. 9, Place(f.step) = p, Place(Top(t).step) = q, p < q
  PROVE  Nearer(t)
<1>1. Top(t) \in Calls
  BY TopType
<1> DEFINE m == Cardinality(Top(t).rest)
<1>2. Left(Top(t)) = 10 * m + q /\ m \in Nat
  BY <1>1, LeftOf
<1>3. Left(f) = 10 * m + p
  BY LeftOf
<1> HIDE DEF m
<1>4. Left(f) < Left(Top(t))
  BY <1>2, <1>3
<1> QED
  BY <1>4, Lessening

\* The steps that go from one place straight to another.
LEMMA StepOn ==
  ASSUME TypeOK, NEW t \in Threads, Busy(t), NEW s, Goes(t, s),
         \/ Top(t).step = "suppress" /\ s = "stop"
         \/ Top(t).step = "stop" /\ s = "set"
         \/ Top(t).step = "set" /\ s = "join"
         \/ Top(t).step \in {"join", "poll"} /\ s = "flush"
         \/ Top(t).step = "flush" /\ s = "load"
         \/ Top(t).step = "master" /\ s = "wait"
         \/ Top(t).step = "wait" /\ s = "exit"
  PROVE  Nearer(t)
<1>1. s \in {"stop", "set", "join", "flush", "load", "wait", "exit"}
  OBVIOUS
<1>2. PICK f \in Calls : ChangeTop(t, f) /\ f.step = s /\ f.rest = Top(t).rest
  BY <1>1, GoingOn
<1>3. \E p, q \in 0 .. 9 : Place(f.step) = p /\ Place(Top(t).step) = q /\ p < q
  <2>1. /\ 0 \in 0 .. 9 /\ 1 \in 0 .. 9 /\ 2 \in 0 .. 9 /\ 4 \in 0 .. 9 /\ 5 \in 0 .. 9
        /\ 6 \in 0 .. 9 /\ 7 \in 0 .. 9 /\ 8 \in 0 .. 9 /\ 9 \in 0 .. 9
    OBVIOUS
  <2>2. \/ Place(f.step) = 8 /\ Place(Top(t).step) = 9
        \/ Place(f.step) = 7 /\ Place(Top(t).step) = 8
        \/ Place(f.step) = 6 /\ Place(Top(t).step) = 7
        \/ Place(f.step) = 5 /\ Place(Top(t).step) = 6
        \/ Place(f.step) = 4 /\ Place(Top(t).step) = 5
        \/ Place(f.step) = 1 /\ Place(Top(t).step) = 2
        \/ Place(f.step) = 0 /\ Place(Top(t).step) = 1
    BY <1>2, Places
  <2> QED
    BY <2>1, <2>2
<1>4. f.step # "run" /\ Top(t).step # "run"
  BY <1>1, <1>2
<1> QED
  BY <1>2, <1>3, <1>4, StepLessens

\* No other thread is touched.
Alone(t) == \A u \in Threads : u # t => stack'[u] = stack[u]

LEMMA ChangeAlone ==
  ASSUME TypeOK, NEW t \in Threads, NEW f, Becomes(t, f)
  PROVE  Alone(t)
<1>1. stack \in [Threads -> Seq(Calls)]
  BY DEF TypeOK
<1> HIDE DEF Calls
<1> QED
  BY <1>1 DEF Becomes, Alone

LEMMA ReturnAlone ==
  ASSUME TypeOK, NEW t \in Threads, Returns(t)
  PROVE  Alone(t)
<1>1. stack \in [Threads -> Seq(Calls)]
  BY DEF TypeOK
<1> HIDE DEF Calls
<1> QED
  BY <1>1 DEF Returns, Alone

LEMMA DrainAlone ==
  ASSUME TypeOK, NEW t \in Threads, NEW rest, DrainNext(t, rest)
  PROVE  Alone(t)
<1>1. \E f : Becomes(t, f)
  BY DEF DrainNext
<1> QED
  BY <1>1, ChangeAlone

\* What a step does to the thread that takes it, and to the others.
OnlyNearer(t) == Nearer(t) /\ Alone(t)

\* The steps of a flush.
LEMMA FlushNearer ==
  ASSUME ShutdownInv, NEW t \in Threads, FlushStep(t)
  PROVE  OnlyNearer(t)
<1>1. /\ Busy(t) /\ TypeOK /\ Top(t) \in Calls
      /\ Top(t).step \in {"flush", "load", "call"}
  BY TopFrame DEF FlushStep, TakeFlushLock, LoadCursor, Flush, InCall
<1>2. CASE FlushReturns(t) /\ Top(t).step \in {"flush", "call"}
  <2>1. CASE t = Main
    <3>1. DrainNext(t, Top(t).rest)
      BY <1>2, <2>1 DEF FlushReturns
    <3> QED
      BY <1>1, <1>2, <3>1, DrainLessens, DrainAlone DEF OnlyNearer
  <2>2. CASE t # Main
    BY <1>1, <1>2, <2>2, Returning, Ending, ReturnAlone DEF FlushReturns, OnlyNearer
  <2> QED
    BY <2>1, <2>2
<1>3. CASE Goes(t, "load") /\ Top(t).step = "flush"
  BY <1>1, <1>3, StepOn, ChangeAlone DEF Goes, OnlyNearer
<1>4. CASE LoadCursor(t)
  <2>1. Top(t).step = "load"
    BY <1>4 DEF LoadCursor, InCall
  <2>2. PICK f \in Calls : ChangeTop(t, f) /\ f.step = "call" /\ f.rest = Top(t).rest
    BY <1>1, <1>4, Loading
  <2>3. 3 \in 0 .. 9 /\ 4 \in 0 .. 9 /\ Place(f.step) = 3 /\ Place(Top(t).step) = 4
    BY <2>1, <2>2, Places
  <2>4. Nearer(t)
    BY <1>1, <2>1, <2>2, <2>3, StepLessens
  <2> QED
    BY <1>1, <1>4, <2>4, ChangeAlone DEF LoadCursor, OnlyNearer
<1>5. CASE TakeFlushLock(t)
  BY <1>2, <1>3, <1>5 DEF TakeFlushLock, InCall
<1>6. CASE \E answered \in BOOLEAN : Flush(t, answered)
  BY <1>2, <1>6 DEF Flush, InCall
<1> QED
  BY <1>4, <1>5, <1>6 DEF FlushStep

\* The steps of the run.
LEMMA RunNearer ==
  ASSUME ShutdownInv, RunStep, stack' # stack
  PROVE  OnlyNearer(Main)
<1>1. TypeOK /\ Main \in Threads
  BY ThreadsAndChannels DEF ShutdownInv
<1>2. CASE Run
  <2>1. Busy(Main) /\ Top(Main).step = "run"
    BY <1>2 DEF Run, InCall
  <2>2. CASE Returns(Main)
    BY <1>1, <2>1, <2>2, Returning, Ending, ReturnAlone DEF OnlyNearer
  <2>3. CASE DrainNext(Main, drains[Top(Main).by])
    <3>1. Top(Main).by \in Channels
      <4>1. FrameOK(Main, Top(Main)) /\ Top(Main).by \in Threads
        BY <1>1, <2>1, TopFrame, CallType
      <4> QED
        BY <2>1, <4>1, ThreadsAndChannels DEF FrameOK, Main
    <3>2. drains[Top(Main).by] \in SUBSET Channels
      BY <1>1, <3>1 DEF TypeOK
    <3>3. PICK rest \in SUBSET Channels : rest = drains[Top(Main).by]
      BY <3>2
    <3>4. Nearer(Main)
      <4>1. DrainNext(Main, rest)
        BY <2>3, <3>3
      <4> QED
        BY <1>1, <2>1, <4>1, DrainStarts
    <3>5. Alone(Main)
      BY <1>1, <2>3, DrainAlone
    <3> QED
      BY <3>4, <3>5 DEF OnlyNearer
  <2> QED
    BY <1>2, <2>2, <2>3 DEF Run
<1>3. CASE Suppress \/ TakeStopLock \/ Join \/ StopMaster \/ BudgetEnds
  <2>1. Busy(Main)
    BY <1>3 DEF Suppress, TakeStopLock, Join, StopMaster, BudgetEnds, InCall
  <2>2. PICK s : /\ Goes(Main, s)
                 /\ \/ Top(Main).step = "suppress" /\ s = "stop"
                    \/ Top(Main).step = "stop" /\ s = "set"
                    \/ Top(Main).step = "join" /\ s = "flush"
                    \/ Top(Main).step = "master" /\ s = "wait"
                    \/ Top(Main).step = "wait" /\ s = "exit"
    BY <1>3 DEF Suppress, TakeStopLock, Join, StopMaster, BudgetEnds, InCall
  <2>3. Nearer(Main)
    BY <1>1, <2>1, <2>2, StepOn
  <2> QED
    BY <1>1, <2>2, <2>3, ChangeAlone DEF Goes, OnlyNearer
<1>4. CASE SetStopEvent
  <2>1. Busy(Main) /\ Top(Main).step = "set"
    BY <1>4 DEF SetStopEvent, InCall
  <2>2. CASE Returns(Main)
    BY <1>1, <2>1, <2>2, Returning, Ending, ReturnAlone DEF OnlyNearer
  <2>3. CASE Goes(Main, "join")
    BY <1>1, <2>1, <2>3, StepOn, ChangeAlone DEF Goes, OnlyNearer
  <2> QED
    BY <1>4, <2>2, <2>3 DEF SetStopEvent
<1>5. CASE Exit
  BY <1>5 DEF Exit
<1> QED
  BY <1>1, <1>2, <1>3, <1>4, <1>5, FlushNearer DEF RunStep

\* A signal, or a poll thread that starts, begins a call.
LEMMA BeginNearer ==
  ASSUME ShutdownInv, OwnSignal \/ MasterSignal \/ \E g \in Channels : StartPoll(g)
  PROVE  \E t \in Threads : OnlyNearer(t)
<1>1. TypeOK /\ Main \in Threads /\ 0 \in Threads /\ Channels \subseteq Threads
  BY ThreadsAndChannels DEF ShutdownInv, Main
<1>2. stack \in [Threads -> Seq(Calls)]
  BY <1>1 DEF TypeOK
<1>3. CASE OwnSignal \/ MasterSignal
  <2>1. PICK f \in Calls : Interrupt(f)
    <3>1. CASE OwnSignal
      <4>1. made \in Channels /\ made \in Threads
        BY <1>1, <3>1, ShutdownAssumption DEF OwnSignal, TypeOK, Channels, Threads
      <4>2. coordOf[made] \in Threads
        BY <1>1, <4>1 DEF TypeOK
      <4>3. Interrupt(Call("run", coordOf[made], 0)) \/ Interrupt(Call("stop", 0, made))
        BY <3>1 DEF OwnSignal
      <4> QED
        BY <1>1, <4>1, <4>2, <4>3, NewCall
    <3>2. CASE MasterSignal
      <4>1. wrappedBy \in Threads
        BY <1>1 DEF TypeOK
      <4> QED
        BY <1>1, <3>2, <4>1, NewCall DEF MasterSignal
    <3> QED
      BY <1>3, <3>1, <3>2
  <2>2. stack' = [stack EXCEPT ![Main] = Append(@, f)]
    BY <2>1 DEF Interrupt
  <2>3. PushTop(Main, f)
    BY <1>1, <2>2, Pushing
  <2>4. signals' > signals
    <3>1. signals \in Nat /\ signals' = signals + 1
      BY <1>1, <2>1, ShutdownAssumption DEF TypeOK, Interrupt
    <3> QED
      BY <3>1
  <2>5. Nearer(Main)
    BY <1>1, <2>3, <2>4, Beginning
  <2>6. Alone(Main)
    <3> HIDE DEF Calls
    <3> QED
      BY <1>2, <2>2 DEF Alone
  <2> QED
    BY <1>1, <2>5, <2>6 DEF OnlyNearer
<1>4. CASE \E g \in Channels : StartPoll(g)
  <2>1. PICK g \in Channels : StartPoll(g)
    BY <1>4
  <2>2. g \in Threads /\ g # Main /\ stack[g] = <<>>
    BY <1>1, <2>1, ThreadsAndChannels DEF StartPoll, Busy
  <2>3. PICK f : stack' = [stack EXCEPT ![g] = <<f>>]
    BY <2>1 DEF StartPoll
  <2>4. Alone(g)
    <3> HIDE DEF Calls
    <3> QED
      BY <1>2, <2>3 DEF Alone
  <2>5. DOMAIN stack[g] = {}
    BY <2>2
  <2>6. Nearer(g)
    BY <2>2, <2>5 DEF Nearer
  <2> QED
    BY <2>2, <2>4, <2>6 DEF OnlyNearer
<1> QED
  BY <1>3, <1>4

\* Every step that touches a stack takes one thread on.
LEMMA NextNearer ==
  ASSUME ShutdownInv, Next
  PROVE  \A t \in Threads : stack'[t] # stack[t] => Nearer(t)
<1>1. TypeOK /\ Main \in Threads /\ Channels \subseteq Threads
  BY ThreadsAndChannels DEF ShutdownInv
<1>2. stack' = stack \/ \E t \in Threads : OnlyNearer(t)
  <2>1. CASE LoadStep \/ MakeMaster \/ \E c \in Channels : DeferredInstall(c) \/ DeadlinePasses(c)
    BY <2>1 DEF LoadStep, MakeChannel, LookUpCoordinator, InstallNow, InstallLater,
                AssignCoordinator, MakeMaster, DeferredInstall, DeadlinePasses
  <2>2. CASE OwnSignal \/ MasterSignal \/ \E g \in Channels : StartPoll(g)
    BY <2>2, BeginNearer
  <2>3. CASE RunStep
    BY <1>1, <2>3, RunNearer
  <2>4. CASE \E g \in Channels : PollStep(g)
    <3>1. PICK g \in Channels : PollStep(g)
      BY <2>4
    <3>2. g \in Threads
      BY <1>1
    <3>3. CASE PollOnce(g)
      BY <3>3 DEF PollOnce
    <3>4. CASE PollEnds(g)
      <4>1. Busy(g) /\ Top(g).step = "poll" /\ Goes(g, "flush")
        BY <3>4 DEF PollEnds, InCall
      <4>2. Nearer(g)
        BY <1>1, <3>2, <4>1, StepOn
      <4> QED
        BY <1>1, <3>2, <4>1, <4>2, ChangeAlone DEF Goes, OnlyNearer
    <3>5. CASE FlushStep(g)
      BY <3>2, <3>5, FlushNearer
    <3> QED
      BY <3>1, <3>3, <3>4, <3>5 DEF PollStep
  <2> QED
    BY <2>1, <2>2, <2>3, <2>4 DEF Next
<1> QED
  BY <1>2 DEF OnlyNearer, Alone

\* A call never goes back, for every number of channels and signals: what is left of it
\* falls with each step of its thread, the channels still to drain first, and the calls
\* that a signal interrupted stay as they are.
THEOREM CallsGetOn == Spec => GetsOn
<1>1. ShutdownInv /\ [Next]_vars => [\A t \in Threads : stack'[t] # stack[t] => Nearer(t)]_vars
  BY NextNearer
<1> QED
  BY <1>1, ShutdownInvariant, PTL DEF Spec, GetsOn
=============================================================================
