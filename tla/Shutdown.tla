------------------------------ MODULE Shutdown ------------------------------
(***************************************************************************)
(* The end of the process: ShutdownCoordinator.py, and what it drains in    *)
(* ComWechat.py.  A coordinator has to wrap stop_polling of a master that   *)
(* does not exist yet when the channel is made; a reload may replace it     *)
(* meanwhile.  Its run is started by signals, which interrupt the main      *)
(* thread anywhere, its own run included, while poll threads go on, flush   *)
(* the same checkpoint and take the same locks.                            *)
(*                                                                         *)
(* Channels are numbered as they are made, all under one channel id; the    *)
(* coordinator made with channel g is coordinator g; 0 is none.  The main   *)
(* thread is 0, the poll thread of channel g is thread g.  Time budgets     *)
(* are free choices.  hard_exit is set.                                     *)
(***************************************************************************)
EXTENDS Naturals, Sequences, FiniteSets

CONSTANTS MaxChannels,   \* bound: channels made
          MaxSignals,    \* bound: signals
          MaxCursor      \* bound: cursors saved

ASSUME ShutdownAssumption ==
  MaxChannels \in Nat /\ MaxSignals \in Nat /\ MaxCursor \in Nat

Channels == 1 .. MaxChannels
Threads  == 0 .. MaxChannels
Main     == 0
Free     == MaxChannels + 1

VARIABLES
  \* The main thread outside signal handlers: the channel at hand, where its
  \* constructor is, the coordinator it got.
  made, loading, got,
  \* The registry, and of each channel its coordinator, of each coordinator what it
  \* drains, its flags and its deferred installer.
  registry, coordOf, drains, installed, ran, installer,
  \* Whether the master exists, who wrapped it, how often it was really stopped.
  master, wrappedBy, masterStops,
  \* The calls each thread is in, the innermost last.
  stack,
  \* Per channel: the flags, the locks and their owner.  The cursor file (0: none).
  suppressed, stopped, stopLock, flushLock, flushed, cursor,
  \* History: checkpoints flushed, flushes tried, signals, who ended the process.
  flushes, tried, signals, exited

madeVars  == <<made, loading, got>>
coordVars == <<registry, coordOf, drains, installed, installer>>
masterVars == <<master, wrappedBy>>
flagVars  == <<suppressed, stopped, stopLock>>
flushVars == <<flushLock, flushed, flushes, tried>>
vars == <<madeVars, coordVars, ran, masterVars, masterStops, stack, flagVars, flushVars, cursor,
          signals, exited>>

\* A call: where it is, the coordinator that runs (0 for a bare stop_polling or a
\* poll thread), the channel at hand, those still to drain, the cursor loaded.
Calls == [step : {"run", "suppress", "stop", "set", "join", "flush", "load", "call",
                  "master", "wait", "exit", "poll"},
          by : Threads, chan : Threads, rest : SUBSET Channels, read : 0 .. MaxCursor]

Call(step, c, g) == [step |-> step, by |-> c, chan |-> g, rest |-> {}, read |-> 0]

Busy(t) == stack[t] # <<>>
Top(t)  == stack[t][Len(stack[t])]

InCall(t, step) == exited = 0 /\ Busy(t) /\ Top(t).step = step

Becomes(t, call) == stack' = [stack EXCEPT ![t][Len(stack[t])] = call]
Goes(t, step)    == Becomes(t, [Top(t) EXCEPT !.step = step])
Returns(t)       == stack' = [stack EXCEPT ![t] = SubSeq(@, 1, Len(@) - 1)]

-----------------------------------------------------------------------------
(***************************************************************************)
(* The main thread makes channels and the master.                          *)
(***************************************************************************)
Idle == exited = 0 /\ ~Busy(Main)

\* The constructor registers the channel's signal handlers ...
MakeChannel ==
  /\ Idle /\ loading = "no" /\ made < MaxChannels
  /\ made' = made + 1
  /\ loading' = "lookup"
  /\ UNCHANGED <<got, coordVars, ran, masterVars, masterStops, stack, flagVars, flushVars, cursor,
                 signals, exited>>

\* ... takes the coordinator in the registry if it is installed and has not run,
\* or puts a new one there.  EFB's slaves hold one channel under the id; an earlier
\* one (0: none) is a sibling to drain ...
LookUpCoordinator ==
  LET reuse == registry # 0 /\ installed[registry] /\ ~ran[registry]
      c     == IF reuse THEN registry ELSE made
  IN /\ Idle /\ loading = "lookup"
     /\ registry' = c /\ got' = c
     /\ \E earlier \in 0 .. made - 1 :
          drains' = [drains EXCEPT ![c] = @ \cup (IF reuse THEN {made} ELSE {made, earlier} \ {0})]
     /\ loading' = IF reuse THEN "assign" ELSE "install"
     /\ UNCHANGED <<made, coordOf, installed, ran, installer, masterVars, masterStops, stack,
                    flagVars, flushVars, cursor, signals, exited>>

\* Fault: the coordinator wraps whatever master there is.
InstallAnyway(c) ==
  /\ master
  /\ installed' = [installed EXCEPT ![c] = TRUE]
  /\ wrappedBy' = c

\* install(): under the registry lock, only the registered coordinator wraps.
Install(c) ==
  /\ registry = c /\ master
  /\ installed' = [installed EXCEPT ![c] = TRUE]
  /\ wrappedBy' = c

\* ... tries to install it, and leaves it to a thread while there is no master ...
InstallNow ==
  /\ Idle /\ loading = "install"
  /\ Install(got)
  /\ loading' = "assign"
  /\ UNCHANGED <<made, got, registry, coordOf, drains, ran, installer, master, masterStops, stack,
                 flagVars, flushVars, cursor, signals, exited>>

\* Fault: without a master nothing is left behind.
InstallNever ==
  /\ Idle /\ loading = "install" /\ ~master
  /\ loading' = "assign"
  /\ UNCHANGED <<made, got, coordVars, ran, masterVars, masterStops, stack, flagVars, flushVars,
                 cursor, signals, exited>>

InstallLater ==
  /\ Idle /\ loading = "install" /\ ~master
  /\ installer' = [installer EXCEPT ![got] = "waits"]
  /\ loading' = "assign"
  /\ UNCHANGED <<made, got, registry, coordOf, drains, installed, ran, masterVars, masterStops,
                 stack, flagVars, flushVars, cursor, signals, exited>>

\* ... and keeps it for its signal handler.
AssignCoordinator ==
  /\ Idle /\ loading = "assign"
  /\ coordOf' = [coordOf EXCEPT ![made] = got]
  /\ loading' = "no"
  /\ UNCHANGED <<made, got, registry, drains, installed, ran, installer, masterVars, masterStops,
                 stack, flagVars, flushVars, cursor, signals, exited>>

\* EFB makes the master after the first slaves.
MakeMaster ==
  /\ Idle /\ loading = "no" /\ made > 0 /\ ~master
  /\ master' = TRUE
  /\ UNCHANGED <<madeVars, coordVars, ran, wrappedBy, masterStops, stack, flagVars, flushVars,
                 cursor, signals, exited>>

\* _wait_and_install
DeferredInstall(c) ==
  /\ exited = 0 /\ installer[c] = "waits"
  /\ Install(c)
  /\ installer' = [installer EXCEPT ![c] = "done"]
  /\ UNCHANGED <<madeVars, registry, coordOf, drains, ran, master, masterStops, stack, flagVars,
                 flushVars, cursor, signals, exited>>

DeadlinePasses(c) ==
  /\ exited = 0 /\ installer[c] = "waits"
  /\ installer' = [installer EXCEPT ![c] = "late"]
  /\ UNCHANGED <<madeVars, registry, coordOf, drains, installed, ran, masterVars, masterStops,
                 stack, flagVars, flushVars, cursor, signals, exited>>

-----------------------------------------------------------------------------
(***************************************************************************)
(* Signals.                                                                *)
(***************************************************************************)
Interrupt(call) ==
  /\ exited = 0 /\ signals < MaxSignals
  /\ signals' = signals + 1
  /\ stack' = [stack EXCEPT ![Main] = Append(@, call)]
  /\ UNCHANGED <<madeVars, coordVars, ran, masterVars, masterStops, flagVars, flushVars, cursor,
                 exited>>

\* _sig_handler, of the channel made last.
OwnSignal ==
  /\ made > 0
  /\ LET c == coordOf[made]
     IN Interrupt(IF c # 0 /\ ~ran[c] THEN Call("run", c, 0) ELSE Call("stop", 0, made))

\* EFB's handler calls the stop_polling of the master.
MasterSignal ==
  /\ wrappedBy # 0
  /\ Interrupt(Call("run", wrappedBy, 0))

-----------------------------------------------------------------------------
(***************************************************************************)
(* run() and drain_for_shutdown().                                         *)
(***************************************************************************)
\* Fault: the next channel stays among those to drain.
DrainAgain(t, rest) ==
  IF rest = {} THEN Becomes(t, [Top(t) EXCEPT !.step = "master", !.chan = 0, !.read = 0])
  ELSE LET g == CHOOSE x \in rest : \A y \in rest : x <= y
       IN Becomes(t, [Top(t) EXCEPT !.step = "suppress", !.chan = g, !.rest = rest, !.read = 0])

\* On to the next channel, or to the master.
DrainNext(t, rest) ==
  IF rest = {} THEN Becomes(t, [Top(t) EXCEPT !.step = "master", !.chan = 0, !.read = 0])
  ELSE LET g == CHOOSE x \in rest : \A y \in rest : x <= y
       IN Becomes(t, [Top(t) EXCEPT !.step = "suppress", !.chan = g, !.rest = rest \ {g},
                                    !.read = 0])

\* Fault: a repeated call does it all again.
RunAgain ==
  /\ InCall(Main, "run")
  /\ ran' = [ran EXCEPT ![Top(Main).by] = TRUE]
  /\ DrainNext(Main, drains[Top(Main).by])
  /\ UNCHANGED <<madeVars, coordVars, masterVars, masterStops, flagVars, flushVars, cursor, signals,
                 exited>>

\* Only the first call does any work.
Run ==
  LET c == Top(Main).by
  IN /\ InCall(Main, "run")
     /\ ran' = [ran EXCEPT ![c] = TRUE]
     /\ IF ran[c] THEN Returns(Main) ELSE DrainNext(Main, drains[c])
     /\ UNCHANGED <<madeVars, coordVars, masterVars, masterStops, flagVars, flushVars, cursor,
                    signals, exited>>

Suppress ==
  /\ InCall(Main, "suppress")
  /\ suppressed' = [suppressed EXCEPT ![Top(Main).chan] = TRUE]
  /\ Goes(Main, "stop")
  /\ UNCHANGED <<madeVars, coordVars, ran, masterVars, masterStops, stopped, stopLock, flushVars,
                 cursor, signals, exited>>

\* stop_polling takes a plain lock ...
TakeStopLock ==
  /\ InCall(Main, "stop") /\ stopLock[Top(Main).chan] = Free
  /\ stopLock' = [stopLock EXCEPT ![Top(Main).chan] = Main]
  /\ Goes(Main, "set")
  /\ UNCHANGED <<madeVars, coordVars, ran, masterVars, masterStops, suppressed, stopped, flushVars,
                 cursor, signals, exited>>

\* Fault: the lock is not given back.
SetStopEventOnly ==
  LET g == Top(Main).chan
  IN /\ InCall(Main, "set")
     /\ stopped' = [stopped EXCEPT ![g] = TRUE]
     /\ IF Top(Main).by = 0 THEN Returns(Main) ELSE Goes(Main, "join")
     /\ UNCHANGED <<madeVars, coordVars, ran, masterVars, masterStops, suppressed, stopLock,
                    flushVars, cursor, signals, exited>>

\* ... sets the event, gives it back and closes the session.
SetStopEvent ==
  LET g == Top(Main).chan
  IN /\ InCall(Main, "set")
     /\ stopped' = [stopped EXCEPT ![g] = TRUE]
     /\ stopLock' = [stopLock EXCEPT ![g] = Free]
     /\ IF Top(Main).by = 0 THEN Returns(Main) ELSE Goes(Main, "join")
     /\ UNCHANGED <<madeVars, coordVars, ran, masterVars, masterStops, suppressed, flushVars,
                    cursor, signals, exited>>

\* Fault: the master goes first, the drain is left for later.
JoinAndStopMaster ==
  /\ InCall(Main, "join")
  /\ Becomes(Main, [Top(Main) EXCEPT !.step = "master", !.chan = 0])
  /\ UNCHANGED <<madeVars, coordVars, ran, masterVars, masterStops, flagVars, flushVars, cursor,
                 signals, exited>>

\* The poll thread is waited for, or the budget runs out.
Join ==
  /\ InCall(Main, "join")
  /\ Goes(Main, "flush")
  /\ UNCHANGED <<madeVars, coordVars, ran, masterVars, masterStops, flagVars, flushVars, cursor,
                 signals, exited>>

\* A flush is over: a poll thread ends, a drain goes on.
FlushReturns(t) == IF t = Main THEN DrainNext(t, Top(t).rest) ELSE Returns(t)

\* Fault: completion is looked at before the lock is taken.
TakeFlushLockLate(t) ==
  /\ InCall(t, "flush") /\ flushLock[Top(t).chan] = Free
  /\ flushLock' = [flushLock EXCEPT ![Top(t).chan] = t]
  /\ Goes(t, "load")
  /\ UNCHANGED <<madeVars, coordVars, ran, masterVars, masterStops, flagVars, flushed, flushes,
                 tried, cursor, signals, exited>>

\* _flush_final_checkpoint: a flush that was completed is not repeated.
TakeFlushLock(t) ==
  LET g == Top(t).chan
  IN /\ InCall(t, "flush") /\ flushLock[g] = Free
     /\ IF flushed[g]
          THEN FlushReturns(t) /\ UNCHANGED flushLock
          ELSE Goes(t, "load") /\ flushLock' = [flushLock EXCEPT ![g] = t]
     /\ UNCHANGED <<madeVars, coordVars, ran, masterVars, masterStops, flagVars, flushed, flushes,
                    tried, cursor, signals, exited>>

LoadCursor(t) ==
  /\ InCall(t, "load")
  /\ Becomes(t, [Top(t) EXCEPT !.step = "call", !.read = cursor])
  /\ UNCHANGED <<madeVars, coordVars, ran, masterVars, masterStops, flagVars, flushVars, cursor,
                 signals, exited>>

\* The call to Core returns or raises; without a cursor there is none.
Flush(t, answered) ==
  LET g == Top(t).chan
      n == Top(t).read
  IN /\ InCall(t, "call")
     /\ flushed' = [flushed EXCEPT ![g] = answered \/ n = 0]
     /\ flushes' = [flushes EXCEPT ![g] = IF answered /\ n # 0 THEN Append(@, n) ELSE @]
     /\ tried' = tried \cup {g}
     /\ flushLock' = [flushLock EXCEPT ![g] = Free]
     /\ FlushReturns(t)
     /\ UNCHANGED <<madeVars, coordVars, ran, masterVars, masterStops, flagVars, cursor, signals,
                    exited>>

\* Phase 3: the captured stop_polling is called in a thread of its own.  A
\* coordinator that wrapped no master has none to stop.
StopMaster ==
  /\ InCall(Main, "master")
  /\ masterStops' = IF installed[Top(Main).by] THEN masterStops + 1 ELSE masterStops
  /\ Goes(Main, "wait")
  /\ UNCHANGED <<madeVars, coordVars, ran, masterVars, flagVars, flushVars, cursor, signals, exited>>

\* Fault: the thread is joined without a bound, and it may hang.
WaitForMaster ==
  /\ InCall(Main, "wait") /\ masterStops = 0
  /\ Goes(Main, "exit")
  /\ UNCHANGED <<madeVars, coordVars, ran, masterVars, masterStops, flagVars, flushVars, cursor,
                 signals, exited>>

\* It has returned, or its budget has run out.
BudgetEnds ==
  /\ InCall(Main, "wait")
  /\ Goes(Main, "exit")
  /\ UNCHANGED <<madeVars, coordVars, ran, masterVars, masterStops, flagVars, flushVars, cursor,
                 signals, exited>>

\* Evidence, then os._exit: no thread takes another step.
Exit ==
  /\ InCall(Main, "exit")
  /\ exited' = Top(Main).by
  /\ UNCHANGED <<madeVars, coordVars, ran, masterVars, masterStops, stack, flagVars, flushVars,
                 cursor, signals>>

-----------------------------------------------------------------------------
(***************************************************************************)
(* The poll thread of a channel.                                           *)
(***************************************************************************)
\* EFB starts it once the master exists.
StartPoll(g) ==
  /\ Idle /\ loading = "no" /\ master /\ coordOf[g] # 0 /\ ~Busy(g) /\ g \notin tried
  /\ stack' = [stack EXCEPT ![g] = <<Call(IF stopped[g] THEN "flush" ELSE "poll", 0, g)>>]
  /\ UNCHANGED <<madeVars, coordVars, ran, masterVars, masterStops, flagVars, flushVars, cursor,
                 signals, exited>>

\* A cycle saves a cursor; one under way when the event is set does so as well.
PollOnce(g) ==
  /\ InCall(g, "poll") /\ cursor < MaxCursor
  /\ cursor' = cursor + 1
  /\ UNCHANGED <<madeVars, coordVars, ran, masterVars, masterStops, stack, flagVars, flushVars,
                 signals, exited>>

\* The event is set, or Core is incompatible: poll() ends with the flush.
PollEnds(g) ==
  /\ InCall(g, "poll")
  /\ Goes(g, "flush")
  /\ UNCHANGED <<madeVars, coordVars, ran, masterVars, masterStops, flagVars, flushVars, cursor,
                 signals, exited>>

-----------------------------------------------------------------------------
Init ==
  /\ made = 0 /\ loading = "no" /\ got = 0
  /\ registry = 0 /\ coordOf = [g \in Channels |-> 0]
  /\ drains = [c \in Channels |-> {}]
  /\ installed = [c \in Channels |-> FALSE] /\ ran = [c \in Channels |-> FALSE]
  /\ installer = [c \in Channels |-> "none"]
  /\ master = FALSE /\ wrappedBy = 0 /\ masterStops = 0
  /\ stack = [t \in Threads |-> <<>>]
  /\ suppressed = [g \in Channels |-> FALSE] /\ stopped = [g \in Channels |-> FALSE]
  /\ stopLock = [g \in Channels |-> Free] /\ flushLock = [g \in Channels |-> Free]
  /\ flushed = [g \in Channels |-> FALSE] /\ cursor = 0
  /\ flushes = [g \in Channels |-> <<>>] /\ tried = {}
  /\ signals = 0 /\ exited = 0

LoadStep == MakeChannel \/ LookUpCoordinator \/ InstallNow \/ InstallLater \/ AssignCoordinator

FlushStep(t) ==
  \/ TakeFlushLock(t)
  \/ LoadCursor(t)
  \/ \E answered \in BOOLEAN : Flush(t, answered)

RunStep ==
  \/ Run
  \/ Suppress
  \/ TakeStopLock
  \/ SetStopEvent
  \/ Join
  \/ FlushStep(Main)
  \/ StopMaster
  \/ BudgetEnds
  \/ Exit

PollStep(g) == PollOnce(g) \/ PollEnds(g) \/ FlushStep(g)

Next ==
  \/ LoadStep
  \/ MakeMaster
  \/ \E c \in Channels : DeferredInstall(c) \/ DeadlinePasses(c)
  \/ OwnSignal \/ MasterSignal
  \/ RunStep
  \/ \E g \in Channels : StartPoll(g) \/ PollStep(g)

\* The main thread, the installers and the poll threads run; calls to Core return.
Fairness ==
  /\ WF_vars(RunStep) /\ WF_vars(LoadStep)
  /\ \A g \in Channels : WF_vars(DeferredInstall(g)) /\ WF_vars(PollStep(g))

Spec == Init /\ [][Next]_vars /\ Fairness

-----------------------------------------------------------------------------
\* The thread inside stop_polling, and inside the flush, of a channel.
Stopping(t, g) == \E i \in DOMAIN stack[t] : stack[t][i].step = "set" /\ stack[t][i].chan = g
Flushing(t, g) == \E i \in DOMAIN stack[t] :
                    stack[t][i].step \in {"load", "call"} /\ stack[t][i].chan = g

TypeOK ==
  /\ made \in 0 .. MaxChannels /\ got \in Threads
  /\ loading \in {"no", "lookup", "install", "assign"}
  /\ registry \in 0 .. made /\ coordOf \in [Channels -> Threads]
  /\ drains \in [Channels -> SUBSET Channels]
  /\ installed \in [Channels -> BOOLEAN] /\ ran \in [Channels -> BOOLEAN]
  /\ installer \in [Channels -> {"none", "waits", "done", "late"}]
  /\ master \in BOOLEAN /\ wrappedBy \in Threads /\ masterStops \in Nat
  /\ stack \in [Threads -> Seq(Calls)]
  /\ suppressed \in [Channels -> BOOLEAN] /\ stopped \in [Channels -> BOOLEAN]
  /\ stopLock \in [Channels -> Threads \cup {Free}]
  /\ flushLock \in [Channels -> Threads \cup {Free}]
  /\ flushed \in [Channels -> BOOLEAN] /\ cursor \in 0 .. MaxCursor
  /\ flushes \in [Channels -> Seq(1 .. MaxCursor)] /\ tried \subseteq Channels
  /\ signals \in 0 .. MaxSignals /\ exited \in Threads
  /\ \A t \in Threads, g \in Channels :
       (Stopping(t, g) <=> stopLock[g] = t) /\ (Flushing(t, g) <=> flushLock[g] = t)

\* The final checkpoint of a channel is flushed at most once, whoever comes first:
\* the drain, the end of the poll thread, or either again after a failed call.  A call
\* whose answer was lost counts as failed, whether Core took the cursor or not.
FlushedOnce == \A g \in Channels : Len(flushes[g]) <= 1

\* However signals interrupt the run, the master is stopped and the process ended
\* only when every channel to drain is suppressed, stopped and has had its flush.
DrainedFirst ==
  \A c \in Channels :
    (exited = c \/ (masterStops > 0 /\ wrappedBy = c)) =>
      \A g \in drains[c] : suppressed[g] /\ stopped[g] /\ g \in tried

\* The stop_polling of the master is called at most once.
MasterStoppedOnce == masterStops <= 1

\* The master belongs to the registered coordinator: one that a reload replaced
\* while its installer was waiting never captures it, before or after.
RegisteredCaptures ==
  \A c \in Channels : installed[c] \/ wrappedBy = c => registry = c /\ wrappedBy = c

\* A signal arrived inside stop_polling: its handler waits for the plain lock that
\* its own thread holds further down.
SelfBlocked ==
  Busy(Main) /\ Top(Main).step = "stop" /\ stopLock[Top(Main).chan] = Main

\* The owner of the lock that a thread is about to take, and whether it has to wait.
Awaited(t) == CASE Top(t).step = "stop"  -> stopLock[Top(t).chan]
                [] Top(t).step = "flush" -> flushLock[Top(t).chan]
                [] OTHER                 -> Free
Waits(t) == Busy(t) /\ Awaited(t) # Free

\* Signals start a run inside a run, and inside a flush, of the same thread.  Apart from
\* that blockade a thread waits only for one that goes on: never for a waiting poll
\* thread, and the drain never for a flush that it interrupted itself.
WaitsEnd == \A t \in Threads : Waits(t) => ~Waits(Awaited(t)) \/ SelfBlocked

\* How far a call is from its end: the channels still to drain, then its place.
Place(step) ==
  CASE step = "suppress"         -> 9
    [] step = "stop"             -> 8
    [] step = "set"              -> 7
    [] step \in {"join", "poll"} -> 6
    [] step = "flush"            -> 5
    [] step = "load"             -> 4
    [] step = "call"             -> 3
    [] step = "master"           -> 2
    [] step = "wait"             -> 1
    [] OTHER                     -> 0
Left(f) == 10 * (IF f.step = "run" THEN MaxChannels + 1 ELSE Cardinality(f.rest)) + Place(f.step)

\* The call a thread is in comes nearer to its end, returns or starts another.
Nearer(t) ==
  /\ \A i \in DOMAIN stack[t] \cap DOMAIN stack'[t] :
       i < Len(stack[t]) \/ i < Len(stack'[t]) => stack'[t][i] = stack[t][i]
  /\ \/ Len(stack'[t]) < Len(stack[t])
     \/ Len(stack'[t]) = Len(stack[t]) /\ Left(Top(t))' < Left(Top(t))
     \/ t = Main /\ signals' > signals
     \/ t # Main /\ stack[t] = <<>>

\* Nothing leads a thread back: its call comes nearer to its end or returns, and those
\* that it interrupted stay as they are.  Only a signal, or a poll thread that starts,
\* adds to the work, so a run ends after finitely many steps, whatever other threads do.
GetsOn == [][\A t \in Threads : stack'[t] # stack[t] => Nearer(t)]_vars

\* A shutdown that has begun ends the process, whatever the master, Core and the
\* poll threads do, unless the main thread blocks itself.
ShutdownEnds == (\E c \in Channels : ran[c]) ~> (exited # 0 \/ SelfBlocked)

\* The master is wrapped although it appears after the channels, unless an
\* installer's deadline has passed or a shutdown is there first.
MasterWrapped ==
  master ~> (wrappedBy # 0 \/ (\E c \in Channels : installer[c] = "late" \/ ran[c]) \/ SelfBlocked)
=============================================================================
