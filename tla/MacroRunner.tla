------------------------------ MODULE MacroRunner ------------------------------
(***************************************************************************)
(* Running macros: modules/macro/gowl-macro-runner.c and the parts of      *)
(* modules/macro/gowl-module-macro.c that start and stop runs and keep the *)
(* crash journal.                                                          *)
(*                                                                         *)
(* A timeline run lives on the compositor thread: its body queues steps    *)
(* that a timer plays.  A threaded run has a worker, which hops to the     *)
(* compositor thread through a queue, an eventfd and a call record both    *)
(* sides hold a reference to.  Nothing ever waits for a worker: stop,      *)
(* shutdown and finalize leave it behind, and reference counts keep what   *)
(* it still needs.                                                         *)
(*                                                                         *)
(* The compositor thread is a stack of frames, since a step or a call may  *)
(* itself run a module command (macro-run, macro-stop).  A worker's step   *)
(* is what it does between two points where the other thread can see it.   *)
(***************************************************************************)
EXTENDS Naturals, Sequences, FiniteSets

CONSTANTS
  Runs,         \* run ids; each is used once per life of the compositor
  NoRun,        \* the run of the queue-draining frame, which has none
  Threaded,     \* those that run on a worker
  Macro,        \* the name of each run's macro
  Reentrant,    \* the `reentrant' setting
  MaxRunning,   \* the `max-running' setting
  MaxSteps,     \* the `max-steps' setting
  Commands,     \* which frames may run module commands
  MaxCrashes    \* bound: times the compositor dies

ASSUME MacroRunnerAssumption ==
  /\ NoRun \notin Runs
  /\ IsFiniteSet(Runs)
  /\ Threaded \subseteq Runs
  /\ DOMAIN Macro = Runs
  /\ Reentrant \in BOOLEAN
  /\ MaxRunning \in Nat /\ MaxSteps \in Nat /\ MaxCrashes \in Nat
  /\ Commands \subseteq {"body", "step", "call"}

VARIABLES
  \* The runner, on the compositor thread.
  moduleRef,  \* the module still holds its reference
  dead,       \* self->dead; the eventfd's source is gone with it
  table,      \* self->runs
  stack,      \* the compositor thread's frames, innermost first
  steps,      \* per timeline run: steps queued and not played
  timer,      \* timeline runs whose timer is armed
  \* Shared with the workers.
  queue,      \* self->queue: <<kind, run>>
  efd,        \* the eventfd is readable
  cancelled,  \* ctx->cancelled
  call,       \* per threaded run: its SyncCall's state
  callRefs,   \* and that call's reference count
  refs,       \* run->ref_count, 0 once freed
  \* The workers.
  worker,
  faulted,    \* runs whose worker's guard caught something (run->signo)
  \* The journal: in memory and, saved after every change, on disk.
  running,    \* names marked running
  held,       \* names in quarantine
  \* History.
  started,    \* run ids used
  told,       \* times the finished listeners heard of a run's end
  crashes

runnerVars == <<moduleRef, dead, table, stack, steps, timer>>
sharedVars == <<queue, efd, cancelled, call, callRefs, refs>>
workerVars == <<worker, faulted>>
journalVars == <<running, held>>
historyVars == <<started, told, crashes>>
vars == <<runnerVars, sharedVars, workerVars, journalVars, historyVars>>

Timeline == Runs \ Threaded
Names == {Macro[r] : r \in Runs}

WorkerStates ==
  {"none",      \* no thread yet
   "body",      \* in the macro's own code
   "asking",    \* a call is queued, the eventfd not yet written
   "waiting",   \* in host_invoke_sync()'s wait loop
   "leaving",   \* DONE is queued, the eventfd not yet written
   "gone"}
CallStates == {"none", "pending", "executing", "done", "abandoned"}

FrameKinds == {"body", "tick", "step", "call", "drain"}
Frame(kind, r) == [kind |-> kind, run |-> r]
Top == Head(stack)
On(kind, r) == stack # <<>> /\ Top = Frame(kind, r)
Draining == stack # <<>> /\ Top.kind = "drain"

\* gowl_fault_guard_call(): guards do not nest, so a fault in guarded code
\* unwinds to the outermost guard, and the frames above it are gone.
IsGuard(f) == f.kind \in {"body", "call"}
OutermostGuard(k) ==
  IsGuard(stack[k]) /\ \A i \in (k + 1)..Len(stack) : ~IsGuard(stack[i])
FaultLandsIn(f) ==
  /\ stack # <<>> /\ IsGuard(Top)
  /\ \E k \in 1..Len(stack) :
       /\ OutermostGuard(k) /\ stack[k] = f
       /\ stack' = SubSeq(stack, k + 1, Len(stack))

-----------------------------------------------------------------------------
(* Helpers.                                                                *)

\* References to the runs of `rs' dropped: at 0 the run is freed.
Minus(count, rs) == [r \in Runs |-> count[r] - IF r \in rs THEN 1 ELSE 0]
Plus(count, rs) == [r \in Runs |-> count[r] + IF r \in rs THEN 1 ELSE 0]

\* g_hash_table_remove(): the table's reference goes with the entry.
Leave(rs, count) ==
  /\ table' = table \ rs
  /\ refs' = Minus(count, rs \cap table)

\* run_finish(), for each run of rs; count is the reference counts without
\* those the caller drops.
Finish(rs, count) ==
  /\ timer' = timer \ rs
  /\ running' = running \ {Macro[r] : r \in rs}
  /\ told' = Plus(told, rs)
  /\ Leave(rs, count)

\* on_run_faulted(): the macro is held back, and the listeners hear of it.
HoldBack(r) ==
  /\ held' = held \cup {Macro[r]}
  /\ told' = Plus(told, {r})

\* MUTANT of MayStart: a macro that is running may be started again.
MayStartTwice(r) ==
  /\ ~dead /\ moduleRef
  /\ r \notin started
  /\ Macro[r] \notin held
  /\ Cardinality(table) < MaxRunning

\* run_macro()'s refusals, and runner_start()'s.
MayStart(r) ==
  /\ ~dead /\ moduleRef
  /\ r \notin started
  /\ Macro[r] \notin held
  /\ Cardinality(table) < MaxRunning
  /\ ~Reentrant => \A o \in table : Macro[o] # Macro[r]

\* Where a module command can come from: IPC, a key or D-Bus between two
\* dispatches of the loop, or code one of the frames runs.
CommandsRun == stack # <<>> => Top.kind \in Commands

\* The stack under a command: a played step runs one, which is all it does.
Under == IF stack # <<>> /\ Top.kind = "step" THEN Tail(stack) ELSE stack

-----------------------------------------------------------------------------
(* Starting and stopping.                                                  *)

\* gowl_macro_runner_start() of a timeline run, up to the body.
StartTimeline(r) ==
  /\ CommandsRun /\ MayStart(r)
  /\ r \in Timeline
  /\ started' = started \cup {r}
  /\ table' = table \cup {r}
  /\ refs' = Plus(refs, {r})
  /\ running' = running \cup {Macro[r]}
  /\ stack' = <<Frame("body", r)>> \o Under
  /\ UNCHANGED <<moduleRef, dead, steps, timer, queue, efd, cancelled, call,
                 callRefs, workerVars, held, told, crashes>>

\* Of a threaded run: the worker has a reference of its own.
StartThreaded(r) ==
  /\ CommandsRun /\ MayStart(r)
  /\ r \in Threaded
  /\ started' = started \cup {r}
  /\ table' = table \cup {r}
  /\ refs' = [refs EXCEPT ![r] = 2]
  /\ running' = running \cup {Macro[r]}
  /\ worker' = [worker EXCEPT ![r] = "body"]
  /\ stack' = Under
  /\ UNCHANGED <<moduleRef, dead, steps, timer, queue, efd, cancelled, call,
                 callRefs, faulted, held, told, crashes>>

\* g_thread_try_new() failed: started and finished in one go.
StartNoThread(r) ==
  /\ CommandsRun /\ MayStart(r)
  /\ r \in Threaded
  /\ started' = started \cup {r}
  /\ running' = running \ {Macro[r]}
  /\ told' = Plus(told, {r})
  /\ stack' = Under
  /\ UNCHANGED <<moduleRef, dead, table, steps, timer, sharedVars, workerVars,
                 held, crashes>>

\* gowl_macro_runner_stop(): every run is cancelled; a timeline run ends here,
\* a threaded one when its worker has noticed.
Stop(rs) ==
  /\ CommandsRun /\ moduleRef
  /\ rs # {} /\ rs \subseteq table
  /\ cancelled' = cancelled \cup rs
  /\ Finish(rs \cap Timeline, refs)
  /\ stack' = Under
  /\ UNCHANGED <<moduleRef, dead, steps, queue, efd, call, callRefs,
                 workerVars, held, started, crashes>>

\* What macro-stop may name: a run id, a macro, all.
Targets ==
  {{r} : r \in table} \cup {{r \in table : Macro[r] = m} : m \in Names} \cup {table}

\* cmd_clear()
Clear(m) ==
  /\ CommandsRun /\ moduleRef
  /\ m \in held
  /\ held' = held \ {m}
  /\ stack' = Under
  /\ UNCHANGED <<moduleRef, dead, table, steps, timer, sharedVars, workerVars,
                 running, historyVars>>

-----------------------------------------------------------------------------
(* Timeline runs.                                                          *)

\* host_queue_step(): the body queues a step, or a wait; past max-steps they
\* are dropped.
BodyQueueStep(r, step) ==
  /\ On("body", r)
  /\ r \notin cancelled
  /\ Len(steps[r]) < MaxSteps
  /\ steps' = [steps EXCEPT ![r] = Append(@, step)]
  /\ UNCHANGED <<moduleRef, dead, table, stack, timer, sharedVars, workerVars,
                 journalVars, historyVars>>

\* The body returned, with steps to play.
BodyStarted(r) ==
  /\ On("body", r)
  /\ steps[r] # <<>>
  /\ stack' = Tail(stack)
  /\ timer' = timer \cup {r}
  /\ UNCHANGED <<moduleRef, dead, table, steps, sharedVars, workerVars,
                 journalVars, historyVars>>

\* It failed, or queued nothing: the run is over.
BodyFinished(r) ==
  /\ On("body", r)
  /\ stack' = Tail(stack)
  /\ steps' = [steps EXCEPT ![r] = <<>>]
  /\ Finish({r}, refs)
  /\ UNCHANGED <<moduleRef, dead, queue, efd, cancelled, call, callRefs,
                 workerVars, held, started, crashes>>

\* The guard caught a crash, or the watchdog ran out.
BodyFaulted(r) ==
  /\ FaultLandsIn(Frame("body", r))
  /\ running' = running \ {Macro[r]}
  /\ HoldBack(r)
  /\ Leave({r}, refs)
  /\ UNCHANGED <<moduleRef, dead, steps, timer, queue, efd, cancelled, call,
                 callRefs, workerVars, started, crashes>>

\* MUTANT of TimelineTick: the tick takes no reference of its own.
TickUnreferenced(r) ==
  /\ stack = <<>> /\ r \in timer
  /\ timer' = timer \ {r}
  /\ stack' = <<Frame("tick", r)>>
  /\ UNCHANGED <<moduleRef, dead, table, steps, queue, efd, cancelled, call,
                 callRefs, refs, workerVars, journalVars, historyVars>>

\* on_timeline_tick(): the timer fires, and the tick holds the run.
TimelineTick(r) ==
  /\ stack = <<>> /\ r \in timer
  /\ timer' = timer \ {r}
  /\ stack' = <<Frame("tick", r)>>
  /\ refs' = Plus(refs, {r})
  /\ UNCHANGED <<moduleRef, dead, table, steps, queue, efd, cancelled, call,
                 callRefs, workerVars, journalVars, historyVars>>

\* Its loop: a step is played (gowl_macro_step_execute()), which may run a
\* module command: a Start, a Stop or a Clear that takes the step's frame ...
TickStep(r) ==
  /\ On("tick", r)
  /\ r \notin cancelled /\ steps[r] # <<>> /\ Head(steps[r]) = "do"
  /\ steps' = [steps EXCEPT ![r] = Tail(@)]
  /\ stack' = <<Frame("step", r)>> \o stack
  /\ UNCHANGED <<moduleRef, dead, table, timer, sharedVars, workerVars,
                 journalVars, historyVars>>

StepDone(r) ==
  /\ On("step", r)
  /\ stack' = Tail(stack)
  /\ UNCHANGED <<moduleRef, dead, table, steps, timer, sharedVars, workerVars,
                 journalVars, historyVars>>

\* ... a wait re-arms the timer ...
TickWait(r) ==
  /\ On("tick", r)
  /\ r \notin cancelled /\ steps[r] # <<>> /\ Head(steps[r]) = "wait"
  /\ steps' = [steps EXCEPT ![r] = Tail(@)]
  /\ timer' = timer \cup {r}
  /\ stack' = Tail(stack)
  /\ refs' = Minus(refs, {r})
  /\ UNCHANGED <<moduleRef, dead, table, queue, efd, cancelled, call, callRefs,
                 workerVars, journalVars, historyVars>>

\* ... and the end, or a cancellation, finishes the run.
TickFinished(r) ==
  /\ On("tick", r)
  /\ r \in cancelled \/ steps[r] = <<>>
  /\ stack' = Tail(stack)
  /\ Finish({r}, Minus(refs, {r}))
  /\ UNCHANGED <<moduleRef, dead, steps, queue, efd, cancelled, call, callRefs,
                 workerVars, held, started, crashes>>

-----------------------------------------------------------------------------
(* Workers.                                                                *)

\* host_invoke_sync(), up to the push: a call both sides hold, for a run that
\* the call holds.
WorkerAsks(r) ==
  /\ worker[r] = "body"
  /\ ~dead /\ r \notin cancelled
  /\ worker' = [worker EXCEPT ![r] = "asking"]
  /\ call' = [call EXCEPT ![r] = "pending"]
  /\ callRefs' = [callRefs EXCEPT ![r] = 2]
  /\ refs' = Plus(refs, {r})
  /\ queue' = Append(queue, <<"sync", r>>)
  /\ UNCHANGED <<runnerVars, efd, cancelled, faulted, journalVars, historyVars>>

\* The second half of post(): the eventfd.
WorkerPokes(r) ==
  /\ worker[r] \in {"asking", "leaving"}
  /\ worker' = [worker EXCEPT ![r] = IF @ = "asking" THEN "waiting" ELSE "gone"]
  /\ efd' = TRUE
  /\ UNCHANGED <<runnerVars, queue, cancelled, call, callRefs, refs, faulted,
                 journalVars, historyVars>>

\* call_unref() by the worker.
WorkerDropsCall(r) ==
  /\ worker' = [worker EXCEPT ![r] = "body"]
  /\ callRefs' = [callRefs EXCEPT ![r] = @ - 1]
  /\ refs' = IF callRefs[r] = 1 THEN Minus(refs, {r}) ELSE refs

\* The wait ends: the compositor has answered.
WorkerAnswered(r) ==
  /\ worker[r] = "waiting"
  /\ call[r] \in {"done", "abandoned"}
  /\ WorkerDropsCall(r)
  /\ UNCHANGED <<runnerVars, queue, efd, cancelled, call, faulted, journalVars,
                 historyVars>>

\* MUTANT of WorkerAbandons: a call the compositor is in is abandoned too.
WorkerWalksOut(r) ==
  /\ worker[r] = "waiting"
  /\ call[r] \in {"pending", "executing"}
  /\ dead \/ r \in cancelled
  /\ call' = [call EXCEPT ![r] = "abandoned"]
  /\ WorkerDropsCall(r)
  /\ UNCHANGED <<runnerVars, queue, efd, cancelled, faulted, journalVars,
                 historyVars>>

\* MUTANT of WorkerAbandons: only a stop is noticed, not the module going.
WorkerNoticesStopOnly(r) ==
  /\ worker[r] = "waiting"
  /\ call[r] = "pending"
  /\ r \in cancelled /\ ~dead
  /\ call' = [call EXCEPT ![r] = "abandoned"]
  /\ WorkerDropsCall(r)
  /\ UNCHANGED <<runnerVars, queue, efd, cancelled, faulted, journalVars,
                 historyVars>>

\* It notices that it was cancelled or the module is gone, and gives up a call
\* the compositor has not started.
WorkerAbandons(r) ==
  /\ worker[r] = "waiting"
  /\ call[r] = "pending"
  /\ dead \/ r \in cancelled
  /\ call' = [call EXCEPT ![r] = "abandoned"]
  /\ WorkerDropsCall(r)
  /\ UNCHANGED <<runnerVars, queue, efd, cancelled, faulted, journalVars,
                 historyVars>>

\* worker_main() after the body: DONE takes the worker's reference.
WorkerLeaves(r, fault) ==
  /\ worker[r] = "body"
  /\ worker' = [worker EXCEPT ![r] = "leaving"]
  /\ queue' = Append(queue, <<"done", r>>)
  /\ faulted' = IF fault THEN faulted \cup {r} ELSE faulted
  /\ cancelled' = IF fault THEN cancelled \cup {r} ELSE cancelled
  /\ UNCHANGED <<runnerVars, efd, call, callRefs, refs, journalVars, historyVars>>

\* The watchdog runs out inside host_invoke_sync(), which the guard covers but
\* for the push and the wait: it lands before the push, at the release after it,
\* before the wait's hold or at the release after the wait.  The frames go, and
\* with them the worker's reference to the call -- both references when nothing
\* was pushed yet -- but a call in the queue, or under way, stays.
WorkerUnwound(r) ==
  /\ \/ /\ worker[r] = "body"
        /\ ~dead /\ r \notin cancelled
        /\ callRefs' = [callRefs EXCEPT ![r] = 2]
        /\ refs' = Plus(refs, {r})
        /\ UNCHANGED call
     \/ /\ worker[r] \in {"asking", "waiting"}
        /\ UNCHANGED <<call, callRefs, refs>>
     \/ /\ worker[r] = "waiting"
        /\ call[r] = "pending"
        /\ dead \/ r \in cancelled
        /\ call' = [call EXCEPT ![r] = "abandoned"]
        /\ UNCHANGED <<callRefs, refs>>
  /\ worker' = [worker EXCEPT ![r] = "leaving"]
  /\ queue' = Append(queue, <<"done", r>>)
  /\ faulted' = faulted \cup {r}
  /\ cancelled' = cancelled \cup {r}
  /\ UNCHANGED <<runnerVars, efd, journalVars, historyVars>>

-----------------------------------------------------------------------------
(* The compositor's end of the queue.                                      *)

\* on_queue_ready(): the eventfd is read before the queue is.
QueueReady ==
  /\ stack = <<>> /\ efd /\ ~dead
  /\ efd' = FALSE
  /\ stack' = <<Frame("drain", NoRun)>>
  /\ UNCHANGED <<moduleRef, dead, table, steps, timer, queue, cancelled, call,
                 callRefs, refs, workerVars, journalVars, historyVars>>

\* The message's reference to a call, dropped once it is handled.
MessageDropsCall(r) ==
  /\ callRefs' = [callRefs EXCEPT ![r] = @ - 1]
  /\ refs' = IF callRefs[r] = 1 THEN Minus(refs, {r}) ELSE refs

\* handle_sync(): an abandoned call is skipped ...
HandleAbandoned(r) ==
  /\ Draining /\ queue # <<>> /\ Head(queue) = <<"sync", r>>
  /\ call[r] = "abandoned"
  /\ queue' = Tail(queue)
  /\ MessageDropsCall(r)
  /\ UNCHANGED <<runnerVars, efd, cancelled, call, workerVars, journalVars,
                 historyVars>>

\* ... any other is executed, under the guard.
HandleSync(r) ==
  /\ Draining /\ queue # <<>> /\ Head(queue) = <<"sync", r>>
  /\ call[r] = "pending"
  /\ queue' = Tail(queue)
  /\ call' = [call EXCEPT ![r] = "executing"]
  /\ stack' = <<Frame("call", r)>> \o stack
  /\ UNCHANGED <<moduleRef, dead, table, steps, timer, efd, cancelled, callRefs,
                 refs, workerVars, journalVars, historyVars>>

CallReturns(r) ==
  /\ On("call", r)
  /\ stack' = Tail(stack)
  /\ call' = [call EXCEPT ![r] = "done"]
  /\ MessageDropsCall(r)
  /\ UNCHANGED <<moduleRef, dead, table, steps, timer, queue, efd, cancelled,
                 workerVars, journalVars, historyVars>>

\* MUTANT of CallFaulted: the worker is not answered.
CallFaultedSilently(r) ==
  /\ FaultLandsIn(Frame("call", r))
  /\ MessageDropsCall(r)
  /\ cancelled' = cancelled \cup {r}
  /\ HoldBack(r)
  /\ UNCHANGED <<moduleRef, dead, table, steps, timer, queue, efd, call, workerVars,
                 running, started, crashes>>

\* The guard caught something in the call, or in a body the call started: the
\* whole run is stopped; the body's run stays in the table as it was.
CallFaulted(r) ==
  /\ FaultLandsIn(Frame("call", r))
  /\ call' = [call EXCEPT ![r] = "done"]
  /\ MessageDropsCall(r)
  /\ cancelled' = cancelled \cup {r}
  /\ HoldBack(r)
  /\ UNCHANGED <<moduleRef, dead, table, steps, timer, queue, efd, workerVars,
                 running, started, crashes>>

\* MUTANT of HandleDone: a fault leaves the table without a word.
HandleDoneQuietly(r) ==
  /\ Draining /\ queue # <<>> /\ Head(queue) = <<"done", r>>
  /\ queue' = Tail(queue)
  /\ IF r \in table /\ r \in faulted
     THEN /\ running' = running \ {Macro[r]}
          /\ held' = held \cup {Macro[r]}
          /\ Leave({r}, Minus(refs, {r}))
          /\ UNCHANGED <<timer, told>>
     ELSE /\ Finish({r} \cap table, Minus(refs, {r}))
          /\ UNCHANGED held
  /\ UNCHANGED <<moduleRef, dead, stack, steps, efd, cancelled, call, callRefs,
                 workerVars, started, crashes>>

\* handle_done(), for a run that has not left the table meanwhile.  The
\* message's reference, which was the worker's, goes with it.
HandleDone(r) ==
  /\ Draining /\ queue # <<>> /\ Head(queue) = <<"done", r>>
  /\ queue' = Tail(queue)
  /\ IF r \in table /\ r \in faulted
     THEN /\ running' = running \ {Macro[r]}
          /\ HoldBack(r)
          /\ Leave({r}, Minus(refs, {r}))
          /\ UNCHANGED timer
     ELSE /\ Finish({r} \cap table, Minus(refs, {r}))
          /\ UNCHANGED held
  /\ UNCHANGED <<moduleRef, dead, stack, steps, efd, cancelled, call, callRefs,
                 workerVars, started, crashes>>

DrainEmpty ==
  /\ Draining /\ queue = <<>>
  /\ stack' = Tail(stack)
  /\ UNCHANGED <<moduleRef, dead, table, steps, timer, sharedVars, workerVars,
                 journalVars, historyVars>>

-----------------------------------------------------------------------------
(* The end of the module, and of the process.                              *)

\* gowl_macro_runner_shutdown(): every run is cancelled and forgotten, the
\* queue is no longer watched.  Nobody is told, nothing is unmarked.
ShutDown ==
  /\ dead' = TRUE
  /\ cancelled' = cancelled \cup table
  /\ timer' = timer \ table
  /\ Leave(table, refs)

\* macro_display_destroyed()
DisplayDestroyed ==
  /\ stack = <<>>
  /\ ~dead
  /\ ShutDown
  /\ UNCHANGED <<moduleRef, stack, steps, queue, efd, call, callRefs, workerVars,
                 journalVars, historyVars>>

\* gowl_module_macro_finalize()
Finalize ==
  /\ stack = <<>>
  /\ moduleRef
  /\ moduleRef' = FALSE
  /\ IF dead THEN UNCHANGED <<dead, cancelled, timer, table, refs>> ELSE ShutDown
  /\ UNCHANGED <<stack, steps, queue, efd, call, callRefs, workerVars,
                 journalVars, historyVars>>

\* What every life of the compositor begins with.
Fresh ==
  [moduleRef |-> TRUE, dead |-> FALSE, table |-> {}, stack |-> <<>>,
   steps |-> [r \in Runs |-> <<>>], timer |-> {},
   queue |-> <<>>, efd |-> FALSE, cancelled |-> {},
   call |-> [r \in Runs |-> "none"], callRefs |-> [r \in Runs |-> 0],
   refs |-> [r \in Runs |-> 0],
   worker |-> [r \in Runs |-> "none"], faulted |-> {},
   started |-> {}, told |-> [r \in Runs |-> 0]]

\* The process ends, by a crash the guard does not see or by a clean exit, and
\* a new one reads the journal: journal_recover() holds back what was marked.
Restart ==
  /\ crashes < MaxCrashes
  /\ crashes' = crashes + 1
  /\ moduleRef' = Fresh.moduleRef /\ dead' = Fresh.dead
  /\ table' = Fresh.table /\ stack' = Fresh.stack
  /\ steps' = Fresh.steps /\ timer' = Fresh.timer
  /\ queue' = Fresh.queue /\ efd' = Fresh.efd /\ cancelled' = Fresh.cancelled
  /\ call' = Fresh.call /\ callRefs' = Fresh.callRefs /\ refs' = Fresh.refs
  /\ worker' = Fresh.worker /\ faulted' = Fresh.faulted
  /\ started' = Fresh.started /\ told' = Fresh.told
  /\ held' = held \cup running
  /\ running' = {}

-----------------------------------------------------------------------------
Init ==
  /\ moduleRef = Fresh.moduleRef /\ dead = Fresh.dead
  /\ table = Fresh.table /\ stack = Fresh.stack
  /\ steps = Fresh.steps /\ timer = Fresh.timer
  /\ queue = Fresh.queue /\ efd = Fresh.efd /\ cancelled = Fresh.cancelled
  /\ call = Fresh.call /\ callRefs = Fresh.callRefs /\ refs = Fresh.refs
  /\ worker = Fresh.worker /\ faulted = Fresh.faulted
  /\ started = Fresh.started /\ told = Fresh.told
  /\ running = {} /\ held = {} /\ crashes = 0

Command ==
  \/ \E r \in Runs : StartTimeline(r) \/ StartThreaded(r) \/ StartNoThread(r)
  \/ \E rs \in Targets : Stop(rs)
  \/ \E m \in Names : Clear(m)

\* The innermost frame gets on with it.
FrameStep ==
  \/ \E r \in Timeline :
       \/ BodyStarted(r) \/ BodyFinished(r) \/ BodyFaulted(r)
       \/ TickStep(r) \/ StepDone(r) \/ TickWait(r) \/ TickFinished(r)
  \/ \E r \in Threaded :
       \/ HandleAbandoned(r) \/ HandleSync(r) \/ HandleDone(r)
       \/ CallReturns(r) \/ CallFaulted(r)
  \/ DrainEmpty

WorkerWaits(r) == WorkerAnswered(r) \/ WorkerAbandons(r)

WorkerStep(r) ==
  \/ WorkerAsks(r) \/ WorkerPokes(r) \/ WorkerWaits(r) \/ WorkerUnwound(r)
  \/ \E fault \in BOOLEAN : WorkerLeaves(r, fault)

Next ==
  \/ Command
  \/ \E r \in Timeline : \/ TimelineTick(r)
                         \/ \E step \in {"do", "wait"} : BodyQueueStep(r, step)
  \/ FrameStep \/ QueueReady
  \/ \E r \in Threaded : WorkerStep(r)
  \/ DisplayDestroyed \/ Finalize \/ Restart

\* The event loop dispatches what is ready and every frame ends (the guard's
\* watchdog sees to bodies and calls); threads are scheduled; a body that was
\* cancelled returns, since each step it tries fails and its budget runs out.
\* Nobody promises to stop anything, nor a body that is not cancelled to end.
Fairness ==
  /\ WF_vars(FrameStep)
  /\ SF_vars(QueueReady)
  /\ \A r \in Timeline : SF_vars(TimelineTick(r))
  /\ \A r \in Threaded :
       /\ WF_vars(WorkerPokes(r))
       /\ WF_vars(WorkerWaits(r))
       /\ WF_vars(r \in cancelled /\ WorkerLeaves(r, FALSE))

Spec == Init /\ [][Next]_vars /\ Fairness

-----------------------------------------------------------------------------
(* Properties.                                                             *)

\* Every variable holds a value the program can store in it; counts that would
\* go below zero or above what can hold a reference are excluded.
TypeOK ==
  /\ moduleRef \in BOOLEAN /\ dead \in BOOLEAN /\ efd \in BOOLEAN
  /\ table \subseteq started /\ started \subseteq Runs /\ timer \subseteq Runs
  /\ stack \in Seq([kind : FrameKinds, run : Runs \cup {NoRun}])
  /\ steps \in [Runs -> Seq({"do", "wait"})]
  /\ \A r \in Runs : Len(steps[r]) <= MaxSteps
  /\ queue \in Seq({"sync", "done"} \X Threaded)
  /\ callRefs \in [Runs -> 0..2] /\ refs \in [Runs -> 0..3] /\ told \in [Runs -> Nat]
  /\ cancelled \subseteq Runs /\ faulted \subseteq Threaded
  /\ call \in [Runs -> CallStates] /\ worker \in [Runs -> WorkerStates]
  /\ running \subseteq Names /\ held \subseteq Names
  /\ crashes \in 0..MaxCrashes

\* The compositor runs a call only while the worker that asked waits for it --
\* what the call reads is on that worker's stack -- unless the worker's guard has
\* unwound it: no stop, shutdown, crash of another call or answer that races them
\* makes a worker walk out on a call that is under way.
CallerWaits ==
  \A i \in 1..Len(stack) :
    stack[i].kind = "call" =>
      worker[stack[i].run] \in {"asking", "waiting"} \/ stack[i].run \in faulted

\* "Give up on a call that has not started once the run is cancelled": the same
\* of every call, those of a worker its watchdog has unwound included.
CallerIsThere ==
  \A i \in 1..Len(stack) :
    stack[i].kind = "call" => worker[stack[i].run] \in {"asking", "waiting"}

\* A message in the queue has a wakeup on its way: the eventfd is readable, a
\* drain is under way, or a worker is about to write.
NoLostMessage ==
  queue # <<>> /\ ~dead =>
    \/ efd
    \/ \E i \in 1..Len(stack) : stack[i].kind = "drain"
    \/ \E r \in Threaded : worker[r] \in {"asking", "leaving"}

\* No run is freed while something still uses it: its entry in the table, a
\* frame working on it, its thread, a message or a call that names it.
RunsOutliveUsers ==
  \A r \in Runs :
    \/ r \in table
    \/ \E i \in 1..Len(stack) : stack[i].run = r
    \/ worker[r] \in {"body", "asking", "waiting"}
    \/ \E i \in 1..Len(queue) : queue[i][2] = r
    => refs[r] > 0

\* Whoever waits for a run to end hears of it: a run that is over has been
\* reported, whether it ended, failed, faulted, was stopped or never got its
\* thread.  (A shutdown reports nothing.)
EndIsTold == \A r \in started \ table : dead \/ told[r] > 0

\* ... and is told of it once: "told when any run ends".
ToldOnce == \A r \in Runs : told[r] <= 1

\* A macro that was running when the process died, in its body, its steps or
\* its worker, is held back in the next session.
CrashIsHeld ==
  [][crashes' > crashes => {Macro[r] : r \in table} \subseteq held']_vars

\* A worker never waits for ever: not when it is stopped with its call in the
\* queue, not when the module goes, not when the call crashes.
WaitEnds == \A r \in Threaded : worker[r] = "waiting" ~> worker[r] # "waiting"

\* A run that was stopped leaves the table, and with it makes room for others,
\* without anybody waiting for its worker.
StopIsDone ==
  \A r \in Runs : r \in cancelled /\ r \in table ~> r \notin table

\* A timeline run in the table is being run: its timer is armed, or its body or
\* its steps are on the stack.  Nothing else would ever end it.
NoRunIsStranded ==
  \A r \in table \cap Timeline :
    r \in timer \/ \E i \in 1..Len(stack) : stack[i].run = r

\* "The last reference -- the module's, or the last worker's to finish --
\* frees it": with the module and every worker gone, no run holds the runner.
RunnerIsFreed ==
  ~moduleRef /\ (\A r \in Threaded : worker[r] \in {"none", "gone"})
    => \A r \in Runs : refs[r] = 0

=============================================================================
