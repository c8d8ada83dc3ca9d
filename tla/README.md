# gowl: TLA+ models and proofs

gowl is a Wayland compositor with a module system: one C program (`src/src`,
wlroots and GObject) that loads some seventy shared-object modules
(`src/modules`), and a handful of tools around it (`src/tools`). Nearly all of
it runs on one thread, the compositor's event loop. What makes it hard is what
surrounds that thread: other processes that speak protocols to it, worker
threads that hop onto it, callbacks that re-enter it, and a session that must
stay locked through all of it.

This directory models the parts where those hazards meet, checks them with TLC
on small instances, and proves the most important results with TLAPS for every
value of the constants. `PROJECT.json` lists the components, the runs, the
mutants that show each property can fail, the source lines of every definition,
the hazards, the findings and the theorems.

    tlasany M.tla                        parse
    tlc -config X.cfg M                  one run
    tlapm X_proofs.tla                   the proofs of one component

## 1. Inventory

For each part: its state, its operations, whom it talks to, what is hard, and
what makes it correct.

| Part | State | Operations and interactions | Hard | Correct when |
|---|---|---|---|---|
| Session lock (`core/gowl-compositor.c`, `tools/gowl-lock`, `modules/screenlock`) | `locked`, `locked_bg`, `lock_sink`, `cur_lock`, lock surfaces, `lock_respawns` ring, `lock_override`; the module's `is_locked`, `authenticating`; PAM threads | lock/unlock requests (keybind, IPC, logind, idle), lock clients over ext-session-lock-v1, PAM results over a pipe, frames of an animated background | clients starting, crashing and racing each other and the module; late PAM answers; display hotplug; frames that replace the backdrop, and a GPU reset that empties them | the screen opens only by a permission, is covered while locked, one client holds it, no key reaches the desktop, restarts are bounded, focus returns |
| Focus rules (`core/gowl-focus-rules.c`) | none (pure) | the gate every focus change passes | order of the inputs' updates | see the lock |
| logind agent (`core/gowl-logind.c`) | request bits, eventfd, atomics, delay inhibitor, bus thread and its main loop | D-Bus signals in, lock requests across threads, `LockedHint` out | two threads, a join, a bounded wait, suspend/resume | no wakeup lost, the descriptor outlives its writer, the inhibitor is re-armed, suspend and stop terminate |
| Macro runner and module (`modules/macro`, `src/macro`) | run table, reference counts, queue and eventfd, call records, timers; quarantine and journal | run, stop, clear; workers hop for every step; listeners | re-entrancy from steps and calls, workers that outlive the module, faults unwinding frames | nothing freed in use, nobody waits for ever, ends are told, crashes are held back |
| Fault guard (`util/gowl-fault-guard.c`) | per-thread landing point, watchdog, hold depth, signal mask | guarded call, extend, hold, release; user C code runs inside | asynchronous signals, no nesting, locks shared with other threads | the watchdog ends the call whose budget ran out and no later one, never while the thread has the lock, and is not lost when it fires in a held region |
| Hotkey runner (`modules/hotkey`) | running action lists, what each waits for, the input hook, typing queue, builds, modes | keys, timers, mode hooks; resumes from the callbacks of whatever it waited for | lists that run inside one another, cancel and reload from a list | every waiting list has exactly one thing that will carry it on, an ended list leaves nothing behind, every list ends |
| Subprocess (`util/gowl-subprocess.c`) and its user, the voice listener of the macro module | pipes, child watch, deadline, reap timer, callback | spawn, read, cancel, signal | exit, pipe ends and deadline in any order; helpers that outlive the program | one answer, complete, then nothing; only the own process group is signalled; every listening ends |
| Input capture (`core/gowl-input-capture.c`, `protocols/gowl-input-capture-protocol.c`) | per session zones, barriers, enabled, active; whose keyboard focus to give back | protocol sessions, pointer motion, layout changes, enable bits | every handler re-enters the machine; displays change under an active capture, and sleep without a layout change | barriers lie on the outer boundary of the screens the session knows, which are stale only for a display that slept or woke; the keyboard always comes back |
| Module manager (`module/`) | modules by priority, per-interface lists | load, activate, configure, deactivate, dispatch | (de)activation from inside a dispatch | handlers see a consistent list; startup precedes dispatch, shutdown follows it |
| IPC server (`ipc/`) | connections, write buffers, subscriptions | text commands, events pushed | slow or vanishing readers | bounded buffers, replies in order, no use after disconnect |
| Input remapping (`core/gowl-input-remap*.c`) | rules; per device claimed, held presses, wheel travel | key, button and wheel events; rule commands | rules change while keys are down, from inside the handler of a key | every press fed has its release, claims follow the rules, Super+Escape always works |
| Broadcast, input recorder | windows that hear the same keys; a recording | wlroots keyboard events | as above | not modelled |
| Idle manager, lid policy, output power (`core/gowl-idle-manager.c`, `gowl-lid-policy.c`, `gowl-output-power.c`, the output handlers of the compositor) | enable bits, layout, blanked marks, selected output, each window's output, timers, inhibitors | lid, hotplug, output management, IPC, blanking by key and timer | four parties switch one bit and each keeps its own record | no blind machine, blanking follows use and inhibitors, windows stay on shown outputs |
| Xwayland sync | serials of configures | X11/Wayland round trips | lost or late acks | no window stays frozen |
| Seat, clients, monitors, workspaces, tags | objects and lists | wlroots events | sheer breadth | who has the keyboard (`SessionLock`, `InputCapture`) and which output is on and holds which window (`Displays`) |
| Rendering, effects, capture, layouts, config, bar, gabbrev, MCP, other modules | -- | -- | GPU, geometry, parsing, presentation | not modelled |

How they meet: everything that changes the lock state ends in
`gowl_compositor_notify_lock_state()`, which tells the GObject signal, IPC and
the logind agent; the logind agent and the idle timer come back through
`gowl_compositor_lock_session()`. Macros, hotkeys, MCP and IPC all end in the
same command dispatch, which is why a command can re-enter the macro runner, the
hotkey runner and the remapper from inside their own handlers. That
re-entrancy, not parallelism, is this program's typical hazard: five of the
models keep the C stack, or what it will still do, as a variable.

## 2. Plan

Written and checked, in this order:

1. `FocusRules`, `SessionLock`, `LockContract`: the lock is the one part whose
   failure nobody can repair from inside. Proofs in `SessionLock_proofs`.
2. `Logind`: the two threads that lock before a suspend.
3. `MacroRunner`: the largest amount of threading and re-entrancy.
4. `HotkeyRunner`: action lists that resume inside other parts' callbacks.
5. `Subprocess`, `VoiceListener`, `AnswerContract`: a program run and heard
   from, and "one answer, then nothing".
6. `CaptureZones`, `InputCapture`: barriers, activation, the keyboard's return.
7. `RemapRules`, `InputRemap`: rules that change under the fingers.
8. `FaultGuard`: the watchdog's signal between any two steps.
9. `Displays`: the four parties that switch one enable bit.

Left to model: `ModuleManager` (dispatch while a handler deactivates or
replaces a module), the IPC server's write buffers and subscribers, the
Xwayland configure/ack counting, a module that composes `HotkeyRunner` with
`MacroRunner` (today `HotkeyRunner` has the macro runner's promise, and its
order of telling and removing, as an environment), and `FaultGuard` under the
frames of `MacroRunner`.

Proofs, each in `X_proofs` beside the component's module: `SessionLock`,
`VoiceListener` (with `Subprocess` and `AnswerContract`), `MacroRunner`,
`FaultGuard`, `InputRemap` (with `RemapRules`), `InputCapture` (with
`CaptureZones`) and `HotkeyRunner`; `Power_proofs` has those of `Displays` and
of `Logind`, the two parts that act when nobody uses the machine.

Every safety property that a run checks is stated by a theorem; the liveness
properties are left to TLC, section 6 says why.

## 3. The modules

### FocusRules and SessionLock

`FocusRules` has the two pure functions of `core/gowl-focus-rules.c`. Its
`FocusAllowed` is the gate inside `gowl_compositor_focus_client()`, which
refuses a change while the session is locked, while a launcher holds a grab or
while an X11 popup holds one.

`SessionLock` is the compositor's side of the lock, the lock programs and the
fallback module. The compositor is single threaded, so one handler is one
action, with everything it calls: `NewSessionLock` is all of
`on_new_session_lock()`, including the backdrop it raises *before* it rejects a
second client. The environment acts between handlers.

| Variables | Code |
|---|---|
| `locked`, `lockedBg`, `curLock`, `surfaces` | `self->locked`, `locked_bg`'s enabled flag, `cur_lock`, `lock_surfaces` |
| `focus`, `exclusiveLayer`, `exclusiveFocus`, `window` | the seat's keyboard focus, the two grabs, `focustop() != NULL` |
| `respawns`, `respawnNext` | `lock_respawns[]`, `lock_respawn_next` |
| `outputs`, `lockSink` | the outputs plugged in; `lock_sink`: each output's frame, with pixels or blank |
| `hint` | the last value passed to `gowl_compositor_notify_lock_state()` |
| `lockers` | each lock program: started, holding, accepted, refused |
| `isLocked`, `authenticating`, `auths` | the screenlock module and its PAM threads |
| `overrides`, `starts`, `lockAsked`, `now` | bound on administrative unlocks, history, the clock |

Details that matter and are kept: `lock_session()` takes a budget stamp even
when the program then fails to start; `set_locked()` writes the flag before it
clears the focus; `unlock_session()` does not tell the module when a client
holds the lock; a PAM answer opens whatever lock is up when it arrives;
`gowl_compositor_push_lock_frame()` takes the backdrop down under a lock once no
frame is blank, clearing the last frame puts it back, and a GPU reset blanks the
frames and puts it back. Who pushes frames is external (in the repository only
`tests/test-gpu-reset.c` does): a push may come at any moment for any output of
`Framed`, and one that fails, which leaves the backdrop alone, is left out.
Abstracted: passwords are the answer PAM will give; a lock program is any
program that speaks the protocol, so it may engage, be refused, die or unlock
at any time its state allows; windows are one visible window or none.

`LockContract` is what a lock promises, in two variables: `sealed`, and the
permissions somebody gave (`permits`). A sealed screen opens only by using one
up. `SessionLock` implements it with `sealed <- locked` and `permits <-` the
administrators still to come, the right passwords PAM is still checking and the
lock client whose PAM has accepted.

### Logind

Two threads with a program counter each (`bus`, `comp`). A step is what one
thread does between two points where the other can see it: `on_wake()` is read,
take, lock, unlock, return; `post_request()` sets bits under the mutex and then
writes the eventfd; `stop()` sets the flag, queues a quit and joins. logind
itself (signals, suspend, `Inhibit` that it may refuse) is the environment, and
a suspended machine runs nothing (`Frozen`). The compositor's lock is reduced
to `screen`: open, starting, locked.

### MacroRunner

The compositor thread is a stack of frames: a macro's body, a timeline tick, a
step it plays, a call it executes for a worker, a drain of the queue. A
command (`macro-run`, `macro-stop`, `macro-clear`) may come from the loop or
from the top frame; `Commands` says which frames may run one. Workers have a
program counter; `post()` is two steps (push, then write the eventfd), and so is
the drain (read the eventfd, then pop). `refs` and `callRefs` are the
`ref_count` fields, so freeing something in use is visible. Guards do not nest
(`gowl_fault_guard_call()`), so a fault lands in the *outermost* guarded frame
(`OutermostGuard`, `FaultLandsIn`), and every frame above it is dropped: the body a call started loses
its frame and keeps its table entry. `Restart` is the process dying, by
anything, and the next one reading the journal.

A worker's guard covers its body and `host_invoke_sync()`, but for the push of the
call and the wait, which are held. `WorkerLeaves` is a body that returns or
faults; `WorkerUnwound` the watchdog that lands inside `host_invoke_sync()`:
before the push, at the release after it, before the wait's hold or at the release after the wait. A call
that was pushed stays in the queue, and the references of the lost frames are
never dropped.

Abstracted: a step is "do" or "wait"; a played step runs at most one command;
time budgets are faults that may come at any moment in guarded code; a cancelled
worker's body ends because every helper it calls refuses.

### AnswerContract, Subprocess and VoiceListener

`Subprocess` is `gowl-subprocess.c` and the processes it starts. The compositor
thread is at its loop, in the read loop of `read_pipe()`, or in the caller's
callback (`thread`); a step is one chunk read, one source dispatched, or one
thing the program does. The program writes, closes its pipes one by one, exits,
and may leave a helper behind that holds pipe ends, either in the process group
(the deadline's kill reaches it) or escaped from it. `handle` tells none, live
and freed apart, so a use after the free is visible. Output is counted in
chunks; `PipeSize`, `MaxOutput` and `MaxWrites` bound it, and `Chatty` lets a
program write for ever.

`VoiceListener` is the user of it in `gowl-module-macro.c`: start, stop
(SIGINT), cancel, its timer, switching the module off, and the callback, in
which the macro that was heard may itself give voice commands before the old
handle is freed. `AnswerContract` is what both promise: a question is answered
once or withdrawn, and an answer comes only when the program is over and nobody
can write to its output. The refinement maps `phase`, `over`, `late` and `said`
to `Phase`, `Over`, the timed-out calls and `Said`.

### HotkeyRunner

Everything but the compiler threads runs on the compositor thread, but what
ends a wait carries the list on inside the callback that ended it. So `stack`
holds a frame for every C function that still has something to do:
`runner_step()`, what follows `do_action()`, the loops of `fire_idle()`,
`play_kick()`, `on_post_fd()` and `c_built()`, the two halves of
`hk_mode_changed()`, the macro runner's `run_finish()`. A frame carries the
local variables the code carries: `BuiltNext` has the index and the table's
length before the call, `OneShot` and `ModeEnter` remember that the string they
point at was freed meanwhile.

| Variables | Code |
|---|---|
| `started`, `runners`, `run`, `running` | `next_serial`, the runner table, each runner's action, wait and resources, the counts for max-running |
| `fires`, `fireIdle` | the fire queue and its idle source |
| `plays`, `playing`, `playTimer` | queued typing |
| `input` | the one input hook |
| `macros` | what the macro module would answer, `"over"` between telling and removing |
| `building`, `compiler`, `posted`, `funcs`, `faulted` | the C builds, their threads, and the way back through the eventfd |
| `keyMode`, `mode`, `modeTimer` | the compositor's mode and the module's |

Action lists are not written out: a running list takes any action its hotkey
allows until its length is used up, so one run covers every list of that
length. `After` says what a list may do once it waited for an input hook or a
build, and in a one-shot mode. `MCAfter` excludes exactly what leads into the
three known faults of those waits; `MCAny` lifts it and TLC then finds them.

### CaptureZones and InputCapture

`CaptureZones` is the barrier validation (`BarrierIsValid`) beside a reference
(`IsOuter`, in terms of what each point of the plane shows). `InputCapture` has
the machines, the protocol sessions that own them, and the compositor's hooks.
The handlers re-enter the machine: giving the keyboard back focuses a window,
focusing resolves the pointer, and resolving tests the barriers against the
last motion. A handler is one action, written as a function of the record `Now`
in the order of the code's calls; the nested call is an application inside.
`held` is what the focused client believes is down, `down` what is.

`layout` has the box of every output, `dark` those whose enable bit is off, and
`Lit`, the others, is what `build_zones()` gives. Only `LayoutChange`, wlroots' event,
gives the sessions new zones and drops their barriers. `DarkenOutput` and `WakeOutput` switch
a bit with no such event: blanking, `monitor.configure`, a disable over output
management, the configuration. A commit that wlroots does announce (a new mode)
is a `LayoutChange` that may switch bits too. `switched` is history: the outputs
whose bit was switched since the last change.

### RemapRules and InputRemap

`RemapRules` is the rule engine (add, replace by name, remove, clear, reload,
enable), `InputRemap` the per-device half: claiming, presses and releases of
claimed devices, the wheel's accumulated travel, what is fed to the
compositor's key and button handling, the escape hatch, and rule changes that
re-evaluate the devices. `todo` is what the handler in progress has left to do;
a handler runs commands where the compositor lets it (`CommandsFrom`).
`SelfRemap = FALSE` keeps a command from taking away the device that is being
handled, and `MCCommandsFrom` excludes commands run while a device's presses
are drained: lifting them leads to the findings `NoFreedEntry` and
`ClaimsAgree`. `MaxNested` bounds re-evaluations inside one another; one is
enough for all but the second of these, which needs two.

### FaultGuard

Each thread has a stack of guarded calls, nested (direct) calls, holds and the
shared lock. A guard function is several steps (disarm, block, unblock), and the
watchdog's timer or a fault may come between any two; an unblocked signal
interrupts at once. The kernel's freedom is kept: a signal that waits when the
timer is disarmed may survive it or be dropped. `CallsInHolds = FALSE` says
that no guarded call is made from a held region. No caller does; it is a
condition of the interface, and both properties fail without it.

### Displays

One output has one enable bit (`lit`), and the lid policy, the blanking path,
output management with IPC, and the configuration all set it. Each keeps a
record of its own: `layout`, `off` (`powered_off`), `idleOff`, and the
configuration none. A handler is a function of the record `Now`, with every
`arrange()` it makes: that is where the idle manager's answer about inhibitors
(`inhibited`) is refreshed and the blank timer set, and handlers that arrange
nothing leave it stale. `refused` is history: what somebody disabled on purpose.
`Removable`, `Managed`, `ConfigOff` and `Flaky` say which outputs can be
unplugged, configured by clients, are disabled by configuration, or refuse
their first commit behind a shut lid.

## 4. The runs

| Run | Instance | Shows |
|---|---|---|
| `session_lock_clients` | 2 programs, 2 displays, ring of 2, clock to 4, a launcher, no module, lock frames on both displays | one holder, no launcher grab or key to the desktop, the restart budget, what covers a locked screen, focus restored. 331,000 states |
| `session_lock_module` | 2 programs, 1 display, ring of 1, the module, 2 PAM threads, launcher and popup | types, prompt, announcements, the refinement of `LockContract`. 307,000 states |
| `logind` | 1 wait turn, 2 signals queued, 2 starts, connections and locks that may fail | wakeups, descriptor, hint, inhibitor; suspend and stop terminate. 265,000 states |
| `macro` | a worker and two timeline runs, two of them one macro, commands from steps and calls, a crash | references, ends told, crashes held back, stops done. 226,000 states |
| `macro_workers` | two workers, a crash | a caller waits or was unwound, every wait ends. 198,000 states |
| `voice` | two listenings, pipes of one chunk, a limit of one, two writes on one pipe | no stale handle, whole answers, the refinement of `AnswerContract`, every listening ends. 125,000 states |
| `hotkey` | lists of two actions, three starts, a table of two, one mode with hooks, one key of C, one macro | every waiter has its waker, ended lists leave nothing. 1,290,000 states |
| `hotkey_waits` | a table of three, builds, macros, programs, cancel and reload, no modes | every list ends. 137,000 states |
| `capture` | two sessions, two windows, one key, three layouts of which one has a display that sleeps, a request of three barriers | the keyboard's return, barriers, no deadlock. 287,000 states |
| `remap` | a pedal, a keyboard, a mouse with a wheel; three rules, two of one name; half, whole and one-and-a-half notches | presses and releases, claims, the escape hatch. 1,330,000 states |
| `guard` | two threads, four nested regions each | clean unwinding, held signals delivered. 6,900 states |
| `displays` | a panel that may refuse a commit and two externals, one disabled by configuration; one window | no blind machine, blanking, windows shown. 228,000 states |

The bounds. Two lock programs are the fewest that can meet; the third would
only meet one of the two. Two displays distinguish "some" from "the last"; a
ring of one and of two covers both wrap-arounds, and `RespawnsBounded` is
proved for every size. Two PAM threads allow a late answer of an earlier lock
together with a current one. Two D-Bus signals are a burst; two starts are a
restart. Three macro runs, two of one macro, allow a stop of another run, of
itself and a refusal; `MaxSteps = 1` makes the limit bite at once. Two
listenings are one inside the other's callback; a pipe of one chunk blocks a
writer, and two writes pass the limit. Two lists and a third started from
inside them fill the runner table and meet in one hook, one build, one macro;
three waiters of one build are what its wake loop needs. The layouts of
`capture` are one display, a second beside it, which may sleep, and one below
it; of the barriers asked for each layout and sleep admits others, and two have
one id. Three rules, two with a name in common,
replace, shadow and remove each other; a pedal has the escape keys and another
keyboard the group's. Three outputs give the lid a panel, an external to
count and one that is off.

Clock, PAM threads, administrative unlocks, signals, starts, crashes, writes
and lists are bounded in guards, each by the constant named for it.
`CHECK_DEADLOCK FALSE` stands only where the system may stop: `logind` (the
agent is stopped for good), `macro` and `macro_workers` (the module is
finalized and every run id used), `voice`, `hotkey` and `hotkey_waits` (the
bounded calls and lists are used up). Symmetry is used over lock programs in
the client run and over sessions and windows in `capture`, where only safety is
checked.

### What the code does not keep

`findings` in `PROJECT.json` lists the disagreements between the code and what
its documents, comments or its own logic say. For most of them the property
is defined beside the others in the module (`LastRequestWins`, `ToldOnce`,
`NoRunIsStranded`, `CallerIsThere`, `EachScreenIsCovered`,
`BarriersLeaveTheScreen`, `EscapeBreaksCapture`, `DisabledIsOff`, `NoStuckKeys`,
`NoFreedMode`, `ModesAgree`, `BuildsAreFresh`, `EndedMacroStarts`, `OffIsOff`,
`LateWasKilled`, `DeadlineIsKept`, `NoFreedEntry`, `ModifiersHold`,
`RepeatNeverArmed`, `ShutPanelIsDark`, `SomethingIsLit`, `NoOrphans`,
`ToggleToggles` and others); each entry says what to add to which `.cfg`, and
TLC then prints the history. Where a listed property would fail for such a
reason, the run's instance leaves the trigger out, by a constant that is named
for it (`Grabbers`, `Commands`, `After`, `CommandsFrom`, `SelfRemap`,
`MaxNested`, `Chatty`, `IpcEnables`), or the property names it
(`SelectsShutPanel`), and the entry says so.
Some `TypeOK`s, and `NoLostMessage`, are defined and hold, and can be added to
a `.cfg` in the same way.

## 5. Fairness

`SessionLock` has none: its properties are safety, and nothing in the code
promises that a program ever engages. `Logind` assumes that both threads are
scheduled (weak fairness of `BusStep`, `OnWake`, `StopFinish`), that GLib
dispatches every ready source in each turn of its loop (strong fairness of the
quit and the signals, which other sources could otherwise starve) and that
logind suspends once nobody delays it. None of it is asked of a suspended
machine, nor of people. `MacroRunner` assumes that the event loop dispatches
what is ready and that frames end, which the guard's watchdog enforces on bodies and
calls (`FrameStep` weakly, `QueueReady` and each timer strongly, since nested
commands disable and enable them), that threads run, and that a *cancelled*
body returns. It does not assume that a body that is not cancelled ends, or
that anybody stops anything.

`VoiceListener` assumes that the compositor thread goes on with what it is in
(weak fairness) and that GLib dispatches each kind of source that stays or keeps
becoming ready: the pipes, the reap timer, the deadline (strong fairness; a
busy program readies its pipe again and again). Of the program it assumes
nothing: the deadline ends it. `HotkeyRunner` assumes the thread goes on inside
callbacks, that the loop dispatches the timers, children and posts that lists
wait for (strongly, as nested lists disable and enable them), and that programs, macros and
compilers end. `FaultGuard` assumes that guard functions and timers go
on, that code in a held region goes on (it calls no user code) and
that the lock is granted in the end; a user's function may loop for ever, which is
the point. `InputCapture`, `InputRemap` and `Displays` have no fairness: their
properties are safety.

## 6. The proofs

Every theorem is for all values of the constants that satisfy the named
`ASSUME` of the module: any number of programs, threads, runs, devices or
sessions, any bound. Some have a hypothesis besides, in the theorem's
statement; each such hypothesis is one under which the run checks the same
property, and most are needed: the finding named with it shows the property
fail without. Each inductive invariant was checked by TLC on a run before it
was proved.

### SessionLock_proofs

Every safety property of the two lock runs, from `SessionLockAssumption` alone
(`FocusRules` has no assumption).

- `TypeCorrect`: `TypeOK` is inductive. The interesting part is the ring
  (`(i + 1) % RespawnMax` stays in the array, lemma `RingStep`) and that a lock
  surface is always on a display that is plugged in.
- `LockedStaysCovered`, `LockHasNoGrab`, `AnnouncementsAgree`: their
  conjunction `LockInv` is inductive, while the first alone is too weak to
  survive a launcher's commit: `LayerCommit` is refused because the session is
  locked, and the grab is dropped by every route in. `LockedIsCovered` says that a
  locked session has the backdrop or frames none of which is blank. The backdrop goes down only in
  `PushLockFrame`, where no frame is blank, and while it is down the frames stay
  so: a GPU reset and the last frame's removal put it back
  (`FramesClearedInv`, `FrameStepInv`). It does not say that every display has a
  frame, which is false: see the finding `EachScreenIsCovered`.
- `HolderIsUnique`: `OneHolder` is inductive over `TypeOK`; each of the six
  steps of a lock program, the administrative unlock and the crash restart is a
  case.
- `UnlockRestores`: an action property. Every step that opens the session
  passes the gate because `NoGrabUnderLock` holds before it and the flag is
  cleared first.
- `PromptNeverDeaf`: every step that keeps `authenticating` keeps a PAM answer.
- `LockKeepsContract`: the refinement. Initial states map to initial states;
  each step is shown to be a stutter, or one of the contract's `Seal`,
  `Permit`, `Open`, `Lapse`. The steps that open the session do so from
  a state with a permission, and drop at least one.
- `RespawnsBounded`: the property is about the history `starts`, the code keeps
  a ring, so the inductive invariant `RingInv` relates the two: the ring's
  slots are the last `RespawnMax` starts, `respawnNext` is the oldest, starts
  never decrease. Then a start that is allowed has an oldest stamp outside the
  window.
- `KeysStayWithTheLock`: `NoKeysToDesktop` under the assumption that there is
  no lock module and no X11 popup (`ClientsOnly`). The assumption is needed:
  see the finding `NoKeysToDesktop` (`session_lock_module.cfg` with
  `Grabbers <- MCNoGrabbers` and `MaxAuth = 0`).

### Power_proofs

It extends both modules, which is why the names of `Logind`'s specification are its own
(`LogindSpec`, `LogindTypeOK`).

`Displays`. Every handler is a function of one record, so the proof is about
records: what each function of the code does to one (`SetMonIs`, `TakeOutIs`,
`SetPoweredIs`, ...), and that each handler leads from `Now` to a record that is
in order (`Leads`, then `LeadsOn`). The walks over `self->monitors` are functions
of the number of turns; what holds after `i` turns (`LidAfter`, `PowerAfter`) is
shown by the least turn after which it would not hold.

- `ScreensExplained`, `SomethingShows`, `DisplaysTypeCorrect`: `NeverBlind` is not
  inductive, as one event can take the only output that shows something. `Shown` says
  that every external display is in the layout and, with no external, every panel;
  `Explained` that an output of the layout is lit, blanked or disabled. The lid
  policy itself needs of its caller only that the externals are in order
  (`UpdateLidShows`), which is why the handlers that plug and unplug may call it on a
  record that is not.
- `InputLightsScreens`, `BlankingIsRight`: waking lights every blanked output of the layout,
  and `Explained` says what else may be dark. For the timer, `Heard`: the answer that the
  idle manager keeps misses no window that inhibits, and the timer rests while it says
  yes. Handlers that arrange nothing only darken outputs or take windows off them.
- `WindowsAreShown`: `Shown` again: a lit external is in the layout, so there is a place
  to go. `LidMoves` says of the panels' removal, one by one, that the selection and the
  windows are on an output that is in the layout, or lit (a panel that a client lit
  outside the layout and that is removed later in the walk), or that a window
  is where the selection is; at the end no panel is lit, and what is lit is in the layout.

The hypothesis `TRUE \notin IpcEnables` of `BlankingIsRight` says that
`monitor.configure` lights no output, as in the run: it sets the enable bit without an
arrange, so the answer about inhibitors misses the windows on it, and the property fails.
The other theorems do without it.
The proof of `WindowsStayShown` did not go through at first, for a reason that TLC
confirmed with a second window: when a window without an output has the focus,
`selmon` is `NULL`, and the next unplugged output's windows get no output though others
are lit. The property names that case now; it belongs to the finding `NoOrphans`.

`Logind`.

- `WakeupsKept`, `WakeFdOutlivesThread`: one invariant, `WakeInv`, over both
  program counters. `ThreadsOK` ties the compositor's place to the other
  thread: without an agent there is no bus thread, no source and, before the
  first start, no request; with one the source is there. With it each half of
  `post_request()` and each step of `on_wake()` and `stop()` is a case.
- `HintIsRight`: `HintInv` says it of every place the bus thread can be at: a
  hint that differs is queued, or was queued for a thread that had left.
- `SleepStaysArmed`: `ArmedInv` says that on a machine that is awake the thread
  has seen, or has queued, the resume of every suspend it has seen.
- `ReleasedBehindTheLock`: an action property; the bounded wait is the only
  place that lets go, besides the thread's end.

### MacroRunner_proofs

`IInv` is `TypeInv` - the types, and which shapes the stack and the queue can
have (`StackOK`: a frame is there at most once and which may lie under which;
`QueueOK`: a message is there at most once) - and one statement per run, `RunOK`:
`CallOK` (the call record, the worker's place and the message agree) and
`RefsOK` (`refs` is the number of the holders: the table, tick frames, worker,
DONE message, call). No part is inductive alone: the count needs to know that a
worker has one message at most, the message needs the worker's place, the place
the call's state.

- `CallsAreWaitedFor`: from `CallOK`. A worker that its watchdog unwinds while it
  asks leaves its call behind: `Unwound` names such a run (it is in `faulted`),
  and `LostRefs` counts the references that the unwound frames held and nobody drops,
  so that the counts of all others stay exact. The call is then executed
  with nobody waiting: the finding `CallerIsThere`.
- `NoneIsFreedInUse`: from `RefsOK`, where timeline bodies run no commands of
  the module (`"body" \notin Commands`). The start path holds no reference of
  its own; a body that stops its own run is freed under its frame: see the
  finding `RunsOutliveUsers`.
- `EndsAreHeard`: every action that removes from the table reports first.
- `CrashesAreHeld`: `JournalInv` relates the journal to the table, the timers
  and the frames: a run in the table is marked, or about to be. Without
  reentrant macros (`~Reentrant`): the mark is a macro's, and the end of one of
  two runs removes it for both.

### VoiceListener_proofs

`IInv` is `SubprocessOK`, `VoiceOK`, `ProcOK` and, for each call, `CallOK`: its
life (what of handle, child, pipes and timers can be there together), its pipes
(who holds the write ends), and the count of what was written, buffered and
discarded.

- `NoStaleHandle`, `NothingIsLost`: from `CallOK`. The second is a count kept by
  each chunk; it needs `Chatty => MaxOutput <= MaxWrites`, by which a program
  whose writes are no longer counted has passed the limit already.
- `ListenerKeepsContract`: the refinement. Each step is a stutter or one of
  `Ask`, `ProgramEnds`, `DeadlinePasses`, `Answer`, `Withdraw`; that an answer is given only when
  everything is over comes from `CallOK`.

### FaultGuard_proofs

`WatchdogIsClean`, an action property, from `ThreadOK`: the shape of the stack
and of the program counter together say where the signal is blocked, which of
timer and pending signal belong to the innermost call, and that holding the
lock implies blocked. The hypothesis `~CallsInHolds` is a condition of the
guard's interface: no guarded call from a held region.

### InputRemap_proofs

- `ClaimsFollowRules`: a rule change re-evaluates every device, and while it
  does, handlers run that may change the rules again. `TodoOK` is the shape
  that the rest of the handlers can have (which entry may stand below which);
  `ClaimsInv` says that a device that disagrees with the rules is covered by a
  re-evaluation that is still to come, or is on its way out. At the loop
  nothing is to come, so nothing disagrees. The hypothesis
  `"drain" \notin CommandsFrom` excludes commands from the releases of a
  re-evaluation itself: see the finding `ClaimsAgree`.
- `EveryPressIsReleased`: `Books` is the ledger: what the desktop was fed of a
  code is the number of held inputs that owe it as a key plus those that owe it
  as a modifier, plus what the handler in progress still has to feed or take
  back (`Ledger`, counted with the theorems on finite sets); `HeldInv` and
  `HandInv` say whose entries those are. A key that is its own modifier is
  pressed twice, as `press_key_target()` does, and counts twice. The hypothesis
  `~SelfRemap` keeps commands from freeing the entry that is being handled: see
  the finding `NoFreedEntry`.
- `HatchIsOpen` and `EscapeAlwaysWorks`, action properties. Only its own press puts
  a key down (`DownGrows`), and an Escape that is not down is not held (`HeldInv`),
  so the press takes the hatch. That Super is in force with it needs more:
  `SuperInForce` (a Super that is fed is in force) is broken when the group copies
  its members' modifiers over it. `EscapeInductive` adds why that does not happen:
  the engine's rules are those there are (`Engines`), so what they decide is a rule
  that matches (`DecidesMatching`), so no other device holds Super between events
  (`SuperAtHome`), so nobody has fed it while the keyboard with the modifiers is in
  the group (`NobodyFedSuper`). The two hypotheses are `OneHasModifiers` and
  `OthersLeaveSuper`; the run's instance meets both. TLC shows `EscapeWorks` fail
  without the first (`Inputs <- MCInputsSuper`, finding `ModifiersHold`) and without
  the second (`q` mapping `A` to a key with Super). `HatchIsOpen` has neither, and
  says exactly what is left: Escape arrives in any case.
- `TypeCorrect`: a wheel keeps a whole notch only while its loop is on the stack
  (`TravelOK`).

### InputCapture_proofs

- `BarriersStayOuter`: two arguments. Geometry: a segment that passes
  `barrier_is_valid()` is on the outer boundary, point by point
  (`VerticalValidIsOuter`; the horizontal case is the vertical one, turned).
  The code only looks at edges, which is enough because a zone that reaches
  across the line would overlap the owner, so the theorem is about layouts
  whose outputs do not overlap (`IsTiling`). History: the barriers a session
  has were judged by its zones, and its zones are none, or the lit screens of now but
  for those switched since the layout changed (`Known`, `MachineOK`), which
  every handler keeps whatever it calls. A switched bit excuses itself and
  nothing else (`SwitchKeepsKnown`). That excuse is needed: see the finding
  `BarriersLeaveTheScreen`.
- `KeyboardIsGivenBack`: `KeyboardInv` says that a window has the keyboard, or
  there is none, or a capture has it *and the window to give it back to is
  still there*. It is stated for the record a handler works on, and kept by
  each function the handlers are made of (`MotionNotifyKeyboard`,
  `FocusRestoreKeyboard`, ...): what happens inside a handler, a stale
  push that captures again inside the restore included, is part of the proof.
- `TypeCorrect`: no window twice on the focus stack, the attached session live.

### HotkeyRunner_proofs

`IInv` has a part for each kind of thing that can point at a list or at a place
in the table, and none is inductive alone:

- `StackOK`: which frame may lie under which (`Shaped`: a `runner_step()` or the
  loop of `c_built()` is only ever innermost, what waits to start an input hook
  or to go on with that loop has at most one frame above it), a running list has
  one frame, and a frame that will run a list has one that runs.
- `RestsOK`: what a list's record says of its wait, against the stack, the input
  hook and the typing: on the stack it waits for nothing, elsewhere for one thing.
- `PointersOK`: who points at a list points at one that runs, once.
- `BuildsOK`, `BuiltsOK`: a key is being built exactly when its compiler is at it
  or has posted; and a list that waits for a build waits for one under way, or
  *the loop of `c_built()` has not yet passed its place in the table*. That is where
  the loop's "fewer lists, so the index stays" comes in: `LoopsOK` says that what
  the resumed list does to the table while the loop waits is nothing, or the
  removal of that list alone, or of all.
- `InputsOK`: while a hook's starter waits for its predecessor's list to come to
  rest, nobody has the hook.
- `QueuesOK`, `OffOK`: the queues' sources; what still runs while switched off.

Most steps are one of a few shapes, each a lemma: the thread puts plain frames
on the stack (`QuietStep`), a list starts (`StartStep` and the like), a list
rests (`DidWait`), lists carry on on top of others (`WakeOn`, over a record
update `Carries` of any set of lists), the loop of `c_built()` moves
(`LoopStep`).

- `NoneIsLeftBehind`: from `PointersOK`, `StackOK` and the counts.
- `EveryWaitEnds`: from `RestsOK`, `BuiltsOK`, `MacrosOK` and `QueuesOK`.
- `TypeCorrect`.

The hypothesis of all three is `Tame`. It leaves out what the runs' `MCAfter` and
`HookActs` leave out, and no more (one-shot modes are free): a list that was
carried on by an input hook or a build does not then end, start or wake others
inside the call it was carried on in, and a list of a mode waits for no macro.
Without the first the property fails as the two findings `WaiterHasAWaker` say; the
second is needed because a mode's lists run while the module is switched off
(finding `OffIsOff`), when it does not hear of a macro's end.

### Only model-checked

- Liveness (`SuspendProceeds`, `JoinReturns`, `StopIsDone`, `WaitEnds`,
  `ListeningEnds`, `ListsEnd`, `HeldIsDelivered`): liveness under fairness is
  outside the installed provers.

## 7. Not modelled

Rendering, effects, layouts, frame capture and the bar have little state and
much geometry. Configuration, gabbrev, hotstrings and the filter language are
string processing. Of `gowl-compositor.c`, tags, the pointer, tablets, drags
and Xwayland are left out, and the IPC methods appear where they reach a
modelled part. MCP's hop to the compositor thread has the shape of the macro
runner's.

Within the modelled parts:

- lock: the password buffer and drawing of the lock screens, the module's
  per-output surfaces;
- macros: triggers, recording, matching of spoken phrases, D-Bus, compiling and
  loading of macro files, the runner without an event loop (unit tests only);
- hotkeys: the engine that matches keys, window, mouse, rpc and lisp actions
  (they neither wait nor call back), scripts, hooks on windows and locks;
- capture: event sinks, the two injection interfaces, pointer constraints, the
  zone set's number, the geometry of a crossing (a push reaches a barrier or it does not);
- remapping: identify mode, keysym lookup, YAML, the log; a device has one wheel axis;
- guard: installing and chaining handlers, the fault counter;
- displays: the idle and resume signals, ext-idle-notify, output profiles,
  `manage_lid` off, power commits that fail other than the shut panel's first,
  window rules and dialogs that name another output, tags (mapped windows are on a
  visible one);
- everywhere: memory allocation failures.

Noticed while reading, without a model that shows it: `hk_post()` writes its
eventfd after it let go of the mutex, so a module being finalized may have
closed it; a compiler thread keeps a raw pointer to its module;
`set_barriers()` with nothing valid keeps the barriers there were; zones that
overlap are validated as if they did not; the blank timer during an explicit
`off`'s grace time lets the next input undo that `off`; `enabled: false` on
the internal panel is undone by the lid policy when the panel is plugged; a
remap callback hears a release without its press when the session was locked
at the press; pointer motion does not count as activity for the idle manager.
