------------------------------- MODULE Logind -------------------------------
(***************************************************************************)
(* The seat side of locking, src/src/core/gowl-logind.c: a bus thread that *)
(* hears logind, the compositor thread that locks, and what they share --  *)
(* a request bitmask under a mutex, an eventfd, two atomics and the bus    *)
(* thread's main context.                                                  *)
(*                                                                         *)
(* A step is what one thread does between two points where the other can   *)
(* see it.  logind and the person at the machine are the environment; the  *)
(* compositor's lock is reduced to the three states this file can tell     *)
(* apart (SessionLock has the whole of it).                                *)
(*                                                                         *)
(* The names of the specification are its own, so that Power_proofs can    *)
(* extend it and Displays.                                                 *)
(***************************************************************************)
EXTENDS Naturals, Sequences

CONSTANTS
  MaxPolls,        \* LOCK_WAIT_US / LOCK_POLL_US
  MaxQueue,        \* bound: D-Bus signals waiting for the bus thread
  MaxStarts,       \* bound: gowl_logind_start() calls
  InhibitSleep,    \* the lock-on-suspend setting
  OwnSession,      \* gowl_systemd_is_managing_session()
  ConnectResults,  \* whether g_bus_get_sync() may succeed, may fail
  LockOutcomes     \* what gowl_compositor_lock_session() may lead to

ASSUME LogindAssumption ==
  /\ MaxPolls \in Nat /\ MaxQueue \in Nat /\ MaxStarts \in Nat
  /\ InhibitSleep \in BOOLEAN /\ OwnSession \in BOOLEAN
  /\ ConnectResults \subseteq BOOLEAN
  /\ LockOutcomes \subseteq {"open", "starting", "locked"}

VARIABLES
  \* The bus thread.
  bus,          \* where bus_thread() is
  inhibitor,    \* inhibit_fd >= 0
  polls,        \* turns of the wait loop so far
  signals,      \* D-Bus signals delivered to its context, oldest first
  \* Shared.
  requests,     \* REQ_* bits
  wake,         \* the eventfd is readable
  lockedFlag,   \* atomic `locked'
  stopping,     \* atomic `stopping'
  quitQueued,   \* a quit_loop idle is on the bus thread's context
  hintQueued,   \* a send_locked_hint idle is
  \* The compositor thread.
  comp,         \* where it is with respect to this file
  taken,        \* on_wake()'s copy of the bits, those still to be run
  wakeSource,   \* wake_fd is open and watched
  screen,       \* "open", "starting" (a lock program is on its way), "locked"
  started,      \* gowl_logind_start() calls so far
  \* logind.
  power,        \* "awake", "preparing" (PrepareForSleep sent), "asleep"
  lockedHint,   \* the session's LockedHint property
  \* History.
  lastPosted,   \* the request posted last
  leftover,     \* stop() left these requests with nobody to wake
  hintMissed,   \* a hint was queued for a thread that never ran it
  ungranted     \* logind did not grant the last Inhibit call

busVars == <<bus, inhibitor, polls, signals>>
sharedVars == <<requests, wake, lockedFlag, stopping, quitQueued, hintQueued>>
compVars == <<comp, taken, wakeSource, screen, started>>
logindVars == <<power, lockedHint>>
historyVars == <<lastPosted, leftover, hintMissed, ungranted>>
agentVars == <<busVars, sharedVars, compVars, logindVars, historyVars>>

BusStates ==
  {"none",        \* no thread
   "connecting",  \* g_bus_get_sync()
   "arming",      \* subscribed, taking the inhibitor
   "checking",    \* about to read `stopping'
   "entering",    \* read it clear, not in g_main_loop_run() yet
   "loop",        \* in the loop, between sources
   "posting",     \* bits set for a Lock or Unlock, eventfd not written
   "alerting",    \* bits set for a suspend, eventfd not written
   "waiting",     \* waiting for the lock to come up
   "winding",     \* out of the loop
   "exited"}      \* returned, not joined

Subscribed == bus \in {"arming", "checking", "entering", "loop", "posting",
                       "alerting", "waiting"}
BusAlive == bus \notin {"none", "exited"}
Frozen == power = "asleep"     \* a suspended machine runs nothing

-----------------------------------------------------------------------------
(* The bus thread.                                                         *)

\* take_inhibitor().  logind refuses while it is already suspending, and may
\* refuse for reasons of its own.
TakeInhibitor ==
  IF InhibitSleep /\ ~inhibitor
  THEN \E granted \in (IF power = "awake" THEN BOOLEAN ELSE {FALSE}) :
         inhibitor' = granted /\ ungranted' = ~granted
  ELSE UNCHANGED <<inhibitor, ungranted>>

\* The mutex-protected half of post_request().
SetRequest(r) ==
  /\ requests' = requests \cup {r}
  /\ lastPosted' = r

BusConnect ==
  /\ bus = "connecting"
  /\ \/ TRUE \in ConnectResults /\ bus' = "arming"
     \/ FALSE \in ConnectResults /\ bus' = "exited"
  /\ UNCHANGED <<inhibitor, polls, signals, sharedVars, compVars, logindVars,
                 historyVars>>

BusArm ==
  /\ bus = "arming"
  /\ bus' = "checking"
  /\ TakeInhibitor
  /\ UNCHANGED <<polls, signals, sharedVars, compVars, logindVars, lastPosted,
                 leftover, hintMissed>>

\* `if (!stopping) g_main_loop_run()'
BusCheckStopping ==
  /\ bus = "checking"
  /\ bus' = IF stopping THEN "winding" ELSE "entering"
  /\ UNCHANGED <<inhibitor, polls, signals, sharedVars, compVars, logindVars,
                 historyVars>>

BusEnterLoop ==
  /\ bus = "entering"
  /\ bus' = "loop"
  /\ UNCHANGED <<inhibitor, polls, signals, sharedVars, compVars, logindVars,
                 historyVars>>

\* MUTANT of OnPrepareForSleep: asks for the lock and lets logind go at once.
PrepareWithoutWaiting ==
  /\ bus = "loop"
  /\ signals # <<>> /\ Head(signals) = "sleep"
  /\ signals' = Tail(signals)
  /\ inhibitor' = FALSE
  /\ IF lockedFlag
     THEN UNCHANGED <<bus, requests, lastPosted>>
     ELSE bus' = "posting" /\ SetRequest("lock")
  /\ UNCHANGED <<polls, wake, lockedFlag, stopping, quitQueued, hintQueued,
                 compVars, logindVars, leftover, hintMissed, ungranted>>

\* on_prepare_for_sleep(TRUE): locked already, or ask and wait.
OnPrepareForSleep ==
  /\ bus = "loop"
  /\ signals # <<>> /\ Head(signals) = "sleep"
  /\ signals' = Tail(signals)
  /\ IF lockedFlag
     THEN inhibitor' = FALSE /\ UNCHANGED <<bus, requests, lastPosted>>
     ELSE bus' = "alerting" /\ SetRequest("lock") /\ UNCHANGED inhibitor
  /\ UNCHANGED <<polls, wake, lockedFlag, stopping, quitQueued, hintQueued,
                 compVars, logindVars, leftover, hintMissed, ungranted>>

\* MUTANT of OnResumed: the inhibitor is not taken again.
ResumeUnarmed ==
  /\ bus = "loop"
  /\ signals # <<>> /\ Head(signals) = "wake"
  /\ signals' = Tail(signals)
  /\ UNCHANGED <<bus, inhibitor, polls, sharedVars, compVars, logindVars,
                 historyVars>>

\* on_prepare_for_sleep(FALSE): awake again, arm for the next time.
OnResumed ==
  /\ bus = "loop"
  /\ signals # <<>> /\ Head(signals) = "wake"
  /\ signals' = Tail(signals)
  /\ TakeInhibitor
  /\ UNCHANGED <<bus, polls, sharedVars, compVars, logindVars, lastPosted,
                 leftover, hintMissed>>

\* on_session_lock_signal(): loginctl lock-session and unlock-session.
OnSessionLockSignal ==
  /\ bus = "loop"
  /\ signals # <<>> /\ Head(signals) \in {"lock", "unlock"}
  /\ signals' = Tail(signals)
  /\ bus' = "posting"
  /\ SetRequest(Head(signals))
  /\ UNCHANGED <<inhibitor, polls, wake, lockedFlag, stopping, quitQueued,
                 hintQueued, compVars, logindVars, leftover, hintMissed,
                 ungranted>>

\* The second half of post_request(): the eventfd.
WriteWake ==
  /\ bus \in {"posting", "alerting"}
  /\ bus' = IF bus = "posting" THEN "loop" ELSE "waiting"
  /\ wake' = TRUE
  /\ polls' = 0
  /\ UNCHANGED <<inhibitor, signals, requests, lockedFlag, stopping, quitQueued,
                 hintQueued, compVars, logindVars, historyVars>>

\* MUTANT of PollLocked: a wait that ran out keeps the inhibitor.
PollAndHold ==
  /\ bus = "waiting"
  /\ IF lockedFlag \/ polls = MaxPolls
     THEN bus' = "loop" /\ inhibitor' = (inhibitor /\ ~lockedFlag) /\ UNCHANGED polls
     ELSE polls' = polls + 1 /\ UNCHANGED <<bus, inhibitor>>
  /\ UNCHANGED <<signals, sharedVars, compVars, logindVars, historyVars>>

\* One turn of the wait, and the release that ends it.
PollLocked ==
  /\ bus = "waiting"
  /\ IF lockedFlag \/ polls = MaxPolls
     THEN bus' = "loop" /\ inhibitor' = FALSE /\ UNCHANGED polls
     ELSE polls' = polls + 1 /\ UNCHANGED <<bus, inhibitor>>
  /\ UNCHANGED <<signals, sharedVars, compVars, logindVars, historyVars>>

\* send_locked_hint(), reading the flag when it runs.  Hints queued twice
\* before it runs say the same thing, so one bit stands for them all.
SendLockedHint ==
  /\ bus = "loop" /\ hintQueued
  /\ hintQueued' = FALSE
  /\ lockedHint' = lockedFlag
  /\ hintMissed' = FALSE
  /\ UNCHANGED <<busVars, requests, wake, lockedFlag, stopping, quitQueued,
                 compVars, power, lastPosted, leftover, ungranted>>

\* quit_loop()
QuitLoop ==
  /\ bus = "loop" /\ quitQueued
  /\ bus' = "winding"
  /\ quitQueued' = FALSE
  /\ UNCHANGED <<inhibitor, polls, signals, requests, wake, lockedFlag,
                 stopping, hintQueued, compVars, logindVars, historyVars>>

\* After the loop: the inhibitor goes, the subscriptions go, and the context
\* is turned until it is empty -- which still sends a queued hint.
BusWindDown ==
  /\ bus = "winding"
  /\ bus' = "exited"
  /\ inhibitor' = FALSE
  /\ signals' = <<>>
  /\ quitQueued' = FALSE
  /\ hintQueued' = FALSE
  /\ lockedHint' = IF hintQueued THEN lockedFlag ELSE lockedHint
  /\ hintMissed' = (hintMissed /\ ~hintQueued)
  /\ UNCHANGED <<polls, requests, wake, lockedFlag, stopping, compVars, power,
                 lastPosted, leftover, ungranted>>

OnSignal == OnPrepareForSleep \/ OnResumed \/ OnSessionLockSignal

BusStep ==
  /\ ~Frozen
  /\ \/ BusConnect \/ BusArm \/ BusCheckStopping \/ BusEnterLoop
     \/ OnSignal \/ WriteWake
     \/ PollLocked \/ SendLockedHint \/ QuitLoop \/ BusWindDown

-----------------------------------------------------------------------------
(* The compositor thread.                                                  *)

\* MUTANT of NotifyLocked: only locking is announced.
NotifyOnlyLocking(is) ==
  /\ lockedFlag' = is
  /\ hintQueued' = (hintQueued \/ (OwnSession /\ is))
  /\ hintMissed' = (hintMissed \/ (OwnSession /\ is # lockedFlag /\ bus = "exited"))

\* gowl_logind_set_locked(), which the compositor calls when its lock state
\* changes: the flag, and a hint for the bus thread to send.
NotifyLocked(is) ==
  /\ lockedFlag' = is
  /\ hintQueued' = (hintQueued \/ (OwnSession /\ is # lockedFlag))
  /\ hintMissed' = (hintMissed \/ (OwnSession /\ is # lockedFlag /\ bus = "exited"))

\* gowl_compositor_lock_session() and unlock_session() as seen from here.
AfterLock(s) == IF s = "locked" THEN {s} ELSE LockOutcomes
AfterUnlock(s) == IF s = "locked" THEN "open" ELSE s

\* gowl_logind_start(), given that it is stopped.
StartThread ==
  /\ started < MaxStarts
  /\ started' = started + 1
  /\ stopping' = FALSE
  /\ wakeSource' = TRUE
  /\ wake' = FALSE
  /\ bus' = "connecting"

CompositorStart ==
  /\ comp = "down"
  /\ StartThread
  /\ comp' = "loop"
  /\ UNCHANGED <<inhibitor, polls, signals, requests, lockedFlag, quitQueued,
                 hintQueued, taken, screen, logindVars, historyVars>>

\* on_wake(), up to the read of the eventfd.
OnWakeRead ==
  /\ comp = "loop" /\ wakeSource /\ wake
  /\ wake' = FALSE
  /\ comp' = "woken"
  /\ UNCHANGED <<busVars, requests, lockedFlag, stopping, quitQueued,
                 hintQueued, taken, wakeSource, screen, started, logindVars,
                 historyVars>>

\* The bits are taken under the mutex.
OnWakeTake ==
  /\ comp = "woken"
  /\ comp' = "running"
  /\ taken' = requests
  /\ requests' = {}
  /\ leftover' = FALSE
  /\ UNCHANGED <<busVars, wake, lockedFlag, stopping, quitQueued, hintQueued,
                 wakeSource, screen, started, logindVars, lastPosted,
                 hintMissed, ungranted>>

\* The session is locked if that was asked.
OnWakeLock ==
  /\ comp = "running"
  /\ "lock" \in taken
  /\ taken' = taken \ {"lock"}
  /\ screen' \in AfterLock(screen)
  /\ NotifyLocked(screen' = "locked")
  /\ UNCHANGED <<busVars, requests, wake, stopping, quitQueued, comp,
                 wakeSource, started, logindVars, lastPosted, leftover, ungranted>>

\* Then it is unlocked if that was.
OnWakeUnlock ==
  /\ comp = "running"
  /\ taken = {"unlock"}
  /\ taken' = {}
  /\ screen' = AfterUnlock(screen)
  /\ NotifyLocked(screen' = "locked")
  /\ UNCHANGED <<busVars, requests, wake, stopping, quitQueued, comp,
                 wakeSource, started, logindVars, lastPosted, leftover, ungranted>>

\* MUTANT of OnWakeReturn: the eventfd is drained after the bits are run.
DrainLast ==
  /\ comp = "running"
  /\ taken = {}
  /\ comp' = "loop"
  /\ wake' = FALSE
  /\ UNCHANGED <<busVars, requests, lockedFlag, stopping, quitQueued, hintQueued,
                 taken, wakeSource, screen, started, logindVars, historyVars>>

OnWakeReturn ==
  /\ comp = "running"
  /\ taken = {}
  /\ comp' = "loop"
  /\ UNCHANGED <<busVars, sharedVars, taken, wakeSource, screen, started,
                 logindVars, historyVars>>

\* A lock program engages, dies on startup, or lets its user back in; or the
\* user locks from the keyboard.
ScreenChanges ==
  /\ comp = "loop"
  /\ \/ screen = "starting" /\ screen' \in {"locked", "open"}
     \/ screen = "locked" /\ screen' = "open"
     \/ screen # "locked" /\ screen' \in AfterLock(screen) \ {screen}
  /\ NotifyLocked(screen' = "locked")
  /\ UNCHANGED <<busVars, requests, wake, stopping, quitQueued, comp, taken,
                 wakeSource, started, logindVars, lastPosted, leftover, ungranted>>

\* MUTANT of StopBegin: g_main_loop_quit() called directly, which a loop that
\* is not running yet does not notice.
QuitDirectly(next) ==
  /\ comp = "loop" /\ wakeSource
  /\ stopping' = TRUE
  /\ quitQueued' = (bus \in {"loop", "posting", "alerting", "waiting"})
  /\ comp' = next
  /\ UNCHANGED <<busVars, requests, wake, lockedFlag, hintQueued, taken, wakeSource,
                 screen, started, logindVars, historyVars>>

\* gowl_logind_stop() up to the join, from apply_lock_config() (which starts
\* again) or from gowl_compositor_quit().
StopBegin(next) ==
  /\ comp = "loop" /\ wakeSource
  /\ stopping' = TRUE
  /\ quitQueued' = TRUE
  /\ comp' = next
  /\ UNCHANGED <<busVars, requests, wake, lockedFlag, hintQueued, taken, wakeSource,
                 screen, started, logindVars, historyVars>>

\* MUTANT of StopFinish: the source is removed without waiting for the thread.
RemoveSourceFirst ==
  /\ comp = "quitting"
  /\ comp' = "gone"
  /\ wakeSource' = FALSE /\ wake' = FALSE
  /\ UNCHANGED <<busVars, requests, lockedFlag, stopping, quitQueued, hintQueued,
                 taken, screen, started, logindVars, historyVars>>

\* The join has returned: the context, the source and the eventfd go.
StopFinish ==
  /\ comp \in {"restarting", "quitting"}
  /\ bus = "exited"
  /\ quitQueued' = FALSE /\ hintQueued' = FALSE
  /\ leftover' = (leftover \/ requests # {})
  /\ IF comp = "restarting"
     THEN StartThread /\ comp' = "loop"
     ELSE /\ comp' = "gone"
          /\ wakeSource' = FALSE /\ wake' = FALSE /\ bus' = "none"
          /\ UNCHANGED <<started, stopping>>
  /\ hintMissed' = (hintMissed \/ hintQueued)
  /\ UNCHANGED <<inhibitor, polls, signals, requests, lockedFlag, taken, screen,
                 logindVars, lastPosted, ungranted>>

OnWake == OnWakeRead \/ OnWakeTake \/ OnWakeLock \/ OnWakeUnlock \/ OnWakeReturn

CompStep ==
  /\ ~Frozen
  /\ \/ CompositorStart \/ OnWake \/ ScreenChanges
     \/ started < MaxStarts /\ StopBegin("restarting")
     \/ StopBegin("quitting")
     \/ StopFinish

-----------------------------------------------------------------------------
(* logind.  A signal reaches the bus thread only while it is subscribed.   *)

Deliver(signal) ==
  signals' = IF Subscribed THEN Append(signals, signal) ELSE signals

SendLockSignal(signal) ==
  /\ ~Frozen
  /\ Len(signals) + 2 <= MaxQueue
  /\ Deliver(signal)
  /\ UNCHANGED <<bus, inhibitor, polls, sharedVars, compVars, logindVars,
                 historyVars>>

PrepareForSleep ==
  /\ power = "awake"
  /\ Len(signals) + 2 <= MaxQueue
  /\ power' = "preparing"
  /\ Deliver("sleep")
  /\ UNCHANGED <<bus, inhibitor, polls, sharedVars, compVars, lockedHint,
                 historyVars>>

\* The machine sleeps once nobody holds a delay inhibitor.
GoToSleep ==
  /\ power = "preparing"
  /\ ~inhibitor
  /\ power' = "asleep"
  /\ UNCHANGED <<busVars, sharedVars, compVars, lockedHint, historyVars>>

\* It wakes up, or the suspend was cancelled: PrepareForSleep(FALSE).
Resume ==
  /\ power \in {"preparing", "asleep"}
  /\ power' = "awake"
  /\ Deliver("wake")
  /\ UNCHANGED <<bus, inhibitor, polls, sharedVars, compVars, lockedHint,
                 historyVars>>

LogindStep ==
  \/ \E signal \in {"lock", "unlock"} : SendLockSignal(signal)
  \/ PrepareForSleep \/ GoToSleep \/ Resume

-----------------------------------------------------------------------------
LogindInit ==
  /\ bus = "none" /\ inhibitor = FALSE /\ polls = 0 /\ signals = <<>>
  /\ requests = {} /\ wake = FALSE /\ lockedFlag = FALSE /\ stopping = FALSE
  /\ quitQueued = FALSE /\ hintQueued = FALSE
  /\ comp = "down" /\ taken = {} /\ wakeSource = FALSE /\ screen = "open" /\ started = 0
  /\ power = "awake" /\ lockedHint = FALSE
  /\ lastPosted = "none" /\ leftover = FALSE /\ hintMissed = FALSE
  /\ ungranted = FALSE

LogindNext == BusStep \/ CompStep \/ LogindStep

\* Both threads are scheduled, logind sleeps when it can, and GLib dispatches
\* every source that is ready in each turn of the bus thread's loop, so neither
\* the idles nor the signals starve the others.  Nothing promises that anybody locks, unlocks,
\* suspends or wakes the machine.
Fairness ==
  /\ WF_agentVars(BusStep)
  /\ SF_agentVars(~Frozen /\ QuitLoop)
  /\ SF_agentVars(~Frozen /\ OnSignal)
  /\ WF_agentVars(~Frozen /\ OnWake)
  /\ WF_agentVars(~Frozen /\ StopFinish)
  /\ WF_agentVars(GoToSleep)

LogindSpec == LogindInit /\ [][LogindNext]_agentVars /\ Fairness

-----------------------------------------------------------------------------
(* Properties.                                                             *)

\* Every variable holds a value its thread can store in it, and the machine
\* never sleeps while gowl holds the delay inhibitor.
LogindTypeOK ==
  /\ bus \in BusStates /\ inhibitor \in BOOLEAN /\ polls \in 0..MaxPolls
  /\ signals \in Seq({"lock", "unlock", "sleep", "wake"})
  /\ requests \subseteq {"lock", "unlock"} /\ taken \subseteq {"lock", "unlock"}
  /\ wake \in BOOLEAN /\ lockedFlag \in BOOLEAN /\ stopping \in BOOLEAN
  /\ quitQueued \in BOOLEAN /\ hintQueued \in BOOLEAN
  /\ comp \in {"down", "loop", "woken", "running", "restarting", "quitting", "gone"}
  /\ wakeSource \in BOOLEAN /\ screen \in {"open", "starting", "locked"}
  /\ started \in 0..MaxStarts
  /\ power \in {"awake", "preparing", "asleep"} /\ lockedHint \in BOOLEAN
  /\ lastPosted \in {"none", "lock", "unlock"}
  /\ leftover \in BOOLEAN /\ hintMissed \in BOOLEAN /\ ungranted \in BOOLEAN

\* A request whose bits are set has a wakeup on its way: the eventfd is
\* readable, or about to be written, or was read by a handler that has not
\* taken the bits yet.  (Requests a restart left behind are the exception.)
NoLostWakeup ==
  requests # {} =>
    wake \/ bus \in {"posting", "alerting"} \/ comp = "woken" \/ leftover

\* Nothing writes the eventfd after its source has been removed: while the bus
\* thread lives, the descriptor it writes is open and watched.
WakeFdIsOpen == BusAlive => wakeSource

\* logind's LockedHint agrees with the screen whenever the bus thread has
\* nothing queued: no order of lock, unlock, hint and restart leaves it stale.
HintAgrees ==
  /\ lockedFlag <=> screen = "locked"
  /\ bus = "loop" /\ OwnSession /\ ~hintQueued /\ ~hintMissed
       => lockedHint = lockedFlag

\* The bus thread sitting idle in its loop with the machine awake holds the
\* delay inhibitor, unless logind refused it: after a suspend, a cancelled
\* one, a restart.  Otherwise the next suspend would not wait for the lock.
SleepIsArmed ==
  bus = "loop" /\ signals = <<>> /\ power = "awake" /\ InhibitSleep
    => inhibitor \/ ungranted

\* The inhibitor is let go of only when the session is locked, when the wait
\* for the lock ran out, or when the thread is on its way out.
ReleasedWhenLocked ==
  [][inhibitor /\ ~inhibitor' =>
       lockedFlag \/ polls = MaxPolls \/ bus = "winding"]_agentVars

\* A suspend is never held up for good: not by a lock that never comes up,
\* not by a compositor thread that is itself waiting to join the bus thread.
SuspendProceeds == power = "preparing" ~> power # "preparing"

\* stop() returns: its quit is not lost, whether it comes before the loop
\* runs, between the check and the run, or during a wait for the lock.
JoinReturns ==
  comp \in {"restarting", "quitting"} ~>
    comp \notin {"restarting", "quitting"} \/ Frozen

\* Of the requests of one burst, "the last one wins".
LastRequestWins ==
  [][comp = "running" /\ comp' = "loop" /\ requests = {} =>
       /\ lastPosted = "lock" => screen # "open"
       /\ lastPosted = "unlock" => screen # "locked"]_agentVars

=============================================================================
