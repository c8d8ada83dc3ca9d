---------------------------- MODULE SessionLock -----------------------------
(***************************************************************************)
(* Locking the session: the compositor's lock state and keyboard focus     *)
(* (src/src/core/gowl-compositor.c), the lock programs that speak          *)
(* ext-session-lock-v1 to it (src/tools/gowl-lock, or any other), and the  *)
(* in-process fallback module with its PAM threads                         *)
(* (src/modules/screenlock/gowl-module-screenlock.c).                      *)
(*                                                                         *)
(* The compositor is single threaded: one handler is one action.  What is  *)
(* concurrent is everything around it: lock programs start, engage, crash  *)
(* and are turned away, PAM answers late, outputs come and go, windows,    *)
(* launchers and X11 popups want the keyboard, and an administrator may    *)
(* unlock at any moment.                                                   *)
(***************************************************************************)
EXTENDS FocusRules, Sequences, FiniteSets

CONSTANTS
  Lockers,        \* lock-program processes
  NoLocker,       \* no lock client holds the session (cur_lock == NULL)
  Outputs,        \* displays that may be plugged in
  Framed,         \* those an animated lock background is pushed for
  RespawnMax,     \* GOWL_LOCK_RESPAWN_MAX
  RespawnWindow,  \* GOWL_LOCK_RESPAWN_WINDOW_US, in clock units
  MaxTime,        \* bound: how far the clock runs
  SpawnResults,   \* what lock_spawn_command() may return
  ModuleActive,   \* whether a lock-handler module is loaded and active
  Grabbers,       \* which of "layer" and "popup" exist on this desktop
  MaxAuth,        \* bound: PAM threads in flight at once
  MaxOverrides    \* bound: administrative unlocks

Desktop == {"window", "layer", "popup"}      \* what is behind the lock

ASSUME SessionLockAssumption ==
  /\ NoLocker \notin Lockers
  /\ IsFiniteSet(Lockers)
  /\ Outputs \cap (Desktop \cup {"nobody"}) = {}
  /\ Framed \subseteq Outputs
  /\ RespawnMax \in Nat \ {0}
  /\ RespawnWindow \in Nat
  /\ MaxTime \in Nat \ {0}
  /\ SpawnResults \subseteq BOOLEAN
  /\ ModuleActive \in BOOLEAN
  /\ Grabbers \subseteq {"layer", "popup"}
  /\ MaxAuth \in Nat
  /\ MaxOverrides \in Nat

VARIABLES
  \* The compositor.
  locked,          \* self->locked
  lockedBg,        \* the opaque backdrop node is enabled
  curLock,         \* self->cur_lock
  surfaces,        \* outputs that have a lock surface of cur_lock
  outputs,         \* outputs plugged in
  lockSink,        \* self->lock_sink: each output's frame, if any, and its pixels
  focus,           \* who has the seat's keyboard; an output is its lock surface
  exclusiveLayer,  \* self->exclusive_layer # NULL
  exclusiveFocus,  \* self->exclusive_focus # NULL
  window,          \* a managed window is visible: focustop() is not NULL
  respawns,        \* self->lock_respawns, 0 for an unused stamp
  respawnNext,     \* self->lock_respawn_next
  hint,            \* what gowl_compositor_notify_lock_state() last announced
  \* The lock programs.
  lockers,
  \* The screenlock module.
  isLocked,        \* its own is_locked
  authenticating,
  auths,           \* PAM threads and pipe bytes in flight, by their answer
  \* The environment and history.
  now,             \* g_get_monotonic_time()
  overrides,       \* administrative unlocks still to come
  starts,          \* every moment a lock program was allowed to start
  lockAsked        \* a lock was asked for and the session is not locked yet

compVars == <<locked, lockedBg, curLock, surfaces, focus, exclusiveLayer, hint>>
deskVars == <<exclusiveFocus, window>>
moduleVars == <<isLocked, authenticating, auths>>
respawnVars == <<respawns, respawnNext, starts>>
outputVars == <<outputs, lockSink>>
vars == <<compVars, deskVars, moduleVars, respawnVars, outputVars, lockers, now,
          overrides, lockAsked>>

LockerStates ==
  {"idle",      \* not running
   "starting",  \* spawned, has not asked for the lock yet
   "holding",   \* the compositor sent `locked'
   "accepted",  \* its PAM said yes; unlock_and_destroy is on its way
   "refused"}   \* the compositor sent `finished'

-----------------------------------------------------------------------------
(* Helpers.                                                                *)

FocusTop == IF window THEN "window" ELSE "nobody"

\* gowl_compositor_focus_client(): the keyboard moves to target, or the gate
\* refuses and it stays where it was.
FocusClient(isLk, layerGrab, popupUp, old, target) ==
  IF FocusAllowed(isLk, FALSE, FALSE,
                  layerGrab /\ LayerTakesKeyboard(isLk, TRUE, 1, LayerKeyboardMin),
                  popupUp, target = "popup")
  THEN target ELSE old

\* wlr_seat drops a keyboard focus whose surface is destroyed.
WithoutLockSurfaces(f) == IF f \in Outputs THEN "nobody" ELSE f

\* lock_respawn_allowed(): its answer, and the stamp it takes when it is yes.
RespawnAllowed ==
  Cardinality({i \in 0..(RespawnMax - 1) :
                 respawns[i] # 0 /\ now - respawns[i] < RespawnWindow})
    < RespawnMax

\* MUTANT of TakeRespawnStamp: the ring does not advance.
StampInPlace ==
  /\ respawns' = [respawns EXCEPT ![respawnNext] = now]
  /\ starts' = Append(starts, now)
  /\ UNCHANGED respawnNext

\* MUTANT of TakeRespawnStamp: the index runs off the end of the array.
StampPastTheEnd ==
  /\ respawns' = [respawns EXCEPT ![respawnNext] = now]
  /\ respawnNext' = respawnNext + 1
  /\ starts' = Append(starts, now)

TakeRespawnStamp ==
  /\ respawns' = [respawns EXCEPT ![respawnNext] = now]
  /\ respawnNext' = (respawnNext + 1) % RespawnMax
  /\ starts' = Append(starts, now)

\* lock_spawn_command() succeeding: one more lock program on its way.
Spawn(procs) ==
  \E c \in Lockers :
    /\ procs[c] = "idle"
    /\ lockers' = [procs EXCEPT ![c] = "starting"]

\* gowl_compositor_set_locked(TRUE), the module's lock.  The state is set
\* before the focus is cleared, so the gate refuses the clear.
SetLocked ==
  IF locked
  THEN UNCHANGED compVars
  ELSE /\ locked' = TRUE
       /\ lockedBg' = TRUE
       /\ exclusiveLayer' = FALSE
       /\ focus' = FocusClient(TRUE, FALSE, exclusiveFocus, focus, "nobody")
       /\ hint' = TRUE
       /\ UNCHANGED <<curLock, surfaces>>

\* MUTANT of SetUnlocked: the change is not announced.
UnlockUnannounced ==
  IF ~locked
  THEN UNCHANGED compVars
  ELSE /\ locked' = FALSE
       /\ lockedBg' = FALSE
       /\ focus' = FocusClient(FALSE, exclusiveLayer, exclusiveFocus, focus,
                               FocusTop)
       /\ UNCHANGED <<curLock, surfaces, exclusiveLayer, hint>>

\* gowl_compositor_set_locked(FALSE): the module's unlock.
SetUnlocked ==
  IF ~locked
  THEN UNCHANGED compVars
  ELSE /\ locked' = FALSE
       /\ lockedBg' = FALSE
       /\ focus' = FocusClient(FALSE, exclusiveLayer, exclusiveFocus, focus,
                               FocusTop)
       /\ hint' = FALSE
       /\ UNCHANGED <<curLock, surfaces, exclusiveLayer>>

\* gowl_module_manager_dispatch_lock() reaching screenlock_on_lock().
DispatchLock ==
  IF ModuleActive /\ ~isLocked
  THEN /\ isLocked' = TRUE
       /\ authenticating' = FALSE
       /\ SetLocked
       /\ UNCHANGED auths
  ELSE UNCHANGED <<moduleVars, compVars>>

\* MUTANT of OpenSession: the focus is restored while the gate is still shut.
OpenSessionFocusFirst ==
  /\ locked' = FALSE
  /\ lockedBg' = FALSE
  /\ curLock' = NoLocker
  /\ surfaces' = {}
  /\ focus' = WithoutLockSurfaces(
                FocusClient(TRUE, exclusiveLayer, exclusiveFocus, focus, FocusTop))
  /\ hint' = FALSE
  /\ UNCHANGED exclusiveLayer

\* The tail every route out of a client's lock shares: cur_lock forgotten,
\* the session open, the keyboard handed to the top window.  The client's
\* surfaces go away, before or just after, and take their focus with them.
OpenSession ==
  /\ locked' = FALSE
  /\ lockedBg' = FALSE
  /\ curLock' = NoLocker
  /\ surfaces' = {}
  /\ focus' = WithoutLockSurfaces(
                FocusClient(FALSE, exclusiveLayer, exclusiveFocus, focus, FocusTop))
  /\ hint' = FALSE
  /\ UNCHANGED exclusiveLayer

\* gowl_frame_sink_is_empty(), gowl_frame_sink_has_blank().
HasNoFrame(sink) == \A o \in Outputs : sink[o] = "none"
HasBlank(sink) == \E o \in Outputs : sink[o] = "blank"

\* The backdrop is restored when the last frame under a lock goes.
LockFramesCleared(gone) ==
  /\ lockSink' = [o \in Outputs |-> IF o \in gone THEN "none" ELSE lockSink[o]]
  /\ lockedBg' =
       (lockedBg \/ (locked /\ ~HasNoFrame(lockSink) /\ HasNoFrame(lockSink')))

-----------------------------------------------------------------------------
(* The compositor's requests: a keybind, IPC, logind.                      *)

\* gowl_compositor_lock_session() on an open session.  The stamp is taken
\* even when the program then fails to start.
LockSession ==
  /\ ~locked
  /\ \/ /\ RespawnAllowed
        /\ TRUE \in SpawnResults
        /\ TakeRespawnStamp
        /\ Spawn(lockers)
        /\ UNCHANGED <<compVars, moduleVars>>
     \/ /\ RespawnAllowed
        /\ FALSE \in SpawnResults
        /\ TakeRespawnStamp
        /\ DispatchLock
        /\ UNCHANGED lockers
     \/ /\ ~RespawnAllowed
        /\ DispatchLock
        /\ UNCHANGED <<respawnVars, lockers>>
  /\ lockAsked' = ~locked'
  /\ UNCHANGED <<deskVars, outputVars, now, overrides>>

\* gowl_compositor_unlock_session(), the administrative unlock.  Whoever
\* holds the lock is taken down: the client by destroying its lock (the
\* module is then not told), otherwise the module by its own unlock, and a
\* session nobody holds is opened all the same.
UnlockSession ==
  /\ locked
  /\ overrides > 0
  /\ overrides' = overrides - 1
  /\ OpenSession
  /\ IF curLock # NoLocker
     THEN /\ lockers' = [lockers EXCEPT ![curLock] = "refused"]
          /\ UNCHANGED moduleVars
     ELSE /\ isLocked' = FALSE
          /\ authenticating' = (authenticating /\ ~isLocked)
          /\ UNCHANGED <<lockers, auths>>
  /\ UNCHANGED <<deskVars, respawnVars, outputVars, now, lockAsked>>

-----------------------------------------------------------------------------
(* Lock programs, and the handlers their requests run.                     *)

\* A lock program started by hand rather than by the compositor.
StartLocker(c) ==
  /\ lockers[c] = "idle"
  /\ lockers' = [lockers EXCEPT ![c] = "starting"]
  /\ UNCHANGED <<compVars, deskVars, moduleVars, respawnVars, outputVars, now,
                 overrides, lockAsked>>

\* MUTANT of NewSessionLock: a second client takes the session over.
NewLockTakesOver(c) ==
  /\ lockers[c] = "starting"
  /\ lockedBg' = TRUE
  /\ lockers' = [lockers EXCEPT ![c] = "holding"]
  /\ exclusiveLayer' = FALSE
  /\ focus' = FocusClient(locked, FALSE, exclusiveFocus, focus, "nobody")
  /\ curLock' = c
  /\ locked' = TRUE
  /\ hint' = TRUE
  /\ lockAsked' = (lockAsked /\ ~locked')
  /\ UNCHANGED <<surfaces, deskVars, moduleVars, respawnVars, outputVars, now,
                 overrides>>

\* MUTANT of NewSessionLock: the launcher keeps its grab.
LockKeepsGrab(c) ==
  /\ lockers[c] = "starting"
  /\ curLock = NoLocker
  /\ lockers' = [lockers EXCEPT ![c] = "holding"]
  /\ focus' = FocusClient(locked, exclusiveLayer, exclusiveFocus, focus, "nobody")
  /\ curLock' = c
  /\ locked' = TRUE /\ lockedBg' = TRUE /\ hint' = TRUE
  /\ lockAsked' = FALSE
  /\ UNCHANGED <<surfaces, exclusiveLayer, deskVars, moduleVars, respawnVars,
                 outputVars, now, overrides>>

\* MUTANT of NewSessionLock: the gate is shut before the keyboard is cleared.
LockThenClear(c) ==
  /\ lockers[c] = "starting"
  /\ curLock = NoLocker
  /\ lockers' = [lockers EXCEPT ![c] = "holding"]
  /\ exclusiveLayer' = FALSE
  /\ focus' = FocusClient(TRUE, FALSE, exclusiveFocus, focus, "nobody")
  /\ curLock' = c
  /\ locked' = TRUE /\ lockedBg' = TRUE /\ hint' = TRUE
  /\ lockAsked' = FALSE
  /\ UNCHANGED <<surfaces, deskVars, moduleVars, respawnVars, outputVars, now,
                 overrides>>

\* on_new_session_lock(): the backdrop goes up before the second client is
\* turned away; the first takes the session at once.
NewSessionLock(c) ==
  /\ lockers[c] = "starting"
  /\ lockedBg' = TRUE
  /\ IF curLock # NoLocker
     THEN /\ lockers' = [lockers EXCEPT ![c] = "refused"]
          /\ UNCHANGED <<locked, curLock, surfaces, focus, exclusiveLayer, hint>>
     ELSE /\ lockers' = [lockers EXCEPT ![c] = "holding"]
          /\ exclusiveLayer' = FALSE
          /\ focus' = FocusClient(locked, FALSE, exclusiveFocus, focus, "nobody")
          /\ curLock' = c
          /\ locked' = TRUE
          /\ hint' = TRUE
          /\ UNCHANGED surfaces
  /\ lockAsked' = (lockAsked /\ ~locked')
  /\ UNCHANGED <<deskVars, moduleVars, respawnVars, outputVars, now, overrides>>

\* on_lock_surface_create(): each new lock surface is given the keyboard.
LockSurfaceCreate(o) ==
  /\ curLock # NoLocker
  /\ o \in outputs \ surfaces
  /\ surfaces' = surfaces \cup {o}
  /\ focus' = o
  /\ UNCHANGED <<locked, lockedBg, curLock, exclusiveLayer, hint, deskVars,
                 moduleVars, respawnVars, outputVars, lockers, now, overrides,
                 lockAsked>>

\* on_lock_surface_destroy(): the client destroys the surface of a display
\* that was unplugged.  Only bookkeeping: nobody is given the keyboard it had.
LockSurfaceDestroy(o) ==
  /\ curLock # NoLocker
  /\ focus = o
  /\ o \notin surfaces
  /\ focus' = "nobody"
  /\ UNCHANGED <<locked, lockedBg, curLock, surfaces, exclusiveLayer, hint,
                 deskVars, moduleVars, respawnVars, outputVars, lockers, now,
                 overrides, lockAsked>>

\* gowl_lock_auth_result(TRUE): the lock program's own PAM accepted.
LockerAccepts(c) ==
  /\ lockers[c] = "holding"
  /\ lockers' = [lockers EXCEPT ![c] = "accepted"]
  /\ UNCHANGED <<compVars, deskVars, moduleVars, respawnVars, outputVars, now,
                 overrides, lockAsked>>

\* on_session_unlock(): unlock_and_destroy from the client that holds it.
SessionUnlock(c) ==
  /\ lockers[c] = "accepted"
  /\ lockers' = [lockers EXCEPT ![c] = "idle"]
  /\ OpenSession
  /\ UNCHANGED <<deskVars, moduleVars, respawnVars, outputVars, now, overrides,
                 lockAsked>>

\* A program exits or crashes without holding the lock.  Nothing in the
\* compositor watches for it.
LockerExits(c) ==
  /\ lockers[c] \in {"starting", "refused"}
  /\ lockers' = [lockers EXCEPT ![c] = "idle"]
  /\ UNCHANGED <<compVars, deskVars, moduleVars, respawnVars, outputVars, now,
                 overrides, lockAsked>>

\* MUTANT of SessionLockDestroy: a client that dies leaves the session open.
CrashOpens(c) ==
  /\ lockers[c] \in {"holding", "accepted"}
  /\ lockers' = [lockers EXCEPT ![c] = "idle"]
  /\ OpenSession
  /\ UNCHANGED <<deskVars, moduleVars, respawnVars, outputVars, now, overrides,
                 lockAsked>>

\* on_session_lock_destroy(): the holder died without unlocking.  The session
\* stays as it is and the program is started again, budget permitting.
SessionLockDestroy(c) ==
  /\ lockers[c] \in {"holding", "accepted"}
  /\ curLock' = NoLocker
  /\ surfaces' = {}
  /\ focus' = WithoutLockSurfaces(focus)
  /\ LET left == [lockers EXCEPT ![c] = "idle"]
     IN \/ /\ locked /\ RespawnAllowed
           /\ TRUE \in SpawnResults
           /\ TakeRespawnStamp
           /\ Spawn(left)
        \/ /\ locked /\ RespawnAllowed
           /\ FALSE \in SpawnResults
           /\ TakeRespawnStamp
           /\ lockers' = left
        \/ /\ ~(locked /\ RespawnAllowed)
           /\ lockers' = left
           /\ UNCHANGED respawnVars
  /\ UNCHANGED <<locked, lockedBg, exclusiveLayer, hint, deskVars, moduleVars,
                 outputVars, now, overrides, lockAsked>>

-----------------------------------------------------------------------------
(* The screenlock module.                                                  *)

\* on_idle_lock_timeout(): straight to the module, whoever holds the lock.
IdleLockTimeout ==
  /\ ModuleActive
  /\ ~isLocked
  /\ DispatchLock
  /\ lockAsked' = (lockAsked /\ ~locked')
  /\ UNCHANGED <<deskVars, respawnVars, outputVars, lockers, now, overrides>>

\* compositor_handle_key() with no lock client: Return reaches
\* screenlock_start_auth() and a PAM thread starts on a password that is
\* right ("ok") or wrong ("fail").
StartAuth(answer) ==
  /\ locked /\ curLock = NoLocker
  /\ isLocked /\ ~authenticating
  /\ auths["ok"] + auths["fail"] < MaxAuth
  /\ authenticating' = TRUE
  /\ auths' = [auths EXCEPT ![answer] = @ + 1]
  /\ UNCHANGED <<compVars, deskVars, respawnVars, isLocked, outputVars, lockers,
                 now, overrides, lockAsked>>

\* MUTANT of PamResult: a wrong password leaves the prompt waiting.
WrongPasswordHangs(answer) ==
  /\ auths[answer] > 0
  /\ auths' = [auths EXCEPT ![answer] = @ - 1]
  /\ IF answer = "ok"
     THEN isLocked' = FALSE /\ authenticating' = FALSE /\ SetUnlocked
     ELSE UNCHANGED <<isLocked, authenticating, compVars>>
  /\ UNCHANGED <<deskVars, respawnVars, outputVars, lockers, now, overrides,
                 lockAsked>>

\* pam_auth_thread() writing its byte and on_pam_result() reading it.  Threads
\* finish in any order, so any answer in flight may be the next.
PamResult(answer) ==
  /\ auths[answer] > 0
  /\ auths' = [auths EXCEPT ![answer] = @ - 1]
  /\ authenticating' = FALSE
  /\ IF answer = "ok"
     THEN isLocked' = FALSE /\ SetUnlocked
     ELSE UNCHANGED <<isLocked, compVars>>
  /\ UNCHANGED <<deskVars, respawnVars, outputVars, lockers, now, overrides,
                 lockAsked>>

-----------------------------------------------------------------------------
(* The desktop underneath, the displays and the clock.                     *)

\* A window maps or is clicked: gowl_compositor_focus_client(c).
FocusWindow ==
  /\ window' = TRUE
  /\ focus' = FocusClient(locked, exclusiveLayer, exclusiveFocus, focus, "window")
  /\ UNCHANGED <<locked, lockedBg, curLock, surfaces, exclusiveLayer, hint,
                 exclusiveFocus, moduleVars, respawnVars, outputVars, lockers, now,
                 overrides, lockAsked>>

\* The last window unmaps; its surface takes the focus with it.
WindowUnmap ==
  /\ window
  /\ window' = FALSE
  /\ focus' = IF focus = "window" THEN "nobody" ELSE focus
  /\ UNCHANGED <<locked, lockedBg, curLock, surfaces, exclusiveLayer, hint,
                 exclusiveFocus, moduleVars, respawnVars, outputVars, lockers, now,
                 overrides, lockAsked>>

\* on_layer_commit() of a keyboard-interactive surface: arrangelayers() grants
\* it the keyboard unless the session is locked.
LayerCommit ==
  /\ "layer" \in Grabbers
  /\ LayerTakesKeyboard(locked, TRUE, 1, LayerKeyboardMin)
  /\ exclusiveLayer' = TRUE
  /\ focus' = "layer"
  /\ UNCHANGED <<locked, lockedBg, curLock, surfaces, hint, deskVars,
                 moduleVars, respawnVars, outputVars, lockers, now, overrides,
                 lockAsked>>

\* on_layer_unmap() and on_layer_destroy(): the grab is released first, then
\* the keyboard goes back to the top window, the gate permitting.
LayerUnmap ==
  /\ exclusiveLayer \/ focus = "layer"
  /\ exclusiveLayer' = FALSE
  /\ focus' = IF focus = "layer"
              THEN FocusClient(locked, FALSE, exclusiveFocus, "nobody", FocusTop)
              ELSE focus
  /\ UNCHANGED <<locked, lockedBg, curLock, surfaces, hint, deskVars,
                 moduleVars, respawnVars, outputVars, lockers, now, overrides,
                 lockAsked>>

\* on_client_map() of an X11 override-redirect popup that wants the keyboard.
PopupMap ==
  /\ "popup" \in Grabbers
  /\ ~exclusiveFocus
  /\ exclusiveFocus' = TRUE
  /\ focus' = FocusClient(locked, exclusiveLayer, TRUE, focus, "popup")
  /\ UNCHANGED <<locked, lockedBg, curLock, surfaces, exclusiveLayer, hint,
                 window, moduleVars, respawnVars, outputVars, lockers, now,
                 overrides, lockAsked>>

\* on_client_unmap() of that popup.
PopupUnmap ==
  /\ exclusiveFocus
  /\ exclusiveFocus' = FALSE
  /\ focus' = IF focus = "popup"
              THEN FocusClient(locked, exclusiveLayer, FALSE, "nobody", FocusTop)
              ELSE focus
  /\ UNCHANGED <<locked, lockedBg, curLock, surfaces, exclusiveLayer, hint,
                 window, moduleVars, respawnVars, outputVars, lockers, now,
                 overrides, lockAsked>>

\* A display is plugged in: on_layout_change() keeps the backdrop over it.
PlugOutput(o) ==
  /\ o \notin outputs
  /\ outputs' = outputs \cup {o}
  /\ UNCHANGED <<compVars, deskVars, moduleVars, respawnVars, lockSink, lockers,
                 now, overrides, lockAsked>>

\* A display is unplugged: its frame goes, wlroots takes its lock surface's
\* role away and on_lock_surface_destroy() forgets it.  The client has yet to
\* hear of it.
UnplugOutput(o) ==
  /\ o \in outputs
  /\ outputs' = outputs \ {o}
  /\ surfaces' = surfaces \ {o}
  /\ LockFramesCleared({o})
  /\ UNCHANGED <<locked, curLock, focus, exclusiveLayer, hint, deskVars,
                 moduleVars, respawnVars, lockers, now, overrides, lockAsked>>

-----------------------------------------------------------------------------
(* The animated lock background: whoever draws it calls into the           *)
(* compositor, locked or not.                                              *)

\* MUTANT of PushLockFrame: one frame hides the backdrop, whatever the others show.
OneFrameHidesBackdrop(o) ==
  /\ o \in outputs
  /\ lockSink' = [lockSink EXCEPT ![o] = "shown"]
  /\ lockedBg' = FALSE
  /\ UNCHANGED <<locked, curLock, surfaces, focus, exclusiveLayer, hint, deskVars,
                 moduleVars, respawnVars, outputs, lockers, now, overrides,
                 lockAsked>>

\* gowl_compositor_push_lock_frame(): the opaque backdrop gives way, unless a
\* frame is waiting for new pixels.
PushLockFrame(o) ==
  /\ o \in outputs
  /\ lockSink' = [lockSink EXCEPT ![o] = "shown"]
  /\ lockedBg' = (lockedBg /\ HasBlank(lockSink'))
  /\ UNCHANGED <<locked, curLock, surfaces, focus, exclusiveLayer, hint, deskVars,
                 moduleVars, respawnVars, outputs, lockers, now, overrides,
                 lockAsked>>

\* gowl_compositor_clear_lock_frame(), of one display or of all.
ClearLockFrame(gone) ==
  /\ ~HasNoFrame(lockSink)
  /\ LockFramesCleared(gone)
  /\ UNCHANGED <<locked, curLock, surfaces, focus, exclusiveLayer, hint, deskVars,
                 moduleVars, respawnVars, outputs, lockers, now, overrides,
                 lockAsked>>

\* gpu_reset_swap(), once a new renderer is made: the frames' pixels are lost
\* and the backdrop is put in front of them.
GpuReset ==
  /\ ~HasNoFrame(lockSink)
  /\ lockSink' = [o \in Outputs |-> IF lockSink[o] = "none" THEN "none" ELSE "blank"]
  /\ lockedBg' = (lockedBg \/ locked)
  /\ UNCHANGED <<locked, curLock, surfaces, focus, exclusiveLayer, hint, deskVars,
                 moduleVars, respawnVars, outputs, lockers, now, overrides,
                 lockAsked>>

Tick ==
  /\ now < MaxTime
  /\ now' = now + 1
  /\ UNCHANGED <<compVars, deskVars, moduleVars, respawnVars, outputVars, lockers,
                 overrides, lockAsked>>

-----------------------------------------------------------------------------
Init ==
  /\ locked = FALSE /\ lockedBg = FALSE
  /\ curLock = NoLocker /\ surfaces = {} /\ outputs = Outputs
  /\ lockSink = [o \in Outputs |-> "none"]
  /\ focus = "nobody" /\ exclusiveLayer = FALSE /\ exclusiveFocus = FALSE
  /\ window = FALSE
  /\ respawns = [i \in 0..(RespawnMax - 1) |-> 0] /\ respawnNext = 0
  /\ hint = FALSE
  /\ lockers = [c \in Lockers |-> "idle"]
  /\ isLocked = FALSE /\ authenticating = FALSE
  /\ auths = [r \in {"ok", "fail"} |-> 0]
  /\ now = 1 /\ overrides = MaxOverrides /\ starts = <<>> /\ lockAsked = FALSE

LockerStep(c) ==
  \/ StartLocker(c) \/ NewSessionLock(c) \/ LockerAccepts(c)
  \/ SessionUnlock(c) \/ LockerExits(c) \/ SessionLockDestroy(c)

OutputStep(o) ==
  \/ LockSurfaceCreate(o) \/ LockSurfaceDestroy(o)
  \/ PlugOutput(o) \/ UnplugOutput(o)

ModuleStep ==
  \/ IdleLockTimeout
  \/ \E answer \in {"ok", "fail"} : StartAuth(answer) \/ PamResult(answer)

DesktopStep ==
  \/ FocusWindow \/ WindowUnmap \/ LayerCommit \/ LayerUnmap
  \/ PopupMap \/ PopupUnmap

FrameStep ==
  \/ \E o \in Framed : PushLockFrame(o) \/ ClearLockFrame({o})
  \/ ClearLockFrame(Outputs)
  \/ GpuReset

Next ==
  \/ LockSession
  \/ UnlockSession
  \/ \E c \in Lockers : LockerStep(c)
  \/ \E o \in Outputs : OutputStep(o)
  \/ ModuleStep
  \/ DesktopStep
  \/ FrameStep
  \/ Tick

Spec == Init /\ [][Next]_vars

-----------------------------------------------------------------------------
(* Properties.                                                             *)

\* Every variable holds a value the program can store in it.
TypeOK ==
  /\ locked \in BOOLEAN /\ lockedBg \in BOOLEAN
  /\ curLock \in Lockers \cup {NoLocker}
  /\ outputs \subseteq Outputs /\ surfaces \subseteq outputs
  /\ lockSink \in [Outputs -> {"none", "shown", "blank"}]
  /\ \A o \in Outputs \ outputs : lockSink[o] = "none"
  /\ focus \in Desktop \cup {"nobody"} \cup Outputs
  /\ exclusiveLayer \in BOOLEAN /\ exclusiveFocus \in BOOLEAN
  /\ window \in BOOLEAN /\ hint \in BOOLEAN
  /\ respawns \in [0..(RespawnMax - 1) -> 0..MaxTime]
  /\ respawnNext \in 0..(RespawnMax - 1)
  /\ lockers \in [Lockers -> LockerStates]
  /\ isLocked \in BOOLEAN /\ authenticating \in BOOLEAN
  /\ auths \in [{"ok", "fail"} -> Nat]
  /\ now \in 1..MaxTime /\ overrides \in 0..MaxOverrides
  /\ starts \in Seq(1..MaxTime)
  /\ lockAsked \in BOOLEAN

\* One lock client at a time holds the session, and cur_lock is that client:
\* whatever order programs start, engage, die and are taken down in, a second
\* one never believes it has the screen and a dead one is never pointed at.
OneHolder ==
  \A c \in Lockers : lockers[c] \in {"holding", "accepted"} <=> c = curLock

\* A locked session is behind the opaque backdrop, or behind frames none of
\* which has lost its pixels: whoever locked it and whatever happened since -- two
\* lockers, a crash, a GPU reset before or under the lock, frames pushed and
\* cleared in any order, the display of the last frame unplugged.
LockedIsCovered ==
  locked => lockedBg \/ (~HasNoFrame(lockSink) /\ ~HasBlank(lockSink))

\* No launcher keeps the keyboard grab under a lock.  It is what makes the
\* restore on unlock succeed: the gate refuses every focus change while a
\* layer surface holds the grab.
NoGrabUnderLock == locked => ~exclusiveLayer

\* Unlocking, by any route, hands the keyboard to the top window (or to
\* nobody when there is none), unless an X11 popup holds its own grab.
UnlockRestoresFocus ==
  [][locked /\ ~locked' /\ ~exclusiveFocus => focus' = FocusTop]_vars

\* Where compositor_handle_key() sends a key that no `locked' bind takes.
KeyGoesTo ==
  IF locked /\ curLock = NoLocker THEN "module" ELSE focus

\* While the session is locked no key reaches a desktop window, a launcher or
\* a popup: what the comment at the top of the locked branch of
\* compositor_handle_key() says.
NoKeysToDesktop == locked => KeyGoesTo \notin Desktop

\* Lock programs are started at most RespawnMax times in any RespawnWindow,
\* by crash restarts, keybinds, IPC and suspends together.
RespawnBudget ==
  \A i \in 1..Len(starts) :
    i + RespawnMax <= Len(starts) =>
      starts[i + RespawnMax] - starts[i] >= RespawnWindow

\* The screenlock prompt never goes deaf: while it ignores keys because PAM
\* is thinking, an answer that will make it listen again is on its way.
PromptAnswers == authenticating => auths["ok"] + auths["fail"] > 0

\* The last announcement (lock-changed, the IPC event, logind's copy) says
\* what the compositor's state is.
AnnouncedState == hint = locked

\* The permissions outstanding: administrators who have not unlocked yet, a
\* lock client whose PAM accepted, right passwords PAM is still checking.
Permits ==
  overrides + auths["ok"]
    + IF curLock # NoLocker /\ lockers[curLock] = "accepted" THEN 1 ELSE 0

Contract == INSTANCE LockContract WITH sealed <- locked, permits <- Permits

\* The whole machinery implements the contract of a lock: see LockContract.
KeepsContract == Contract!ContractSpec

\* "A lock client is up: the seat is focused on its surface" -- once the
\* client has a surface on some display, the keyboard is on the client.
LockScreenHasKeyboard ==
  locked /\ curLock # NoLocker /\ surfaces # {} => focus \in Outputs

\* A lock that was asked for and has not come up still has a program on its
\* way to bring it up: lock_session() never silently does nothing.
RequestHasALocker ==
  lockAsked => locked \/ \E c \in Lockers : lockers[c] = "starting"

\* gowl_compositor_push_lock_frame(), of the backdrop after a reset: "it goes
\* again only once each monitor has a new one, or a monitor still waiting for
\* its frame would show the desktop through the lock."
EachScreenIsCovered ==
  locked => lockedBg \/ \A o \in outputs : lockSink[o] = "shown"

\* "A failure to start the program falls back to the module rather than
\* leaving the desktop open": a lock request that starts no program locks.
FallbackLocks == [][LockSession /\ UNCHANGED lockers => locked']_vars

=============================================================================
