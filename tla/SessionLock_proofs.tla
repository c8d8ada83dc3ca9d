------------------------- MODULE SessionLock_proofs -------------------------
(***************************************************************************)
(* Proofs about SessionLock, for every number of lock programs, displays,  *)
(* stamps and clock ticks, with and without the module.                    *)
(***************************************************************************)
EXTENDS SessionLock, FiniteSetTheorems, TLAPS

USE DEF outputVars

-----------------------------------------------------------------------------
(* Lemmas about the helpers.                                               *)

\* A focus change goes to its target or leaves the keyboard where it was.
LEMMA FocusClientChoice ==
  ASSUME NEW lk, NEW grab, NEW popup, NEW old, NEW target
  PROVE  FocusClient(lk, grab, popup, old, target) \in {old, target}
  BY DEF FocusClient

\* With the session open, no grab and no popup, every focus change succeeds.
LEMMA GateOpen ==
  ASSUME NEW old, NEW target
  PROVE  FocusClient(FALSE, FALSE, FALSE, old, target) = target
  BY DEF FocusClient, FocusAllowed

\* The top window is never a lock surface.
LEMMA FocusTopType ==
  FocusTop \in {"window", "nobody"} /\ FocusTop \notin Outputs
  BY SessionLockAssumption DEF FocusTop, SessionLockAssumption, Desktop

Places == Desktop \cup {"nobody"} \cup Outputs

LEMMA FocusClientType ==
  ASSUME NEW lk, NEW grab, NEW popup, NEW old \in Places, NEW target \in Places
  PROVE  FocusClient(lk, grab, popup, old, target) \in Places
  BY FocusClientChoice

LEMMA WithoutLockSurfacesType ==
  ASSUME NEW f \in Places
  PROVE  WithoutLockSurfaces(f) \in Places
  BY DEF WithoutLockSurfaces, Places

-----------------------------------------------------------------------------
(* Type correctness, one part of the state at a time.                      *)

CompType ==
  /\ locked \in BOOLEAN /\ lockedBg \in BOOLEAN
  /\ curLock \in Lockers \cup {NoLocker}
  /\ surfaces \subseteq outputs
  /\ focus \in Places
  /\ exclusiveLayer \in BOOLEAN /\ hint \in BOOLEAN

RespawnType ==
  /\ respawns \in [0..(RespawnMax - 1) -> 0..MaxTime]
  /\ respawnNext \in 0..(RespawnMax - 1)
  /\ starts \in Seq(1..MaxTime)

LEMMA SetLockedType ==
  ASSUME TypeOK, SetLocked, outputs' = outputs PROVE CompType'
  <1>1. focus \in Places /\ "nobody" \in Places BY DEF TypeOK, Places
  <1>2. focus' \in Places
    BY <1>1, FocusClientType DEF SetLocked, compVars
  <1> QED BY <1>2 DEF SetLocked, compVars, CompType, TypeOK

LEMMA SetUnlockedType ==
  ASSUME TypeOK, SetUnlocked, outputs' = outputs PROVE CompType'
  <1>1. focus \in Places /\ FocusTop \in Places
    BY FocusTopType DEF TypeOK, Places, Desktop
  <1>2. focus' \in Places
    BY <1>1, FocusClientType DEF SetUnlocked, compVars
  <1> QED BY <1>2 DEF SetUnlocked, compVars, CompType, TypeOK

LEMMA OpenSessionType ==
  ASSUME TypeOK, OpenSession, outputs' = outputs PROVE CompType'
  <1>1. focus \in Places /\ FocusTop \in Places
    BY FocusTopType DEF TypeOK, Places, Desktop
  <1>2. focus' \in Places
    BY <1>1, FocusClientType, WithoutLockSurfacesType DEF OpenSession
  <1> QED BY <1>2 DEF OpenSession, CompType, TypeOK

LEMMA DispatchLockType ==
  ASSUME TypeOK, DispatchLock, outputs' = outputs
  PROVE  CompType' /\ isLocked' \in BOOLEAN /\ authenticating' \in BOOLEAN
         /\ auths' = auths
  <1>1. CASE ModuleActive /\ ~isLocked
    BY <1>1, SetLockedType DEF DispatchLock
  <1>2. CASE ~(ModuleActive /\ ~isLocked)
    BY <1>2 DEF DispatchLock, moduleVars, compVars, TypeOK, CompType, Places
  <1> QED BY <1>1, <1>2

\* The ring index stays inside the ring.
LEMMA RingStep ==
  ASSUME NEW R \in Nat \ {0}, NEW i \in 0..(R - 1)
  PROVE  (i + 1) % R = IF i + 1 = R THEN 0 ELSE i + 1
  OBVIOUS

LEMMA TakeRespawnStampType ==
  ASSUME TypeOK, TakeRespawnStamp PROVE RespawnType'
  <1>1. respawnNext' \in 0..(RespawnMax - 1)
    BY RingStep, SessionLockAssumption
    DEF TypeOK, TakeRespawnStamp, SessionLockAssumption
  <1>2. respawns' \in [0..(RespawnMax - 1) -> 0..MaxTime]
    BY DEF TypeOK, TakeRespawnStamp
  <1>3. starts' \in Seq(1..MaxTime)
    BY DEF TypeOK, TakeRespawnStamp
  <1> QED BY <1>1, <1>2, <1>3 DEF RespawnType

LEMMA SpawnType ==
  ASSUME NEW procs \in [Lockers -> LockerStates], Spawn(procs)
  PROVE  lockers' \in [Lockers -> LockerStates]
  BY DEF Spawn, LockerStates

SinkType ==
  /\ lockSink \in [Outputs -> {"none", "shown", "blank"}]
  /\ \A o \in Outputs \ outputs : lockSink[o] = "none"

\* Frames only concern the backdrop and the frames themselves.
LEMMA FrameStepLeaves ==
  ASSUME FrameStep
  PROVE  /\ UNCHANGED <<locked, curLock, surfaces, focus, exclusiveLayer, hint>>
         /\ UNCHANGED <<exclusiveFocus, window>>
         /\ UNCHANGED <<isLocked, authenticating, auths>>
         /\ UNCHANGED <<respawns, respawnNext, starts>>
         /\ UNCHANGED <<outputs, lockers, now, overrides, lockAsked>>
  BY DEF FrameStep, PushLockFrame, ClearLockFrame, GpuReset, deskVars, moduleVars,
         respawnVars

LEMMA FrameStepType ==
  ASSUME TypeOK, FrameStep PROVE lockedBg' \in BOOLEAN /\ SinkType'
  <1> USE SessionLockAssumption DEF SessionLockAssumption, TypeOK, SinkType
  <1>1. ASSUME NEW o \in Framed, PushLockFrame(o) PROVE lockedBg' \in BOOLEAN /\ SinkType'
    BY <1>1 DEF PushLockFrame
  <1>2. ASSUME NEW gone, ClearLockFrame(gone) PROVE lockedBg' \in BOOLEAN /\ SinkType'
    BY <1>2 DEF ClearLockFrame, LockFramesCleared
  <1>3. CASE GpuReset
    BY <1>3 DEF GpuReset
  <1> QED BY <1>1, <1>2, <1>3 DEF FrameStep

LEMMA InitType == Init => TypeOK
  <1> SUFFICES ASSUME Init PROVE TypeOK
    OBVIOUS
  <1> USE SessionLockAssumption DEF SessionLockAssumption
  <1>1. /\ respawns \in [0..(RespawnMax - 1) -> 0..MaxTime]
        /\ respawnNext \in 0..(RespawnMax - 1)
        /\ starts \in Seq(1..MaxTime)
    BY DEF Init
  <1>2. /\ lockers \in [Lockers -> LockerStates]
        /\ auths \in [{"ok", "fail"} -> Nat]
        /\ now \in 1..MaxTime /\ overrides \in 0..MaxOverrides
    BY DEF Init, LockerStates
  <1> QED BY <1>1, <1>2 DEF Init, TypeOK

LEMMA TypeStep == TypeOK /\ [Next]_vars => TypeOK'
  <1> SUFFICES ASSUME TypeOK, [Next]_vars PROVE TypeOK'
    OBVIOUS
  <1> USE SessionLockAssumption DEF SessionLockAssumption, LockerStates
  <1>0. focus \in Places /\ FocusTop \in Places /\ "nobody" \in Places
        /\ "window" \in Places /\ "layer" \in Places /\ "popup" \in Places
    BY FocusTopType DEF TypeOK, Places, Desktop
  <1>1. ASSUME LockSession PROVE TypeOK'
    <2>1. outputs' = outputs BY <1>1 DEF LockSession
    <2>2. CompType' /\ isLocked' \in BOOLEAN /\ authenticating' \in BOOLEAN
          /\ auths' = auths
      BY <1>0, <1>1, <2>1, DispatchLockType
      DEF LockSession, compVars, moduleVars, TypeOK, CompType
    <2>3. RespawnType'
      BY <1>1, TakeRespawnStampType
      DEF LockSession, respawnVars, TypeOK, RespawnType
    <2>4. lockers' \in [Lockers -> LockerStates]
      BY <1>1, SpawnType DEF LockSession, TypeOK
    <2> QED
      BY <1>1, <2>1, <2>2, <2>3, <2>4
      DEF LockSession, deskVars, TypeOK, CompType, RespawnType, Places
  <1>2. ASSUME UnlockSession PROVE TypeOK'
    <2>1. CompType' BY <1>2, OpenSessionType DEF UnlockSession
    <2>2. /\ auths' = auths
          /\ lockers' \in [Lockers -> LockerStates]
          /\ overrides' \in 0..MaxOverrides
      BY <1>2 DEF UnlockSession, moduleVars, TypeOK
    <2>3. isLocked' \in BOOLEAN /\ authenticating' \in BOOLEAN
      BY <1>2, Zenon DEF UnlockSession, moduleVars, TypeOK
    <2> QED
      BY <1>2, <2>1, <2>2, <2>3
      DEF UnlockSession, deskVars, respawnVars, TypeOK, CompType, Places
  <1>3. ASSUME NEW c \in Lockers, LockerStep(c) PROVE TypeOK'
    <2>1. CASE StartLocker(c)
      BY <2>1 DEF StartLocker, compVars, deskVars, moduleVars, respawnVars, TypeOK
    <2>2. CASE NewSessionLock(c)
      <3>1. focus' \in Places
        <4>1. CASE curLock # NoLocker
          BY <1>0, <2>2, <4>1 DEF NewSessionLock
        <4>2. CASE curLock = NoLocker
          <5>1. focus' = FocusClient(locked, FALSE, exclusiveFocus, focus, "nobody")
            BY <2>2, <4>2 DEF NewSessionLock
          <5> QED BY <1>0, <5>1, FocusClientType
        <4> QED BY <4>1, <4>2
      <3>2. curLock' \in Lockers \cup {NoLocker} /\ surfaces' \subseteq outputs'
            /\ lockers' \in [Lockers -> LockerStates]
        <4>1. curLock' = curLock \/ curLock' = c
          BY <2>2 DEF NewSessionLock
        <4>2. surfaces' = surfaces /\ outputs' = outputs
          BY <2>2 DEF NewSessionLock
        <4>3. \/ lockers' = [lockers EXCEPT ![c] = "refused"]
              \/ lockers' = [lockers EXCEPT ![c] = "holding"]
          BY <2>2 DEF NewSessionLock
        <4>4. lockers' \in [Lockers -> LockerStates]
          BY <4>3 DEF TypeOK
        <4> QED BY <4>1, <4>2, <4>4 DEF TypeOK
      <3>3. /\ locked' \in BOOLEAN /\ lockedBg' \in BOOLEAN /\ hint' \in BOOLEAN
            /\ exclusiveLayer' \in BOOLEAN
        <4>1. lockedBg' = TRUE BY <2>2 DEF NewSessionLock
        <4>2. \/ UNCHANGED <<locked, exclusiveLayer, hint>>
              \/ locked' = TRUE /\ exclusiveLayer' = FALSE /\ hint' = TRUE
          BY <2>2 DEF NewSessionLock
        <4> QED BY <4>1, <4>2 DEF TypeOK
      <3>4. lockAsked' \in BOOLEAN
        <4>1. lockAsked' = (lockAsked /\ ~locked') BY <2>2 DEF NewSessionLock
        <4> QED BY <4>1
      <3> QED
        BY <2>2, <3>1, <3>2, <3>3, <3>4
        DEF NewSessionLock, deskVars, moduleVars, respawnVars, TypeOK, Places
    <2>3. CASE LockerAccepts(c)
      BY <2>3 DEF LockerAccepts, compVars, deskVars, moduleVars, respawnVars, TypeOK
    <2>4. CASE SessionUnlock(c)
      <3>1. CompType' BY <2>4, OpenSessionType DEF SessionUnlock
      <3> QED
        BY <2>4, <3>1
        DEF SessionUnlock, deskVars, moduleVars, respawnVars, TypeOK, CompType, Places
    <2>5. CASE LockerExits(c)
      BY <2>5 DEF LockerExits, compVars, deskVars, moduleVars, respawnVars, TypeOK
    <2>6. CASE SessionLockDestroy(c)
      <3>1. focus' \in Places
        BY <1>0, <2>6, WithoutLockSurfacesType DEF SessionLockDestroy
      <3>2. RespawnType'
        BY <2>6, TakeRespawnStampType
        DEF SessionLockDestroy, respawnVars, TypeOK, RespawnType
      <3>3. lockers' \in [Lockers -> LockerStates]
        <4> DEFINE left == [lockers EXCEPT ![c] = "idle"]
        <4>1. left \in [Lockers -> LockerStates] BY DEF TypeOK
        <4>2. Spawn(left) \/ lockers' = left
          BY <2>6 DEF SessionLockDestroy
        <4> QED BY <4>1, <4>2, SpawnType
      <3> QED
        BY <2>6, <3>1, <3>2, <3>3
        DEF SessionLockDestroy, deskVars, moduleVars, TypeOK, RespawnType, Places
    <2> QED BY <1>3, <2>1, <2>2, <2>3, <2>4, <2>5, <2>6 DEF LockerStep
  <1>4. ASSUME NEW o \in Outputs, OutputStep(o) PROVE TypeOK'
    <2>1. CASE LockSurfaceCreate(o)
      BY <2>1 DEF LockSurfaceCreate, deskVars, moduleVars, respawnVars, TypeOK
    <2>2. CASE LockSurfaceDestroy(o)
      BY <2>2 DEF LockSurfaceDestroy, deskVars, moduleVars, respawnVars, TypeOK
    <2>3. CASE PlugOutput(o)
      BY <2>3 DEF PlugOutput, compVars, deskVars, moduleVars, respawnVars, TypeOK
    <2>4. CASE UnplugOutput(o)
      <3>1. lockedBg' \in BOOLEAN /\ SinkType'
        BY <2>4 DEF UnplugOutput, LockFramesCleared, TypeOK, SinkType
      <3> QED
        BY <2>4, <3>1
        DEF UnplugOutput, deskVars, moduleVars, respawnVars, TypeOK, SinkType
    <2> QED BY <1>4, <2>1, <2>2, <2>3, <2>4 DEF OutputStep
  <1>5. ASSUME ModuleStep PROVE TypeOK'
    <2>1. CASE IdleLockTimeout
      <3>1. CompType' /\ isLocked' \in BOOLEAN /\ authenticating' \in BOOLEAN
            /\ auths' = auths
        BY <2>1, DispatchLockType DEF IdleLockTimeout
      <3> QED
        BY <2>1, <3>1
        DEF IdleLockTimeout, deskVars, respawnVars, TypeOK, CompType, Places
    <2>2. ASSUME NEW answer \in {"ok", "fail"}, StartAuth(answer) PROVE TypeOK'
      BY <2>2 DEF StartAuth, compVars, deskVars, respawnVars, TypeOK
    <2>3. ASSUME NEW answer \in {"ok", "fail"}, PamResult(answer) PROVE TypeOK'
      <3>1. auths' \in [{"ok", "fail"} -> Nat]
        BY <2>3 DEF PamResult, TypeOK
      <3>3. authenticating' \in BOOLEAN /\ isLocked' \in BOOLEAN
        BY <2>3 DEF PamResult, TypeOK
      <3>2. CompType'
        BY <1>0, <2>3, SetUnlockedType DEF PamResult, compVars, TypeOK, CompType
      <3> QED
        BY <2>3, <3>1, <3>2, <3>3
        DEF PamResult, deskVars, respawnVars, TypeOK, CompType, Places
    <2> QED BY <1>5, <2>1, <2>2, <2>3 DEF ModuleStep
  <1>6. ASSUME DesktopStep PROVE TypeOK'
    <2>1. CASE FocusWindow
      <3>1. focus' \in Places
        BY <1>0, <2>1, FocusClientType DEF FocusWindow
      <3> QED
        BY <2>1, <3>1
        DEF FocusWindow, deskVars, moduleVars, respawnVars, TypeOK, Places
    <2>2. CASE WindowUnmap
      <3>1. focus' \in Places
        BY <1>0, <2>2, FocusClientType DEF WindowUnmap
      <3> QED
        BY <2>2, <3>1
        DEF WindowUnmap, deskVars, moduleVars, respawnVars, TypeOK, Places
    <2>3. CASE LayerCommit
      <3>1. focus' \in Places
        BY <1>0, <2>3, FocusClientType DEF LayerCommit
      <3> QED
        BY <2>3, <3>1
        DEF LayerCommit, deskVars, moduleVars, respawnVars, TypeOK, Places
    <2>4. CASE LayerUnmap
      <3>1. focus' \in Places
        BY <1>0, <2>4, FocusClientType DEF LayerUnmap
      <3> QED
        BY <2>4, <3>1
        DEF LayerUnmap, deskVars, moduleVars, respawnVars, TypeOK, Places
    <2>5. CASE PopupMap
      <3>1. focus' \in Places
        BY <1>0, <2>5, FocusClientType DEF PopupMap
      <3> QED
        BY <2>5, <3>1
        DEF PopupMap, deskVars, moduleVars, respawnVars, TypeOK, Places
    <2>6. CASE PopupUnmap
      <3>1. focus' \in Places
        BY <1>0, <2>6, FocusClientType DEF PopupUnmap
      <3> QED
        BY <2>6, <3>1
        DEF PopupUnmap, deskVars, moduleVars, respawnVars, TypeOK, Places
    <2> QED BY <1>6, <2>1, <2>2, <2>3, <2>4, <2>5, <2>6 DEF DesktopStep
  <1>7. ASSUME Tick PROVE TypeOK'
    BY <1>7 DEF Tick, compVars, deskVars, moduleVars, respawnVars, TypeOK
  <1>8. ASSUME UNCHANGED vars PROVE TypeOK'
    BY <1>8 DEF vars, compVars, deskVars, moduleVars, respawnVars, TypeOK
  <1>9. ASSUME FrameStep PROVE TypeOK'
    BY <1>9, FrameStepLeaves, FrameStepType DEF TypeOK, SinkType
  <1> QED
    BY <1>1, <1>2, <1>3, <1>4, <1>5, <1>6, <1>7, <1>8, <1>9 DEF Next

\* Whatever the interleaving, every variable keeps a value the program can
\* store in it: the ring index stays inside the array, a lock surface is
\* always on a display that is plugged in, cur_lock is a client or NULL.
THEOREM TypeCorrect == Spec => []TypeOK
  BY InitType, TypeStep, PTL DEF Spec

-----------------------------------------------------------------------------
(* The lock state: what covers a locked screen, what may grab its keyboard *)
(* and what has been announced of it.  The three are written together by   *)
(* every route in and out of a lock, so their conjunction is inductive.    *)

LockInv == LockedIsCovered /\ NoGrabUnderLock /\ AnnouncedState

LEMMA CompUnchangedInv == LockInv /\ UNCHANGED <<compVars, lockSink>> => LockInv'
  BY DEF compVars, LockInv, LockedIsCovered, NoGrabUnderLock, AnnouncedState

LEMMA SetLockedInv == LockInv /\ SetLocked /\ UNCHANGED lockSink => LockInv'
  <1>1. CASE locked
    BY <1>1, CompUnchangedInv DEF SetLocked
  <1>2. CASE ~(locked)
    BY <1>2 DEF SetLocked, LockInv, LockedIsCovered, NoGrabUnderLock, AnnouncedState
  <1> QED BY <1>1, <1>2

LEMMA SetUnlockedInv == LockInv /\ SetUnlocked /\ UNCHANGED lockSink => LockInv'
  <1>1. CASE ~locked
    BY <1>1, CompUnchangedInv DEF SetUnlocked
  <1>2. CASE ~(~locked)
    BY <1>2 DEF SetUnlocked, LockInv, LockedIsCovered, NoGrabUnderLock, AnnouncedState
  <1> QED BY <1>1, <1>2

LEMMA OpenSessionInv == OpenSession => LockInv'
  BY DEF OpenSession, LockInv, LockedIsCovered, NoGrabUnderLock, AnnouncedState

LEMMA DispatchLockInv == LockInv /\ DispatchLock /\ UNCHANGED lockSink => LockInv'
  BY SetLockedInv, CompUnchangedInv, Zenon DEF DispatchLock

\* Taking frames away restores the backdrop under a lock when none is left.
LEMMA FramesClearedInv ==
  ASSUME TypeOK, LockInv, NEW gone, LockFramesCleared(gone),
         UNCHANGED <<locked, exclusiveLayer, hint>>
  PROVE  LockInv'
  <1>1. CASE lockedBg
    BY <1>1 DEF LockFramesCleared, LockInv, LockedIsCovered, NoGrabUnderLock,
                AnnouncedState
  <1>2. CASE ~lockedBg /\ locked
    <2>1. ~HasNoFrame(lockSink) /\ ~HasBlank(lockSink)
      BY <1>2 DEF LockInv, LockedIsCovered
    <2>2. ~HasBlank(lockSink')
      BY <2>1 DEF LockFramesCleared, HasBlank
    <2>3. lockedBg' \/ ~HasNoFrame(lockSink')
      BY <1>2, <2>1 DEF LockFramesCleared
    <2> QED BY <2>2, <2>3 DEF LockInv, LockedIsCovered, NoGrabUnderLock, AnnouncedState
  <1>3. CASE ~locked
    BY <1>3 DEF LockInv, LockedIsCovered, NoGrabUnderLock, AnnouncedState
  <1> QED BY <1>1, <1>2, <1>3

LEMMA FrameStepInv == ASSUME TypeOK, LockInv, FrameStep PROVE LockInv'
  <1>0. UNCHANGED <<locked, exclusiveLayer, hint>>
    BY FrameStepLeaves
  <1>1. ASSUME NEW o \in Framed, PushLockFrame(o) PROVE LockInv'
    <2>1. lockSink'[o] = "shown" /\ o \in Outputs
          /\ \A d \in Outputs : lockSink'[d] = "blank" => lockSink[d] = "blank"
      BY <1>1, SessionLockAssumption DEF PushLockFrame, TypeOK, SessionLockAssumption
    <2>2. ~HasNoFrame(lockSink') /\ (HasBlank(lockSink') => HasBlank(lockSink))
      BY <2>1 DEF HasNoFrame, HasBlank
    <2>3. lockedBg' = (lockedBg /\ HasBlank(lockSink'))
      BY <1>1 DEF PushLockFrame
    <2>4. LockedIsCovered'
      BY <1>0, <2>2, <2>3 DEF LockInv, LockedIsCovered
    <2> QED BY <1>0, <2>4 DEF LockInv, NoGrabUnderLock, AnnouncedState
  <1>2. ASSUME NEW gone, ClearLockFrame(gone) PROVE LockInv'
    BY <1>0, <1>2, FramesClearedInv DEF ClearLockFrame
  <1>3. CASE GpuReset
    <2>1. locked => lockedBg'
      BY <1>3 DEF GpuReset
    <2> QED BY <1>0, <2>1, Zenon DEF LockInv, LockedIsCovered, NoGrabUnderLock,
                                     AnnouncedState
  <1> QED BY <1>1, <1>2, <1>3 DEF FrameStep

LEMMA LockInvStep == TypeOK /\ LockInv /\ [Next]_vars => LockInv'
  <1> SUFFICES ASSUME TypeOK, LockInv, [Next]_vars PROVE LockInv'
    OBVIOUS
  <1>1. ASSUME LockSession PROVE LockInv'
    BY <1>1, CompUnchangedInv, DispatchLockInv, Zenon DEF LockSession, compVars
  <1>2. ASSUME UnlockSession PROVE LockInv'
    BY <1>2, OpenSessionInv DEF UnlockSession
  <1>3. ASSUME NEW c \in Lockers, LockerStep(c) PROVE LockInv'
    <2>1. CASE StartLocker(c) \/ LockerAccepts(c) \/ LockerExits(c)
      BY <2>1, CompUnchangedInv DEF StartLocker, LockerAccepts, LockerExits, compVars
    <2>2. CASE NewSessionLock(c)
      <3>1. CASE curLock # NoLocker
        BY <2>2, <3>1 DEF NewSessionLock, LockInv, LockedIsCovered,
                          NoGrabUnderLock, AnnouncedState
      <3>2. CASE curLock = NoLocker
        BY <2>2, <3>2 DEF NewSessionLock, LockInv, LockedIsCovered,
                          NoGrabUnderLock, AnnouncedState
      <3> QED BY <3>1, <3>2
    <2>3. CASE SessionUnlock(c)
      BY <2>3, OpenSessionInv DEF SessionUnlock
    <2>4. CASE SessionLockDestroy(c)
      BY <2>4 DEF SessionLockDestroy, LockInv, LockedIsCovered, NoGrabUnderLock,
                  AnnouncedState
    <2> QED BY <1>3, <2>1, <2>2, <2>3, <2>4 DEF LockerStep
  <1>4. ASSUME NEW o \in Outputs, OutputStep(o) PROVE LockInv'
    <2>1. CASE UnplugOutput(o)
      BY <2>1, FramesClearedInv DEF UnplugOutput
    <2>2. CASE ~UnplugOutput(o)
      BY <1>4, <2>2
      DEF OutputStep, LockSurfaceCreate, LockSurfaceDestroy, PlugOutput, compVars,
          LockInv, LockedIsCovered, NoGrabUnderLock, AnnouncedState
    <2> QED BY <2>1, <2>2
  <1>5. ASSUME ModuleStep PROVE LockInv'
    <2>1. CASE IdleLockTimeout
      BY <2>1, DispatchLockInv DEF IdleLockTimeout
    <2>2. ASSUME NEW answer \in {"ok", "fail"}, StartAuth(answer) PROVE LockInv'
      BY <2>2, CompUnchangedInv DEF StartAuth, compVars
    <2>3. ASSUME NEW answer \in {"ok", "fail"}, PamResult(answer) PROVE LockInv'
      BY <2>3, SetUnlockedInv, CompUnchangedInv, Zenon DEF PamResult, compVars
    <2> QED BY <1>5, <2>1, <2>2, <2>3 DEF ModuleStep
  <1>6. ASSUME DesktopStep PROVE LockInv'
    <2>1. CASE LayerCommit
      BY <2>1 DEF LayerCommit, LayerTakesKeyboard, LockInv, LockedIsCovered,
                  NoGrabUnderLock, AnnouncedState
    <2>2. CASE LayerUnmap
      BY <2>2 DEF LayerUnmap, LockInv, LockedIsCovered, NoGrabUnderLock, AnnouncedState
    <2>3. CASE FocusWindow \/ WindowUnmap
      BY <2>3 DEF FocusWindow, WindowUnmap, LockInv, LockedIsCovered,
                  NoGrabUnderLock, AnnouncedState
    <2>4. CASE PopupMap
      <3>1. UNCHANGED <<locked, lockedBg, lockSink, exclusiveLayer, hint>>
        BY <2>4 DEF PopupMap
      <3> QED BY <3>1 DEF LockInv, LockedIsCovered, NoGrabUnderLock, AnnouncedState
    <2>5. CASE PopupUnmap
      <3>1. UNCHANGED <<locked, lockedBg, lockSink, exclusiveLayer, hint>>
        BY <2>5 DEF PopupUnmap
      <3> QED BY <3>1 DEF LockInv, LockedIsCovered, NoGrabUnderLock, AnnouncedState
    <2> QED BY <1>6, <2>1, <2>2, <2>3, <2>4, <2>5 DEF DesktopStep
  <1>7. ASSUME Tick \/ UNCHANGED vars PROVE LockInv'
    BY <1>7, CompUnchangedInv DEF Tick, vars, compVars
  <1>8. ASSUME FrameStep PROVE LockInv'
    BY <1>8, FrameStepInv
  <1> QED BY <1>1, <1>2, <1>3, <1>4, <1>5, <1>6, <1>7, <1>8 DEF Next

LEMMA LockInvCorrect == Spec => []LockInv
  <1>1. Init => LockInv
    BY DEF Init, LockInv, LockedIsCovered, NoGrabUnderLock, AnnouncedState
  <1> QED BY <1>1, TypeCorrect, LockInvStep, PTL DEF Spec

\* A locked session is always behind the opaque backdrop or behind frames that
\* have their pixels: pushes, clears, resets and unplugging included.
THEOREM LockedStaysCovered == Spec => []LockedIsCovered
  BY LockInvCorrect, PTL DEF LockInv

\* No launcher holds the keyboard grab under a lock.
THEOREM LockHasNoGrab == Spec => []NoGrabUnderLock
  BY LockInvCorrect, PTL DEF LockInv

\* What was announced last is what the compositor's lock state is.
THEOREM AnnouncementsAgree == Spec => []AnnouncedState
  BY LockInvCorrect, PTL DEF LockInv

-----------------------------------------------------------------------------
(* One holder.                                                             *)

\* A step that leaves the holder alone keeps it the only one.
LEMMA HolderUntouched ==
  ASSUME OneHolder, curLock' = curLock,
         \A d \in Lockers : lockers'[d] \in {"holding", "accepted"}
                              <=> lockers[d] \in {"holding", "accepted"}
  PROVE  OneHolder'
  BY DEF OneHolder

\* Starting a program changes who is running, not who holds the lock.
LEMMA SpawnHolds ==
  ASSUME NEW procs \in [Lockers -> LockerStates], Spawn(procs), NEW d \in Lockers
  PROVE  lockers'[d] \in {"holding", "accepted"} <=> procs[d] \in {"holding", "accepted"}
  BY DEF Spawn, LockerStates

LEMMA OneHolderStep == TypeOK /\ OneHolder /\ [Next]_vars => OneHolder'
  <1> SUFFICES ASSUME TypeOK, OneHolder, [Next]_vars PROVE OneHolder'
    OBVIOUS
  <1> USE SessionLockAssumption DEF SessionLockAssumption
  <1>0. lockers \in [Lockers -> LockerStates] /\ curLock \in Lockers \cup {NoLocker}
    BY DEF TypeOK
  <1>1. ASSUME LockSession PROVE OneHolder'
    <2>1. curLock' = curLock
      BY <1>1 DEF LockSession, DispatchLock, SetLocked, compVars
    <2>2. Spawn(lockers) \/ lockers' = lockers
      BY <1>1 DEF LockSession
    <2> QED BY <1>0, <2>1, <2>2, SpawnHolds, HolderUntouched
  <1>2. ASSUME UnlockSession PROVE OneHolder'
    BY <1>0, <1>2 DEF UnlockSession, OpenSession, OneHolder
  <1>3. ASSUME NEW c \in Lockers, LockerStep(c) PROVE OneHolder'
    <2>1. CASE StartLocker(c) \/ LockerAccepts(c) \/ LockerExits(c)
      BY <1>0, <2>1
      DEF StartLocker, LockerAccepts, LockerExits, compVars, OneHolder
    <2>2. CASE NewSessionLock(c)
      BY <1>0, <2>2 DEF NewSessionLock, OneHolder
    <2>3. CASE SessionUnlock(c)
      BY <1>0, <2>3 DEF SessionUnlock, OpenSession, OneHolder
    <2>4. CASE SessionLockDestroy(c)
      <3> DEFINE left == [lockers EXCEPT ![c] = "idle"]
      <3>1. left \in [Lockers -> LockerStates] BY <1>0 DEF LockerStates
      <3>2. curLock' = NoLocker /\ (Spawn(left) \/ lockers' = left)
        BY <2>4 DEF SessionLockDestroy
      <3>3. \A d \in Lockers : left[d] \notin {"holding", "accepted"}
        BY <1>0, <2>4 DEF SessionLockDestroy, OneHolder
      <3>4. \A d \in Lockers : lockers'[d] \notin {"holding", "accepted"}
        BY <3>1, <3>2, <3>3, SpawnHolds
      <3> QED BY <3>2, <3>4 DEF OneHolder
    <2> QED BY <1>3, <2>1, <2>2, <2>3, <2>4 DEF LockerStep
  <1>4. ASSUME NEW o \in Outputs, OutputStep(o) PROVE OneHolder'
    BY <1>4
    DEF OutputStep, LockSurfaceCreate, LockSurfaceDestroy, PlugOutput,
        UnplugOutput, compVars, OneHolder
  <1>5. ASSUME ModuleStep PROVE OneHolder'
    <2>1. curLock' = curLock /\ lockers' = lockers
      BY <1>5
      DEF ModuleStep, IdleLockTimeout, DispatchLock, SetLocked, StartAuth,
          PamResult, SetUnlocked, compVars
    <2> QED BY <2>1 DEF OneHolder
  <1>6. ASSUME DesktopStep PROVE OneHolder'
    BY <1>6
    DEF DesktopStep, FocusWindow, WindowUnmap, LayerCommit, LayerUnmap, PopupMap,
        PopupUnmap, OneHolder
  <1>7. ASSUME Tick \/ UNCHANGED vars PROVE OneHolder'
    BY <1>7 DEF Tick, vars, compVars, OneHolder
  <1>8. CASE FrameStep
    BY <1>8, FrameStepLeaves DEF OneHolder
  <1> QED BY <1>1, <1>2, <1>3, <1>4, <1>5, <1>6, <1>7, <1>8 DEF Next

\* At most one lock program believes it has the screen, and cur_lock is it.
THEOREM HolderIsUnique == Spec => []OneHolder
  <1>1. Init => OneHolder
    BY SessionLockAssumption DEF SessionLockAssumption, Init, OneHolder
  <1> QED BY <1>1, TypeCorrect, OneHolderStep, PTL DEF Spec

-----------------------------------------------------------------------------
(* The keyboard comes back.                                                *)

\* Opening the session gives the keyboard to the top window: the grabs that
\* would have made the gate refuse are down.
LEMMA OpenSessionRestores ==
  ASSUME OpenSession, ~exclusiveLayer, exclusiveLayer \in BOOLEAN,
         ~exclusiveFocus, exclusiveFocus \in BOOLEAN
  PROVE  focus' = FocusTop
  <1>1. exclusiveLayer = FALSE /\ exclusiveFocus = FALSE OBVIOUS
  <1>2. focus' = WithoutLockSurfaces(FocusTop)
    BY <1>1, GateOpen DEF OpenSession
  <1> QED BY <1>2, FocusTopType DEF WithoutLockSurfaces

LEMMA RestoreStep ==
  TypeOK /\ NoGrabUnderLock /\ [Next]_vars =>
    (locked /\ ~locked' /\ ~exclusiveFocus => focus' = FocusTop)
  <1> SUFFICES ASSUME TypeOK, NoGrabUnderLock, [Next]_vars,
                      locked, ~locked', ~exclusiveFocus
               PROVE  focus' = FocusTop
    OBVIOUS
  <1>0. /\ ~exclusiveLayer /\ exclusiveLayer \in BOOLEAN
        /\ exclusiveFocus \in BOOLEAN
    BY DEF TypeOK, NoGrabUnderLock
  <1>1. CASE LockSession
    BY <1>1 DEF LockSession
  <1>2. CASE UnlockSession
    BY <1>0, <1>2, OpenSessionRestores DEF UnlockSession
  <1>3. ASSUME NEW c \in Lockers, LockerStep(c) PROVE focus' = FocusTop
    BY <1>0, <1>3, OpenSessionRestores
    DEF LockerStep, StartLocker, NewSessionLock, LockerAccepts, SessionUnlock,
        LockerExits, SessionLockDestroy, compVars
  <1>4. ASSUME NEW o \in Outputs, OutputStep(o) PROVE focus' = FocusTop
    BY <1>4
    DEF OutputStep, LockSurfaceCreate, LockSurfaceDestroy, PlugOutput,
        UnplugOutput, compVars
  <1>5. CASE ModuleStep
    <2>1. CASE IdleLockTimeout
      BY <2>1 DEF IdleLockTimeout, DispatchLock, SetLocked, compVars
    <2>2. ASSUME NEW answer \in {"ok", "fail"}, StartAuth(answer) PROVE FALSE
      BY <2>2 DEF StartAuth, compVars
    <2>3. ASSUME NEW answer \in {"ok", "fail"}, PamResult(answer)
          PROVE  focus' = FocusTop
      <3>1. SetUnlocked BY <2>3 DEF PamResult, compVars
      <3>2. exclusiveLayer = FALSE /\ exclusiveFocus = FALSE BY <1>0
      <3>3. focus' = FocusClient(FALSE, FALSE, FALSE, focus, FocusTop)
        BY <3>1, <3>2 DEF SetUnlocked
      <3> QED BY <3>3, GateOpen
    <2> QED BY <1>5, <2>1, <2>2, <2>3 DEF ModuleStep
  <1>6. CASE DesktopStep
    BY <1>6
    DEF DesktopStep, FocusWindow, WindowUnmap, LayerCommit, LayerUnmap, PopupMap,
        PopupUnmap
  <1>7. CASE Tick \/ UNCHANGED vars
    BY <1>7 DEF Tick, vars, compVars
  <1>8. CASE FrameStep
    BY <1>8, FrameStepLeaves
  <1> QED BY <1>1, <1>2, <1>3, <1>4, <1>5, <1>6, <1>7, <1>8 DEF Next

\* Every route out of a lock -- the client's unlock, a right password, an
\* administrator, in any interleaving -- hands the keyboard to the top window
\* unless an X11 popup holds its own grab.
THEOREM UnlockRestores == Spec => UnlockRestoresFocus
  BY TypeCorrect, LockHasNoGrab, RestoreStep, PTL DEF Spec, UnlockRestoresFocus

-----------------------------------------------------------------------------
(* The prompt.                                                             *)

LEMMA PromptStep == TypeOK /\ PromptAnswers /\ [Next]_vars => PromptAnswers'
  <1> SUFFICES ASSUME TypeOK, PromptAnswers, [Next]_vars PROVE PromptAnswers'
    OBVIOUS
  <1>0. /\ auths["ok"] \in Nat /\ auths["fail"] \in Nat
        /\ auths \in [{"ok", "fail"} -> Nat]
    BY DEF TypeOK
  <1>1. ASSUME DispatchLock \/ UNCHANGED moduleVars PROVE PromptAnswers'
    BY <1>1 DEF DispatchLock, moduleVars, PromptAnswers
  <1>2. CASE LockSession
    BY <1>1, <1>2 DEF LockSession
  <1>3. CASE UnlockSession
    <2>1. CASE curLock # NoLocker
      BY <1>1, <1>3, <2>1 DEF UnlockSession
    <2>2. CASE curLock = NoLocker
      <3>1. auths' = auths /\ (authenticating' => authenticating)
        BY <1>3, <2>2 DEF UnlockSession
      <3> QED BY <3>1 DEF PromptAnswers
    <2> QED BY <2>1, <2>2
  <1>4. ASSUME NEW c \in Lockers, LockerStep(c) PROVE PromptAnswers'
    BY <1>1, <1>4
    DEF LockerStep, StartLocker, NewSessionLock, LockerAccepts, SessionUnlock,
        LockerExits, SessionLockDestroy
  <1>5. ASSUME NEW o \in Outputs, OutputStep(o) PROVE PromptAnswers'
    BY <1>1, <1>5
    DEF OutputStep, LockSurfaceCreate, LockSurfaceDestroy, PlugOutput, UnplugOutput
  <1>6. CASE ModuleStep
    <2>1. CASE IdleLockTimeout
      BY <1>1, <2>1 DEF IdleLockTimeout
    <2>2. ASSUME NEW answer \in {"ok", "fail"}, StartAuth(answer)
          PROVE  PromptAnswers'
      <3>1. auths'["ok"] + auths'["fail"] = auths["ok"] + auths["fail"] + 1
        BY <1>0, <2>2 DEF StartAuth
      <3> QED BY <1>0, <3>1 DEF PromptAnswers
    <2>3. ASSUME NEW answer \in {"ok", "fail"}, PamResult(answer)
          PROVE  PromptAnswers'
      BY <2>3 DEF PamResult, PromptAnswers
    <2> QED BY <1>6, <2>1, <2>2, <2>3 DEF ModuleStep
  <1>7. CASE DesktopStep
    BY <1>1, <1>7
    DEF DesktopStep, FocusWindow, WindowUnmap, LayerCommit, LayerUnmap, PopupMap,
        PopupUnmap
  <1>8. CASE Tick \/ UNCHANGED vars
    BY <1>1, <1>8 DEF Tick, vars
  <1>9. CASE FrameStep
    BY <1>9, FrameStepLeaves DEF PromptAnswers
  <1> QED BY <1>2, <1>3, <1>4, <1>5, <1>6, <1>7, <1>8, <1>9 DEF Next

\* While the screenlock prompt ignores keys, an answer of PAM is on its way.
THEOREM PromptNeverDeaf == Spec => []PromptAnswers
  <1>1. Init => PromptAnswers
    BY DEF Init, PromptAnswers
  <1> QED BY <1>1, TypeCorrect, PromptStep, PTL DEF Spec

-----------------------------------------------------------------------------
(* The refinement: the lock machinery implements LockContract.             *)

\* The permission a lock client holds once its PAM has accepted.
ClientPermit == IF curLock # NoLocker /\ lockers[curLock] = "accepted" THEN 1 ELSE 0

LEMMA PermitsType ==
  ASSUME TypeOK
  PROVE  /\ Permits = overrides + auths["ok"] + ClientPermit
         /\ overrides \in Nat /\ auths["ok"] \in Nat /\ ClientPermit \in {0, 1}
  BY SessionLockAssumption
  DEF SessionLockAssumption, TypeOK, Permits, ClientPermit

LEMMA PermitsTypeNext ==
  ASSUME TypeOK'
  PROVE  /\ Permits' = overrides' + auths'["ok"] + ClientPermit'
         /\ overrides' \in Nat /\ auths'["ok"] \in Nat /\ ClientPermit' \in {0, 1}
  BY SessionLockAssumption
  DEF SessionLockAssumption, TypeOK, Permits, ClientPermit

\* A step that moves no permission and opens nothing is a Seal or a stutter.
LEMMA QuietStep ==
  ASSUME TypeOK, TypeOK', overrides' = overrides, auths'["ok"] = auths["ok"],
         ClientPermit' = ClientPermit, locked' = locked \/ locked' = TRUE
  PROVE  [Contract!ContractNext]_(Contract!contractVars)
  <1>1. Permits' = Permits BY PermitsType, PermitsTypeNext
  <1> QED
    BY <1>1 DEF Contract!ContractNext, Contract!contractVars, Contract!Seal

\* A step after which fewer permissions are outstanding may open the session.
LEMMA SpendingStep ==
  ASSUME TypeOK, TypeOK', Permits' < Permits, locked' = locked \/ locked' = FALSE
  PROVE  Contract!ContractNext
  <1>1. Permits \in Nat /\ Permits' \in Nat BY PermitsType, PermitsTypeNext
  <1>2. Permits > 0 /\ Permits' \in 0..(Permits - 1) BY <1>1
  <1> QED BY <1>2 DEF Contract!ContractNext, Contract!Open, Contract!Lapse

LEMMA GrantingStep ==
  ASSUME Permits' = Permits + 1, locked' = locked
  PROVE  Contract!ContractNext
  BY DEF Contract!ContractNext, Contract!Permit

LEMMA ContractStep ==
  TypeOK /\ TypeOK' /\ OneHolder /\ [Next]_vars =>
    [Contract!ContractNext]_(Contract!contractVars)
  <1> SUFFICES ASSUME TypeOK, TypeOK', OneHolder, [Next]_vars
               PROVE  [Contract!ContractNext]_(Contract!contractVars)
    OBVIOUS
  <1>0. /\ lockers \in [Lockers -> LockerStates]
        /\ curLock \in Lockers \cup {NoLocker} /\ NoLocker \notin Lockers
        /\ locked \in BOOLEAN
    BY SessionLockAssumption DEF SessionLockAssumption, TypeOK
  <1>1. CASE LockSession
    <2>1. ClientPermit' = ClientPermit
      <3>1. curLock' = curLock
        BY <1>1 DEF LockSession, DispatchLock, SetLocked, compVars
      <3>2. \A d \in Lockers : lockers'[d] = "accepted" <=> lockers[d] = "accepted"
        BY <1>0, <1>1 DEF LockSession, Spawn, LockerStates
      <3> QED BY <1>0, <3>1, <3>2 DEF ClientPermit
    <2>2. overrides' = overrides /\ auths' = auths
      BY <1>1 DEF LockSession, DispatchLock, moduleVars
    <2>3. locked' = locked \/ locked' = TRUE
      BY <1>1 DEF LockSession, DispatchLock, SetLocked, compVars
    <2> QED BY <2>1, <2>2, <2>3, QuietStep
  <1>2. CASE UnlockSession
    <2>1. locked' = FALSE /\ ClientPermit' = 0
      BY <1>2 DEF UnlockSession, OpenSession, ClientPermit
    <2>2. overrides' = overrides - 1 /\ auths' = auths
      BY <1>2 DEF UnlockSession, moduleVars
    <2>3. Permits' < Permits BY <2>1, <2>2, PermitsType, PermitsTypeNext
    <2> QED BY <2>1, <2>3, SpendingStep
  <1>3. ASSUME NEW c \in Lockers, LockerStep(c)
        PROVE  [Contract!ContractNext]_(Contract!contractVars)
    <2>0. overrides' = overrides /\ auths' = auths
      BY <1>3
      DEF LockerStep, StartLocker, NewSessionLock, LockerAccepts, SessionUnlock,
          LockerExits, SessionLockDestroy, moduleVars
    <2>1. CASE StartLocker(c) \/ LockerExits(c)
      <3>1. ClientPermit' = ClientPermit
        BY <1>0, <2>1 DEF StartLocker, LockerExits, compVars, ClientPermit, OneHolder
      <3>2. locked' = locked BY <2>1 DEF StartLocker, LockerExits, compVars
      <3> QED BY <2>0, <3>1, <3>2, QuietStep
    <2>2. CASE NewSessionLock(c)
      <3>1. ClientPermit' = ClientPermit
        BY <1>0, <2>2 DEF NewSessionLock, ClientPermit, OneHolder
      <3>2. locked' = locked \/ locked' = TRUE BY <2>2 DEF NewSessionLock
      <3> QED BY <2>0, <3>1, <3>2, QuietStep
    <2>3. CASE LockerAccepts(c)
      <3>1. ClientPermit = 0 /\ ClientPermit' = 1 /\ locked' = locked
        BY <1>0, <2>3 DEF LockerAccepts, compVars, ClientPermit, OneHolder
      <3>2. Permits' = Permits + 1 BY <2>0, <3>1, PermitsType, PermitsTypeNext
      <3> QED BY <3>1, <3>2, GrantingStep
    <2>4. CASE SessionUnlock(c)
      <3>1. ClientPermit = 1 /\ ClientPermit' = 0 /\ locked' = FALSE
        BY <1>0, <2>4 DEF SessionUnlock, OpenSession, ClientPermit, OneHolder
      <3>2. Permits' < Permits BY <2>0, <3>1, PermitsType, PermitsTypeNext
      <3> QED BY <3>1, <3>2, SpendingStep
    <2>5. CASE SessionLockDestroy(c)
      <3>1. ClientPermit' = 0 /\ locked' = locked
        BY <2>5 DEF SessionLockDestroy, ClientPermit
      <3>2. CASE ClientPermit = 0
        BY <2>0, <3>1, <3>2, QuietStep
      <3>3. CASE ClientPermit = 1
        <4>1. Permits' < Permits BY <2>0, <3>1, <3>3, PermitsType, PermitsTypeNext
        <4> QED BY <3>1, <4>1, SpendingStep
      <3> QED BY <3>2, <3>3, PermitsType, PermitsTypeNext
    <2> QED BY <1>3, <2>1, <2>2, <2>3, <2>4, <2>5 DEF LockerStep
  <1>4. ASSUME NEW o \in Outputs, OutputStep(o)
        PROVE  [Contract!ContractNext]_(Contract!contractVars)
    <2>1. UNCHANGED <<overrides, auths, curLock, lockers, locked>>
      BY <1>4
      DEF OutputStep, LockSurfaceCreate, LockSurfaceDestroy, PlugOutput,
          UnplugOutput, compVars, moduleVars
    <2> QED BY <2>1, QuietStep DEF ClientPermit
  <1>5. CASE ModuleStep
    <2>0. UNCHANGED <<overrides, curLock, lockers>> /\ ClientPermit' = ClientPermit
      BY <1>5
      DEF ModuleStep, IdleLockTimeout, DispatchLock, SetLocked, StartAuth,
          PamResult, SetUnlocked, compVars, ClientPermit
    <2>1. CASE IdleLockTimeout
      <3>1. auths' = auths /\ (locked' = locked \/ locked' = TRUE)
        BY <2>1 DEF IdleLockTimeout, DispatchLock, SetLocked, compVars, moduleVars
      <3> QED BY <2>0, <3>1, QuietStep
    <2>2. ASSUME NEW answer \in {"ok", "fail"}, StartAuth(answer)
          PROVE  [Contract!ContractNext]_(Contract!contractVars)
      <3>1. locked' = locked BY <2>2 DEF StartAuth, compVars
      <3>2. CASE answer = "ok"
        <4>1. auths'["ok"] = auths["ok"] + 1 BY <2>2, <3>2 DEF StartAuth, TypeOK
        <4>2. Permits' = Permits + 1 BY <2>0, <4>1, PermitsType, PermitsTypeNext
        <4> QED BY <3>1, <4>2, GrantingStep
      <3>3. CASE answer = "fail"
        <4>1. auths'["ok"] = auths["ok"] BY <2>2, <3>3 DEF StartAuth, TypeOK
        <4> QED BY <2>0, <3>1, <4>1, QuietStep
      <3> QED BY <3>2, <3>3
    <2>3. ASSUME NEW answer \in {"ok", "fail"}, PamResult(answer)
          PROVE  [Contract!ContractNext]_(Contract!contractVars)
      <3>1. CASE answer = "ok"
        <4>1. auths'["ok"] = auths["ok"] - 1 BY <2>3, <3>1 DEF PamResult, TypeOK
        <4>2. Permits' < Permits BY <2>0, <4>1, PermitsType, PermitsTypeNext
        <4>3. locked' = locked \/ locked' = FALSE
          BY <2>3, <3>1 DEF PamResult, SetUnlocked, compVars
        <4> QED BY <4>2, <4>3, SpendingStep
      <3>2. CASE answer = "fail"
        <4>1. auths'["ok"] = auths["ok"] /\ locked' = locked
          BY <2>3, <3>2 DEF PamResult, TypeOK, compVars
        <4> QED BY <2>0, <4>1, QuietStep
      <3> QED BY <3>1, <3>2
    <2> QED BY <1>5, <2>1, <2>2, <2>3 DEF ModuleStep
  <1>6. CASE DesktopStep
    <2>1. UNCHANGED <<overrides, auths, curLock, lockers, locked>>
      BY <1>6
      DEF DesktopStep, FocusWindow, WindowUnmap, LayerCommit, LayerUnmap,
          PopupMap, PopupUnmap, moduleVars
    <2> QED BY <2>1, QuietStep DEF ClientPermit
  <1>7. CASE Tick \/ UNCHANGED vars
    <2>1. UNCHANGED <<overrides, auths, curLock, lockers, locked>>
      BY <1>7 DEF Tick, vars, compVars, moduleVars
    <2> QED BY <2>1, QuietStep DEF ClientPermit
  <1>8. CASE FrameStep
    <2>1. UNCHANGED <<overrides, auths, curLock, lockers, locked>>
      BY <1>8, FrameStepLeaves
    <2> QED BY <2>1, QuietStep DEF ClientPermit
  <1> QED BY <1>1, <1>2, <1>3, <1>4, <1>5, <1>6, <1>7, <1>8 DEF Next

\* The lock implements its contract: the session opens only by using up a
\* permission somebody gave, whatever crashes, races or answers late.
THEOREM LockKeepsContract == Spec => KeepsContract
  <1>1. Init => Contract!ContractInit
    <2> SUFFICES ASSUME Init PROVE Contract!ContractInit
      OBVIOUS
    <2>1. locked = FALSE BY DEF Init
    <2>2. Permits \in Nat BY InitType, PermitsType
    <2> QED BY <2>1, <2>2 DEF Contract!ContractInit
  <1> QED
    BY <1>1, TypeCorrect, HolderIsUnique, ContractStep, PTL
    DEF Spec, KeepsContract, Contract!ContractSpec

-----------------------------------------------------------------------------
(* The restart budget.  The ring of stamps holds the last RespawnMax starts, *)
(* oldest at respawnNext; a start is allowed only when one of them is old  *)
(* enough, and the oldest is older still.                                  *)

\* Slots before respawnNext were written on this turn of the ring, the others
\* on the turn before, or never.
RingHolds ==
  /\ respawnNext <= Len(starts)
  /\ Len(starts) = respawnNext \/ Len(starts) >= respawnNext + RespawnMax
  /\ \A i \in 0..(RespawnMax - 1) :
       i < respawnNext => respawns[i] = starts[Len(starts) - respawnNext + i + 1]
  /\ \A i \in 0..(RespawnMax - 1) :
       i >= respawnNext /\ Len(starts) >= respawnNext + RespawnMax =>
         respawns[i] = starts[Len(starts) - respawnNext - RespawnMax + i + 1]

\* Starts are recorded in the order they happened.
StartsOrdered ==
  /\ \A i \in 1..Len(starts) : starts[i] <= now
  /\ \A i, j \in 1..Len(starts) : i <= j => starts[i] <= starts[j]

RingInv == RingHolds /\ StartsOrdered /\ RespawnBudget

\* A start is allowed only if some slot is unused or old.
LEMMA AllowedSlot ==
  ASSUME TypeOK, RespawnAllowed
  PROVE  \E i \in 0..(RespawnMax - 1) :
           respawns[i] = 0 \/ now - respawns[i] >= RespawnWindow
  <1> USE SessionLockAssumption DEF SessionLockAssumption
  <1> DEFINE recent == {i \in 0..(RespawnMax - 1) :
                          respawns[i] # 0 /\ now - respawns[i] < RespawnWindow}
  <1> SUFFICES ASSUME \A i \in 0..(RespawnMax - 1) :
                        ~(respawns[i] = 0 \/ now - respawns[i] >= RespawnWindow)
               PROVE  FALSE
    OBVIOUS
  <1>1. \A i \in 0..(RespawnMax - 1) : respawns[i] \in Nat /\ now \in Nat
    BY DEF TypeOK
  <1>2. recent = 0..(RespawnMax - 1)
    BY <1>1
  <1>3. Cardinality(0..(RespawnMax - 1)) = RespawnMax
    BY FS_Interval
  <1> HIDE DEF recent
  <1>4. Cardinality(recent) < RespawnMax
    BY DEF RespawnAllowed, recent
  <1> QED BY <1>2, <1>3, <1>4

\* Starting under the budget keeps the budget and the shape of the ring.
LEMMA StampStep ==
  ASSUME TypeOK, TypeOK', RingInv, RespawnAllowed, TakeRespawnStamp, now' = now
  PROVE  RingInv'
  <1> USE SessionLockAssumption DEF SessionLockAssumption
  <1> DEFINE n == Len(starts)
             r == respawnNext
             R == RespawnMax
  <1>1. /\ n \in Nat /\ r \in 0..(R - 1) /\ now \in Nat \ {0}
        /\ R \in Nat \ {0} /\ RespawnWindow \in Nat
    BY DEF TypeOK
  <1>2. \A i \in 1..n : starts[i] \in Nat \ {0}
    <2>1. starts \in Seq(1..MaxTime) BY DEF TypeOK
    <2>2. \A i \in 1..Len(starts) : starts[i] \in 1..MaxTime BY <2>1
    <2> QED BY <2>2
  <1>3. /\ Len(starts') = n + 1
        /\ starts'[n + 1] = now
        /\ \A i \in 1..n : starts'[i] = starts[i]
    BY DEF TakeRespawnStamp, TypeOK
  <1>4. respawnNext' = IF r + 1 = R THEN 0 ELSE r + 1
    BY <1>1, RingStep DEF TakeRespawnStamp
  <1>5. \A i \in 0..(R - 1) : respawns'[i] = IF i = r THEN now ELSE respawns[i]
    BY <1>1 DEF TakeRespawnStamp, TypeOK
  <1>6. r <= n /\ (n = r \/ n >= r + R)
    BY DEF RingInv, RingHolds
  <1>7. \A i \in 0..(R - 1) : i < r => respawns[i] = starts[n - r + i + 1]
    BY DEF RingInv, RingHolds
  <1>8. \A i \in 0..(R - 1) : i >= r /\ n >= r + R =>
          respawns[i] = starts[n - r - R + i + 1]
    BY DEF RingInv, RingHolds
  <1>9. /\ \A i \in 1..n : starts[i] <= now
        /\ \A i, j \in 1..n : i <= j => starts[i] <= starts[j]
    BY DEF RingInv, StartsOrdered
  <1>10. \A i \in 1..n : i + R <= n => starts[i + R] - starts[i] >= RespawnWindow
    BY DEF RingInv, RespawnBudget
  <1>11. PICK k \in 0..(R - 1) : respawns[k] = 0 \/ now - respawns[k] >= RespawnWindow
    BY AllowedSlot
  <1> HIDE DEF n, r, R
  <1>12. StartsOrdered'
    <2>1. \A i \in 1..(n + 1) : starts'[i] <= now
      <3> SUFFICES ASSUME NEW i \in 1..(n + 1) PROVE starts'[i] <= now
        OBVIOUS
      <3>1. CASE i = n + 1 BY <1>1, <1>3, <3>1
      <3>2. CASE i # n + 1
        <4>1. i \in 1..n BY <1>1, <3>2
        <4> QED BY <1>3, <1>9, <4>1
      <3> QED BY <3>1, <3>2
    <2>2. \A i, j \in 1..(n + 1) : i <= j => starts'[i] <= starts'[j]
      <3> SUFFICES ASSUME NEW i \in 1..(n + 1), NEW j \in 1..(n + 1), i <= j
                   PROVE  starts'[i] <= starts'[j]
        OBVIOUS
      <3>1. CASE j = n + 1 BY <1>3, <2>1, <3>1
      <3>2. CASE j # n + 1
        <4>1. i \in 1..n /\ j \in 1..n BY <1>1, <3>2
        <4> QED BY <1>3, <1>9, <4>1
      <3> QED BY <3>1, <3>2
    <2> QED BY <1>3, <2>1, <2>2 DEF StartsOrdered
  <1>13. RingHolds'
    <2>1. CASE r + 1 = R
      <3>1. respawnNext' = 0 BY <1>4, <2>1
      <3>2. n + 1 >= R BY <1>1, <1>6, <2>1
      <3>3. ASSUME NEW i \in 0..(R - 1)
            PROVE  respawns'[i] = starts'[(n + 1) - R + i + 1]
        <4>1. CASE i = r
          <5>1. (n + 1) - R + i + 1 = n + 1 BY <1>1, <2>1, <4>1
          <5> QED BY <1>3, <1>5, <4>1, <5>1
        <4>2. CASE i # r
          <5>1. i < r /\ n - r + i + 1 = (n + 1) - R + i + 1
            BY <1>1, <2>1, <4>2
          <5>2. (n + 1) - R + i + 1 \in 1..n
            BY <1>1, <1>6, <2>1, <5>1
          <5> QED BY <1>3, <1>5, <1>7, <4>2, <5>1, <5>2
        <4> QED BY <4>1, <4>2
      <3>4. \A i \in 0..(R - 1) :
              respawns'[i] = starts'[(n + 1) - 0 - R + i + 1]
        <4>1. \A i \in 0..(R - 1) : (n + 1) - 0 - R + i + 1 = (n + 1) - R + i + 1
          BY <1>1
        <4> QED BY <3>3, <4>1
      <3>5. \A i \in 0..(R - 1) : ~(i < 0) BY <1>1
      <3> QED BY <1>1, <1>3, <3>1, <3>2, <3>4, <3>5 DEF RingHolds, R
    <2>2. CASE r + 1 # R
      <3>1. respawnNext' = r + 1 BY <1>4, <2>2
      <3>2. r + 1 <= n + 1 /\ (n + 1 = r + 1 \/ n + 1 >= r + 1 + R)
        BY <1>1, <1>6
      <3>3. ASSUME NEW i \in 0..(R - 1), i < r + 1
            PROVE  respawns'[i] = starts'[(n + 1) - (r + 1) + i + 1]
        <4>1. CASE i = r
          <5>1. (n + 1) - (r + 1) + i + 1 = n + 1 BY <1>1, <4>1
          <5> QED BY <1>3, <1>5, <4>1, <5>1
        <4>2. CASE i # r
          <5>1. i < r /\ (n + 1) - (r + 1) + i + 1 = n - r + i + 1
                /\ n - r + i + 1 \in 1..n
            BY <1>1, <1>6, <3>3, <4>2
          <5> QED BY <1>3, <1>5, <1>7, <4>2, <5>1
        <4> QED BY <4>1, <4>2
      <3>4. ASSUME NEW i \in 0..(R - 1), i >= r + 1, n + 1 >= r + 1 + R
            PROVE  respawns'[i] = starts'[(n + 1) - (r + 1) - R + i + 1]
        <4>1. i # r /\ i >= r /\ n >= r + R
              /\ (n + 1) - (r + 1) - R + i + 1 = n - r - R + i + 1
              /\ n - r - R + i + 1 \in 1..n
          BY <1>1, <3>4
        <4> QED BY <1>3, <1>5, <1>8, <4>1
      <3> QED BY <1>3, <3>1, <3>2, <3>3, <3>4 DEF RingHolds, R
    <2> QED BY <2>1, <2>2
  <1>14. RespawnBudget'
    <2>1. ASSUME n >= R PROVE now - starts[n + 1 - R] >= RespawnWindow
      <3>1. PICK m \in (n + 1 - R)..n : respawns[k] = starts[m]
        <4>1. n >= r + R BY <1>1, <1>6, <2>1
        <4>2. CASE k < r
          <5>1. n - r + k + 1 \in (n + 1 - R)..n BY <1>1, <4>1, <4>2
          <5> QED BY <1>7, <4>2, <5>1
        <4>3. CASE k >= r
          <5>1. n - r - R + k + 1 \in (n + 1 - R)..n BY <1>1, <4>1, <4>3
          <5> QED BY <1>8, <4>1, <4>3, <5>1
        <4> QED BY <1>1, <4>2, <4>3
      <3>2. n + 1 - R \in 1..n /\ m \in 1..n /\ n + 1 - R <= m
        BY <1>1, <2>1
      <3>3. starts[n + 1 - R] <= starts[m]
        BY <1>9, <3>2
      <3>4. starts[m] # 0 /\ starts[m] \in Nat /\ starts[n + 1 - R] \in Nat
        BY <1>2, <3>2
      <3>5. now - starts[m] >= RespawnWindow BY <1>11, <3>1, <3>4
      <3> QED BY <1>1, <3>3, <3>4, <3>5
    <2>2. ASSUME NEW i \in 1..(n + 1), i + R <= n + 1
          PROVE  starts'[i + R] - starts'[i] >= RespawnWindow
      <3>1. i \in 1..n BY <1>1, <2>2
      <3>2. CASE i + R = n + 1
        <4>1. n >= R /\ i = n + 1 - R BY <1>1, <3>1, <3>2
        <4> QED BY <1>3, <2>1, <3>1, <3>2, <4>1
      <3>3. CASE i + R # n + 1
        <4>1. i + R \in 1..n /\ i + R <= n BY <1>1, <2>2, <3>3
        <4> QED BY <1>3, <1>10, <3>1, <4>1
      <3> QED BY <3>2, <3>3
    <2> QED BY <1>3, <2>2 DEF RespawnBudget, R
  <1> QED BY <1>12, <1>13, <1>14 DEF RingInv

LEMMA RingInvStep == TypeOK /\ TypeOK' /\ RingInv /\ [Next]_vars => RingInv'
  <1> SUFFICES ASSUME TypeOK, TypeOK', RingInv, [Next]_vars PROVE RingInv'
    OBVIOUS
  <1>1. CASE UNCHANGED respawnVars /\ now' \in {now, now + 1}
    <2>1. now' >= now /\ now \in Nat /\ now' \in Nat
          /\ \A i \in 1..Len(starts) : starts[i] \in Nat
      <3>1. starts \in Seq(1..MaxTime) /\ now \in Nat BY DEF TypeOK
      <3>2. \A i \in 1..Len(starts) : starts[i] \in 1..MaxTime
        BY <3>1, SessionLockAssumption DEF SessionLockAssumption
      <3> QED BY <1>1, <3>1, <3>2
    <2>2. \A i \in 1..Len(starts) : starts[i] <= now'
      BY <2>1 DEF RingInv, StartsOrdered
    <2> QED
      BY <1>1, <2>2
      DEF respawnVars, RingInv, RingHolds, StartsOrdered, RespawnBudget
  <1>2. CASE RespawnAllowed /\ TakeRespawnStamp /\ now' = now
    BY <1>2, StampStep
  <1>3. CASE LockSession
    BY <1>1, <1>2, <1>3 DEF LockSession
  <1>4. CASE UnlockSession
    BY <1>1, <1>4 DEF UnlockSession
  <1>5. ASSUME NEW c \in Lockers, LockerStep(c) PROVE RingInv'
    <2>1. CASE SessionLockDestroy(c)
      BY <1>1, <1>2, <2>1 DEF SessionLockDestroy
    <2>2. CASE ~SessionLockDestroy(c)
      BY <1>1, <1>5, <2>2
      DEF LockerStep, StartLocker, NewSessionLock, LockerAccepts, SessionUnlock,
          LockerExits
    <2> QED BY <2>1, <2>2
  <1>6. ASSUME NEW o \in Outputs, OutputStep(o) PROVE RingInv'
    BY <1>1, <1>6
    DEF OutputStep, LockSurfaceCreate, LockSurfaceDestroy, PlugOutput, UnplugOutput
  <1>7. CASE ModuleStep
    BY <1>1, <1>7 DEF ModuleStep, IdleLockTimeout, StartAuth, PamResult
  <1>8. CASE DesktopStep
    BY <1>1, <1>8
    DEF DesktopStep, FocusWindow, WindowUnmap, LayerCommit, LayerUnmap, PopupMap,
        PopupUnmap
  <1>9. CASE Tick \/ UNCHANGED vars
    BY <1>1, <1>9 DEF Tick, vars
  <1>10. CASE FrameStep
    BY <1>10, FrameStepLeaves, <1>1 DEF respawnVars
  <1> QED BY <1>3, <1>4, <1>5, <1>6, <1>7, <1>8, <1>9, <1>10 DEF Next

\* For any size of ring and any window, lock programs are started at most
\* RespawnMax times per window, whatever asks for them.
THEOREM RespawnsBounded == Spec => []RespawnBudget
  <1>1. Init => RingInv
    BY SessionLockAssumption
    DEF SessionLockAssumption, Init, RingInv, RingHolds, StartsOrdered, RespawnBudget
  <1>2. RingInv => RespawnBudget
    BY DEF RingInv
  <1> QED BY <1>1, <1>2, TypeCorrect, RingInvStep, PTL DEF Spec

-----------------------------------------------------------------------------
(* Keys under a lock.                                                      *)

\* Nothing on the desktop has the keyboard under a lock.
NoDesktopFocus == locked => focus \notin Desktop

\* With no lock-handler module and no X11 popup, nothing typed under a lock
\* reaches the desktop.  Each hypothesis is needed: the module's lock and the
\* popup's grab each make the gate refuse to clear the keyboard.
ClientsOnly == ModuleActive = FALSE /\ Grabbers \subseteq {"layer"}

LEMMA NoDesktopStep ==
  ASSUME ClientsOnly, TypeOK, NoGrabUnderLock, NoDesktopFocus, ~exclusiveFocus,
         [Next]_vars
  PROVE  NoDesktopFocus' /\ ~exclusiveFocus'
  <1> USE SessionLockAssumption DEF SessionLockAssumption, Desktop
  <1>0. /\ exclusiveFocus = FALSE /\ locked \in BOOLEAN /\ exclusiveLayer \in BOOLEAN
        /\ "nobody" \notin Desktop
    BY DEF TypeOK
  <1>1. CASE LockSession
    BY <1>0, <1>1
    DEF LockSession, DispatchLock, ClientsOnly, compVars, deskVars, NoDesktopFocus
  <1>2. CASE UnlockSession
    BY <1>0, <1>2 DEF UnlockSession, OpenSession, deskVars, NoDesktopFocus
  <1>3. ASSUME NEW c \in Lockers, LockerStep(c)
        PROVE  NoDesktopFocus' /\ ~exclusiveFocus'
    <2>1. CASE StartLocker(c) \/ LockerAccepts(c) \/ LockerExits(c)
      BY <1>0, <2>1
      DEF StartLocker, LockerAccepts, LockerExits, compVars, deskVars, NoDesktopFocus
    <2>2. CASE NewSessionLock(c)
      <3>1. CASE curLock # NoLocker
        BY <1>0, <2>2, <3>1 DEF NewSessionLock, deskVars, NoDesktopFocus
      <3>2. CASE curLock = NoLocker
        <4>1. focus' = FocusClient(locked, FALSE, FALSE, focus, "nobody")
          BY <1>0, <2>2, <3>2 DEF NewSessionLock
        <4>2. CASE locked = TRUE
          <5>1. focus' = focus BY <4>1, <4>2 DEF FocusClient, FocusAllowed
          <5>2. exclusiveFocus' = exclusiveFocus
            BY <2>2 DEF NewSessionLock, deskVars
          <5> QED BY <1>0, <4>2, <5>1, <5>2 DEF NoDesktopFocus
        <4>3. CASE locked = FALSE
          BY <1>0, <2>2, <4>1, <4>3, GateOpen
          DEF NewSessionLock, deskVars, NoDesktopFocus
        <4> QED BY <1>0, <4>2, <4>3
      <3> QED BY <3>1, <3>2
    <2>3. CASE SessionUnlock(c)
      BY <1>0, <2>3 DEF SessionUnlock, OpenSession, deskVars, NoDesktopFocus
    <2>4. CASE SessionLockDestroy(c)
      BY <1>0, <2>4
      DEF SessionLockDestroy, WithoutLockSurfaces, deskVars, NoDesktopFocus
    <2> QED BY <1>3, <2>1, <2>2, <2>3, <2>4 DEF LockerStep
  <1>4. ASSUME NEW o \in Outputs, OutputStep(o)
        PROVE  NoDesktopFocus' /\ ~exclusiveFocus'
    <2>1. o \notin Desktop OBVIOUS
    <2> QED
      BY <1>0, <1>4, <2>1
      DEF OutputStep, LockSurfaceCreate, LockSurfaceDestroy, PlugOutput,
          UnplugOutput, compVars, deskVars, NoDesktopFocus
  <1>5. CASE ModuleStep
    <2>1. CASE IdleLockTimeout
      BY <2>1 DEF IdleLockTimeout, ClientsOnly
    <2>2. ASSUME NEW answer \in {"ok", "fail"}, StartAuth(answer)
          PROVE  NoDesktopFocus' /\ ~exclusiveFocus'
      BY <1>0, <2>2 DEF StartAuth, compVars, deskVars, NoDesktopFocus
    <2>3. ASSUME NEW answer \in {"ok", "fail"}, PamResult(answer)
          PROVE  NoDesktopFocus' /\ ~exclusiveFocus'
      BY <1>0, <2>3 DEF PamResult, SetUnlocked, compVars, deskVars, NoDesktopFocus
    <2> QED BY <1>5, <2>1, <2>2, <2>3 DEF ModuleStep
  <1>6. CASE DesktopStep
    <2>1. CASE FocusWindow
      <3>1. locked' = locked /\ exclusiveFocus' = exclusiveFocus
        BY <2>1 DEF FocusWindow
      <3>2. CASE locked = TRUE
        <4>1. focus' = focus
          BY <2>1, <3>2 DEF FocusWindow, FocusClient, FocusAllowed
        <4> QED BY <1>0, <3>1, <3>2, <4>1 DEF NoDesktopFocus
      <3>3. CASE locked = FALSE
        BY <1>0, <3>1, <3>3 DEF NoDesktopFocus
      <3> QED BY <1>0, <3>2, <3>3
    <2>2. CASE WindowUnmap
      BY <1>0, <2>2 DEF WindowUnmap, NoDesktopFocus
    <2>3. CASE LayerCommit
      BY <1>0, <2>3 DEF LayerCommit, LayerTakesKeyboard, deskVars, NoDesktopFocus
    <2>4. CASE LayerUnmap
      BY <1>0, <2>4 DEF LayerUnmap, deskVars, NoDesktopFocus
    <2>5. CASE PopupMap
      BY <2>5 DEF PopupMap, ClientsOnly
    <2>6. CASE PopupUnmap
      BY <1>0, <2>6 DEF PopupUnmap
    <2> QED BY <1>6, <2>1, <2>2, <2>3, <2>4, <2>5, <2>6 DEF DesktopStep
  <1>7. CASE Tick \/ UNCHANGED vars
    BY <1>0, <1>7 DEF Tick, vars, compVars, deskVars, NoDesktopFocus
  <1>8. CASE FrameStep
    BY <1>8, FrameStepLeaves DEF NoDesktopFocus
  <1> QED BY <1>1, <1>2, <1>3, <1>4, <1>5, <1>6, <1>7, <1>8 DEF Next

\* Where lock clients are the only lock and nothing but layer surfaces grabs
\* the keyboard, no key typed under a lock reaches the desktop.
THEOREM KeysStayWithTheLock == ClientsOnly => (Spec => []NoKeysToDesktop)
  <1> SUFFICES ASSUME ClientsOnly PROVE Spec => []NoKeysToDesktop
    OBVIOUS
  <1>1. Init => NoDesktopFocus /\ ~exclusiveFocus
    BY DEF Init, NoDesktopFocus
  <1>2. TypeOK /\ NoGrabUnderLock /\ NoDesktopFocus /\ ~exclusiveFocus /\ [Next]_vars
          => NoDesktopFocus' /\ ~exclusiveFocus'
    BY NoDesktopStep
  <1>3. NoDesktopFocus => NoKeysToDesktop
    BY DEF NoDesktopFocus, NoKeysToDesktop, KeyGoesTo, Desktop
  <1> QED
    BY <1>1, <1>2, <1>3, TypeCorrect, LockHasNoGrab, PTL DEF Spec

=============================================================================
