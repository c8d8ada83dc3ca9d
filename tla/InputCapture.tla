----------------------------- MODULE InputCapture -----------------------------
(***************************************************************************)
(* Input capture: src/core/gowl-input-capture.c, the protocol sessions     *)
(* that own the machines (src/protocols/gowl-input-capture-protocol.c),    *)
(* and the compositor's hooks: who has the keyboard when the pointer       *)
(* leaves for another computer and when it comes back.                     *)
(*                                                                         *)
(* A handler is one action.  What it calls comes back into the machine:    *)
(* giving the keyboard back focuses a window, focusing a window resolves   *)
(* the pointer, and resolving the pointer tests the barriers against the   *)
(* last motion.  So a handler is a function of the desktop's state, the    *)
(* record Now, applied in the order of the code's calls.                   *)
(***************************************************************************)
EXTENDS CaptureZones

CONSTANTS
  Sessions, NoSession,   \* capture sessions
  Windows, NoSurface,    \* ordinary windows; wlr_surface * NULL
  LockSurface, Launcher, \* the other surfaces that take the keyboard
  Keys,                  \* keys, the break chord's apart
  Layouts,               \* the sets of boxes the outputs may have
  Blankable,             \* the boxes of the outputs whose enable bit is switched
  Requests               \* the barrier requests a session may make

ASSUME CaptureAssumption ==
  /\ NoSession \notin Sessions
  /\ NoSurface \notin Windows \cup {LockSurface, Launcher}
  /\ LockSurface \notin Windows /\ Launcher \notin Windows \cup {LockSurface}
  /\ Layouts \subseteq SUBSET ZoneType /\ Requests \subseteq Seq(BarrierType)

VARIABLES
  layout,      \* the boxes of the outputs: m->m, enabled or not
  dark,        \* those whose enable bit is off
  switched,    \* history: those whose bit changed since the last layout change
  sessions,    \* the protocol sessions with their GowlInputCapture
  attached,    \* self->input_capture
  delta,       \* cap_motion_dx/dy: the line the last raw motion reaches
  focus,       \* the seat's keyboard focus
  saved,       \* capture_kb_focus
  held,        \* the keys the focused client believes are down
  down,        \* the keys that are down
  stack,       \* the mapped windows, most recently focused first
  locked,      \* a lock client holds the session
  grab         \* a launcher has the keyboard: exclusive_layer

Outputs == <<layout, dark, switched>>
vars == <<Outputs, sessions, attached, delta, focus, saved, held, down, stack, locked, grab>>

\* build_zones()
Lit == layout \ dark

\* What build_zones() may ever give, and the outputs two answers disagree on.
Shows == UNION {{boxes \ off : off \in SUBSET (boxes \cap Blankable)} : boxes \in Layouts}
Differ(shown, other) == (shown \ other) \cup (other \ shown)

Surfaces == Windows \cup {LockSurface, Launcher}
Segment(b) == <<b.x1, b.y1, b.x2, b.y2>>
Barriers == UNION {{r[i] : i \in DOMAIN r} : r \in Requests}
Segments == {Segment(b) : b \in Barriers}
NoMotion == <<>>

NewCapture == [live |-> TRUE, zones |-> {}, barriers |-> {}, enabled |-> FALSE, active |-> FALSE]
NoCapture == [NewCapture EXCEPT !.live = FALSE]

Now ==
  [sessions |-> sessions, attached |-> attached, delta |-> delta, focus |-> focus,
   saved |-> saved, held |-> held, stack |-> stack, locked |-> locked, grab |-> grab]

Become(d) ==
  /\ sessions' = d.sessions /\ attached' = d.attached /\ delta' = d.delta
  /\ focus' = d.focus /\ saved' = d.saved /\ held' = d.held
  /\ stack' = d.stack /\ locked' = d.locked /\ grab' = d.grab

\* gowl_input_capture_is_active(self->input_capture)
Diverts(d) == d.attached # NoSession /\ d.sessions[d.attached].active
Capturing == Diverts(Now)

(***************************************************************************)
(* The compositor's side of a crossing.                                    *)
(***************************************************************************)

\* capture_focus_drop(): the client hears that every key is up.
FocusDrop(d) ==
  IF d.locked \/ d.grab \/ d.focus = NoSurface
  THEN [d EXCEPT !.saved = NoSurface]
  ELSE [d EXCEPT !.saved = d.focus, !.focus = NoSurface, !.held = {}]

Crosses(d) ==
  /\ d.attached # NoSession
  /\ LET s == d.sessions[d.attached] IN
       s.enabled /\ ~s.active /\ \E b \in s.barriers : Segment(b) = d.delta

\* gowl_input_capture_check_crossing(), do_activate().
CheckCrossing(d) ==
  IF Crosses(d) THEN FocusDrop([d EXCEPT !.sessions[d.attached].active = TRUE]) ELSE d

\* gowl_compositor_motionnotify(): a captured pointer is put back and the raw
\* delta kept; otherwise it is used up.
MotionNotify(d) ==
  LET e == CheckCrossing(d) IN IF Diverts(e) THEN e ELSE [e EXCEPT !.delta = NoMotion]

\* g_list_remove() from the focus stack; Lift also prepends.
Unlinked(q, w) ==
  LET place == CHOOSE i \in DOMAIN q : q[i] = w IN
  IF \E i \in DOMAIN q : q[i] = w
  THEN SubSeq(q, 1, place - 1) \o SubSeq(q, place + 1, Len(q))
  ELSE q

Lift(d, w) == [d EXCEPT !.stack = <<w>> \o Unlinked(@, w)]

\* gowl_compositor_focus_client(): the window is told the keys that are down.
FocusClient(d, w) ==
  IF d.locked \/ d.grab \/ w = d.focus THEN d
  ELSE IF w = NoSurface THEN [d EXCEPT !.focus = NoSurface, !.held = {}]
  ELSE [MotionNotify(Lift(d, w)) EXCEPT !.focus = w, !.held = down]

FocusTop(d) == IF d.stack = <<>> THEN NoSurface ELSE Head(d.stack)
IsMapped(d, w) == \E i \in DOMAIN d.stack : d.stack[i] = w

\* capture_focus_restore()
FocusRestore(d) ==
  LET e == [d EXCEPT !.saved = NoSurface] IN
  IF IsMapped(d, d.saved) /\ d.focus = NoSurface THEN FocusClient(e, d.saved) ELSE e

\* gowl_input_capture_deactivate(): only the attached machine's signal is heard.
Deactivate(d, s) ==
  LET e == [d EXCEPT !.sessions[s].active = FALSE] IN
  IF d.sessions[s].active /\ s = d.attached THEN FocusRestore(e) ELSE e

\* MUTANT of SetInputCapture: the keyboard of a torn-down session stays away.
SetInputCaptureOnly(d, s) == [d EXCEPT !.attached = s]

\* gowl_compositor_set_input_capture()
SetInputCapture(d, s) ==
  IF d.attached = s THEN d
  ELSE [(IF d.attached = NoSession THEN d ELSE FocusRestore(d)) EXCEPT !.attached = s]

(***************************************************************************)
(* The requests of a session.                                              *)
(***************************************************************************)

Live(s) == sessions[s].live
Others == <<Outputs, down>>

CreateCapture(s) ==
  /\ ~Live(s)
  /\ Become(SetInputCapture([Now EXCEPT !.sessions[s] = NewCapture], s))
  /\ UNCHANGED Others

\* capture_get_zones(): the machine gets the outputs of this moment.
GetZones(s) ==
  /\ Live(s)
  /\ sessions' = [sessions EXCEPT ![s].zones = Lit, ![s].barriers = {}]
  /\ UNCHANGED <<attached, delta, focus, saved, held, stack, locked, grab, Others>>

\* The add_barrier requests and the set_barriers that ends them.  When none is
\* valid the old ones stay.
SetBarriers(s, request) ==
  /\ Live(s)
  /\ LET ok == Accepted(sessions[s].zones, request) IN
       sessions' = [sessions EXCEPT ![s].barriers = IF ok = {} THEN @ ELSE ok]
  /\ UNCHANGED <<attached, delta, focus, saved, held, stack, locked, grab, Others>>

Enable(s) ==
  /\ Live(s)
  /\ sessions' = [sessions EXCEPT ![s].enabled = TRUE]
  /\ UNCHANGED <<attached, delta, focus, saved, held, stack, locked, grab, Others>>

Disable(s) ==
  /\ Live(s)
  /\ Become([Deactivate(Now, s) EXCEPT !.sessions[s].enabled = FALSE])
  /\ UNCHANGED Others

\* capture_release(), with the point the other side left off at or without.
Release(s, warp) ==
  /\ Live(s)
  /\ LET d == Deactivate(Now, s) IN
       Become(IF warp THEN MotionNotify([d EXCEPT !.delta = NoMotion]) ELSE d)
  /\ UNCHANGED Others

\* The session is destroyed, or its client goes away.
ResourceDestroy(s) ==
  /\ Live(s)
  /\ LET d == IF attached = s THEN SetInputCapture(Now, NoSession) ELSE Now IN
       Become([d EXCEPT !.sessions[s] = NoCapture])
  /\ UNCHANGED Others

(***************************************************************************)
(* Outputs and input.                                                      *)
(***************************************************************************)

\* MUTANT of Rezoned: the barriers survive.
RezonedOnly(m, zones) ==
  IF m.live /\ m.zones # zones THEN [m EXCEPT !.zones = zones] ELSE m

\* gowl_input_capture_protocol_layout_changed(), for one session.
Rezoned(m, zones) ==
  IF m.live /\ m.zones # zones THEN [m EXCEPT !.zones = zones, !.barriers = {}] ELSE m

\* on_layout_change(): the windows are arranged first.  The change may come of a
\* commit that switched enable bits too, and may leave every box where it was.
LayoutChange(new, off) ==
  /\ layout' = new /\ dark' = off /\ switched' = {}
  /\ LET d == MotionNotify(Now) IN
       Become([d EXCEPT !.sessions = [s \in Sessions |-> Rezoned(d.sessions[s], new \ off)]])
  /\ UNCHANGED down

\* The enable bit alone, which no layout change announces.  Off: a blanked
\* screen, monitor.configure, a disable over output management or in the
\* configuration.
DarkenOutput(z) ==
  /\ z \in Lit
  /\ dark' = dark \cup {z} /\ switched' = switched \cup {z}
  /\ UNCHANGED <<layout, sessions, attached, delta, focus, saved, held, down, stack, locked, grab>>

\* On, in the mode the output had: gowl_compositor_set_monitor_powered() arranges
\* its windows, gowl_monitor_set_enabled() does not.
WakeOutput(z, arranged) ==
  /\ z \in dark
  /\ dark' = dark \ {z} /\ switched' = switched \cup {z}
  /\ Become(IF arranged THEN MotionNotify(Now) ELSE Now)
  /\ UNCHANGED <<layout, down>>

\* on_cursor_motion(): a push that reaches a line, or none.
CursorMotion(line) ==
  /\ Become(MotionNotify([Now EXCEPT !.delta = line]))
  /\ UNCHANGED Others

\* compositor_handle_key(): the client that hears a key, if any does.
KeyIsHeard == focus # NoSurface /\ (locked \/ ~Capturing)

Key(k) ==
  /\ down' = IF k \in down THEN down \ {k} ELSE down \cup {k}
  /\ held' = IF ~KeyIsHeard THEN held
             ELSE IF k \in down THEN held \ {k} ELSE held \cup {k}
  /\ UNCHANGED <<Outputs, sessions, attached, delta, focus, saved, stack, locked, grab>>

\* Super+Escape: GOWL_KEY_ROUTE_BREAK_CAPTURE.
BreakCapture ==
  /\ ~locked /\ Capturing
  /\ Become(Deactivate(Now, attached))
  /\ UNCHANGED Others

(***************************************************************************)
(* The rest of the desktop, as far as it moves the keyboard.               *)
(***************************************************************************)

\* on_client_map(), setmon(): arranged, then focused.
MapWindow(w) ==
  /\ ~IsMapped(Now, w)
  /\ Become(FocusClient(MotionNotify(Lift(Now, w)), w))
  /\ UNCHANGED Others

\* on_client_unmap().  A window may keep its surface and map again.
UnmapWindow(w, destroyed) ==
  /\ IsMapped(Now, w)
  /\ LET d == [Now EXCEPT !.stack = Unlinked(@, w),
                          !.saved = IF destroyed /\ @ = w THEN NoSurface ELSE @,
                          !.focus = IF @ = w THEN NoSurface ELSE @,
                          !.held = IF focus = w THEN {} ELSE @]
         e == MotionNotify(d)
     IN Become(MotionNotify(FocusClient(e, FocusTop(e))))
  /\ UNCHANGED Others

\* A click, a taskbar or another program: gowl_compositor_activate_client().
ActivateClient(w) ==
  /\ IsMapped(Now, w)
  /\ Become(FocusClient(Now, w))
  /\ UNCHANGED Others

\* gowl_compositor_arrangelayers(): a launcher asks for the keyboard.
LauncherCommit ==
  /\ ~locked /\ ~grab
  /\ Become([FocusClient(Now, NoSurface) EXCEPT !.grab = TRUE, !.focus = Launcher, !.held = {}])
  /\ UNCHANGED Others

LauncherUnmap ==
  /\ grab
  /\ LET d == [Now EXCEPT !.grab = FALSE] IN
       Become(MotionNotify(FocusClient(d, FocusTop(d))))
  /\ UNCHANGED Others

\* on_new_session_lock()
NewSessionLock ==
  /\ ~locked
  /\ Become([FocusClient([Now EXCEPT !.grab = FALSE], NoSurface) EXCEPT !.locked = TRUE])
  /\ UNCHANGED Others

\* on_lock_surface_create()
LockSurfaceCreate ==
  /\ locked /\ focus # LockSurface
  /\ Become([Now EXCEPT !.focus = LockSurface, !.held = {}])
  /\ UNCHANGED Others

\* on_session_unlock()
SessionUnlock ==
  /\ locked
  /\ LET d == [Now EXCEPT !.locked = FALSE] IN
       Become(MotionNotify(FocusClient(d, FocusTop(d))))
  /\ UNCHANGED Others

Init ==
  /\ layout \in Layouts /\ dark = {} /\ switched = {}
  /\ sessions = [s \in Sessions |-> NoCapture]
  /\ attached = NoSession /\ delta = NoMotion
  /\ focus = NoSurface /\ saved = NoSurface /\ held = {} /\ down = {}
  /\ stack = <<>> /\ locked = FALSE /\ grab = FALSE

Next ==
  \/ \E s \in Sessions :
       \/ CreateCapture(s) \/ GetZones(s) \/ Enable(s) \/ Disable(s) \/ ResourceDestroy(s)
       \/ \E request \in Requests : SetBarriers(s, request)
       \/ \E warp \in BOOLEAN : Release(s, warp)
  \/ \E new \in Layouts : \E off \in SUBSET (new \cap Blankable) : LayoutChange(new, off)
  \/ \E z \in Blankable :
       DarkenOutput(z) \/ \E arranged \in BOOLEAN : WakeOutput(z, arranged)
  \/ \E line \in Segments \cup {NoMotion} : CursorMotion(line)
  \/ \E k \in Keys : Key(k)
  \/ BreakCapture
  \/ \E w \in Windows :
       \/ MapWindow(w) \/ ActivateClient(w)
       \/ \E destroyed \in BOOLEAN : UnmapWindow(w, destroyed)
  \/ LauncherCommit \/ LauncherUnmap
  \/ NewSessionLock \/ LockSurfaceCreate \/ SessionUnlock

Spec == Init /\ [][Next]_vars

(***************************************************************************)
(* Properties.                                                             *)
(***************************************************************************)

\* Machines, barriers, surfaces and keys are what they can be.
TypeOK ==
  /\ layout \in Layouts
  /\ dark \subseteq layout \cap Blankable /\ switched \subseteq layout \cap Blankable
  /\ sessions \in [Sessions -> [live : BOOLEAN, zones : Shows \cup {{}},
                                barriers : SUBSET Barriers, enabled : BOOLEAN,
                                active : BOOLEAN]]
  /\ attached \in {s \in Sessions : sessions[s].live} \cup {NoSession}
  /\ delta \in Segments \cup {NoMotion}
  /\ focus \in Surfaces \cup {NoSurface} /\ saved \in Surfaces \cup {NoSurface}
  /\ down \subseteq Keys /\ held \subseteq Keys
  /\ stack \in Seq(Windows) /\ \A i, j \in DOMAIN stack : stack[i] = stack[j] => i = j
  /\ locked \in BOOLEAN /\ grab \in BOOLEAN

\* A session's barriers lie on the outer boundary of the zones it knows, and
\* these are the screens that are lit, but for an output whose enable bit was
\* switched since the layout last changed: whatever was plugged, moved and asked
\* for, a pointer that crosses a barrier leaves the screen and does not merely
\* change display, unless that display has slept or woken meanwhile.
BarriersAreOuter ==
  \A s \in Sessions : \A b \in sessions[s].barriers :
    /\ IsOuter(sessions[s].zones, b)
    /\ Differ(sessions[s].zones, Lit) \subseteq switched

\* gowl_input_capture_protocol_layout_changed(): the new zones drop "the session's
\* barriers: they were validated against edges that may no longer exist": while
\* the screens a session knows are lit, none of its barriers is on an edge between
\* one of them and another lit screen.
BarriersLeaveTheScreen ==
  \A s \in Sessions : sessions[s].zones \subseteq Lit =>
    \A b \in sessions[s].barriers : IsOuter(Lit, b)

\* While the pointer is here some window has the keyboard, if there is one and
\* nothing else holds it: every way a capture ends gives it back.
KeyboardComesBack ==
  ~Capturing /\ ~locked /\ ~grab /\ stack # <<>> => focus # NoSurface

\* compositor.c on Super+Escape: "The one key a capture never gets: without it
\* a wedged KVM client owns this keyboard for good."
EscapeBreaksCapture == [][BreakCapture => ~Capturing']_vars

\* gowl_input_capture_disable(): "Disarms capture and, if currently active,
\* deactivates it (restoring local input)."
DisabledIsOff == \A s \in Sessions : sessions[s].active => sessions[s].enabled

\* active-changed: "a key held across the crossing has to be released to the
\* local client, and given back when the pointer returns": no window goes on
\* believing that a key is down which is up.
NoStuckKeys == focus \in Windows => held \subseteq down

=============================================================================
