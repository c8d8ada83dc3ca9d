------------------------------- MODULE Displays -------------------------------
(***************************************************************************)
(* The screens: src/core/gowl-output-power.c (blanking), the timer and     *)
(* the inhibitors of src/core/gowl-idle-manager.c, the lid policy of       *)
(* src/core/gowl-lid-policy.c, and the compositor's handlers that plug,    *)
(* unplug and configure outputs and move the windows between them.         *)
(*                                                                         *)
(* Four parties switch the same enable bit of an output: the lid policy,   *)
(* the blanking path, output management and the configuration.  Each       *)
(* keeps its own record of what it did.  A handler is one action, a        *)
(* function of the record Now applied in the order of the code's calls.    *)
(***************************************************************************)
EXTENDS Integers, Sequences, SequencesExt

CONSTANTS
  Outputs, Internal,  \* outputs, and those gowl_name_is_internal_panel() names
  Windows,
  None,               \* GowlMonitor * NULL
  Away,               \* the monitor of a window that is not mapped
  ConfigOff,          \* outputs the configuration disables
  Removable,          \* outputs that can be unplugged
  Flaky,              \* panels whose first commit may fail while the lid is shut
  Managed,            \* outputs that clients configure
  IpcEnables,         \* the values monitor.configure gives "enabled"
  FirstPlugged        \* the outputs the session starts with, in order

ASSUME DisplaysAssumption ==
  /\ Internal \subseteq Outputs /\ Removable \cup ConfigOff \cup Managed \subseteq Outputs
  /\ Flaky \subseteq Internal
  /\ None \notin Outputs /\ Away \notin Outputs \cup {None}
  /\ IpcEnables \subseteq BOOLEAN
  /\ FirstPlugged \in Seq(Outputs \ ConfigOff) /\ IsInjective(FirstPlugged)
  /\ FirstPlugged # <<>>

VARIABLES
  mons,       \* self->monitors, in order
  layout,     \* the outputs of wlr_output_layout
  lit,        \* wlr_output->enabled
  off,        \* m->powered_off
  lid,        \* lid_closed
  idleOff,    \* outputs_off_by_idle
  grace,      \* now < output_power_grace
  selmon,     \* self->selmon
  win,        \* c->mon
  video,      \* windows with an idle inhibitor
  inhibited,  \* the manager's answer at the last check
  armed,      \* the dpms timer runs
  refused     \* history: outputs the configuration or a client disabled, not lit since

vars == <<mons, layout, lit, off, lid, idleOff, grace, selmon, win, video, inhibited,
          armed, refused>>

Plugged == Range(mons)

Now ==
  [mons |-> mons, layout |-> layout, lit |-> lit, off |-> off, idleOff |-> idleOff,
   grace |-> grace, selmon |-> selmon, win |-> win, video |-> video,
   inhibited |-> inhibited, armed |-> armed]

\* disabled: the outputs this step disabled for good.
BecomeWithout(d, disabled) ==
  /\ mons' = d.mons /\ layout' = d.layout /\ lit' = d.lit /\ off' = d.off
  /\ idleOff' = d.idleOff /\ grace' = d.grace /\ selmon' = d.selmon /\ win' = d.win
  /\ video' = d.video /\ inhibited' = d.inhibited /\ armed' = d.armed
  /\ refused' = ((refused \cup disabled) \cap Range(d.mons)) \ d.lit

Become(d) == BecomeWithout(d, {})

(***************************************************************************)
(* Inhibitors.                                                             *)
(***************************************************************************)

\* inhibitor_counts(), every mapped window being on a visible tag
Counts(d, w) == w \in d.video /\ d.win[w] \in d.lit

\* rearm_timers(), with a dpms timeout set
Rearm(d) == [d EXCEPT !.armed = ~d.inhibited]

\* gowl_idle_manager_check_inhibitors(), which every gowl_compositor_arrange() ends in
Arrange(d) ==
  LET now == \E w \in Windows : Counts(d, w) IN
  IF now = d.inhibited THEN d ELSE Rearm([d EXCEPT !.inhibited = now])

(***************************************************************************)
(* Windows and outputs.                                                    *)
(***************************************************************************)

\* setmon() of each of these windows
SetMon(d, ws, m) ==
  IF \A w \in ws : d.win[w] = m THEN d
  ELSE Arrange([d EXCEPT !.win = [w \in Windows |-> IF w \in ws THEN m ELSE @[w]]])

On(d, m) == {w \in Windows : d.win[w] = m}

\* gowl_monitor_set_enabled(): nothing is arranged.
SetEnabled(d, m, on) == [d EXCEPT !.lit = IF on THEN @ \cup {m} ELSE @ \ {m}]

\* gowl_lid_internal_should_enable()
ShouldEnable(shut, externals) == ~shut \/ externals = {}

\* The first enabled output but m.
NextEnabled(d, m) ==
  LET i == SelectInSeq(d.mons, LAMBDA o : o # m /\ o \in d.lit) IN
  IF i = 0 THEN None ELSE d.mons[i]

\* MUTANT of TakeOut: the windows stay where they were.
TakeOutAlone(d, m) ==
  LET dark == [SetEnabled(d, m, FALSE) EXCEPT !.layout = @ \ {m}] IN
  Arrange([dark EXCEPT !.selmon = IF @ = m THEN NextEnabled(dark, m) ELSE @])

\* update_lid_outputs(): the panel goes dark and leaves the layout.
TakeOut(d, m) ==
  LET dark == [SetEnabled(d, m, FALSE) EXCEPT !.layout = @ \ {m}]
      reselected == [dark EXCEPT !.selmon = IF @ = m THEN NextEnabled(dark, m) ELSE @]
      moved == SetMon(reselected, On(reselected, m), reselected.selmon)
  IN IF moved.selmon = None THEN moved ELSE Arrange(moved)

\* update_lid_outputs(): the panel comes back.
BringBack(d, m) ==
  Arrange([SetEnabled(d, m, TRUE) EXCEPT
            !.layout = @ \cup {m}, !.selmon = IF @ = None THEN m ELSE @])

\* One turn of its loop.
LidStep(e, m, want) ==
  IF m \notin Internal THEN e
  ELSE IF want
  THEN IF m \in e.lit /\ m \in e.layout THEN e ELSE BringBack(e, m)
  ELSE IF m \notin e.lit /\ m \notin e.layout THEN e ELSE TakeOut(e, m)

\* gowl_compositor_update_lid_outputs()
UpdateLid(d, shut) ==
  LET want == ShouldEnable(shut, (Range(d.mons) \ Internal) \cap d.lit)
      after[i \in 0..Len(d.mons)] ==
        IF i = 0 THEN d ELSE LidStep(after[i - 1], d.mons[i], want)
  IN after[Len(d.mons)]

\* on_new_output().  A shut panel's commit may fail.
Plug(m) ==
  /\ m \notin Plugged
  /\ \E ok \in BOOLEAN :
       /\ ok \/ (m \in Flaky /\ lid)
       /\ LET new == [Now EXCEPT !.mons = Append(@, m), !.layout = @ \cup {m},
                                 !.selmon = IF @ = None THEN m ELSE @]
              on == ok /\ m \notin ConfigOff
          IN BecomeWithout(UpdateLid(SetEnabled(new, m, on), lid),
                           IF ok /\ ~on THEN {m} ELSE {})
  /\ UNCHANGED lid

\* MUTANT of Unplug: the lid is not looked at again.
UnplugOnly(m) ==
  /\ m \in Plugged \cap Removable
  /\ LET rest == RemoveFirst(mons, m)
         sel == IF selmon # m THEN selmon ELSE IF rest = <<>> THEN None ELSE Head(rest)
         gone == [Now EXCEPT !.mons = rest, !.layout = @ \ {m}, !.lit = @ \ {m},
                             !.off = @ \ {m}, !.selmon = sel]
     IN Become(SetMon(gone, On(gone, m), sel))
  /\ UNCHANGED lid

\* on_monitor_destroy()
Unplug(m) ==
  /\ m \in Plugged \cap Removable
  /\ LET rest == RemoveFirst(mons, m)
         sel == IF selmon # m THEN selmon ELSE IF rest = <<>> THEN None ELSE Head(rest)
         gone == [Now EXCEPT !.mons = rest, !.layout = @ \ {m}, !.lit = @ \ {m},
                             !.off = @ \ {m}, !.selmon = sel]
     IN Become(UpdateLid(SetMon(gone, On(gone, m), sel), lid))
  /\ UNCHANGED lid

\* on_lid_toggle()
LidToggle ==
  /\ lid' = ~lid
  /\ Become(UpdateLid(Now, lid'))

\* on_new_input(): the lid switch of a dock that re-enumerates
LidSwitchFound == Become(UpdateLid(Now, lid)) /\ UNCHANGED lid

\* on_output_mgr_apply(), of one head
ApplyOutput(m, on) ==
  /\ m \in Plugged \cap Managed
  /\ IF on
     THEN Become(Arrange([SetEnabled(Now, m, TRUE) EXCEPT !.layout = @ \cup {m}]))
     ELSE BecomeWithout(SetEnabled(Now, m, FALSE), {m})
  /\ UNCHANGED lid

\* monitor.configure, of "enabled" alone
ConfigureOutput(m, on) ==
  /\ m \in Plugged \cap Managed /\ on \in IpcEnables
  /\ BecomeWithout(SetEnabled(Now, m, on), IF on THEN {} ELSE {m})
  /\ UNCHANGED lid

(***************************************************************************)
(* Blanking.                                                               *)
(***************************************************************************)

\* gowl_compositor_set_monitor_powered()
SetPowered(d, m, on) ==
  IF m \notin d.layout \/ (on = (m \notin d.off) /\ on = (m \in d.lit)) THEN d
  ELSE IF on THEN Arrange([SetEnabled(d, m, TRUE) EXCEPT !.off = @ \ {m}])
  ELSE [SetEnabled(d, m, FALSE) EXCEPT !.off = @ \cup {m}]

\* Over self->monitors, of those in ms.
SetEachPowered(d, ms, on) ==
  LET after[i \in 0..Len(d.mons)] ==
        IF i = 0 THEN d
        ELSE IF d.mons[i] \in ms THEN SetPowered(after[i - 1], d.mons[i], on)
        ELSE after[i - 1]
  IN after[Len(d.mons)]

\* The bookkeeping of an explicit off.
NoteOff(d, on) == IF on THEN d ELSE [d EXCEPT !.grace = TRUE, !.idleOff = FALSE]

\* gowl_compositor_set_outputs_powered(), from a key or from IPC
PowerAll(on) == Become(SetEachPowered(NoteOff(Now, on), Plugged, on)) /\ UNCHANGED lid

\* output-power "toggle", with gowl_compositor_any_output_powered_off()
PowerToggle == PowerAll(off # {})

\* on_output_power_set_mode(): wlopm, swayidle
PowerOne(m, on) ==
  /\ m \in Plugged
  /\ Become(SetPowered(NoteOff(Now, on), m, on))
  /\ UNCHANGED lid

\* monitor.configure, of "power" alone: no explicit off is noted.
ConfigurePower(m, on) ==
  /\ m \in Plugged \cap Managed
  /\ Become(SetPowered(Now, m, on))
  /\ UNCHANGED lid

\* OUTPUT_POWER_GRACE_USEC is over.
GraceEnds == grace /\ Become([Now EXCEPT !.grace = FALSE]) /\ UNCHANGED lid

\* on_dpms_timer()
DpmsTimer ==
  /\ armed
  /\ LET dark == SetEachPowered([Now EXCEPT !.armed = FALSE], lit \ off, FALSE)
     IN Become([dark EXCEPT !.idleOff = @ \/ lit \ off # {}])
  /\ UNCHANGED lid

\* MUTANT of WakeOutputs: an output that is lit already ends the walk.
WakeOutputsUntilLit(d) ==
  IF (~d.idleOff /\ d.grace) \/ d.lit # {} THEN d
  ELSE [SetEachPowered(d, d.off, TRUE) EXCEPT !.idleOff = FALSE]

\* gowl_compositor_wake_outputs()
WakeOutputs(d) ==
  IF ~d.idleOff /\ d.grace THEN d
  ELSE [SetEachPowered(d, d.off, TRUE) EXCEPT !.idleOff = FALSE]

\* A key, a button or the wheel: gowl_idle_manager_note_activity()
Input == Become(Rearm(WakeOutputs(Now))) /\ UNCHANGED lid

(***************************************************************************)
(* The user, and the windows.                                              *)
(***************************************************************************)

Mapped == {w \in Windows : win[w] # Away}

\* The outputs before and after selmon in self->monitors, which goes round.
Neighbours ==
  LET n == Len(mons)
      i == CHOOSE k \in 1..n : mons[k] = selmon
  IN IF selmon \notin Plugged THEN {} ELSE {mons[(i % n) + 1], mons[((i + n - 2) % n) + 1]}

\* focus-monitor
FocusMonitor == \E m \in Neighbours : Become([Now EXCEPT !.selmon = m]) /\ UNCHANGED lid

\* move-to-monitor, of the top window of selmon
MoveToMonitor ==
  /\ \E m \in Neighbours, w \in On(Now, selmon) : Become(SetMon(Now, {w}, m))
  /\ UNCHANGED lid

\* gowl_compositor_motionnotify(): the pointer selects the output it is on.
PointerTo(m) == m \in layout /\ Become([Now EXCEPT !.selmon = m]) /\ UNCHANGED lid

\* gowl_compositor_focus_client(), show_client()
FocusWindow(w) ==
  /\ w \in Mapped
  /\ Become([Now EXCEPT !.selmon = win[w]])
  /\ UNCHANGED lid

\* on_client_map(), on_client_unmap()
MapWindow(w) ==
  /\ w \notin Mapped
  /\ Become(SetMon(Now, {w}, selmon))
  /\ UNCHANGED lid

UnmapWindow(w) ==
  /\ w \in Mapped
  /\ Become(Arrange([Now EXCEPT !.win[w] = Away, !.video = @ \ {w}]))
  /\ UNCHANGED lid

\* on_new_inhibitor(), on_inhibitor_destroy()
Play(w) ==
  /\ w \in Mapped \ video
  /\ Become(Arrange([Now EXCEPT !.video = @ \cup {w}]))
  /\ UNCHANGED lid

Pause(w) ==
  /\ w \in video
  /\ Become(Arrange([Now EXCEPT !.video = @ \ {w}]))
  /\ UNCHANGED lid

\* Any other gowl_compositor_arrange(): a tag viewed, a window tiled.
Retile == Become(Arrange(Now)) /\ UNCHANGED lid

(***************************************************************************)
(* The specification.                                                      *)
(***************************************************************************)

Init ==
  /\ mons = FirstPlugged
  /\ layout = Plugged /\ lit = Plugged /\ off = {} /\ refused = {}
  /\ lid = FALSE /\ idleOff = FALSE /\ grace = FALSE
  /\ selmon = Head(mons)
  /\ win = [w \in Windows |-> Away] /\ video = {}
  /\ inhibited = FALSE /\ armed = TRUE

Next ==
  \/ \E m \in Outputs : Plug(m)
  \/ \E m \in Outputs : Unplug(m)
  \/ LidToggle
  \/ LidSwitchFound
  \/ \E m \in Outputs, on \in BOOLEAN : ApplyOutput(m, on)
  \/ \E m \in Outputs, on \in BOOLEAN : ConfigureOutput(m, on)
  \/ \E on \in BOOLEAN : PowerAll(on)
  \/ PowerToggle
  \/ \E m \in Outputs, on \in BOOLEAN : PowerOne(m, on)
  \/ \E m \in Outputs, on \in BOOLEAN : ConfigurePower(m, on)
  \/ GraceEnds
  \/ DpmsTimer
  \/ Input
  \/ FocusMonitor
  \/ MoveToMonitor
  \/ \E m \in Outputs : PointerTo(m)
  \/ \E w \in Windows : FocusWindow(w)
  \/ \E w \in Windows : MapWindow(w)
  \/ \E w \in Windows : UnmapWindow(w)
  \/ \E w \in Windows : Play(w)
  \/ \E w \in Windows : Pause(w)
  \/ Retile

Spec == Init /\ [][Next]_vars

(***************************************************************************)
(* Properties.                                                             *)
(***************************************************************************)

\* The variables hold values of their C types, and the enable bits, layout
\* places and power marks belong to plugged outputs.
TypeOK ==
  /\ mons \in Seq(Outputs) /\ IsInjective(mons)
  /\ layout \cup lit \cup off \cup refused \subseteq Plugged
  /\ {lid, idleOff, grace, inhibited, armed} \subseteq BOOLEAN
  /\ selmon \in Plugged \cup {None}
  /\ win \in [Windows -> Plugged \cup {None, Away}]
  /\ video \subseteq Mapped

\* The comment of update_lid_outputs(): the policy "never blacks out the only
\* screen".  Whatever the order of lid, plug and unplug events, a machine with
\* an output shows something, unless an output was blanked or disabled.
NeverBlind ==
  mons # <<>> => layout \cap (lit \cup off \cup refused) # {}

\* After an input only an output that was disabled for good is dark.
InputWakes == layout' \subseteq lit' \cup refused' \/ (~idleOff /\ grace) \/ ~Input

\* The timer blanks nothing while a window that inhibits is on a lit output.
VideoKeepsAwake == (\E w \in Windows : Counts(Now, w)) => ~DpmsTimer

\* gowl-output-power.c: input "powers on every output the idle timer turned off,
\* or that an explicit `off' turned off longer ago than the grace period".
\* docs/configuration.org: both timers are held off while a visible window holds
\* an inhibitor.  The inhibitors' answer is cached between arranges, and outputs
\* are lit and darkened by handlers that arrange nothing.
BlankingFollowsUse == [][InputWakes /\ VideoKeepsAwake]_vars

\* Unplugging selects the first output of the list, which may be the shut panel.
SelectsShutPanel == \E m \in Outputs : Unplug(m) /\ m = selmon /\ selmon' \notin layout'

\* docs/configuration.org: the lid policy moves "the selected monitor and any
\* clients to the external output".  The selection leaves the layout only by a
\* command that selects an output outside, with the last output, or as
\* SelectsShutPanel says; a window leaves it only after the selection, or to no
\* output when none was selected (FocusWindow of a window that has none).
WindowsStayShown ==
  [][/\ selmon \in layout =>
          selmon' \in layout' \/ FocusMonitor \/ (\E w \in Windows : FocusWindow(w))
            \/ SelectsShutPanel \/ mons' = <<>>
     /\ \A w \in Windows : win[w] \in layout =>
          win'[w] \in layout' \cup {Away} \/ MoveToMonitor
            \/ (win'[w] = selmon' /\ selmon' \notin layout')
            \/ (win'[w] = None /\ selmon = None)]_vars

(***************************************************************************)
(* What the documents say and the code does not keep; see the README.      *)
(***************************************************************************)

\* update_lid_outputs(): a panel is off "while the lid is shut and at least one
\* external display remains lit".
ShutPanelIsDark ==
  lid /\ (lit \cap layout) \ Internal # {} => Internal \cap lit \cap layout = {}

\* docs/configuration.org: "the machine is never left blank", output
\* management included.
SomethingIsLit == mons # <<>> /\ off = {} => layout \cap lit # {}

\* on_monitor_destroy(): windows move "to the next available monitor".
NoOrphans == mons # <<>> => \A w \in Windows : win[w] # None

\* "toggle" darkens outputs that are all lit.
ToggleToggles == [][PowerToggle /\ layout \subseteq lit /\ layout # {} => ~(layout \subseteq lit')]_vars

=============================================================================
