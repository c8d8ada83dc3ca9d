----------------------------- MODULE HotkeyRunner -----------------------------
(***************************************************************************)
(* Running action lists: modules/hotkey/gowl-hotkey-runner.c.              *)
(*                                                                         *)
(* Everything but the compilers runs on the compositor thread, and what    *)
(* ends a wait carries the list on at once, inside the callback that ended *)
(* it: lists run inside one another.  The C stack is therefore a variable: *)
(* a frame for each function that still has something to do when what it   *)
(* called returns.  An empty stack is the event loop.                      *)
(*                                                                         *)
(* A list is not written out: its runner takes any kind of action it may   *)
(* take, until none is left.  A `call' only makes a list longer, and an    *)
(* action that neither waits nor calls back shorter.                       *)
(***************************************************************************)
EXTENDS Naturals, FiniteSets, SequencesExt

CONSTANTS
  Ids,             \* hotkeys and timers
  Keys,            \* sources of `c' actions
  Macros,          \* macros that lists run and wait for
  Modes,           \* modes besides the default one
  NoId, NoKey, NoMacro, Default,
  MaxRunning,      \* max-running
  HK_MAX_RUNNERS,
  Acts,            \* actions in the lists of hotkeys and timers
  HookActs,        \* actions in the on-enter and on-exit lists of modes
  After,           \* what a list may do: after an input hook, after a build,
                   \*   and when its hotkey belongs to a one-shot mode
  ListLen,         \* bound: actions in a list
  HookLen,         \* bound: actions in a mode's list
  MaxStarts,       \* bound: lists started
  MaxFires         \* bound: hotkeys fired in one turn of the loop

Kinds == {"sleep", "proc", "macro", "c", "send", "input", "input-stop",
          "cancel", "mode", "reload", "macro-stop"}

ASSUME HotkeyAssumption ==
  /\ MaxRunning \in Nat \ {0} /\ HK_MAX_RUNNERS \in Nat \ {0}
  /\ Acts \subseteq Kinds /\ HookActs \subseteq Kinds
  /\ After \in [{"input", "c", "oneshot"} -> SUBSET Kinds]
  /\ ListLen \in Nat \ {0} /\ HookLen \in Nat
  /\ MaxStarts \in Nat \ {0} /\ MaxFires \in Nat \ {0}
  /\ NoId \notin Ids /\ NoKey \notin Keys /\ NoMacro \notin Macros

VARIABLES
  stack,      \* what the compositor thread is in the middle of, innermost last
  \* Lists.
  started,    \* next_serial
  runners,    \* the running lists' serials, oldest first
  run,        \* what each list is at
  running,    \* the counts held against max-running
  fires,      \* hotkeys waiting for the idle callback
  fireIdle,   \* it is set
  \* What lists wait for.
  plays,      \* queued typing: for whom, and its delays
  playing, playTimer,
  input,      \* the input hook
  macros,     \* in the macro module: "off", "on", or "over" but still listed
  \* C.
  building,   \* c_building
  compiler,   \* per key, the build its compiler thread is at
  posted,     \* what the compilers made, on its way to the loop
  funcs,      \* c_funcs: the build loaded
  faulted,    \* c_faulted
  \* Modes.
  keyMode,    \* the compositor's mode
  mode,       \* the module's
  modeTimer,
  enabled     \* the module is active

tableVars == <<started, runners, running>>
listVars == <<tableVars, run>>
fireVars == <<fires, fireIdle>>
playVars == <<plays, playing, playTimer>>
codeVars == <<building, compiler, posted, funcs, faulted>>
modeVars == <<keyMode, mode, modeTimer>>
otherVars == <<codeVars, modeVars, enabled>>
vars == <<stack, listVars, fireVars, playVars, input, macros, otherVars>>

Serials == 1..MaxStarts
NoRunner == 0
Live == ToSet(runners)

\* A build, by when it was begun: since the last reload, or before it.
Builds == {"new", "old"}
NoBuild == "none"

Gone == [id |-> NoId, left |-> 0, may |-> {}, redo |-> NoKey,
         waiting |-> FALSE, slot |-> {}, macro |-> NoMacro]

NoHook == [active |-> FALSE, runner |-> NoRunner, timer |-> FALSE]

(***************************************************************************)
(* Frames of the C stack.                                                  *)
(***************************************************************************)

Step(r) == [at |-> "step", runner |-> r]              \* runner_step()
Acted(r) == [at |-> "acted", runner |-> r]            \*   after do_action()
StartsInput(r) == [at |-> "input", runner |-> r]      \* before hk_input_start()
FireLoop == [at |-> "fires"]                          \* fire_idle()
OneShot(m) == [at |-> "oneshot", mode |-> m, freed |-> FALSE]
PlayLoop == [at |-> "plays"]                          \* play_kick()
PostLoop == [at |-> "posts"]                          \* on_post_fd()
Built(k, i) == [at |-> "built", key |-> k, i |-> i]   \* the loop of c_built()
BuiltNext(k, i, n) == [at |-> "built next", key |-> k, i |-> i, before |-> n]
ModeEnter(m) == [at |-> "enter", mode |-> m, freed |-> FALSE]
ModeEntered == [at |-> "entered"]                     \* hk_mode_changed()
MacroTold(m) == [at |-> "told", macro |-> m]          \* the macro's run_finish()

AtLoop == stack = <<>>
At(f) == stack # <<>> /\ Last(stack) = f
AtA(place) == stack # <<>> /\ Last(stack).at = place

\* The innermost frame returns, or turns into others.
Becomes(frames) == Front(stack) \o frames

(***************************************************************************)
(* Lists.                                                                  *)
(***************************************************************************)

\* hk_run_actions(): a list is started on top of the frames below.
StartList(id, may, n, below) ==
  IF n = 0 \/ Len(runners) >= HK_MAX_RUNNERS \/ started = MaxStarts
  THEN stack' = below /\ UNCHANGED listVars
  ELSE LET r == started + 1 IN
       /\ started' = r
       /\ runners' = Append(runners, r)
       /\ run' = [run EXCEPT ![r] = [Gone EXCEPT !.id = id, !.left = n, !.may = may]]
       /\ running' = [i \in Ids |-> running[i] + IF i = id THEN 1 ELSE 0]
       /\ stack' = below \o <<Step(r)>>

\* runner_end() and runner_free() of a list: it leaves the counts, and what it waits
\* for is taken down.
EndList(r) ==
  /\ runners' = RemoveAt(runners, CHOOSE i \in DOMAIN runners : runners[i] = r)
  /\ run' = [run EXCEPT ![r] = Gone]
  /\ running' = [i \in Ids |-> running[i] - IF run[r].id = i THEN 1 ELSE 0]

\* The typing queued, when r no longer waits for it.
Unowned(r) ==
  [p \in DOMAIN plays |-> [plays[p] EXCEPT !.runner = IF @ = r THEN NoRunner ELSE @]]

\* MUTANT of InputWithout: the input hook is not looked at.
InputStill(S) == input

\* The input hook, when nobody of S waits for it any more.
InputWithout(S) == [input EXCEPT !.runner = IF @ \in S THEN NoRunner ELSE @]

\* hk_cancel_all(); what becomes of the input hook is the caller's.
CancelAll ==
  /\ runners' = <<>> /\ run' = [r \in Serials |-> Gone]
  /\ running' = [i \in Ids |-> running[i] - Cardinality({r \in Live : run[r].id = i})]
  /\ fires' = <<>> /\ fireIdle' = FALSE
  /\ plays' = <<>> /\ playing' = FALSE /\ playTimer' = FALSE

\* What runner_resume() leaves of a list's wait.
Woken(l) == [l EXCEPT !.waiting = FALSE, !.slot = {}, !.macro = NoMacro]

\* runner_resume(): r carries on, on top of the frames below.
Resume(r, below) ==
  /\ run' = [run EXCEPT ![r] = Woken(@)]
  /\ stack' = below \o <<Step(r)>>

RunnerEnds(r) ==
  /\ At(Step(r)) /\ r \in Live /\ run[r].left = 0
  /\ EndList(r) /\ input' = InputWithout({r}) /\ plays' = Unowned(r)
  /\ stack' = Becomes(<<>>)
  /\ UNCHANGED <<started, fireVars, playing, playTimer, macros, otherVars>>

\* The check by serial, after an action that did not wait.
AfterAction(r) ==
  /\ At(Acted(r))
  /\ IF r \in Live
     THEN run' = [run EXCEPT ![r].waiting = FALSE] /\ stack' = Becomes(<<Step(r)>>)
     ELSE UNCHANGED run /\ stack' = Becomes(<<>>)
  /\ UNCHANGED <<tableVars, fireVars, playVars, input, macros, otherVars>>

(***************************************************************************)
(* Actions that wait, or do not, without calling back: do_action().        *)
(***************************************************************************)

Takes(r, kind) ==
  /\ At(Step(r)) /\ r \in Live
  /\ run[r].left > 0 /\ run[r].redo = NoKey /\ kind \in run[r].may

Did(l) == [l EXCEPT !.left = @ - 1]

\* The action is over; the list goes on with the next.
GoesOn(r) ==
  /\ run' = [run EXCEPT ![r] = Did(@)]
  /\ UNCHANGED stack

WaitsFor(r, slot, macro) ==
  /\ run' = [run EXCEPT ![r] = [Did(@) EXCEPT !.waiting = TRUE, !.slot = slot, !.macro = macro]]
  /\ stack' = Becomes(<<>>)

Sleep(r) ==
  /\ Takes(r, "sleep")
  /\ WaitsFor(r, {"timer"}, NoMacro)
  /\ UNCHANGED <<tableVars, fireVars, playVars, input, macros, otherVars>>

\* A program the list waits for; it may fail to start.
SpawnAction(r) ==
  /\ Takes(r, "proc")
  /\ WaitsFor(r, {"proc"}, NoMacro) \/ GoesOn(r)
  /\ UNCHANGED <<tableVars, fireVars, playVars, input, macros, otherVars>>

\* A macro the list waits for.  One that still runs is refused.
MacroAction(r, m) ==
  /\ Takes(r, "macro")
  /\ IF macros[m] = "off"
     THEN macros' = [macros EXCEPT ![m] = "on"] /\ WaitsFor(r, {}, m)
     ELSE UNCHANGED macros /\ GoesOn(r)
  /\ UNCHANGED <<tableVars, fireVars, playVars, input, otherVars>>

\* Typing that the list waits for, with some delays in it; or a bad line.
SendAction(r) ==
  /\ Takes(r, "send")
  /\ \/ /\ \E n \in 0..1 : plays' = Append(plays, [runner |-> r, delays |-> n])
        /\ playing' = TRUE /\ playTimer' = (playTimer \/ ~playing)
        /\ WaitsFor(r, {}, NoMacro)
     \/ UNCHANGED playVars /\ GoesOn(r)
  /\ UNCHANGED <<tableVars, fireVars, input, macros, otherVars>>

(***************************************************************************)
(* C actions.                                                              *)
(***************************************************************************)

\* A `c' action is over.
Called(l) == [l EXCEPT !.left = @ - 1, !.redo = NoKey, !.may = @ \cap After["c"]]

\* A build is opened: the call may fault, and is then held back.
CallsFunc(r, k) ==
  /\ k \notin faulted /\ funcs[k] # NoBuild
  /\ faulted' \in {faulted, faulted \cup {k}}
  /\ run' = [run EXCEPT ![r] = Called(@)]
  /\ UNCHANGED <<stack, building, compiler>>

HeldBack(r, k) ==
  /\ k \in faulted
  /\ run' = [run EXCEPT ![r] = Called(@)]
  /\ UNCHANGED <<stack, faulted, building, compiler>>

\* No build yet: the list waits for one, and then does this action again.
NeedsBuild(r, k) ==
  /\ k \notin faulted /\ funcs[k] = NoBuild
  /\ run' = [run EXCEPT ![r] = [@ EXCEPT !.waiting = TRUE, !.slot = {"c"}, !.redo = k]]
  /\ stack' = Becomes(<<>>)
  /\ building' = building \cup {k}
  /\ compiler' = IF k \in building THEN compiler ELSE [compiler EXCEPT ![k] = "new"]
  /\ UNCHANGED faulted

\* c_action()
CAction(r, k) ==
  /\ \/ Takes(r, "c")
     \/ At(Step(r)) /\ r \in Live /\ run[r].redo = k
  /\ CallsFunc(r, k) \/ HeldBack(r, k) \/ NeedsBuild(r, k)
  /\ UNCHANGED <<tableVars, fireVars, playVars, input, macros,
                 posted, funcs, modeVars, enabled>>

\* c_thread(): the compiler thread posts what came of it.
CompilerEnds(k) ==
  /\ compiler[k] # NoBuild
  /\ \E b \in {compiler[k], NoBuild} : posted' = Append(posted, [key |-> k, build |-> b])
  /\ compiler' = [compiler EXCEPT ![k] = NoBuild]
  /\ UNCHANGED <<stack, listVars, fireVars, playVars, input, macros, building,
                 funcs, faulted, modeVars, enabled>>

OnPostFd ==
  /\ AtLoop /\ posted # <<>>
  /\ stack' = <<PostLoop>>
  /\ UNCHANGED <<listVars, fireVars, playVars, input, macros, otherVars>>

\* MUTANT of TakePosted: a build that failed wakes nobody.
TakePostedOnlyGood ==
  /\ At(PostLoop) /\ posted # <<>>
  /\ LET b == Head(posted) IN
     /\ posted' = Tail(posted)
     /\ building' = building \ {b.key}
     /\ IF b.build = NoBuild
        THEN faulted' = faulted \cup {b.key} /\ UNCHANGED <<funcs, stack>>
        ELSE /\ funcs' = [funcs EXCEPT ![b.key] = b.build] /\ UNCHANGED faulted
             /\ stack' = Becomes(<<PostLoop, Built(b.key, 1)>>)
     /\ UNCHANGED compiler
  /\ UNCHANGED <<listVars, fireVars, playVars, input, macros, modeVars, enabled>>

\* c_built(), up to its loop over the lists.
TakePosted ==
  /\ At(PostLoop) /\ posted # <<>>
  /\ LET b == Head(posted) IN
     /\ posted' = Tail(posted)
     /\ building' = building \ {b.key}
     /\ IF b.build = NoBuild
        THEN faulted' = faulted \cup {b.key} /\ UNCHANGED funcs
        ELSE funcs' = [funcs EXCEPT ![b.key] = b.build] /\ UNCHANGED faulted
     /\ stack' = Becomes(<<PostLoop, Built(b.key, 1)>>)
     /\ UNCHANGED compiler
  /\ UNCHANGED <<listVars, fireVars, playVars, input, macros, modeVars, enabled>>

PostsEnd ==
  /\ At(PostLoop) /\ posted = <<>>
  /\ stack' = Becomes(<<>>)
  /\ UNCHANGED <<listVars, fireVars, playVars, input, macros, otherVars>>

\* The loop of c_built(): a list that waits for k carries on.
WakeBuilt(k, i) ==
  /\ At(Built(k, i))
  /\ IF i > Len(runners)
     THEN stack' = Becomes(<<>>) /\ UNCHANGED run
     ELSE LET r == runners[i] IN
          IF "c" \in run[r].slot /\ run[r].redo = k
          THEN Resume(r, Becomes(<<BuiltNext(k, i, Len(runners))>>))
          ELSE stack' = Becomes(<<Built(k, i + 1)>>) /\ UNCHANGED run
  /\ UNCHANGED <<tableVars, fireVars, playVars, input, macros, otherVars>>

\* MUTANT of WakeBuiltNext: the loop moves on whatever became of the list.
WakeBuiltSkips(k, i, n) ==
  /\ At(BuiltNext(k, i, n))
  /\ stack' = Becomes(<<Built(k, i + 1)>>)
  /\ UNCHANGED <<listVars, fireVars, playVars, input, macros, otherVars>>

\* The list that carried on came to a wait or its end: fewer lists, and i is the next one.
WakeBuiltNext(k, i, n) ==
  /\ At(BuiltNext(k, i, n))
  /\ stack' = Becomes(<<Built(k, IF Len(runners) < n THEN i ELSE i + 1)>>)
  /\ UNCHANGED <<listVars, fireVars, playVars, input, macros, otherVars>>

\* hk_reload(): every build loaded is forgotten, one under way goes on; and the
\* modes are read anew: what the stack below still knows of one is freed.
Reload ==
  /\ funcs' = [k \in Keys |-> NoBuild] /\ faulted' = {}
  /\ compiler' = [k \in Keys |-> IF compiler[k] = "new" THEN "old" ELSE compiler[k]]
  /\ posted' = [p \in DOMAIN posted |->
       [posted[p] EXCEPT !.build = IF @ = "new" THEN "old" ELSE @]]
  /\ UNCHANGED building

\* A mode's frames, once what they point to has been freed.
Freed(frames, place) ==
  [i \in DOMAIN frames |-> IF frames[i].at = place
                           THEN [frames[i] EXCEPT !.freed = TRUE] ELSE frames[i]]

ReloadAction(r) ==
  /\ Takes(r, "reload")
  /\ Reload
  /\ run' = [run EXCEPT ![r] = Did(@)]
  /\ stack' = Freed(stack, "enter")
  /\ UNCHANGED <<tableVars, fireVars, playVars, input, macros, modeVars, enabled>>

ReloadCommand ==
  /\ AtLoop /\ enabled
  /\ Reload
  /\ UNCHANGED <<stack, listVars, fireVars, playVars, input, macros, modeVars, enabled>>

(***************************************************************************)
(* Typing.                                                                 *)
(***************************************************************************)

PlayTick ==
  /\ AtLoop /\ playTimer
  /\ playTimer' = FALSE
  /\ stack' = <<PlayLoop>>
  /\ UNCHANGED <<listVars, fireVars, plays, playing, input, macros, otherVars>>

\* play_kick(): the first of the queue is typed up to its next delay, or to its end.
PlayHead ==
  /\ At(PlayLoop) /\ plays # <<>>
  /\ LET p == Head(plays) IN
     IF p.delays > 0
     THEN /\ plays' = <<[p EXCEPT !.delays = @ - 1]>> \o Tail(plays)
          /\ playTimer' = TRUE /\ stack' = Becomes(<<>>)
          /\ UNCHANGED run
     ELSE /\ plays' = Tail(plays)
          /\ UNCHANGED playTimer
          /\ IF p.runner = NoRunner THEN UNCHANGED <<stack, run>>
             ELSE Resume(p.runner, stack)
  /\ UNCHANGED <<tableVars, fireVars, playing, input, macros, otherVars>>

PlayEnds ==
  /\ At(PlayLoop) /\ plays = <<>>
  /\ playing' = FALSE
  /\ stack' = Becomes(<<>>)
  /\ UNCHANGED <<listVars, fireVars, plays, playTimer, input, macros, otherVars>>

(***************************************************************************)
(* Input hooks.                                                            *)
(***************************************************************************)

\* hk_input_stop(): who waited carries on, on top of the frames below.
StopInput(below) ==
  /\ input' = NoHook
  /\ stack' = below \o IF input.runner = NoRunner THEN <<>> ELSE <<Step(input.runner)>>

\* The lists after a hook that r0 waited for was stopped.
WokenByInput(lists) ==
  [r \in Serials |-> IF r = input.runner THEN Woken(lists[r]) ELSE lists[r]]

AsksInput(l) == [l EXCEPT !.left = @ - 1, !.waiting = TRUE, !.may = @ \cap After["input"]]

\* An `input' action: a hook that runs is replaced, and whoever waited for it
\* carries on, before this one starts.
InputAction(r) ==
  /\ Takes(r, "input")
  /\ LET waits == [run EXCEPT ![r] = AsksInput(@)]
     IN IF input.active
        THEN StopInput(Becomes(<<StartsInput(r)>>)) /\ run' = WokenByInput(waits)
        ELSE stack' = Becomes(<<StartsInput(r)>>) /\ run' = waits /\ UNCHANGED input
  /\ UNCHANGED <<tableVars, fireVars, playVars, macros, otherVars>>

\* `hotkey-input-start': nobody waits for the hook.
InputCommand ==
  /\ AtLoop /\ enabled
  /\ IF input.active
     THEN StopInput(<<StartsInput(NoRunner)>>) /\ run' = WokenByInput(run)
     ELSE stack' = <<StartsInput(NoRunner)>> /\ UNCHANGED <<run, input>>
  /\ UNCHANGED <<tableVars, fireVars, playVars, macros, otherVars>>

\* hk_input_start(); a timeout is optional.
InputStart(r) ==
  /\ At(StartsInput(r))
  /\ \E timed \in BOOLEAN :
       input' = [active |-> TRUE, runner |-> r, timer |-> input.timer \/ timed]
  /\ stack' = Becomes(<<>>)
  /\ UNCHANGED <<listVars, fireVars, playVars, macros, otherVars>>

\* An end key, a match, a click, the lock, `hotkey-input-stop'; or the timeout.
InputEnds ==
  /\ AtLoop /\ input.active
  /\ StopInput(<<>>) /\ run' = WokenByInput(run)
  /\ UNCHANGED <<tableVars, fireVars, playVars, macros, otherVars>>

InputTimeout ==
  /\ AtLoop /\ input.timer
  /\ IF input.active
     THEN StopInput(<<>>) /\ run' = WokenByInput(run)
     ELSE input' = [input EXCEPT !.timer = FALSE] /\ UNCHANGED <<stack, run>>
  /\ UNCHANGED <<tableVars, fireVars, playVars, macros, otherVars>>

\* A list gives the command `hotkey-input-stop', which nobody knows while the
\* module is switched off.
InputStopAction(r) ==
  /\ Takes(r, "input-stop")
  /\ LET waits == [run EXCEPT ![r] = [Did(@) EXCEPT !.waiting = TRUE]]
     IN IF enabled /\ input.active
        THEN StopInput(Becomes(<<Acted(r)>>)) /\ run' = WokenByInput(waits)
        ELSE stack' = Becomes(<<Acted(r)>>) /\ run' = waits /\ UNCHANGED input
  /\ UNCHANGED <<tableVars, fireVars, playVars, macros, otherVars>>

(***************************************************************************)
(* `hotkey-cancel', which leaves an input hook alone, and switching off.   *)
(***************************************************************************)

CancelAction(r) ==
  /\ Takes(r, "cancel")
  /\ IF enabled
     THEN CancelAll /\ input' = InputWithout(Live)
     ELSE run' = [run EXCEPT ![r] = Did(@)]
          /\ UNCHANGED <<runners, running, fireVars, playVars, input>>
  /\ stack' = Becomes(<<Acted(r)>>)
  /\ UNCHANGED <<started, macros, otherVars>>

CancelCommand ==
  /\ AtLoop /\ enabled
  /\ CancelAll /\ input' = InputWithout(Live)
  /\ UNCHANGED <<stack, started, macros, otherVars>>

\* hk_deactivate(): the lists end first, so nobody carries on when the hook ends.
Deactivate ==
  /\ AtLoop /\ enabled
  /\ enabled' = FALSE
  /\ CancelAll /\ input' = NoHook
  /\ modeTimer' = FALSE
  /\ UNCHANGED <<stack, started, macros, codeVars, keyMode, mode>>

Activate ==
  /\ AtLoop /\ ~enabled
  /\ enabled' = TRUE
  /\ UNCHANGED <<stack, listVars, fireVars, playVars, input, macros, codeVars, modeVars>>

(***************************************************************************)
(* Modes.                                                                  *)
(***************************************************************************)

\* gowl_compositor_set_key_mode(), up to what hk_mode_changed() calls; the old
\* mode's name is freed.
SetKeyMode(m, below) ==
  IF m = keyMode
  THEN stack' = below /\ UNCHANGED keyMode
  ELSE /\ keyMode' = m
       /\ stack' = Freed(below, "oneshot") \o
                   <<[at |-> "exit", mode |-> m]>>

ModeAction(r) ==
  /\ Takes(r, "mode")
  /\ run' = [run EXCEPT ![r] = [Did(@) EXCEPT !.waiting = TRUE]]
  /\ \E m \in Modes \cup {Default} : SetKeyMode(m, Becomes(<<Acted(r)>>))
  /\ UNCHANGED <<tableVars, fireVars, playVars, input, macros,
                 codeVars, mode, modeTimer, enabled>>

\* A keybind or another client of the compositor changes the mode; the module
\* hears of it when it is switched off too.
ModeKey(m) ==
  /\ AtLoop
  /\ SetKeyMode(m, <<>>)
  /\ UNCHANGED <<listVars, fireVars, playVars, input, macros, codeVars, mode,
                 modeTimer, enabled>>

\* hk_mode_changed(): the mode that is left runs its list, ...
ExitMode ==
  /\ AtA("exit")
  /\ modeTimer' = FALSE
  /\ \E n \in IF mode = Default THEN {0} ELSE 0..HookLen :
       StartList(NoId, HookActs, n, Becomes(<<ModeEnter(Last(stack).mode)>>))
  /\ UNCHANGED <<fireVars, playVars, input, macros, codeVars, keyMode, mode, enabled>>

\* ... then the one that is entered, ...
EnterMode ==
  /\ AtA("enter")
  /\ mode' = Last(stack).mode
  /\ IF mode' = Default
     THEN stack' = Becomes(<<>>) /\ UNCHANGED listVars
     ELSE \E n \in 0..HookLen : StartList(NoId, HookActs, n, Becomes(<<ModeEntered>>))
  /\ UNCHANGED <<fireVars, playVars, input, macros, codeVars, keyMode, modeTimer, enabled>>

\* ... whose timeout starts then, if it has one.
EnteredMode ==
  /\ At(ModeEntered)
  /\ modeTimer' \in {modeTimer, TRUE}
  /\ stack' = Becomes(<<>>)
  /\ UNCHANGED <<listVars, fireVars, playVars, input, macros, codeVars, keyMode, mode, enabled>>

ModeTimeout ==
  /\ AtLoop /\ modeTimer
  /\ modeTimer' = FALSE
  /\ IF mode # Default /\ keyMode = mode
     THEN SetKeyMode(Default, <<>>)
     ELSE UNCHANGED <<stack, keyMode>>
  /\ UNCHANGED <<listVars, fireVars, playVars, input, macros, codeVars, mode, enabled>>

(***************************************************************************)
(* Timers, programs and macros that lists wait for.                        *)
(***************************************************************************)

SleepDone(r) ==
  /\ AtLoop /\ "timer" \in run[r].slot
  /\ Resume(r, <<>>)
  /\ UNCHANGED <<tableVars, fireVars, playVars, input, macros, otherVars>>

\* proc_done(): the child is gone, or was killed at its deadline.
ProcDone(r) ==
  /\ AtLoop /\ "proc" \in run[r].slot
  /\ Resume(r, <<>>)
  /\ UNCHANGED <<tableVars, fireVars, playVars, input, macros, otherVars>>

\* macro_finished(), while the module listens: the first list that waits for the
\* macro carries on, inside the macro's end.
EndMacro(m, lists, below) ==
  LET waiters == {r \in Live : enabled /\ run[r].macro = m}
      first == CHOOSE r \in waiters : \A s \in waiters : r <= s
      told == below \o <<MacroTold(m)>>
  IN /\ macros' = [macros EXCEPT ![m] = "over"]
     /\ IF waiters = {}
        THEN stack' = told /\ run' = lists
        ELSE stack' = told \o <<Step(first)>> /\ run' = [lists EXCEPT ![first] = Woken(@)]

MacroEnds(m) ==
  /\ AtLoop /\ macros[m] = "on"
  /\ EndMacro(m, run, <<>>)
  /\ UNCHANGED <<tableVars, fireVars, playVars, input, otherVars>>

\* The macro's run leaves its table when everyone has been told.
MacroGone(m) ==
  /\ At(MacroTold(m))
  /\ macros' = [macros EXCEPT ![m] = "off"]
  /\ stack' = Becomes(<<>>)
  /\ UNCHANGED <<listVars, fireVars, playVars, input, otherVars>>

\* A list stops a macro that somebody waits for: at once, or when its thread notices.
MacroStopAction(r, m) ==
  /\ Takes(r, "macro-stop")
  /\ LET waits == [run EXCEPT ![r] = [Did(@) EXCEPT !.waiting = TRUE]]
     IN \/ macros[m] = "on" /\ EndMacro(m, waits, Becomes(<<Acted(r)>>))
        \/ run' = waits /\ stack' = Becomes(<<Acted(r)>>) /\ UNCHANGED macros
  /\ UNCHANGED <<tableVars, fireVars, playVars, input, otherVars>>

(***************************************************************************)
(* Firing.                                                                 *)
(***************************************************************************)

\* allow_hotkey() and hk_queue_fire(): the list starts when the loop is idle.
Press(id) ==
  /\ AtLoop /\ enabled
  /\ running[id] < MaxRunning
  /\ Len(fires) < MaxFires
  /\ fires' = Append(fires, id) /\ fireIdle' = TRUE
  /\ UNCHANGED <<stack, listVars, playVars, input, macros, otherVars>>

FireIdle ==
  /\ AtLoop /\ fireIdle
  /\ fireIdle' = FALSE
  /\ stack' = <<FireLoop>>
  /\ UNCHANGED <<listVars, fires, playVars, input, macros, otherVars>>

\* fire_idle(): the hotkey's mode may be a one-shot mode, and the one in force.
TakeFire ==
  /\ At(FireLoop) /\ fires # <<>>
  /\ fires' = Tail(fires)
  /\ \E n \in 1..ListLen :
       \/ StartList(Head(fires), Acts, n, stack)
       \/ /\ keyMode # Default
          /\ StartList(Head(fires), Acts \cap After["oneshot"], n,
                       stack \o <<OneShot(keyMode)>>)
  /\ UNCHANGED <<fireIdle, playVars, input, macros, otherVars>>

FiresEnd ==
  /\ At(FireLoop) /\ fires = <<>>
  /\ stack' = Becomes(<<>>)
  /\ UNCHANGED <<listVars, fireVars, playVars, input, macros, otherVars>>

\* The one-shot mode ends, unless the hotkey itself went somewhere else.
OneShotEnds ==
  /\ AtA("oneshot")
  /\ IF Last(stack).mode = keyMode
     THEN SetKeyMode(Default, Becomes(<<>>))
     ELSE stack' = Becomes(<<>>) /\ UNCHANGED keyMode
  /\ UNCHANGED <<listVars, fireVars, playVars, input, macros, codeVars, mode,
                 modeTimer, enabled>>

\* timer_fire()
TimerFires(id) ==
  /\ AtLoop /\ enabled
  /\ running[id] = 0
  /\ \E n \in 1..ListLen : StartList(id, Acts, n, <<>>)
  /\ UNCHANGED <<fireVars, playVars, input, macros, otherVars>>

(***************************************************************************)
(* The specification.                                                      *)
(***************************************************************************)

Init ==
  /\ stack = <<>>
  /\ started = 0 /\ runners = <<>>
  /\ run = [r \in Serials |-> Gone]
  /\ running = [i \in Ids |-> 0]
  /\ fires = <<>> /\ fireIdle = FALSE
  /\ plays = <<>> /\ playing = FALSE /\ playTimer = FALSE
  /\ input = NoHook
  /\ macros = [m \in Macros |-> "off"]
  /\ building = {} /\ compiler = [k \in Keys |-> NoBuild] /\ posted = <<>>
  /\ funcs = [k \in Keys |-> NoBuild] /\ faulted = {}
  /\ keyMode = Default /\ mode = Default /\ modeTimer = FALSE
  /\ enabled = TRUE

\* What the compositor thread does next inside a callback.
Inside ==
  \/ \E r \in Serials :
       \/ RunnerEnds(r) \/ AfterAction(r) \/ Sleep(r) \/ SpawnAction(r)
       \/ SendAction(r) \/ InputAction(r) \/ InputStopAction(r)
       \/ CancelAction(r) \/ ModeAction(r) \/ ReloadAction(r)
       \/ \E k \in Keys : CAction(r, k)
       \/ \E m \in Macros : MacroAction(r, m) \/ MacroStopAction(r, m)
  \/ \E r \in Serials \cup {NoRunner} : InputStart(r)
  \/ TakeFire \/ FiresEnd \/ OneShotEnds
  \/ PlayHead \/ PlayEnds
  \/ TakePosted \/ PostsEnd
  \/ \E k \in Keys, i \in 1..(MaxStarts + 1) :
       WakeBuilt(k, i) \/ \E n \in Serials : WakeBuiltNext(k, i, n)
  \/ ExitMode \/ EnterMode \/ EnteredMode
  \/ \E m \in Macros : MacroGone(m)

\* What the loop dispatches for lists that wait: timers, children, macros, posts.
Wakes ==
  \/ \E r \in Serials : SleepDone(r) \/ ProcDone(r)
  \/ \E m \in Macros : MacroEnds(m)
  \/ PlayTick \/ OnPostFd

\* What else it dispatches.
Dispatches == FireIdle \/ InputTimeout \/ ModeTimeout

\* What comes from outside.
Outside ==
  \/ \E id \in Ids : Press(id) \/ TimerFires(id)
  \/ \E m \in Modes \cup {Default} : ModeKey(m)
  \/ InputEnds \/ InputCommand \/ CancelCommand \/ ReloadCommand
  \/ Deactivate \/ Activate

Compilers ==
  \E k \in Keys : CompilerEnds(k)

Next == Inside \/ Wakes \/ Dispatches \/ Outside \/ Compilers

\* The thread goes on with what it is at; the loop does not pass by what lists wait
\* for for ever; programs, macros and compilers end.
Fairness ==
  /\ WF_vars(Inside)
  /\ SF_vars(Wakes)
  /\ \A k \in Keys : WF_vars(CompilerEnds(k))

Spec == Init /\ [][Next]_vars /\ Fairness

(***************************************************************************)
(* Properties.                                                             *)
(***************************************************************************)

\* Types.
TypeOK ==
  /\ started \in 0..MaxStarts
  /\ runners \in Seq(1..started) /\ IsInjective(runners)
  /\ run \in [Serials -> [id : Ids \cup {NoId}, left : 0..(ListLen + HookLen),
                          may : SUBSET Kinds, redo : Keys \cup {NoKey},
                          waiting : BOOLEAN, slot : SUBSET {"timer", "proc", "c"},
                          macro : Macros \cup {NoMacro}]]
  /\ \A r \in Serials \ Live : run[r] = Gone
  /\ fires \in Seq(Ids) /\ fireIdle \in BOOLEAN
  /\ plays \in Seq([runner : Serials \cup {NoRunner}, delays : 0..1])
  /\ playing \in BOOLEAN /\ playTimer \in BOOLEAN
  /\ input \in [active : BOOLEAN, runner : Serials \cup {NoRunner}, timer : BOOLEAN]
  /\ macros \in [Macros -> {"off", "on", "over"}]
  /\ building \subseteq Keys /\ faulted \subseteq Keys
  /\ compiler \in [Keys -> Builds \cup {NoBuild}]
  /\ posted \in Seq([key : Keys, build : Builds \cup {NoBuild}])
  /\ funcs \in [Keys -> Builds \cup {NoBuild}]
  /\ {keyMode, mode} \subseteq Modes \cup {Default}
  /\ modeTimer \in BOOLEAN /\ enabled \in BOOLEAN

\* The lists the thread is in the middle of.
OnStack == {stack[f].runner : f \in {g \in DOMAIN stack :
                                       stack[g].at \in {"step", "acted", "input"}}}

Building(k) ==
  \/ compiler[k] # NoBuild
  \/ \E b \in ToSet(posted) : b.key = k
  \/ \E f \in ToSet(stack) : f.at \in {"built", "built next"} /\ f.key = k

\* What will carry list r on.
Wakers(r) ==
  (run[r].slot \ {"c"})
    \cup {w \in {"c"} : "c" \in run[r].slot /\ Building(run[r].redo)}
    \cup {w \in {"macro"} : run[r].macro # NoMacro /\ macros[run[r].macro] = "on"}
    \cup {w \in {"input"} : input.active /\ input.runner = r}

Typing(r) == {p \in DOMAIN plays : plays[p].runner = r}

\* What is queued will be looked at: fires by the idle callback, typing by the
\* play timer, or by the callback in progress.
QueuesAreServed ==
  /\ fires # <<>> => fireIdle \/ FireLoop \in ToSet(stack)
  /\ plays # <<>> => playing /\ (playTimer \/ PlayLoop \in ToSet(stack))
  /\ playing => playTimer \/ PlayLoop \in ToSet(stack)

\* Every list that the thread is not in the middle of waits for exactly one thing
\* that is still to come: none is forgotten, and none is carried on twice.  What
\* it waits for comes: the queues it may be in are served.
WaiterHasAWaker ==
  /\ QueuesAreServed
  /\ \A r \in Live \ OnStack :
       /\ run[r].waiting
       /\ Cardinality(Wakers(r)) + Cardinality(Typing(r)) = 1

\* Who points at a list points at one that is there: the input hook, the typing,
\* the callbacks in progress but for those that check.
NoDanglingRunner ==
  /\ input.runner \in Live \cup {NoRunner}
  /\ \A p \in DOMAIN plays : plays[p].runner \in Live \cup {NoRunner}
  /\ \A f \in ToSet(stack) : f.at \in {"step", "input"} => f.runner \in Live \cup {NoRunner}

\* max-running's counts are those of the lists that run.
CountsAgree ==
  \A i \in Ids : running[i] = Cardinality({r \in Live : run[r].id = i})

\* A list that ended, however and inside whatever callback, leaves nothing behind:
\* no pointer to it, and no place taken of its hotkey's max-running.
EndedListsAreForgotten == NoDanglingRunner /\ CountsAgree

\* A callback goes on with a mode, or a mode's name, that is still there.
NoFreedMode ==
  \A f \in ToSet(stack) : f.at \in {"enter", "oneshot"} => ~f.freed

\* No more lists of a hotkey run than max-running allows.
MaxRunningKept == \A i \in Ids : running[i] <= MaxRunning

\* Between callbacks the module is in the compositor's mode.
ModesAgree == AtLoop => mode = keyMode

\* What is loaded was not begun before the last reload.
BuildsAreFresh == \A k \in Keys : funcs[k] # "old"

\* A list is never refused a macro whose end it was told.
EndedMacroStarts ==
  [][\A r \in Serials, m \in Macros :
       MacroAction(r, m) => macros[m] # "over"]_vars

\* Nothing runs while the module is switched off.
OffIsOff == ~enabled => runners = <<>>

\* Every list ends, or waits for an input hook.
ListsEnd ==
  \A r \in Serials : r \in Live ~> (r \notin Live \/ input.runner = r)

=============================================================================
