------------------------------ MODULE InputRemap ------------------------------
(***************************************************************************)
(* Per-device remapping: src/core/gowl-input-remap-core.c.                 *)
(*                                                                         *)
(* A keyboard normally sits in the compositor's keyboard group.  One that  *)
(* a rule matches is claimed: kept out of the group and heard directly.    *)
(* What its keys, or a claimed pointer's buttons and wheel, turn into is   *)
(* fed through the compositor's own key and button handling, which may run *)
(* commands, which may change the rules and with them the claims.  The C   *)
(* stack is a variable for that: `todo' has what is left to do, innermost  *)
(* first; empty, it is the event loop.                                     *)
(***************************************************************************)
EXTENDS Integers, FiniteSets, RemapRules

CONSTANTS
  Keyboards, Pointers,
  Inputs,          \* per device, what can be pressed on it; wheel directions too
  Modifiers,       \* the keys that are modifiers
  Super, Esc,
  Wheels,          \* the two directions of a wheel: away, and back
  NoCode,
  ConfigLists,     \* the rules a configuration may have
  Addable,         \* the rules that may be added at run time
  Deltas,          \* how far a wheel event travels
  Notch,           \* GOWL_REMAP_NOTCH, in the unit of Deltas
  CommandsFrom,    \* where a handler may run a command: "press", "release", "drain"
  SelfRemap,       \* whether it may take away the device being handled
  MaxNested        \* bound: re-evaluations inside one another

Devices == Keyboards \cup Pointers

VARIABLES
  down,      \* per device, what is physically down
  plugged,
  claimed,   \* info->claimed
  held,      \* rd->held: per device, what each press produced
  travel,    \* rd->wheel_acc
  rules,     \* the rule engine
  fed,       \* presses fed and not released: keys to the group, buttons
  mods,      \* the group's modifiers in force
  locked,    \* self->locked
  feeding,   \* self->remap_feeding
  todo       \* what the handler in progress has left to do

vars == <<down, plugged, claimed, held, travel, rules, fed, mods, locked, feeding, todo>>

Targets(r) == {Map[r][i] : i \in DOMAIN Map[r]}

\* What can be fed: inputs that pass, targets and the modifiers they need.
Codes == (UNION {Inputs[d] : d \in Devices}) \cup Modifiers \cup {Esc}
         \cup {t.code : t \in UNION {Targets(r) : r \in Rules}}

\* What the group's own keyboards hold down: group_key_is_down().
Group == (Keyboards \cap plugged) \ claimed
GroupKeys == UNION {down[d] : d \in Group}

Entry(kind, target) == [kind |-> kind, target |-> target, out |-> NoCode, mods |-> {}]
NoTarget == [kind |-> "pass", code |-> NoCode, mods |-> {}]

(***************************************************************************)
(* What a handler may have left to do.                                     *)
(***************************************************************************)

Op(at, d, i) == [at |-> at, dev |-> d, in |-> i]

\* compositor_handle_key(), compositor_handle_button(), or a callback or command:
\* code that may run commands.
CallOut(d, of, key, press) ==
  [at |-> "out", dev |-> d, of |-> of, key |-> key, press |-> press]

Reevaluate(ds) == [at |-> "reevaluate", devices |-> ds]

AtLoop == todo = <<>>
Now == Head(todo)
At(place) == ~AtLoop /\ Now.at = place

\* The first thing left to do is done, or turns into others.
Does(ops) == ops \o Tail(todo)

(***************************************************************************)
(* The group's xkb state.  Keys are counted; a modifier is in force from   *)
(* its first press to its last release, unless the group copies a member's *)
(* modifiers meanwhile.                                                    *)
(***************************************************************************)

Plus(f, ks) == [k \in DOMAIN f |-> f[k] + IF k \in ks THEN 1 ELSE 0]
Minus(f, ks) == [k \in DOMAIN f |-> f[k] - IF k \in ks /\ f[k] > 0 THEN 1 ELSE 0]

PressMods(ks) == mods \cup {k \in ks \cap Modifiers : fed[k] = 0}
ReleaseMods(ks) == mods \ {k \in ks \cap Modifiers : fed[k] = 1}

\* The modifiers, then the key; a key may be one of its own modifiers.
Feed(ms, c) == fed' = Plus(Plus(fed, ms), {c}) /\ mods' = PressMods(ms \cup {c})
Lift(ks) == fed' = Minus(fed, ks) /\ mods' = ReleaseMods(ks)
FeedNothing == UNCHANGED <<fed, mods>>

\* A keyboard leaves the group, which lets go of what only it held; or joins it
\* with what is down on it.
Leaves(d) ==
  mods' = mods \ {k \in (IF d \in Keyboards THEN down[d] \cap Modifiers ELSE {}) :
                     fed[k] = 0 /\ \A g \in Group \ {d} : k \notin down[g]}
Joins(d) == mods' = mods \cup (IF d \in Keyboards THEN down[d] \cap Modifiers ELSE {})

(***************************************************************************)
(* handle_edge()                                                           *)
(***************************************************************************)

Holds(d, i) == i \in DOMAIN held[d]
Hold(d, i, e) ==
  held' = [held EXCEPT ![d] = [j \in DOMAIN @ \cup {i} |-> IF j = i THEN e ELSE @[j]]]
Without(d, i) == [held EXCEPT ![d] = [j \in DOMAIN @ \ {i} |-> @[j]]]

\* decide()
Decided(d, i) ==
  LET r == Decides(rules, d, i) IN
  IF r = NoRule THEN Entry("pass", NoTarget)
  ELSE IF i \in DOMAIN Map[r] THEN Entry(Map[r][i].kind, Map[r][i])
  ELSE Entry(IF r \in DropRules THEN "drop" ELSE "pass", NoTarget)

\* The modifiers a key target holds: those no keyboard of the group has down.
Needed(ms) == ms \ GroupKeys

\* What the press is to have on record, with its key and modifiers.
Produced(d, i, e) ==
  CASE e.kind = "pass" /\ d \in Keyboards -> [e EXCEPT !.out = i]
    [] e.kind = "key" /\ e.target.code = NoCode -> [e EXCEPT !.kind = "drop"]
    [] e.kind = "key" /\ e.target.code # NoCode ->
         [e EXCEPT !.out = e.target.code, !.mods = Needed(e.target.mods)]
    [] e.kind = "button" -> [e EXCEPT !.out = e.target.code]
    [] OTHER -> e

\* apply_press(): the modifiers, the key or button, and what it leads to.
Pressed(d, i, e, rest) ==
  /\ Hold(d, i, e)
  /\ IF e.out # NoCode THEN Feed(e.mods, e.out) ELSE FeedNothing
  /\ LET key == e.kind \in {"key", "pass"}
         calls == e.out # NoCode \/ (e.kind \in {"command", "callback"} /\ ~locked)
     IN /\ feeding' = (feeding \/ (key /\ e.out # NoCode))
        /\ todo' = (IF calls THEN <<CallOut(d, "press", key, TRUE), Op("return", d, i)>>
                    ELSE <<>>) \o rest

\* The escape hatch: Super+Escape, whatever the rules say.
Escaped(d, rest) ==
  LET e == [Entry("key", NoTarget) EXCEPT !.out = Esc, !.mods = Needed({Super})] IN
  /\ Hold(d, Esc, e)
  /\ Feed(e.mods, Esc)
  /\ feeding' = TRUE
  /\ todo' = <<CallOut(d, "press", TRUE, TRUE)>> \o rest

IsEscape(d, i) == d \in Keyboards /\ i = Esc /\ Super \in down[d]

\* MUTANT of PressEdge: the rules are asked before the escape hatch.
PressEdgeByRules(d, i, rest) ==
  IF Holds(d, i) THEN todo' = rest /\ UNCHANGED <<held, fed, mods, feeding>>
  ELSE IF IsEscape(d, i) /\ Decides(rules, d, i) = NoRule THEN Escaped(d, rest)
  ELSE Pressed(d, i, Produced(d, i, Decided(d, i)), rest)

PressEdge(d, i, rest) ==
  IF Holds(d, i) THEN todo' = rest /\ UNCHANGED <<held, fed, mods, feeding>>
  ELSE IF IsEscape(d, i) THEN Escaped(d, rest)
  ELSE Pressed(d, i, Produced(d, i, Decided(d, i)), rest)

\* MUTANT of Released: the release is decided anew.
ReleasedAnew(d, i, of, rest) ==
  LET e == Produced(d, i, Decided(d, i)) IN
  /\ IF e.out # NoCode THEN Lift(e.mods \cup {e.out}) ELSE FeedNothing
  /\ held' = Without(d, i)
  /\ todo' = rest
  /\ UNCHANGED feeding

\* apply_release(), with what is left of it when the compositor has seen it.
Released(d, i, of, rest) ==
  LET e == held[d][i]
      key == e.kind \in {"key", "pass"}
      calls == e.out # NoCode \/ (e.kind = "callback" /\ ~locked)
      then == (IF e.kind = "key" THEN <<Op("modifiers", d, i)>> ELSE <<>>)
                \o <<Op("forget", d, i)>>
  IN /\ IF e.out # NoCode THEN Lift({e.out}) ELSE FeedNothing
     /\ feeding' = (feeding \/ (key /\ e.out # NoCode))
     /\ held' = IF calls THEN held ELSE Without(d, i)
     /\ todo' = (IF calls THEN <<CallOut(d, of, key, FALSE)>> \o then ELSE <<>>) \o rest

ReleaseEdge(d, i, rest) ==
  IF Holds(d, i) THEN Released(d, i, "release", rest)
  ELSE todo' = rest /\ UNCHANGED <<held, fed, mods, feeding>>

(***************************************************************************)
(* What people do with the devices.                                        *)
(***************************************************************************)

Physical(d) == Inputs[d] \ Wheels

\* The group copies its members' modifiers when one of them changes
\* (docs/architecture.org, "swallowed key state").
Copied(d, i) ==
  IF d \in Keyboards /\ i \in Modifiers
  THEN mods' = (UNION {down'[k] : k \in Group}) \cap Modifiers
  ELSE mods' = mods

\* on_remap_key(), gowl_input_remap_core_button(); or the group, or the cursor.
Press(d, i) ==
  /\ AtLoop /\ d \in plugged
  /\ down' = [down EXCEPT ![d] = @ \cup {i}]
  /\ IF d \in claimed THEN PressEdge(d, i, <<>>)
     ELSE Copied(d, i) /\ UNCHANGED <<held, fed, feeding, todo>>
  /\ UNCHANGED <<plugged, claimed, travel, rules, locked>>

Release(d, i) ==
  /\ AtLoop /\ d \in plugged /\ i \in down[d]
  /\ down' = [down EXCEPT ![d] = @ \ {i}]
  /\ IF d \in claimed THEN ReleaseEdge(d, i, <<>>)
     ELSE Copied(d, i) /\ UNCHANGED <<held, fed, feeding, todo>>
  /\ UNCHANGED <<plugged, claimed, travel, rules, locked>>

\* gowl_input_remap_core_axis(), when a rule wants the direction; a wheel that
\* turns round is counted from nothing.
Turn(d, i, n) ==
  LET r == Decides(rules, d, i)
      Away == i = CHOOSE w \in Wheels : TRUE
      Kept == IF Away = (travel[d] > 0) THEN travel[d] ELSE 0
  IN /\ AtLoop /\ d \in claimed /\ i \in Inputs[d]
     /\ r # NoRule /\ i \in DOMAIN Map[r] /\ Map[r][i].kind # "pass"
     /\ travel' = [travel EXCEPT ![d] = Kept + IF Away THEN n ELSE -n]
     /\ todo' = <<Op("notch", d, i)>>
     /\ UNCHANGED <<down, plugged, claimed, held, rules, fed, mods, locked, feeding>>

\* create_keyboard(), create_pointer(): gowl_input_remap_core_try_claim().
Plug(d) ==
  /\ AtLoop /\ d \notin plugged
  /\ plugged' = plugged \cup {d}
  /\ claimed' = IF Claims(rules, d) THEN claimed \cup {d} ELSE claimed
  /\ UNCHANGED <<down, held, travel, rules, fed, mods, locked, feeding, todo>>

\* on_remap_device_destroy()
Unplug(d) ==
  /\ AtLoop /\ d \in plugged
  /\ todo' = (IF d \in claimed THEN <<Op("drain", d, NoCode)>> ELSE <<>>) \o <<Op("gone", d, NoCode)>>
  /\ UNCHANGED <<down, plugged, claimed, held, travel, rules, fed, mods, locked, feeding>>

(***************************************************************************)
(* What the handler in progress does next.                                 *)
(***************************************************************************)

\* The wheel's loop: a press and its release for each notch.
NextNotch ==
  LET d == Now.dev
      i == Now.in
  IN /\ At("notch")
     /\ IF travel[d] >= Notch \/ travel[d] <= -Notch
        THEN /\ travel' = [travel EXCEPT ![d] = IF @ > 0 THEN @ - Notch ELSE @ + Notch]
             /\ PressEdge(d, i, <<Op("let go", d, i)>> \o todo)
        ELSE /\ todo' = Does(<<>>)
             /\ UNCHANGED <<held, travel, fed, mods, feeding>>
     /\ UNCHANGED <<down, plugged, claimed, rules, locked>>

NotchEnds ==
  /\ At("let go")
  /\ ReleaseEdge(Now.dev, Now.in, Tail(todo))
  /\ UNCHANGED <<down, plugged, claimed, travel, rules, locked>>

\* The compositor, the command or the callback returns.
OutReturns ==
  /\ At("out")
  /\ feeding' = (feeding /\ ~Now.key)
  /\ todo' = Does(<<>>)
  /\ UNCHANGED <<down, plugged, claimed, held, travel, rules, fed, mods, locked>>

\* handle_edge() returns what the press was.
PressReturns ==
  /\ At("return")
  /\ todo' = Does(<<>>)
  /\ UNCHANGED <<down, plugged, claimed, held, travel, rules, fed, mods, locked, feeding>>

\* release_key_target(): the modifiers it held.
ReleaseModifiers ==
  LET d == Now.dev
      i == Now.in
  IN /\ At("modifiers")
     /\ IF Holds(d, i) THEN Lift(held[d][i].mods) ELSE FeedNothing
     /\ todo' = Does(<<>>)
     /\ UNCHANGED <<down, plugged, claimed, held, travel, rules, locked, feeding>>

Forget ==
  /\ At("forget")
  /\ held' = Without(Now.dev, Now.in)
  /\ todo' = Does(<<>>)
  /\ UNCHANGED <<down, plugged, claimed, travel, rules, fed, mods, locked, feeding>>

\* remap_device_release(): everything held, in no order.
Drain ==
  LET d == Now.dev IN
  /\ At("drain")
  /\ IF DOMAIN held[d] # {}
     THEN /\ \E i \in DOMAIN held[d] : Released(d, i, "drain", todo)
          /\ UNCHANGED travel
     ELSE /\ travel' = [travel EXCEPT ![d] = 0]
          /\ todo' = Does(<<>>)
          /\ UNCHANGED <<held, fed, mods, feeding>>
  /\ UNCHANGED <<down, plugged, claimed, rules, locked>>

Unclaim ==
  /\ At("unclaim")
  /\ claimed' = claimed \ {Now.dev}
  /\ Joins(Now.dev)
  /\ todo' = Does(<<>>)
  /\ UNCHANGED <<down, plugged, held, travel, rules, fed, locked, feeding>>

Gone ==
  LET d == Now.dev IN
  /\ At("gone")
  /\ claimed' = claimed \ {d} /\ plugged' = plugged \ {d}
  /\ down' = [down EXCEPT ![d] = {}]
  /\ Leaves(d)
  /\ todo' = Does(<<>>)
  /\ UNCHANGED <<held, travel, rules, fed, locked, feeding>>

\* reevaluate_device(), for each device: those that disagree with the rules, in
\* any order.
ReevaluateNext ==
  LET Wrong == {d \in Now.devices : Claims(rules, d) # (d \in claimed)} IN
  /\ At("reevaluate")
  /\ \/ /\ Wrong = {}
        /\ todo' = Does(<<>>)
        /\ UNCHANGED <<claimed, mods>>
     \/ \E d \in Wrong :
          LET rest == Reevaluate(Now.devices \ {d}) IN
          \/ /\ d \notin claimed
             /\ claimed' = claimed \cup {d}
             /\ Leaves(d)
             /\ todo' = Does(<<rest>>)
          \/ /\ d \in claimed
             /\ todo' = Does(<<Op("drain", d, NoCode), Op("unclaim", d, NoCode), rest>>)
             /\ UNCHANGED <<claimed, mods>>
  /\ UNCHANGED <<down, plugged, held, travel, rules, fed, locked, feeding>>

(***************************************************************************)
(* Commands: from IPC, at the loop, or from a key, an action, a command or *)
(* a callback that a handler ran.                                          *)
(***************************************************************************)

Nested == Cardinality({k \in DOMAIN todo : todo[k].at = "reevaluate"})
InHand == {todo[k].dev : k \in {k \in DOMAIN todo : todo[k].at # "reevaluate"}}

CanRun == AtLoop \/ (At("out") /\ Now.of \in CommandsFrom /\ Nested < MaxNested)

\* MUTANT of Change: only the devices that are claimed are looked at again.
ChangeClaimed(e) ==
  /\ CanRun
  /\ SelfRemap \/ \A d \in InHand : Claims(e, d)
  /\ rules' = e
  /\ todo' = <<Reevaluate(claimed)>> \o todo
  /\ UNCHANGED <<down, plugged, claimed, held, travel, fed, mods, locked, feeding>>

\* gowl_compositor_input_remap_reevaluate()
Change(e) ==
  /\ CanRun
  /\ SelfRemap \/ \A d \in InHand : Claims(e, d)
  /\ rules' = e
  /\ todo' = <<Reevaluate(plugged)>> \o todo
  /\ UNCHANGED <<down, plugged, claimed, held, travel, fed, mods, locked, feeding>>

Add(r) == Change(AddRule(rules, r))
RemoveNamed(name) == RemoveRule(rules, name) # rules /\ Change(RemoveRule(rules, name))
Clear == Change(ClearRules(rules))
Reload(list) == Change(LoadRules(rules, list))
Enable(on) == Change(SwitchRules(rules, on))

Lock == CanRun /\ locked' = TRUE
        /\ UNCHANGED <<down, plugged, claimed, held, travel, rules, fed, mods, feeding, todo>>
Unlock == AtLoop /\ locked' = FALSE
          /\ UNCHANGED <<down, plugged, claimed, held, travel, rules, fed, mods, feeding, todo>>

Init ==
  /\ down = [d \in Devices |-> {}]
  /\ plugged = {} /\ claimed = {}
  /\ held = [d \in Devices |-> <<>>]
  /\ travel = [d \in Devices |-> 0]
  /\ rules \in {FromConfig(l) : l \in ConfigLists}
  /\ fed = [c \in Codes |-> 0]
  /\ mods = {} /\ locked = FALSE /\ feeding = FALSE /\ todo = <<>>

Next ==
  \/ \E d \in Devices :
       \/ Plug(d) \/ Unplug(d)
       \/ \E i \in Physical(d) : Press(d, i) \/ Release(d, i)
       \/ \E i \in Wheels, n \in Deltas : Turn(d, i, n)
  \/ NextNotch \/ NotchEnds \/ OutReturns \/ PressReturns \/ ReleaseModifiers \/ Forget
  \/ Drain \/ Unclaim \/ Gone \/ ReevaluateNext
  \/ \E r \in Addable : Add(r) \/ RemoveNamed(NameOf[r])
  \/ Clear
  \/ \E l \in ConfigLists : Reload(l)
  \/ \E on \in BOOLEAN : Enable(on)
  \/ Lock \/ Unlock

Spec == Init /\ [][Next]_vars

ASSUME RemapAssumption ==
  /\ Keyboards \cap Pointers = {}
  /\ Super \in Modifiers /\ Esc \notin Modifiers /\ NoCode \notin Modifiers \cup {Esc}
  /\ ConfigLists \subseteq Seq(Rules) /\ Addable \subseteq Rules
  /\ Wheels \cap UNION {Inputs[d] : d \in Keyboards} = {}
  /\ Notch \in Nat \ {0} /\ Deltas \subseteq Nat \ {0}
  /\ CommandsFrom \subseteq {"press", "release", "drain"}
  /\ SelfRemap \in BOOLEAN /\ MaxNested \in Nat

(***************************************************************************)
(* Properties.                                                             *)
(***************************************************************************)

\* Types: what is down, held and fed are inputs and codes there are, a wheel never
\* keeps a whole notch between events, and what is left to do concerns devices.
TypeOK ==
  /\ \A d \in Devices : /\ down[d] \subseteq Inputs[d]
                        /\ DOMAIN held[d] \subseteq Inputs[d]
                        /\ AtLoop => travel[d] \in (1 - Notch) .. (Notch - 1)
  /\ claimed \subseteq plugged /\ plugged \subseteq Devices
  /\ fed \in [Codes -> Nat] /\ mods \subseteq Modifiers
  /\ {locked, feeding, rules.enabled} \subseteq BOOLEAN
  /\ \A k \in DOMAIN todo : todo[k].at # "reevaluate" => todo[k].dev \in Devices

HeldInputs == {x \in Devices \X UNION {Inputs[d] : d \in Devices} : Holds(x[1], x[2])}
FedAsKey(c) == {x \in HeldInputs : held[x[1]][x[2]].out = c}
FedAsModifier(c) == {x \in HeldInputs : c \in held[x[1]][x[2]].mods}

\* Nothing is left pressed: between events every key, button and modifier fed to
\* the desktop belongs to inputs still physically down on a claimed device, as
\* often as it was pressed.
NothingIsStuck ==
  AtLoop =>
    /\ \A c \in Codes \ {NoCode} :
         fed[c] = Cardinality(FedAsKey(c)) + Cardinality(FedAsModifier(c))
    /\ \A d \in Devices : DOMAIN held[d] \subseteq IF d \in claimed THEN down[d] ELSE {}

\* Between events the claimed devices are the ones the rules in force match.
ClaimsAgree == AtLoop => claimed = {d \in plugged : Claims(rules, d)}

Escapes(d) ==
  d \in claimed /\ Super \in down[d] /\ Esc \notin down[d] /\ Esc \in down'[d]

\* Super+Escape on a claimed keyboard reaches the compositor's key handling as
\* Super and Escape, whatever the rules make of either.
EscapeWorks ==
  [][\A d \in Keyboards :
       Escapes(d) => /\ Super \in mods' /\ fed'[Esc] > fed[Esc]
                     /\ Now' = CallOut(d, "press", TRUE, TRUE)]_vars

\* What a handler reads when what it called returns is still there: it holds only
\* where no command takes away the device being handled (SelfRemap).
NoFreedEntry ==
  \A k \in DOMAIN todo : todo[k].at \in {"return", "modifiers"} => Holds(todo[k].dev, todo[k].in)

\* The modifiers a held key was given stay in force while it is held.
ModifiersHold ==
  AtLoop => \A d \in Devices : \A i \in DOMAIN held[d] : held[d][i].mods \subseteq mods

\* The compositor decides a fed key press with repeat off.
RepeatNeverArmed ==
  \A k \in DOMAIN todo : todo[k].at = "out" /\ todo[k].key => feeding

=============================================================================
