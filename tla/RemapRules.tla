------------------------------ MODULE RemapRules ------------------------------
(***************************************************************************)
(* The rule engine of the input remapper, modules/inputremap/              *)
(* gowl-inputremap-engine.c: the rules of the configuration, the rules     *)
(* added since, and which of them decides an input.  An engine is a record *)
(* of the two lists and the module's switch.                               *)
(***************************************************************************)
EXTENDS SequencesExt

CONSTANTS
  Rules,       \* what rules there may be
  NoRule,
  NameOf,      \* per rule, its name: the last of a name replaces the others
  Matches,     \* per rule, the devices it matches
  Map,         \* per rule, the inputs it maps and their targets
  DropRules    \* rules that drop the inputs they do not map

FromConfig(list) == [config |-> list, runtime |-> <<>>, enabled |-> TRUE]

Named(list, name) == {k \in DOMAIN list : NameOf[list[k]] = name}

\* A config rule a runtime rule of the same name has replaced.
Shadowed(e, r) == Named(e.runtime, NameOf[r]) # {}

\* Every rule, the one that is asked first: the newest at run time, then the last of
\* the configuration.
ByPriority(e) == Reverse(e.config \o e.runtime)

\* The places there of the rules in force, and of those for the device.
InForce(e) ==
  {k \in DOMAIN ByPriority(e) : k <= Len(e.runtime) \/ ~Shadowed(e, ByPriority(e)[k])}
Matching(e, d) == {k \in InForce(e) : d \in Matches[ByPriority(e)[k]]}

Claims(e, d) == e.enabled /\ Matching(e, d) # {}

\* The first rule for the device that maps the input; failing that, the first
\* for the device.
Decides(e, d, i) ==
  LET Of == Matching(e, d)
      Mapping == {k \in Of : i \in DOMAIN Map[ByPriority(e)[k]]}
  IN IF ~Claims(e, d) THEN NoRule
     ELSE ByPriority(e)[Min(IF Mapping # {} THEN Mapping ELSE Of)]

(***************************************************************************)
(* The module's commands.                                                  *)
(***************************************************************************)

DropFirst(list, ks) == RemoveAt(list, Min(ks))

AddRule(e, r) ==
  LET Old == Named(e.runtime, NameOf[r])
      Rest == IF Old = {} THEN e.runtime ELSE DropFirst(e.runtime, Old)
  IN [e EXCEPT !.runtime = Append(Rest, r)]

\* The runtime rule of the name; failing that the configuration's, until it is
\* loaded again.
RemoveRule(e, name) ==
  LET Run == Named(e.runtime, name)
      Conf == Named(e.config, name)
  IN IF Run # {} THEN [e EXCEPT !.runtime = DropFirst(@, Run)]
     ELSE IF Conf # {} THEN [e EXCEPT !.config = DropFirst(@, Conf)]
     ELSE e

ClearRules(e) == [e EXCEPT !.runtime = <<>>]
LoadRules(e, list) == [e EXCEPT !.config = list]
SwitchRules(e, on) == [e EXCEPT !.enabled = on]

=============================================================================
