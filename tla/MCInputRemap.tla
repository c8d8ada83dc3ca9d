---------------------------- MODULE MCInputRemap ----------------------------
(* A pedal and a plain keyboard, a mouse with a wheel, and three rules. *)
EXTENDS InputRemap

CONSTANTS pedal, kb, mouse, A, btn, up, dn, Ctrl, Key, p, p2, q, P, Q

MCKeyboards == {pedal, kb}
MCPointers == {mouse}
MCInputs == pedal :> {Super, Esc, A} @@ kb :> {A} @@ mouse :> {btn, up, dn}
\* The plain keyboard has a modifier too.
MCInputsSuper == pedal :> {Super, Esc, A} @@ kb :> {A, Super} @@ mouse :> {btn, up, dn}
MCModifiers == {Super, Ctrl}
MCWheels == {up, dn}
MCConfigLists == {<<p>>, <<>>}
MCRules == {p, p2, q}
MCAddable == {p2, q}
MCNameOf == p :> P @@ p2 :> P @@ q :> Q
MCMatches == p :> {pedal} @@ p2 :> {pedal} @@ q :> {kb, mouse}

Target(kind, code, ms) == [kind |-> kind, code |-> code, mods |-> ms]

MCMap ==
  p :> (A :> Target("key", Key, {Super}) @@ Super :> Target("drop", NoCode, {}))
  @@ p2 :> (A :> Target("button", btn, {}))
  @@ q :> (A :> Target("command", NoCode, {}) @@ btn :> Target("callback", NoCode, {})
           @@ up :> Target("key", Key, {Ctrl}))
MCDropRules == {p2}
MCDeltas == {1, 3}
MCCommandsFrom == {"press", "release"}
MCAnywhere == {"press", "release", "drain"}

=============================================================================
