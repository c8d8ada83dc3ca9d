----------------------------- MODULE MCMacroRunner -----------------------------
(* Instances of MacroRunner for TLC. *)
EXTENDS MacroRunner, TLC

CONSTANTS t1, t2, s1, s2

\* A threaded and a timeline run, and another timeline run of the first macro.
MCRuns == {t1, s1, s2}
MCThreaded == {t1}
MCMacro == t1 :> "a" @@ s1 :> "b" @@ s2 :> "a"

\* Two workers side by side.
MCWorkers == {t1, t2}
MCWorkersMacro == t1 :> "a" @@ t2 :> "b"

MCNested == {"step", "call"}

=============================================================================
