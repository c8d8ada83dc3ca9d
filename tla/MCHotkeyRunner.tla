---------------------------- MODULE MCHotkeyRunner ----------------------------
(* Instances of HotkeyRunner for TLC. *)
EXTENDS HotkeyRunner

\* What lists may do without running into the known faults of a wait.
MCAfter ==
  [input |-> {"sleep", "send", "proc", "macro", "c", "reload"},
   c |-> {"sleep", "send", "proc", "macro", "c", "cancel", "reload"},
   oneshot |-> Kinds \ {"mode", "input-stop", "input", "macro-stop"}]

\* Lists that may do anything at any time.
MCAny == [w \in {"input", "c", "oneshot"} |-> Kinds]

=============================================================================
