------------------------------ MODULE MCDisplays ------------------------------
(* Instances of Displays for TLC. *)
EXTENDS Displays

CONSTANTS panel, left, right

MCOutputs == {panel, left, right}

\* A clamshell boot: the panel is announced after the first external display.
MCFirst == <<left>>

=============================================================================
