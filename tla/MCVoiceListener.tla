---------------------------- MODULE MCVoiceListener ----------------------------
(* Instances of VoiceListener for TLC. *)
EXTENDS VoiceListener

CONSTANTS c1, c2

MCCalls == {c1, c2}

=============================================================================
