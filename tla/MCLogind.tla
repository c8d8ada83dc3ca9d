------------------------------- MODULE MCLogind -------------------------------
(* Instances of Logind for TLC. *)
EXTENDS Logind

MCConnectAny == BOOLEAN
MCConnectWorks == {TRUE}
MCLockAny == {"open", "starting", "locked"}
MCLockAtOnce == {"locked"}

=============================================================================
