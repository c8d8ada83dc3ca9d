---------------------------- MODULE MCFaultGuard ----------------------------
(* A worker and the compositor's thread, which share a lock. *)
EXTENDS FaultGuard

CONSTANTS worker, compositor

MCThreads == {worker, compositor}

=============================================================================
