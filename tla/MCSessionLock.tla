---------------------------- MODULE MCSessionLock ---------------------------
(* Instances of SessionLock for TLC. *)
EXTENDS SessionLock, TLC

MCLockerSymmetry == Permutations(Lockers)
MCSpawnAny == BOOLEAN
MCSpawnWorks == {TRUE}
MCNoGrabbers == {}
MCLauncher == {"layer"}
MCAllGrabbers == {"layer", "popup"}

=============================================================================
