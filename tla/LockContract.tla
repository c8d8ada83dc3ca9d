---------------------------- MODULE LockContract ----------------------------
(***************************************************************************)
(* What a session lock promises, with nobody's name in it: a sealed screen *)
(* opens only by using up a permission somebody gave -- a password that    *)
(* was right, or an administrator.  A crash, a second lock program, a late *)
(* or wrong answer, a display unplugged, a restart: none of them is a      *)
(* permission.                                                             *)
(***************************************************************************)
EXTENDS Naturals

VARIABLES
  sealed,   \* the session is locked
  permits   \* permissions given and not yet used or withdrawn

contractVars == <<sealed, permits>>

ContractInit ==
  /\ sealed = FALSE
  /\ permits \in Nat

Seal == sealed' = TRUE /\ UNCHANGED permits

\* Somebody proves who they are.
Permit == permits' = permits + 1 /\ UNCHANGED sealed

\* A permission is used, and the session opens.  Others may lapse with it.
Open ==
  /\ permits > 0
  /\ permits' \in 0..(permits - 1)
  /\ sealed' = FALSE

\* A permission goes unused: whoever was given it died or was taken down.
Lapse ==
  /\ permits > 0
  /\ permits' \in 0..(permits - 1)
  /\ UNCHANGED sealed

ContractNext == Seal \/ Permit \/ Open \/ Lapse

ContractSpec == ContractInit /\ [][ContractNext]_contractVars

=============================================================================
