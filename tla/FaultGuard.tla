------------------------------ MODULE FaultGuard ------------------------------
(***************************************************************************)
(* The fault guard, src/util/gowl-fault-guard.c: user code called under it *)
(* is ended where it stands by a fault, or by a watchdog signal when its   *)
(* time budget runs out.  Code that takes a lock another thread also takes *)
(* holds the watchdog off meanwhile.                                       *)
(*                                                                         *)
(* A thread's stack has the guarded calls, holds and locked regions it is  *)
(* in.  A signal that is not blocked interrupts at once, between any two   *)
(* steps.                                                                  *)
(***************************************************************************)
EXTENDS Naturals, SequencesExt

CONSTANTS
  Threads, NoThread,
  MaxStack,        \* bound: what a thread is in at once
  CallsInHolds     \* whether guarded calls are made from held regions

VARIABLES
  at,        \* per thread: "code", or what a guard function does next
  stack,     \* "call", "direct" (a nested call), "hold", "wants", "lock"
  armed,     \* guard_armed
  env,       \* guard_env, as far as the landing restores it: the signal mask
  blocked,   \* whether the thread's mask blocks the watchdog signal
  depth,     \* guard_hold_depth
  timer,     \* whether the thread's timer runs
  pending,   \* the watchdog signal: "none", or waiting: "own", or of a call before
  lock       \* the thread that has the lock they share

vars == <<at, stack, armed, env, blocked, depth, timer, pending, lock>>

Top(t) == IF stack[t] = <<>> THEN "code" ELSE Last(stack[t])
InCode(t) == at[t] = "code"
In(t, frame) == Contains(stack[t], frame)
Room(t, n) == Len(stack[t]) + n <= MaxStack

Goes(t, place) == at' = [at EXCEPT ![t] = place]
Push(t, frames) == stack' = [stack EXCEPT ![t] = @ \o frames]
Pop(t) == stack' = [stack EXCEPT ![t] = Front(@)]

\* MUTANT of Unwind: the landing does not restore the mask.
UnwindMasked(t) ==
  LET k == CHOOSE j \in DOMAIN stack[t] : stack[t][j] = "call" IN
  /\ armed' = [armed EXCEPT ![t] = FALSE]
  /\ stack' = [stack EXCEPT ![t] = SubSeq(@, 1, k)]
  /\ depth' = [depth EXCEPT ![t] = 0]
  /\ UNCHANGED <<blocked, pending>>
  /\ Goes(t, "disarm")

\* guard_handler() jumps to gowl_fault_guard_call(), which restores the mask the
\* call began with: a signal that waited is taken there, and finds nothing armed.
Unwind(t) ==
  LET k == CHOOSE j \in DOMAIN stack[t] : stack[t][j] = "call" IN
  /\ armed' = [armed EXCEPT ![t] = FALSE]
  /\ stack' = [stack EXCEPT ![t] = SubSeq(@, 1, k)]
  /\ blocked' = [blocked EXCEPT ![t] = env[t]]
  /\ depth' = [depth EXCEPT ![t] = 0]
  /\ pending' = [pending EXCEPT ![t] = IF env[t] THEN @ ELSE "none"]
  /\ Goes(t, "disarm")

(***************************************************************************)
(* gowl_fault_guard_call()                                                 *)
(***************************************************************************)

\* Within a guarded call, the function is just called.
Direct(t) ==
  /\ InCode(t) /\ armed[t] /\ Room(t, 1)
  /\ ~In(t, "hold") \/ CallsInHolds
  /\ Push(t, <<"direct">>)
  /\ UNCHANGED <<at, armed, env, blocked, depth, timer, pending, lock>>

Call(t, timed) ==
  /\ InCode(t) /\ ~armed[t] /\ Room(t, 1)
  /\ ~In(t, "hold") \/ CallsInHolds
  /\ armed' = [armed EXCEPT ![t] = TRUE]
  /\ env' = [env EXCEPT ![t] = blocked[t]]
  /\ timer' = [timer EXCEPT ![t] = timed]
  /\ Push(t, <<"call">>)
  /\ UNCHANGED <<at, blocked, depth, pending, lock>>

Return(t) ==
  /\ InCode(t)
  /\ \/ /\ Top(t) = "direct"
        /\ Pop(t)
        /\ UNCHANGED <<at, armed>>
     \/ /\ Top(t) = "call"
        /\ armed' = [armed EXCEPT ![t] = FALSE]
        /\ Goes(t, "disarm")
        /\ UNCHANGED stack
  /\ UNCHANGED <<env, blocked, depth, timer, pending, lock>>

\* watchdog_arm(0).  Whether a signal that waits survives depends on the kernel.
Disarm(t) ==
  /\ at[t] = "disarm"
  /\ timer' = [timer EXCEPT ![t] = FALSE]
  /\ \E p \in {"none", IF pending[t] = "none" THEN "none" ELSE "past"} :
       pending' = [pending EXCEPT ![t] = p]
  /\ Pop(t) /\ Goes(t, "code")
  /\ UNCHANGED <<armed, env, blocked, depth, lock>>

\* gowl_fault_guard_extend(): no held region calls it.
Extend(t, timed) ==
  /\ InCode(t) /\ armed[t] /\ ~In(t, "hold")
  /\ timer' = [timer EXCEPT ![t] = timed]
  /\ UNCHANGED <<at, stack, armed, env, blocked, depth, pending, lock>>

(***************************************************************************)
(* Signals.                                                                *)
(***************************************************************************)

\* The budget is used up.  The signal waits if it is blocked, and is dropped if
\* the call is just over.
Expire(t) ==
  /\ timer[t]
  /\ timer' = [timer EXCEPT ![t] = FALSE]
  /\ \/ /\ blocked[t]
        /\ pending' = [pending EXCEPT ![t] = "own"]
        /\ UNCHANGED <<at, stack, armed, blocked, depth>>
     \/ /\ ~blocked[t] /\ armed[t]
        /\ Unwind(t)
     \/ /\ ~blocked[t] /\ ~armed[t]
        /\ UNCHANGED <<at, stack, armed, blocked, depth, pending>>
  /\ UNCHANGED <<env, lock>>

\* The code faults; in a locked region it would leave the lock taken.
Fault(t) ==
  /\ InCode(t) /\ armed[t] /\ lock # t
  /\ Unwind(t)
  /\ UNCHANGED <<env, timer, lock>>

(***************************************************************************)
(* gowl_fault_guard_hold() and gowl_fault_guard_release(), around a lock   *)
(* or around code that takes it.                                           *)
(***************************************************************************)

Hold(t, locks) ==
  /\ InCode(t) /\ Top(t) # "wants" /\ Room(t, IF locks THEN 2 ELSE 1)
  /\ locks => lock # t
  /\ depth' = [depth EXCEPT ![t] = @ + 1]
  /\ Push(t, IF locks THEN <<"hold", "wants">> ELSE <<"hold">>)
  /\ Goes(t, IF depth[t] = 0 THEN "block" ELSE "code")
  /\ UNCHANGED <<armed, env, blocked, timer, pending, lock>>

Block(t) ==
  /\ at[t] = "block"
  /\ blocked' = [blocked EXCEPT ![t] = TRUE]
  /\ Goes(t, "code")
  /\ UNCHANGED <<stack, armed, env, depth, timer, pending, lock>>

Lock(t) ==
  /\ InCode(t) /\ Top(t) = "wants" /\ lock = NoThread
  /\ lock' = t
  /\ stack' = [stack EXCEPT ![t] = Append(Front(@), "lock")]
  /\ UNCHANGED <<at, armed, env, blocked, depth, timer, pending>>

Unlock(t) ==
  /\ InCode(t) /\ Top(t) = "lock"
  /\ lock' = NoThread
  /\ Pop(t)
  /\ UNCHANGED <<at, armed, env, blocked, depth, timer, pending>>

\* MUTANT of Release: every release unblocks, the inner ones too.
ReleaseInner(t) ==
  /\ InCode(t) /\ Top(t) = "hold"
  /\ Pop(t)
  /\ depth' = [depth EXCEPT ![t] = IF @ = 0 THEN 0 ELSE @ - 1]
  /\ Goes(t, IF depth[t] > 0 THEN "unblock" ELSE "code")
  /\ UNCHANGED <<armed, env, blocked, timer, pending, lock>>

Release(t) ==
  /\ InCode(t) /\ Top(t) = "hold"
  /\ Pop(t)
  /\ depth' = [depth EXCEPT ![t] = IF @ = 0 THEN 0 ELSE @ - 1]
  /\ Goes(t, IF depth[t] = 1 THEN "unblock" ELSE "code")
  /\ UNCHANGED <<armed, env, blocked, timer, pending, lock>>

\* What waited is delivered here.
Unblock(t) ==
  /\ at[t] = "unblock"
  /\ IF pending[t] # "none" /\ armed[t] THEN
       \* the mask of the landing is the one that holds
       /\ Unwind(t)
     ELSE
       /\ blocked' = [blocked EXCEPT ![t] = FALSE]
       /\ pending' = [pending EXCEPT ![t] = "none"]
       /\ Goes(t, "code")
       /\ UNCHANGED <<stack, armed, depth>>
  /\ UNCHANGED <<env, timer, lock>>

Init ==
  /\ at = [t \in Threads |-> "code"] /\ stack = [t \in Threads |-> <<>>]
  /\ armed = [t \in Threads |-> FALSE] /\ env = [t \in Threads |-> FALSE]
  /\ blocked = [t \in Threads |-> FALSE] /\ depth = [t \in Threads |-> 0]
  /\ timer = [t \in Threads |-> FALSE] /\ pending = [t \in Threads |-> "none"]
  /\ lock = NoThread

Step(t) ==
  \/ Direct(t) \/ Return(t) \/ Disarm(t) \/ Expire(t) \/ Fault(t)
  \/ Block(t) \/ Lock(t) \/ Unlock(t) \/ Release(t) \/ Unblock(t)
  \/ \E b \in BOOLEAN : Call(t, b) \/ Extend(t, b) \/ Hold(t, b)

Next == \E t \in Threads : Step(t)

\* Guard functions and timers go on; so does what a thread does in a held region,
\* which calls no user code; user code may loop for ever.  A lock that is let go of
\* again and again is had in the end.
Fairness ==
  \A t \in Threads :
    /\ WF_vars(Disarm(t)) /\ WF_vars(Expire(t)) /\ WF_vars(Block(t))
    /\ WF_vars(Unblock(t)) /\ SF_vars(Unlock(t)) /\ SF_vars(Lock(t))
    /\ \A n \in 1..MaxStack : SF_vars(Len(stack[t]) = n /\ Release(t))

Spec == Init /\ [][Next]_vars /\ Fairness

ASSUME GuardAssumption ==
  /\ NoThread \notin Threads
  /\ MaxStack \in Nat /\ CallsInHolds \in BOOLEAN

(***************************************************************************)
(* Properties.                                                             *)
(***************************************************************************)

\* Types.
TypeOK ==
  /\ at \in [Threads -> {"code", "disarm", "block", "unblock"}]
  /\ \A t \in Threads : stack[t] \in Seq({"call", "direct", "hold", "wants", "lock"})
  /\ armed \in [Threads -> BOOLEAN] /\ env \in [Threads -> BOOLEAN]
  /\ blocked \in [Threads -> BOOLEAN] /\ timer \in [Threads -> BOOLEAN]
  /\ depth \in [Threads -> Nat] /\ pending \in [Threads -> {"none", "own", "past"}]
  /\ lock \in Threads \cup {NoThread}

WatchdogUnwinds(t) ==
  armed[t] /\ ~armed'[t] /\ (at[t] = "unblock" \/ timer[t] # timer'[t])

\* The watchdog ends the call whose budget ran out, no later one, and never in a
\* region that has the lock.
UnwindIsClean ==
  [][\A t \in Threads : WatchdogUnwinds(t) => lock # t /\ pending[t] # "past"]_vars

\* A watchdog that fires in a held region is not lost: the call ends.
HeldIsDelivered == \A t \in Threads : pending[t] = "own" ~> ~armed[t]

=============================================================================
