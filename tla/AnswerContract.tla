---------------------------- MODULE AnswerContract ----------------------------
(***************************************************************************)
(* What running a program and hearing back promises: whoever asked gets    *)
(* one answer or takes the question back, and an answer is given only once *)
(* the program is over and nobody can write to its output any more.        *)
(***************************************************************************)
CONSTANT Calls

VARIABLES
  phase,   \* per call: "unasked", "asked", "answered", "withdrawn"
  over,    \* calls whose program ended and whose output nobody holds
  late,    \* calls whose deadline passed first
  said     \* per call: "nothing", "exit" (its status) or "late"

contractVars == <<phase, over, late, said>>

ContractInit ==
  /\ phase = [c \in Calls |-> "unasked"]
  /\ over = {} /\ late = {}
  /\ said = [c \in Calls |-> "nothing"]

\* The program may end in any step that touches it.
MayEnd(c) == over' \in {over, over \cup {c}}

Ask(c) ==
  /\ phase[c] = "unasked"
  /\ phase' = [phase EXCEPT ![c] = "asked"]
  /\ UNCHANGED <<over, late, said>>

ProgramEnds(c) ==
  /\ phase[c] # "unasked"
  /\ over' = over \cup {c}
  /\ UNCHANGED <<phase, late, said>>

DeadlinePasses(c) ==
  /\ phase[c] = "asked"
  /\ late' = late \cup {c}
  /\ MayEnd(c)
  /\ UNCHANGED <<phase, said>>

Answer(c) ==
  /\ phase[c] = "asked" /\ c \in over
  /\ phase' = [phase EXCEPT ![c] = "answered"]
  /\ said' = [said EXCEPT ![c] = IF c \in late THEN "late" ELSE "exit"]
  /\ UNCHANGED <<over, late>>

Withdraw(c) ==
  /\ phase[c] = "asked"
  /\ phase' = [phase EXCEPT ![c] = "withdrawn"]
  /\ MayEnd(c)
  /\ UNCHANGED <<late, said>>

ContractNext ==
  \E c \in Calls : \/ Ask(c) \/ ProgramEnds(c) \/ DeadlinePasses(c)
                   \/ Answer(c) \/ Withdraw(c)

ContractSpec == ContractInit /\ [][ContractNext]_contractVars

=============================================================================
