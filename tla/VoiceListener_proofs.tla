------------------------ MODULE VoiceListener_proofs ------------------------
(***************************************************************************)
(* Proofs about Subprocess and its user VoiceListener, for any number of   *)
(* listenings, any size of the pipes and any limit of the output.          *)
(***************************************************************************)
EXTENDS VoiceListener, TLAPS

-----------------------------------------------------------------------------
(* The places of the compositor thread differ.                             *)

LEMMA Places ==
  /\ \A c \in Calls : AtLoop # InDone(c)
  /\ \A c \in Calls, s \in Streams : AtLoop # Reading(c, s)
  /\ \A c, d \in Calls, s \in Streams : Reading(c, s) # InDone(d)
  /\ \A c, d \in Calls : InDone(c) = InDone(d) => c = d
  /\ \A c, d \in Calls, s, t \in Streams : Reading(c, s) = Reading(d, t) => c = d /\ s = t
  BY DEF AtLoop, InDone, Reading

-----------------------------------------------------------------------------
(* Type correctness: the program, what is counted, the flags, the thread.  *)

ProgramOK ==
  /\ handle \in [Calls -> {"none", "live", "freed"}]
  /\ fds \in [Calls -> SUBSET Streams]
  /\ answer \in [Calls -> {"none", "success", "failure", "signalled", "late", "lost"}]
  /\ child \in [Calls -> {"none", "running", "zombie", "reaped"}]
  /\ status \in [Calls -> {"none", "success", "failure", "signalled"}]
  /\ helper \in [Calls -> {"none", "group", "escaped"}]
  /\ ends \in [Calls -> [Streams -> SUBSET Writers]]

CountsOK ==
  /\ buf \in [Calls -> [Streams -> 0..MaxOutput]]
  /\ pipe \in [Calls -> [Streams -> 0..PipeSize]]
  /\ wrote \in [Calls -> [Streams -> 0..MaxWrites]]

TimersOK ==
  /\ reapTimer \in [Calls -> BOOLEAN] /\ deadline \in [Calls -> BOOLEAN]
  /\ timedOut \in [Calls -> BOOLEAN]

ThreadOK ==
  \/ thread = AtLoop
  \/ \E c \in Calls : thread = InDone(c) \/ \E s \in Streams : thread = Reading(c, s)

VoiceOK ==
  /\ enabled \in BOOLEAN /\ proc \in Calls \cup {NoCall} /\ voiceTimer \in BOOLEAN
  /\ heard \in {"nothing", "words", "late", "failed"}

SubprocessOK == ProgramOK /\ CountsOK /\ TimersOK /\ ThreadOK

LEMMA TypeParts == TypeOK <=> SubprocessOK /\ VoiceOK
  <1>1. TypeOK => ProgramOK BY Zenon DEF TypeOK, ProgramOK
  <1>2. TypeOK => CountsOK BY Zenon DEF TypeOK, CountsOK
  <1>3. TypeOK => TimersOK BY Zenon DEF TypeOK, TimersOK
  <1>4. TypeOK => ThreadOK BY Zenon DEF TypeOK, ThreadOK
  <1>5. TypeOK => VoiceOK BY Zenon DEF TypeOK, VoiceOK
  <1>6. SubprocessOK /\ VoiceOK => TypeOK
    BY ZenonT(60) DEF TypeOK, SubprocessOK, ProgramOK, CountsOK, TimersOK, ThreadOK, VoiceOK
  <1> QED BY <1>1, <1>2, <1>3, <1>4, <1>5, <1>6 DEF SubprocessOK

LEMMA InitType == Init => TypeOK
  <1> SUFFICES ASSUME Init PROVE SubprocessOK /\ VoiceOK
    BY TypeParts
  <1>1. ProgramOK BY DEF Init, SubprocessInit, ProgramOK
  <1>2. CountsOK
    BY SubprocessAssumption DEF Init, SubprocessInit, CountsOK, Nothing, SubprocessAssumption
  <1>3. TimersOK BY DEF Init, SubprocessInit, TimersOK
  <1>4. ThreadOK BY DEF Init, SubprocessInit, ThreadOK
  <1>5. VoiceOK BY DEF Init, VoiceOK
  <1> QED BY <1>1, <1>2, <1>3, <1>4, <1>5 DEF SubprocessOK

LEMMA DieType ==
  ASSUME ProgramOK, NEW c \in Calls, NEW who,
         NEW how \in {"success", "failure", "signalled"}, Die(c, who, how)
  PROVE  /\ child' \in [Calls -> {"none", "running", "zombie", "reaped"}]
         /\ status' \in [Calls -> {"none", "success", "failure", "signalled"}]
         /\ helper' \in [Calls -> {"none", "group", "escaped"}]
         /\ ends' \in [Calls -> [Streams -> SUBSET Writers]]
  BY DEF ProgramOK, Die

LEMMA FreeType ==
  ASSUME SubprocessOK, NEW c \in Calls, Free(c)
  PROVE  /\ handle' \in [Calls -> {"none", "live", "freed"}]
         /\ fds' \in [Calls -> SUBSET Streams]
         /\ CountsOK'
         /\ reapTimer' \in [Calls -> BOOLEAN] /\ deadline' \in [Calls -> BOOLEAN]
  <1>1. handle' \in [Calls -> {"none", "live", "freed"}] /\ fds' \in [Calls -> SUBSET Streams]
    BY DEF SubprocessOK, ProgramOK, Free
  <1>2. CountsOK'
    BY SubprocessAssumption DEF SubprocessOK, CountsOK, Free, Nothing, SubprocessAssumption
  <1>3. reapTimer' \in [Calls -> BOOLEAN] /\ deadline' \in [Calls -> BOOLEAN]
    BY DEF SubprocessOK, TimersOK, Free
  <1> QED BY <1>1, <1>2, <1>3

LEMMA SpawnType ==
  ASSUME SubprocessOK, NEW c \in Calls, NEW timeout \in BOOLEAN, Spawn(c, timeout)
  PROVE  SubprocessOK'
  <1> USE DEF SubprocessOK, Spawn, handleVars, programVars
  <1>1. ProgramOK' BY DEF ProgramOK, Writers
  <1>2. CountsOK' BY DEF CountsOK
  <1>3. TimersOK' BY DEF TimersOK
  <1>4. ThreadOK' BY DEF ThreadOK
  <1> QED BY <1>1, <1>2, <1>3, <1>4

LEMMA WritesType ==
  ASSUME SubprocessOK, NEW c \in Calls, NEW s \in Streams, NEW w \in Writers, Writes(c, s, w)
  PROVE  SubprocessOK'
  <1> USE DEF SubprocessOK, Writes, handleVars, programVars
  <1>1. ProgramOK' BY DEF ProgramOK
  <1>2. CountsOK' BY SubprocessAssumption DEF CountsOK, Least, SubprocessAssumption
  <1>3. TimersOK' BY DEF TimersOK
  <1>4. ThreadOK' BY DEF ThreadOK
  <1> QED BY <1>1, <1>2, <1>3, <1>4

LEMMA ClosesPipeType ==
  ASSUME SubprocessOK, NEW c \in Calls, NEW s \in Streams, NEW w \in Writers, ClosesPipe(c, s, w)
  PROVE  SubprocessOK'
  <1> USE DEF SubprocessOK, ClosesPipe, handleVars, programVars
  <1>1. ProgramOK' BY DEF ProgramOK
  <1>2. CountsOK' BY DEF CountsOK
  <1>3. TimersOK' BY DEF TimersOK
  <1>4. ThreadOK' BY DEF ThreadOK
  <1> QED BY <1>1, <1>2, <1>3, <1>4

LEMMA LeavesHelperType ==
  ASSUME SubprocessOK, NEW c \in Calls, NEW where \in {"group", "escaped"}, NEW held \in SUBSET Streams,
         LeavesHelper(c, where, held)
  PROVE  SubprocessOK'
  <1> USE DEF SubprocessOK, LeavesHelper, handleVars, programVars
  <1>0. \A s \in Streams : (ends[c][s] \cup IF s \in held THEN {"helper"} ELSE {}) \in SUBSET Writers
    BY DEF ProgramOK, Writers
  <1>1. ProgramOK'
    <2>1. [s \in Streams |-> ends[c][s] \cup IF s \in held THEN {"helper"} ELSE {}]
            \in [Streams -> SUBSET Writers]
      BY <1>0
    <2> QED BY <2>1 DEF ProgramOK
  <1>2. CountsOK' BY DEF CountsOK
  <1>3. TimersOK' BY DEF TimersOK
  <1>4. ThreadOK' BY DEF ThreadOK
  <1> QED BY <1>1, <1>2, <1>3, <1>4

LEMMA ChildExitsType ==
  ASSUME SubprocessOK, NEW c \in Calls, NEW how \in {"success", "failure"}, ChildExits(c, how)
  PROVE  SubprocessOK'
  <1> USE DEF SubprocessOK, ChildExits, handleVars, programVars
  <1>1. ProgramOK' BY DieType DEF ProgramOK
  <1>2. CountsOK' BY DEF CountsOK
  <1>3. TimersOK' BY DEF TimersOK
  <1>4. ThreadOK' BY DEF ThreadOK
  <1> QED BY <1>1, <1>2, <1>3, <1>4

LEMMA HelperExitsType ==
  ASSUME SubprocessOK, NEW c \in Calls, HelperExits(c)
  PROVE  SubprocessOK'
  <1> USE DEF SubprocessOK, HelperExits, handleVars, programVars
  <1>1. ProgramOK' BY DieType DEF ProgramOK
  <1>2. CountsOK' BY DEF CountsOK
  <1>3. TimersOK' BY DEF TimersOK
  <1>4. ThreadOK' BY DEF ThreadOK
  <1> QED BY <1>1, <1>2, <1>3, <1>4

LEMMA OnDeadlineType ==
  ASSUME SubprocessOK, NEW c \in Calls, OnDeadline(c)
  PROVE  SubprocessOK'
  <1> USE DEF SubprocessOK, OnDeadline, handleVars, programVars
  <1>1. ProgramOK' BY DieType DEF ProgramOK
  <1>2. CountsOK' BY DEF CountsOK
  <1>3. TimersOK' BY DEF TimersOK
  <1>4. ThreadOK' BY DEF ThreadOK
  <1> QED BY <1>1, <1>2, <1>3, <1>4

LEMMA SignalType ==
  ASSUME SubprocessOK, NEW c \in Calls, Signal(c)
  PROVE  SubprocessOK'
  <1> PICK who : Die(c, who, "signalled")
    BY DEF Signal
  <1> USE DEF SubprocessOK, Signal, handleVars
  <1>1. ProgramOK' BY DieType DEF ProgramOK
  <1>2. CountsOK' BY DEF CountsOK
  <1>3. TimersOK' BY DEF TimersOK
  <1>4. ThreadOK' BY DEF ThreadOK
  <1> QED BY <1>1, <1>2, <1>3, <1>4

LEMMA CancelType ==
  ASSUME SubprocessOK, NEW c \in Calls, Cancel(c)
  PROVE  SubprocessOK'
  <1> USE DEF SubprocessOK, Cancel
  <1>1. ProgramOK' BY FreeType DEF ProgramOK, Reap
  <1>2. CountsOK' BY FreeType
  <1>3. TimersOK' BY FreeType DEF TimersOK
  <1>4. ThreadOK' BY DEF ThreadOK
  <1> QED BY <1>1, <1>2, <1>3, <1>4

LEMMA DoneReturnsType ==
  ASSUME SubprocessOK, NEW c \in Calls, DoneReturns(c)
  PROVE  SubprocessOK'
  <1> USE DEF SubprocessOK, DoneReturns
  <1>1. ProgramOK' BY FreeType DEF ProgramOK
  <1>2. CountsOK' BY FreeType
  <1>3. TimersOK' BY FreeType DEF TimersOK
  <1>4. ThreadOK' BY DEF ThreadOK
  <1> QED BY <1>1, <1>2, <1>3, <1>4

LEMMA ReadingType ==
  ASSUME SubprocessOK, NEW c \in Calls, NEW s \in Streams,
         OnReadable(c, s) \/ ReadChunk(c, s) \/ WouldBlock(c, s)
  PROVE  SubprocessOK'
  <1> USE DEF SubprocessOK, OnReadable, ReadChunk, WouldBlock, handleVars, programVars
  <1>1. ProgramOK' BY DEF ProgramOK
  <1>2. CountsOK'
    <2>1. CASE ReadChunk(c, s)
      <3>1. pipe[c][s] - 1 \in 0..PipeSize /\ Least(buf[c][s] + 1, MaxOutput) \in 0..MaxOutput
        BY <2>1, SubprocessAssumption DEF CountsOK, Least, SubprocessAssumption
      <3>2. /\ [pipe[c] EXCEPT ![s] = @ - 1] \in [Streams -> 0..PipeSize]
            /\ [buf[c] EXCEPT ![s] = Least(@ + 1, MaxOutput)] \in [Streams -> 0..MaxOutput]
        BY <3>1 DEF CountsOK
      <3>3. /\ pipe' = [pipe EXCEPT ![c] = [pipe[c] EXCEPT ![s] = @ - 1]]
            /\ buf' = [buf EXCEPT ![c] = [buf[c] EXCEPT ![s] = Least(@ + 1, MaxOutput)]]
            /\ UNCHANGED wrote
        BY <2>1
      <3> QED BY <3>2, <3>3 DEF CountsOK
    <2>2. CASE ~ReadChunk(c, s)
      BY <2>2 DEF CountsOK
    <2> QED BY <2>1, <2>2
  <1>3. TimersOK' BY DEF TimersOK
  <1>4. ThreadOK' BY DEF ThreadOK
  <1> QED BY <1>1, <1>2, <1>3, <1>4

\* What try_reap() comes to: the callback, or the loop.
LEMMA TryReapCases ==
  ASSUME NEW c \in Calls, NEW open, TryReap(c, open)
  PROVE  \/ /\ open = {} /\ child[c] # "running"
            /\ Reap(c) /\ thread' = InDone(c)
            /\ answer' = [answer EXCEPT ![c] = IF timedOut[c] THEN "late" ELSE WaitStatus(c)]
         \/ thread' = AtLoop /\ UNCHANGED <<child, status, answer>>
  BY Zenon DEF TryReap, Answers

LEMMA TryReapType ==
  ASSUME SubprocessOK, NEW c \in Calls, NEW open \in SUBSET Streams, TryReap(c, open)
  PROVE  SubprocessOK'
  <1>1. ProgramOK'
    <2>1. WaitStatus(c) \in {"none", "success", "failure", "signalled", "lost"}
      BY DEF WaitStatus, SubprocessOK, ProgramOK
    <2>2. /\ answer' \in [Calls -> {"none", "success", "failure", "signalled", "late", "lost"}]
          /\ child' \in [Calls -> {"none", "running", "zombie", "reaped"}]
          /\ status' \in [Calls -> {"none", "success", "failure", "signalled"}]
      <3>1. CASE UNCHANGED <<child, status, answer>>
        BY <3>1 DEF SubprocessOK, ProgramOK
      <3>2. CASE /\ Reap(c)
                 /\ answer' = [answer EXCEPT ![c] = IF timedOut[c] THEN "late" ELSE WaitStatus(c)]
        <4>1. (IF timedOut[c] THEN "late" ELSE WaitStatus(c))
                 \in {"none", "success", "failure", "signalled", "late", "lost"}
          BY <2>1
        <4> QED BY <3>2, <4>1 DEF Reap, SubprocessOK, ProgramOK
      <3> QED BY <3>1, <3>2, TryReapCases
    <2>3. fds' \in [Calls -> SUBSET Streams] /\ UNCHANGED <<handle, helper, ends>>
      BY DEF TryReap, SubprocessOK, ProgramOK
    <2> QED BY <2>2, <2>3 DEF SubprocessOK, ProgramOK
  <1>2. CountsOK' BY DEF TryReap, SubprocessOK, CountsOK
  <1>3. TimersOK'
    <2>1. (open = {} /\ ~Answers(c, open)) \in BOOLEAN
      OBVIOUS
    <2>2. reapTimer' \in [Calls -> BOOLEAN]
      BY <2>1, Zenon DEF TryReap, SubprocessOK, TimersOK
    <2> QED BY <2>2 DEF TryReap, SubprocessOK, TimersOK
  <1>4. ThreadOK' BY TryReapCases DEF ThreadOK
  <1> QED BY <1>1, <1>2, <1>3, <1>4 DEF SubprocessOK

-----------------------------------------------------------------------------
(* The inductive invariant: the life of a call, what its pipes hold, and   *)
(* what was read from them.                                                *)

LifeOK(c) ==
  /\ handle[c] = "none" =>
       answer[c] = "none" /\ fds[c] = {} /\ ~reapTimer[c] /\ ~deadline[c] /\ child[c] = "none"
  /\ handle[c] = "live" =>
       /\ child[c] # "none"
       /\ child[c] = "reaped" <=> thread = InDone(c)
       /\ answer[c] # "none" <=> thread = InDone(c)
       /\ child[c] = "zombie" => status[c] # "none"
  /\ handle[c] = "freed" => fds[c] = {} /\ ~reapTimer[c] /\ ~deadline[c]
  /\ thread = InDone(c) => handle[c] = "live" /\ fds[c] = {}
  /\ \A s \in Streams : thread = Reading(c, s) => s \in fds[c]

\* A pipe is closed here once it is empty and nobody writes to it.
PipesOK(c) ==
  \A s \in Streams :
    s \notin fds[c] => pipe[c][s] = 0 /\ (handle[c] = "live" => AtEnd(c, s))

\* Of what was written nothing is lost between the pipe and the buffer, until
\* the buffer is full.
Counted(c, s) ==
  /\ Least(buf[c][s] + pipe[c][s], MaxWrites) <= wrote[c][s]
  /\ buf[c][s] < MaxOutput => Least(buf[c][s] + pipe[c][s], MaxWrites) = wrote[c][s]
  /\ ~Chatty => buf[c][s] + pipe[c][s] <= wrote[c][s]

CallOK(c) == LifeOK(c) /\ PipesOK(c) /\ \A s \in Streams : Counted(c, s)

ProcOK == proc # NoCall => handle[proc] = "live" /\ thread # InDone(proc)

\* A step of another call: nothing of this one changes.
Untouched(d) ==
  /\ handle'[d] = handle[d] /\ fds'[d] = fds[d] /\ buf'[d] = buf[d]
  /\ reapTimer'[d] = reapTimer[d] /\ deadline'[d] = deadline[d]
  /\ timedOut'[d] = timedOut[d] /\ answer'[d] = answer[d]
  /\ child'[d] = child[d] /\ status'[d] = status[d] /\ helper'[d] = helper[d]
  /\ ends'[d] = ends[d] /\ pipe'[d] = pipe[d] /\ wrote'[d] = wrote[d]
  /\ thread' = InDone(d) <=> thread = InDone(d)
  /\ \A s \in Streams : thread' = Reading(d, s) => thread = Reading(d, s)

OnlyTouches(c) == \A d \in Calls \ {c} : Untouched(d)

LEMMA UntouchedKeeps ==
  ASSUME NEW d \in Calls, CallOK(d), Untouched(d)
  PROVE  CallOK(d)'
  <1> USE DEF CallOK, Untouched
  <1>1. LifeOK(d)' BY DEF LifeOK
  <1>2. PipesOK(d)' BY DEF PipesOK, AtEnd
  <1>3. \A s \in Streams : Counted(d, s)' BY DEF Counted
  <1> QED BY <1>1, <1>2, <1>3

LEMMA SpawnKeeps ==
  ASSUME SubprocessOK, NEW c \in Calls, CallOK(c), NEW timeout \in BOOLEAN, Spawn(c, timeout)
  PROVE  CallOK(c)' /\ OnlyTouches(c)
  <1> USE DEF SubprocessOK, ProgramOK, Spawn, handleVars
  <1>1. LifeOK(c)' BY Places DEF CallOK, LifeOK, TimersOK
  <1>2. PipesOK(c)' BY DEF CallOK, PipesOK, LifeOK, CountsOK, AtEnd
  <1>3. \A t \in Streams : Counted(c, t)'
    BY SubprocessAssumption DEF CallOK, Counted, Least, CountsOK, Nothing, SubprocessAssumption
  <1>4. OnlyTouches(c)
    BY Places DEF OnlyTouches, Untouched, TimersOK, CountsOK
  <1> QED BY <1>1, <1>2, <1>3, <1>4 DEF CallOK

LEMMA WritesKeeps ==
  ASSUME SubprocessOK, NEW c \in Calls, CallOK(c), NEW s \in Streams, NEW w \in Writers,
         Writes(c, s, w)
  PROVE  CallOK(c)' /\ OnlyTouches(c)
  <1> USE DEF SubprocessOK, ProgramOK, Writes, handleVars
  <1>1. LifeOK(c)' BY Places DEF CallOK, LifeOK, TimersOK
  <1>2. PipesOK(c)' BY DEF CallOK, PipesOK, LifeOK, CountsOK, AtEnd
  <1>3. \A t \in Streams : Counted(c, t)'
    <2> TAKE t \in Streams
    <2>1. Counted(c, t)
      BY DEF CallOK
    <2>2. CASE t = s
      <3>1. /\ pipe[c][t] \in Nat /\ buf[c][t] \in Nat /\ wrote[c][t] \in Nat
            /\ wrote[c][t] <= MaxWrites
        BY SubprocessAssumption DEF CountsOK, SubprocessAssumption
      <3>2. /\ pipe'[c][t] = pipe[c][t] + 1 /\ buf'[c][t] = buf[c][t]
            /\ wrote'[c][t] = Least(wrote[c][t] + 1, MaxWrites)
            /\ Chatty \/ wrote[c][t] < MaxWrites
        BY <2>2 DEF CountsOK
      <3> QED BY <2>1, <3>1, <3>2, SubprocessAssumption DEF Counted, Least, SubprocessAssumption
    <2>3. CASE t # s
      <3>1. pipe'[c][t] = pipe[c][t] /\ buf'[c][t] = buf[c][t] /\ wrote'[c][t] = wrote[c][t]
        BY <2>3 DEF CountsOK
      <3> QED BY <2>1, <3>1 DEF Counted
    <2> QED BY <2>2, <2>3
  <1>4. OnlyTouches(c)
    BY Places DEF OnlyTouches, Untouched, TimersOK, CountsOK
  <1> QED BY <1>1, <1>2, <1>3, <1>4 DEF CallOK

LEMMA ClosesPipeKeeps ==
  ASSUME SubprocessOK, NEW c \in Calls, CallOK(c), NEW s \in Streams, NEW w \in Writers,
         ClosesPipe(c, s, w)
  PROVE  CallOK(c)' /\ OnlyTouches(c)
  <1> USE DEF SubprocessOK, ProgramOK, ClosesPipe, handleVars
  <1>1. LifeOK(c)' BY Places DEF CallOK, LifeOK, TimersOK
  <1>2. PipesOK(c)' BY DEF CallOK, PipesOK, LifeOK, CountsOK, AtEnd
  <1>3. \A t \in Streams : Counted(c, t)'
    BY SubprocessAssumption DEF CallOK, Counted, Least, CountsOK, Nothing, SubprocessAssumption
  <1>4. OnlyTouches(c)
    BY Places DEF OnlyTouches, Untouched, TimersOK, CountsOK
  <1> QED BY <1>1, <1>2, <1>3, <1>4 DEF CallOK

LEMMA LeavesHelperKeeps ==
  ASSUME SubprocessOK, NEW c \in Calls, CallOK(c), NEW where, NEW held \in SUBSET Streams,
         LeavesHelper(c, where, held)
  PROVE  CallOK(c)' /\ OnlyTouches(c)
  <1> USE DEF SubprocessOK, ProgramOK, LeavesHelper, handleVars
  <1>1. LifeOK(c)' BY Places DEF CallOK, LifeOK, TimersOK
  <1>2. PipesOK(c)' BY DEF CallOK, PipesOK, LifeOK, CountsOK, AtEnd
  <1>3. \A t \in Streams : Counted(c, t)'
    BY SubprocessAssumption DEF CallOK, Counted, Least, CountsOK, Nothing, SubprocessAssumption
  <1>4. OnlyTouches(c)
    BY Places DEF OnlyTouches, Untouched, TimersOK, CountsOK
  <1> QED BY <1>1, <1>2, <1>3, <1>4 DEF CallOK

LEMMA ChildExitsKeeps ==
  ASSUME SubprocessOK, NEW c \in Calls, CallOK(c), NEW how \in {"success", "failure"},
         handle[c] = "live", ChildExits(c, how)
  PROVE  CallOK(c)' /\ OnlyTouches(c)
  <1> USE DEF SubprocessOK, ProgramOK, ChildExits, Die, handleVars
  <1>1. LifeOK(c)' BY Places DEF CallOK, LifeOK, TimersOK
  <1>2. PipesOK(c)' BY DEF CallOK, PipesOK, LifeOK, CountsOK, AtEnd
  <1>3. \A t \in Streams : Counted(c, t)'
    BY SubprocessAssumption DEF CallOK, Counted, Least, CountsOK, Nothing, SubprocessAssumption
  <1>4. OnlyTouches(c)
    BY Places DEF OnlyTouches, Untouched, TimersOK, CountsOK
  <1> QED BY <1>1, <1>2, <1>3, <1>4 DEF CallOK

LEMMA HelperExitsKeeps ==
  ASSUME SubprocessOK, NEW c \in Calls, CallOK(c), HelperExits(c)
  PROVE  CallOK(c)' /\ OnlyTouches(c)
  <1> USE DEF SubprocessOK, ProgramOK, HelperExits, Die, handleVars
  <1>1. LifeOK(c)' BY Places DEF CallOK, LifeOK, TimersOK
  <1>2. PipesOK(c)' BY DEF CallOK, PipesOK, LifeOK, CountsOK, AtEnd
  <1>3. \A t \in Streams : Counted(c, t)'
    BY SubprocessAssumption DEF CallOK, Counted, Least, CountsOK, Nothing, SubprocessAssumption
  <1>4. OnlyTouches(c)
    BY Places DEF OnlyTouches, Untouched, TimersOK, CountsOK
  <1> QED BY <1>1, <1>2, <1>3, <1>4 DEF CallOK

LEMMA OnDeadlineKeeps ==
  ASSUME SubprocessOK, NEW c \in Calls, CallOK(c), OnDeadline(c)
  PROVE  CallOK(c)' /\ OnlyTouches(c)
  <1> USE DEF SubprocessOK, ProgramOK, OnDeadline, Die, Group, handleVars
  <1>1. LifeOK(c)' BY Places DEF CallOK, LifeOK, TimersOK
  <1>2. PipesOK(c)' BY DEF CallOK, PipesOK, LifeOK, CountsOK, AtEnd
  <1>3. \A t \in Streams : Counted(c, t)'
    BY SubprocessAssumption DEF CallOK, Counted, Least, CountsOK, Nothing, SubprocessAssumption
  <1>4. OnlyTouches(c)
    BY Places DEF OnlyTouches, Untouched, TimersOK, CountsOK
  <1> QED BY <1>1, <1>2, <1>3, <1>4 DEF CallOK

LEMMA SignalKeeps ==
  ASSUME SubprocessOK, NEW c \in Calls, CallOK(c), Signal(c)
  PROVE  CallOK(c)' /\ OnlyTouches(c)
  <1> USE DEF SubprocessOK, ProgramOK, Signal, Die, Group, handleVars
  <1>1. LifeOK(c)'
    <2>1. PICK who \in SUBSET Group(c) : Die(c, who, "signalled")
      BY Zenon DEF Signal
    <2>2. \/ child'[c] = child[c] /\ status'[c] = status[c]
          \/ child[c] = "running" /\ child'[c] = "zombie" /\ status'[c] = "signalled"
      BY <2>1 DEF Group
    <2>3. UNCHANGED <<handle, fds, reapTimer, deadline, answer, thread>>
      BY DEF Signal
    <2>4. LifeOK(c) BY DEF CallOK
    <2> HIDE DEF Signal, SubprocessOK, ProgramOK, Group, Die
    <2> QED BY <2>2, <2>3, <2>4 DEF LifeOK
  <1>2. PipesOK(c)' BY DEF CallOK, PipesOK, LifeOK, CountsOK, AtEnd
  <1>3. \A t \in Streams : Counted(c, t)'
    BY SubprocessAssumption DEF CallOK, Counted, Least, CountsOK, Nothing, SubprocessAssumption
  <1>4. OnlyTouches(c)
    BY Places DEF OnlyTouches, Untouched, TimersOK, CountsOK
  <1> QED BY <1>1, <1>2, <1>3, <1>4 DEF CallOK

LEMMA CancelKeeps ==
  ASSUME SubprocessOK, NEW c \in Calls, CallOK(c), handle[c] = "live", thread # InDone(c),
         \A s \in Streams : thread # Reading(c, s), Cancel(c)
  PROVE  CallOK(c)' /\ OnlyTouches(c)
  <1> USE DEF SubprocessOK, ProgramOK, Cancel, Free, Reap, handleVars
  <1>1. LifeOK(c)' BY Places DEF CallOK, LifeOK, TimersOK
  <1>2. PipesOK(c)' BY DEF CallOK, PipesOK, LifeOK, CountsOK, AtEnd, Nothing
  <1>3. \A t \in Streams : Counted(c, t)'
    BY SubprocessAssumption DEF CallOK, Counted, Least, CountsOK, Nothing, SubprocessAssumption
  <1>4. OnlyTouches(c)
    BY Places DEF OnlyTouches, Untouched, TimersOK, CountsOK
  <1> QED BY <1>1, <1>2, <1>3, <1>4 DEF CallOK

LEMMA OnReadableKeeps ==
  ASSUME SubprocessOK, NEW c \in Calls, CallOK(c), NEW s \in Streams,
         OnReadable(c, s) \/ WouldBlock(c, s)
  PROVE  CallOK(c)' /\ OnlyTouches(c)
  <1> USE DEF OnReadable, WouldBlock, handleVars, programVars
  <1>1. LifeOK(c)' BY Places DEF CallOK, LifeOK
  <1>2. PipesOK(c)' BY DEF CallOK, PipesOK, AtEnd
  <1>3. \A t \in Streams : Counted(c, t)' BY DEF CallOK, Counted
  <1>4. OnlyTouches(c) BY Places DEF OnlyTouches, Untouched
  <1> QED BY <1>1, <1>2, <1>3, <1>4 DEF CallOK

LEMMA ReadChunkKeeps ==
  ASSUME SubprocessOK, NEW c \in Calls, CallOK(c), NEW s \in Streams, ReadChunk(c, s)
  PROVE  CallOK(c)' /\ OnlyTouches(c)
  <1> USE DEF SubprocessOK, ReadChunk
  <1>1. LifeOK(c)' BY DEF CallOK, LifeOK
  <1>2. PipesOK(c)' BY DEF CallOK, PipesOK, LifeOK, CountsOK, AtEnd
  <1>3. \A t \in Streams : Counted(c, t)'
    <2> TAKE t \in Streams
    <2>1. Counted(c, t)
      BY DEF CallOK
    <2>2. CASE t = s
      <3>1. /\ pipe[c][t] \in Nat /\ buf[c][t] \in Nat /\ wrote[c][t] \in Nat
            /\ buf[c][t] <= MaxOutput /\ wrote[c][t] <= MaxWrites
        BY SubprocessAssumption DEF CountsOK, SubprocessAssumption
      <3>2. /\ pipe[c][t] > 0 /\ pipe'[c][t] = pipe[c][t] - 1
            /\ buf'[c][t] = Least(buf[c][t] + 1, MaxOutput) /\ wrote'[c][t] = wrote[c][t]
        BY <2>2 DEF CountsOK
      <3> QED BY <2>1, <3>1, <3>2, SubprocessAssumption DEF Counted, Least, SubprocessAssumption
    <2>3. CASE t # s
      <3>1. pipe'[c][t] = pipe[c][t] /\ buf'[c][t] = buf[c][t] /\ wrote'[c][t] = wrote[c][t]
        BY <2>3 DEF CountsOK
      <3> QED BY <2>1, <3>1 DEF Counted
    <2> QED BY <2>2, <2>3
  <1>4. OnlyTouches(c)
    BY Places DEF OnlyTouches, Untouched, CountsOK
  <1> QED BY <1>1, <1>2, <1>3, <1>4 DEF CallOK

LEMMA DoneReturnsKeeps ==
  ASSUME SubprocessOK, NEW c \in Calls, CallOK(c), DoneReturns(c)
  PROVE  CallOK(c)' /\ OnlyTouches(c)
  <1> USE DEF SubprocessOK, DoneReturns, Free
  <1>1. LifeOK(c)' BY Places DEF CallOK, LifeOK, ProgramOK, TimersOK
  <1>2. PipesOK(c)' BY DEF CallOK, PipesOK, LifeOK, ProgramOK, CountsOK, AtEnd, Nothing
  <1>3. \A t \in Streams : Counted(c, t)'
    BY SubprocessAssumption DEF Counted, Least, CountsOK, Nothing, SubprocessAssumption
  <1>4. OnlyTouches(c)
    BY Places DEF OnlyTouches, Untouched, ProgramOK, TimersOK, CountsOK
  <1> QED BY <1>1, <1>2, <1>3, <1>4 DEF CallOK

\* From the read loop or from the event loop: `open` is what the step leaves open.
LEMMA TryReapKeeps ==
  ASSUME SubprocessOK, NEW c \in Calls, CallOK(c), NEW open \in SUBSET Streams,
         handle[c] = "live", thread # InDone(c),
         \/ thread = AtLoop /\ open = fds[c]
         \/ \E s \in Streams : /\ thread = Reading(c, s) /\ open = fds[c] \ {s}
                               /\ pipe[c][s] = 0 /\ AtEnd(c, s),
         TryReap(c, open)
  PROVE  CallOK(c)' /\ OnlyTouches(c)
  <1> USE DEF SubprocessOK
  <1>1. LifeOK(c)'
    <2>1. fds'[c] = open /\ UNCHANGED <<handle, deadline>>
      BY DEF TryReap, ProgramOK
    <2>2. CASE thread' = AtLoop /\ UNCHANGED <<child, status, answer>>
      BY <2>1, <2>2, Places DEF CallOK, LifeOK
    <2>3. CASE /\ open = {} /\ child[c] # "running" /\ Reap(c) /\ thread' = InDone(c)
               /\ answer' = [answer EXCEPT ![c] = IF timedOut[c] THEN "late" ELSE WaitStatus(c)]
      <3>1. child[c] = "zombie" /\ status[c] # "none"
        BY <2>3 DEF CallOK, LifeOK, ProgramOK
      <3>2. child'[c] = "reaped" /\ answer'[c] # "none"
        BY <2>3, <3>1 DEF Reap, ProgramOK, WaitStatus
      <3> QED BY <2>1, <2>3, <3>2, Places DEF CallOK, LifeOK
    <2> QED BY <2>2, <2>3, TryReapCases
  <1>2. PipesOK(c)'
    <2>1. fds'[c] = open /\ UNCHANGED <<handle, pipe, ends>>
      BY DEF TryReap, ProgramOK
    <2>2. \A s \in Streams : s \notin open => pipe[c][s] = 0 /\ AtEnd(c, s)
      BY DEF CallOK, PipesOK
    <2> QED BY <2>1, <2>2 DEF PipesOK, AtEnd
  <1>3. \A t \in Streams : Counted(c, t)' BY DEF TryReap, CallOK, Counted
  <1>4. OnlyTouches(c)
    <2> SUFFICES ASSUME NEW d \in Calls \ {c} PROVE Untouched(d)
      BY DEF OnlyTouches
    <2>1. /\ fds'[d] = fds[d] /\ reapTimer'[d] = reapTimer[d]
          /\ UNCHANGED <<handle, buf, deadline, timedOut, helper, ends, pipe, wrote>>
      BY DEF TryReap, ProgramOK, TimersOK
    <2>2. /\ child'[d] = child[d] /\ status'[d] = status[d] /\ answer'[d] = answer[d]
          /\ thread' = AtLoop \/ thread' = InDone(c)
      BY TryReapCases DEF Reap, ProgramOK
    <2> QED BY <2>1, <2>2, Places DEF Untouched
  <1> QED BY <1>1, <1>2, <1>3, <1>4 DEF CallOK

LEMMA ProgramStepKeeps ==
  ASSUME SubprocessOK, NEW c \in Calls, CallOK(c), ProgramStep(c)
  PROVE  SubprocessOK' /\ CallOK(c)' /\ OnlyTouches(c) /\ UNCHANGED <<handle, thread, answer>>
  <1>1. ASSUME NEW s \in Streams, NEW w \in Writers, Writes(c, s, w)
        PROVE  SubprocessOK' /\ CallOK(c)' /\ OnlyTouches(c) /\ UNCHANGED <<handle, thread, answer>>
    BY <1>1, WritesType, WritesKeeps DEF Writes, handleVars
  <1>2. ASSUME NEW s \in Streams, NEW w \in Writers, ClosesPipe(c, s, w)
        PROVE  SubprocessOK' /\ CallOK(c)' /\ OnlyTouches(c) /\ UNCHANGED <<handle, thread, answer>>
    BY <1>2, ClosesPipeType, ClosesPipeKeeps DEF ClosesPipe, handleVars
  <1>3. ASSUME NEW where \in {"group", "escaped"}, NEW held \in SUBSET Streams,
               LeavesHelper(c, where, held)
        PROVE  SubprocessOK' /\ CallOK(c)' /\ OnlyTouches(c) /\ UNCHANGED <<handle, thread, answer>>
    BY <1>3, LeavesHelperType, LeavesHelperKeeps DEF LeavesHelper, handleVars
  <1>4. ASSUME NEW how \in {"success", "failure"}, ChildExits(c, how)
        PROVE  SubprocessOK' /\ CallOK(c)' /\ OnlyTouches(c) /\ UNCHANGED <<handle, thread, answer>>
    BY <1>4, ChildExitsType, ChildExitsKeeps DEF ChildExits, handleVars, ProgramStep
  <1>5. CASE HelperExits(c)
    BY <1>5, HelperExitsType, HelperExitsKeeps DEF HelperExits, handleVars
  <1> QED BY <1>1, <1>2, <1>3, <1>4, <1>5, Zenon DEF ProgramStep

LEMMA QuietStepKeeps ==
  ASSUME SubprocessOK, NEW c \in Calls, CallOK(c), QuietStep(c)
  PROVE  /\ SubprocessOK' /\ CallOK(c)' /\ OnlyTouches(c) /\ UNCHANGED answer
         /\ UNCHANGED handle \/ DoneReturns(c)
         /\ \A d \in Calls : thread' = InDone(d) => thread = InDone(d)
  <1>1. ASSUME NEW s \in Streams, OnReadable(c, s) \/ ReadChunk(c, s) \/ WouldBlock(c, s)
        PROVE  /\ SubprocessOK' /\ CallOK(c)' /\ OnlyTouches(c)
               /\ UNCHANGED <<handle, answer>>
               /\ \A d \in Calls : thread' = InDone(d) => thread = InDone(d)
    BY <1>1, ReadingType, OnReadableKeeps, ReadChunkKeeps, Places
       DEF OnReadable, ReadChunk, WouldBlock, handleVars
  <1>2. CASE OnDeadline(c)
    BY <1>2, OnDeadlineType, OnDeadlineKeeps DEF OnDeadline
  <1>3. CASE DoneReturns(c)
    BY <1>3, DoneReturnsType, DoneReturnsKeeps, Places DEF DoneReturns
  <1> QED BY <1>1, <1>2, <1>3, Zenon DEF QuietStep

\* A step that answers reads the last of the last pipe, or finds the child dead.
LEMMA ReapingKeeps ==
  ASSUME SubprocessOK, NEW c \in Calls, CallOK(c),
         (\E s \in Streams : ReadEnd(c, s)) \/ OnReapTimer(c)
  PROVE  /\ SubprocessOK' /\ CallOK(c)' /\ OnlyTouches(c) /\ handle[c] = "live"
         /\ UNCHANGED <<handle, deadline, timedOut>>
         /\ thread' = InDone(c) \/ (thread' = AtLoop /\ UNCHANGED answer)
         /\ thread # InDone(c)
         /\ \E open : TryReap(c, open)
  <1>1. PICK open \in SUBSET Streams :
          /\ \/ thread = AtLoop /\ open = fds[c] /\ reapTimer[c]
             \/ \E s \in Streams : /\ thread = Reading(c, s) /\ open = fds[c] \ {s}
                                   /\ pipe[c][s] = 0 /\ AtEnd(c, s)
          /\ TryReap(c, open)
    <2>1. CASE \E s \in Streams : ReadEnd(c, s)
      <3>1. PICK s \in Streams : ReadEnd(c, s)
        BY <2>1
      <3>2. fds[c] \ {s} \in SUBSET Streams
        BY DEF SubprocessOK, ProgramOK
      <3> QED BY <3>1, <3>2, Zenon DEF ReadEnd
    <2>2. CASE OnReapTimer(c)
      <3>1. fds[c] \in SUBSET Streams
        BY DEF SubprocessOK, ProgramOK
      <3> QED BY <2>2, <3>1, Zenon DEF OnReapTimer
    <2> QED BY <2>1, <2>2
  <1>2. handle[c] = "live" /\ thread # InDone(c)
    BY <1>1, Places DEF CallOK, LifeOK, SubprocessOK, ProgramOK
  <1>3. SubprocessOK' /\ CallOK(c)' /\ OnlyTouches(c)
    BY <1>1, <1>2, TryReapType, TryReapKeeps
  <1>4. UNCHANGED <<handle, deadline, timedOut>>
    BY <1>1 DEF TryReap
  <1>5. thread' = InDone(c) \/ (thread' = AtLoop /\ UNCHANGED answer)
    BY <1>1, TryReapCases
  <1> QED BY <1>1, <1>2, <1>3, <1>4, <1>5

IInv == SubprocessOK /\ VoiceOK /\ (\A c \in Calls : CallOK(c)) /\ ProcOK

LEMMA OthersKept ==
  ASSUME \A d \in Calls : CallOK(d), NEW c \in Calls, CallOK(c)', OnlyTouches(c)
  PROVE  \A d \in Calls : CallOK(d)'
  BY UntouchedKeeps DEF OnlyTouches

\* Whoever gives a command is not in a read loop.
LEMMA CommandPlace ==
  ASSUME InCommand
  PROVE  \A c \in Calls, s \in Streams : thread # Reading(c, s)
  BY Places DEF InCommand

LEMMA StopListeningKeeps ==
  ASSUME IInv, InCommand, StopListening
  PROVE  /\ SubprocessOK' /\ (\A c \in Calls : CallOK(c)') /\ proc' = NoCall /\ voiceTimer' = FALSE
         /\ \/ UNCHANGED subprocessVars
            \/ \E c \in Calls : c = proc /\ Cancel(c) /\ OnlyTouches(c)
  <1>1. CASE proc = NoCall
    <2>1. UNCHANGED subprocessVars /\ proc' = NoCall /\ voiceTimer' = FALSE
      BY <1>1, Zenon DEF StopListening
    <2>2. SubprocessOK'
      BY <2>1 DEF IInv, SubprocessOK, ProgramOK, CountsOK, TimersOK, ThreadOK,
                  subprocessVars, handleVars, programVars
    <2>3. \A c \in Calls : CallOK(c)'
      BY <2>1 DEF IInv, CallOK, LifeOK, PipesOK, AtEnd, Counted,
                  subprocessVars, handleVars, programVars
    <2> QED BY <2>1, <2>2, <2>3, Zenon
  <1>2. CASE proc # NoCall
    <2>1. PICK c \in Calls : c = proc
      BY <1>2 DEF IInv, VoiceOK
    <2>2. Cancel(c) /\ proc' = NoCall /\ voiceTimer' = FALSE
      BY <1>2, <2>1, Zenon DEF StopListening
    <2>3. handle[c] = "live" /\ thread # InDone(c)
      BY <1>2, <2>1 DEF IInv, ProcOK
    <2>4. SubprocessOK' /\ CallOK(c)' /\ OnlyTouches(c)
      BY <2>2, <2>3, CommandPlace, CancelType, CancelKeeps DEF IInv
    <2>5. \A d \in Calls : CallOK(d)'
      BY <2>4, OthersKept DEF IInv
    <2> QED BY <2>1, <2>2, <2>4, <2>5, Zenon
  <1> QED BY <1>1, <1>2

LEMMA VoiceStartKeeps ==
  ASSUME IInv, NEW c \in Calls, VoiceStart(c)
  PROVE  IInv'
  <1>1. Spawn(c, TRUE) /\ UNCHANGED thread /\ handle[c] = "none"
    BY DEF VoiceStart, Spawn
  <1>2. SubprocessOK' /\ CallOK(c)' /\ OnlyTouches(c)
    BY <1>1, SpawnType, SpawnKeeps DEF IInv
  <1>3. \A d \in Calls : CallOK(d)'
    BY <1>2, OthersKept DEF IInv
  <1>4. VoiceOK'
    BY DEF VoiceStart, IInv, VoiceOK
  <1>5. handle'[c] = "live" /\ thread' # InDone(c)
    BY <1>1 DEF IInv, CallOK, LifeOK, Spawn, SubprocessOK, ProgramOK
  <1>6. ProcOK'
    BY <1>5 DEF VoiceStart, ProcOK
  <1> QED BY <1>2, <1>3, <1>4, <1>6 DEF IInv

LEMMA MayAnswerKeeps ==
  ASSUME IInv, NEW c \in Calls, MayAnswer(c)
  PROVE  IInv'
  <1>1. (\E s \in Streams : ReadEnd(c, s)) \/ OnReapTimer(c)
    BY DEF MayAnswer
  <1>2. /\ SubprocessOK' /\ CallOK(c)' /\ OnlyTouches(c)
        /\ UNCHANGED handle
        /\ thread' = InDone(c) \/ thread' = AtLoop
    BY <1>1, ReapingKeeps DEF IInv
  <1>3. \A d \in Calls : CallOK(d)'
    BY <1>2, OthersKept DEF IInv
  <1>4. CASE thread' = InDone(c)
    <2>1. proc' = NoCall /\ voiceTimer' = FALSE /\ heard' = Outcome(answer'[c]) /\ UNCHANGED enabled
      BY <1>4 DEF MayAnswer, OnVoiceDone
    <2>2. VoiceOK'
      BY <2>1 DEF IInv, VoiceOK, Outcome
    <2> QED BY <1>2, <1>3, <2>1, <2>2 DEF IInv, ProcOK
  <1>5. CASE thread' = AtLoop
    <2>1. UNCHANGED voiceVars
      BY <1>5, Places, Zenon DEF MayAnswer
    <2> QED BY <1>2, <1>3, <1>5, <2>1, Places DEF IInv, VoiceOK, ProcOK, voiceVars
  <1> QED BY <1>2, <1>4, <1>5

LEMMA OtherCallStepsKeep ==
  ASSUME IInv, NEW c \in Calls, ProgramStep(c) \/ QuietStep(c), UNCHANGED voiceVars
  PROVE  IInv'
  <1>1. /\ SubprocessOK' /\ CallOK(c)' /\ OnlyTouches(c)
        /\ UNCHANGED handle \/ DoneReturns(c)
        /\ \A d \in Calls : thread' = InDone(d) => thread = InDone(d)
    BY ProgramStepKeeps, QuietStepKeeps DEF IInv
  <1>2. \A d \in Calls : CallOK(d)'
    BY <1>1, OthersKept DEF IInv
  <1>3. \A d \in Calls \ {c} : handle'[d] = handle[d]
    BY <1>1 DEF OnlyTouches, Untouched
  <1>4. ProcOK'
    BY <1>1, <1>3 DEF IInv, ProcOK, VoiceOK, voiceVars, DoneReturns
  <1> QED BY <1>1, <1>2, <1>4 DEF IInv, VoiceOK, voiceVars

\* stop and the timer only send a signal, if there is somebody to send it to.
LEMMA SignallingKeeps ==
  ASSUME IInv, NEW c \in Calls, c = proc, Signal(c), UNCHANGED <<enabled, proc, heard>>,
         voiceTimer' = FALSE
  PROVE  IInv' /\ OnlyTouches(c)
  <1>1. SubprocessOK' /\ CallOK(c)' /\ OnlyTouches(c) /\ UNCHANGED <<handle, thread>>
    BY SignalType, SignalKeeps DEF IInv, Signal, handleVars
  <1>2. \A d \in Calls : CallOK(d)'
    BY <1>1, OthersKept DEF IInv
  <1> QED BY <1>1, <1>2 DEF IInv, VoiceOK, ProcOK

LEMMA SubprocessStands ==
  ASSUME IInv, UNCHANGED subprocessVars
  PROVE  SubprocessOK' /\ \A c \in Calls : CallOK(c)'
  <1>1. SubprocessOK'
    BY DEF IInv, SubprocessOK, ProgramOK, CountsOK, TimersOK, ThreadOK,
           subprocessVars, handleVars, programVars
  <1>2. \A c \in Calls : CallOK(c)'
    BY DEF IInv, CallOK, LifeOK, PipesOK, AtEnd, Counted,
           subprocessVars, handleVars, programVars
  <1> QED BY <1>1, <1>2

LEMMA CommandsKeep ==
  ASSUME IInv, VoiceStop \/ VoiceCancel \/ Deactivate \/ Activate \/ OnVoiceTimer
  PROVE  IInv'
  <1>1. CASE VoiceStop
    <2>1. PICK c \in Calls : c = proc
      BY <1>1 DEF VoiceStop, IInv, VoiceOK
    <2>2. Signal(c) /\ UNCHANGED <<enabled, proc, heard>> /\ voiceTimer' = FALSE
      BY <1>1, <2>1, Zenon DEF VoiceStop
    <2> QED BY <2>1, <2>2, SignallingKeeps
  <1>2. CASE VoiceCancel \/ Deactivate
    <2>1. InCommand /\ StopListening /\ UNCHANGED heard
          /\ (enabled' = enabled \/ enabled' = FALSE)
      BY <1>2 DEF VoiceCancel, Deactivate
    <2>2. SubprocessOK' /\ (\A c \in Calls : CallOK(c)') /\ proc' = NoCall /\ voiceTimer' = FALSE
      BY <2>1, StopListeningKeeps
    <2> QED BY <2>1, <2>2 DEF IInv, VoiceOK, ProcOK
  <1>3. CASE Activate
    <2>1. UNCHANGED <<subprocessVars, proc, voiceTimer, heard>> /\ enabled' = TRUE
      BY <1>3 DEF Activate
    <2> QED BY <2>1, SubprocessStands
            DEF IInv, VoiceOK, ProcOK, subprocessVars, handleVars
  <1>4. CASE OnVoiceTimer
    <2>1. voiceTimer' = FALSE /\ UNCHANGED <<enabled, proc, heard>>
      BY <1>4 DEF OnVoiceTimer
    <2>2. CASE proc = NoCall
      <3>1. UNCHANGED subprocessVars
        BY <1>4, <2>2, Zenon DEF OnVoiceTimer
      <3> QED BY <2>1, <3>1, SubprocessStands
              DEF IInv, VoiceOK, ProcOK, subprocessVars, handleVars
    <2>3. CASE proc # NoCall
      <3>1. PICK c \in Calls : c = proc
        BY <2>3 DEF IInv, VoiceOK
      <3>2. Signal(c)
        BY <1>4, <2>3, <3>1, Zenon DEF OnVoiceTimer
      <3> QED BY <2>1, <3>1, <3>2, SignallingKeeps
    <2> QED BY <2>2, <2>3
  <1> QED BY <1>1, <1>2, <1>3, <1>4

LEMMA NextKeeps ==
  ASSUME IInv, [Next]_vars
  PROVE  IInv'
  <1>1. CASE UNCHANGED vars
    <2>1. UNCHANGED subprocessVars /\ UNCHANGED voiceVars
      BY <1>1 DEF vars
    <2> QED BY <2>1, SubprocessStands
            DEF IInv, VoiceOK, ProcOK, voiceVars, subprocessVars, handleVars
  <1>2. ASSUME NEW c \in Calls,
               \/ VoiceStart(c) \/ MayAnswer(c)
               \/ (ProgramStep(c) \/ QuietStep(c)) /\ UNCHANGED voiceVars
        PROVE  IInv'
    BY <1>2, VoiceStartKeeps, MayAnswerKeeps, OtherCallStepsKeep
  <1> QED BY <1>1, <1>2, CommandsKeep, Zenon DEF Next

LEMMA Inductive == Spec => []IInv
  <1>1. Init => IInv
    <2> SUFFICES ASSUME Init PROVE IInv
      OBVIOUS
    <2>1. SubprocessOK /\ VoiceOK
      BY InitType, TypeParts
    <2>2. \A c \in Calls : CallOK(c)
      BY SubprocessAssumption, Places
         DEF Init, SubprocessInit, CallOK, LifeOK, PipesOK, Counted, Least, Nothing,
             SubprocessAssumption
    <2>3. ProcOK
      BY DEF Init, ProcOK
    <2> QED BY <2>1, <2>2, <2>3 DEF IInv
  <1>2. IInv /\ [Next]_vars => IInv'
    BY NextKeeps
  <1> QED BY <1>1, <1>2, PTL DEF Spec

-----------------------------------------------------------------------------
(* The theorems.                                                           *)

\* Every handle, timer, pipe and process is in a state of its own.
THEOREM TypeCorrect == Spec => []TypeOK
  <1>1. IInv => TypeOK
    BY TypeParts DEF IInv
  <1> QED BY <1>1, Inductive, PTL

\* What voice_proc names is a live handle whose child nobody waited for, and every
\* registered source has a live handle behind it.
THEOREM NoStaleHandle == Spec => []HandleIsOwn
  <1>1. IInv => HandleIsOwn
    <2> SUFFICES ASSUME IInv PROVE HandleIsOwn
      OBVIOUS
    <2>1. ASSUME proc # NoCall
          PROVE  /\ handle[proc] = "live" /\ child[proc] \in {"running", "zombie"}
                 /\ thread # InDone(proc)
      BY <2>1 DEF IInv, ProcOK, VoiceOK, SubprocessOK, ProgramOK, CallOK, LifeOK
    <2>2. ASSUME NEW c \in Calls, fds[c] # {} \/ reapTimer[c] \/ deadline[c]
          PROVE  handle[c] = "live"
      BY <2>2 DEF IInv, SubprocessOK, ProgramOK, CallOK, LifeOK
    <2> QED BY <2>1, <2>2 DEF HandleIsOwn
  <1> QED BY <1>1, Inductive, PTL

\* The answer carries all that was written, up to the limit, in whatever order the
\* ends, the exit, the kill and the reaping came.
THEOREM NothingIsLost == Spec => []AnswerIsWhole
  <1>1. IInv => AnswerIsWhole
    <2> SUFFICES ASSUME IInv, NEW c \in Calls, thread = InDone(c), NEW s \in Streams
                 PROVE  buf[c][s] = Least(wrote[c][s], MaxOutput)
      BY DEF AnswerIsWhole
    <2>1. pipe[c][s] = 0 /\ Counted(c, s)
      BY DEF IInv, CallOK, LifeOK, PipesOK
    <2>2. buf[c][s] \in 0..MaxOutput /\ wrote[c][s] \in 0..MaxWrites
      BY DEF IInv, SubprocessOK, CountsOK
    <2> QED BY <2>1, <2>2, SubprocessAssumption DEF Counted, Least, SubprocessAssumption
  <1> QED BY <1>1, Inductive, PTL

-----------------------------------------------------------------------------
(* The refinement: the listener implements AnswerContract.  What a step    *)
(* means for the contract is read off from the one call it touches.        *)

SamePhase(c) == Phase(c)' = Phase(c) /\ answer'[c] = answer[c]

\* The six things a step of call c may mean.
ContractMove(c) ==
  /\ Over(c) => Over(c)'
  /\ timedOut[c] = timedOut'[c] \/ (timedOut'[c] = TRUE /\ Phase(c) = "asked" /\ SamePhase(c))
  /\ \/ SamePhase(c) /\ (Phase(c) = "unasked" => ~Over(c)')
     \/ /\ Phase(c) = "unasked" /\ Phase(c)' = "asked" /\ answer'[c] = answer[c]
        /\ (Over(c)' <=> Over(c))
     \/ /\ Phase(c) = "asked" /\ Phase(c)' = "withdrawn" /\ answer'[c] = answer[c]
     \/ /\ Phase(c) = "asked" /\ Phase(c)' = "answered" /\ Over(c) /\ Over(c)'
        /\ Said(answer[c]) = "nothing"
        /\ Said(answer'[c]) = IF timedOut[c] THEN "late" ELSE "exit"

LEMMA UntouchedContract ==
  ASSUME NEW d \in Calls, Untouched(d)
  PROVE  /\ Phase(d)' = Phase(d) /\ Over(d)' = Over(d)
         /\ timedOut'[d] = timedOut[d] /\ Said(answer[d])' = Said(answer[d])
  BY DEF Untouched, Phase, Over, AtEnd, Said

PhaseMap == [c \in Calls |-> Phase(c)]
OverMap == {c \in Calls : Over(c)}
LateMap == {c \in Calls : timedOut[c]}
SaidMap == [c \in Calls |-> Said(answer[c])]

LEMMA MoveIsStep ==
  ASSUME IInv, TimersOK', NEW c \in Calls, OnlyTouches(c), ContractMove(c)
  PROVE  [Contract!ContractNext]_(Contract!contractVars)
  <1>1. \A d \in Calls \ {c} : /\ Phase(d)' = Phase(d) /\ Over(d)' = Over(d)
                               /\ timedOut'[d] = timedOut[d] /\ Said(answer'[d]) = Said(answer[d])
    BY UntouchedContract DEF OnlyTouches
  <1>2. OverMap' = OverMap \/ OverMap' = OverMap \cup {c}
    BY <1>1 DEF ContractMove, OverMap
  <1>3. (Over(c)' <=> Over(c)) => OverMap' = OverMap
    BY <1>1 DEF OverMap
  <1>4. timedOut'[c] = timedOut[c] => LateMap' = LateMap
    BY <1>1 DEF LateMap
  <1>5. timedOut'[c] = TRUE => LateMap' = LateMap \cup {c}
    BY <1>1 DEF LateMap
  <1>6. PhaseMap' = [PhaseMap EXCEPT ![c] = Phase(c)']
    BY <1>1 DEF PhaseMap
  <1>7. SaidMap' = [SaidMap EXCEPT ![c] = Said(answer'[c])]
    BY <1>1 DEF SaidMap
  <1>8. PhaseMap[c] = Phase(c) /\ SaidMap[c] = Said(answer[c])
        /\ (c \in OverMap <=> Over(c)) /\ (c \in LateMap <=> timedOut[c])
    BY DEF PhaseMap, SaidMap, OverMap, LateMap
  <1> USE DEF Contract!ContractNext, Contract!contractVars, Contract!MayEnd
  <1>9. CASE /\ SamePhase(c) /\ Phase(c) = "unasked" /\ ~Over(c)'
    <2>1. PhaseMap' = PhaseMap /\ SaidMap' = SaidMap
      BY <1>6, <1>7, <1>8, <1>9 DEF SamePhase, PhaseMap, SaidMap
    <2>2. OverMap' = OverMap /\ LateMap' = LateMap
      BY <1>3, <1>4, <1>9 DEF ContractMove
    <2> QED BY <2>1, <2>2, Zenon DEF PhaseMap, SaidMap, OverMap, LateMap
  <1>10. CASE SamePhase(c) /\ Phase(c) # "unasked"
    <2>1. PhaseMap' = PhaseMap /\ SaidMap' = SaidMap
      BY <1>6, <1>7, <1>8, <1>10 DEF SamePhase, PhaseMap, SaidMap
    <2>2. CASE timedOut'[c] = timedOut[c]
      <3>1. CASE OverMap' = OverMap
        BY <1>4, <2>1, <2>2, <3>1, Zenon DEF PhaseMap, SaidMap, OverMap, LateMap
      <3>2. CASE OverMap' = OverMap \cup {c}
        <4>1. Contract!ProgramEnds(c)
          BY <1>4, <1>8, <1>10, <2>1, <2>2, <3>2
             DEF Contract!ProgramEnds, PhaseMap, SaidMap, OverMap, LateMap
        <4> QED BY <4>1, Zenon
      <3> QED BY <1>2, <3>1, <3>2
    <2>3. CASE timedOut'[c] = TRUE /\ Phase(c) = "asked"
      <3>1. Contract!DeadlinePasses(c)
        BY <1>2, <1>5, <1>8, <2>1, <2>3
           DEF Contract!DeadlinePasses, PhaseMap, SaidMap, OverMap, LateMap
      <3> QED BY <3>1, Zenon
    <2> QED BY <2>2, <2>3 DEF ContractMove
  <1>11. CASE /\ Phase(c) = "unasked" /\ Phase(c)' = "asked" /\ answer'[c] = answer[c]
              /\ (Over(c)' <=> Over(c))
    <2>1. timedOut'[c] = timedOut[c]
      BY <1>11 DEF ContractMove
    <2>2. SaidMap' = SaidMap
      BY <1>7, <1>8, <1>11 DEF SaidMap
    <2>3. PhaseMap' = [PhaseMap EXCEPT ![c] = "asked"] /\ PhaseMap[c] = "unasked"
      BY <1>6, <1>8, <1>11
    <2>4. Contract!Ask(c)
      BY <1>3, <1>4, <1>11, <2>1, <2>2, <2>3, Zenon
         DEF Contract!Ask, PhaseMap, SaidMap, OverMap, LateMap
    <2> QED BY <2>4, Zenon
  <1>12. CASE Phase(c) = "asked" /\ Phase(c)' = "withdrawn" /\ answer'[c] = answer[c]
    <2>1. timedOut'[c] = timedOut[c]
      BY <1>12 DEF ContractMove, SamePhase
    <2>2. SaidMap' = SaidMap
      BY <1>7, <1>8, <1>12 DEF SaidMap
    <2>3. PhaseMap' = [PhaseMap EXCEPT ![c] = "withdrawn"] /\ PhaseMap[c] = "asked"
      BY <1>6, <1>8, <1>12
    <2>4. OverMap' \in {OverMap, OverMap \cup {c}} /\ LateMap' = LateMap
      BY <1>2, <1>4, <2>1
    <2>5. Contract!Withdraw(c)
      BY <2>2, <2>3, <2>4, Zenon
         DEF Contract!Withdraw, PhaseMap, SaidMap, OverMap, LateMap
    <2> QED BY <2>5, Zenon
  <1>13. CASE /\ Phase(c) = "asked" /\ Phase(c)' = "answered" /\ Over(c) /\ Over(c)'
              /\ Said(answer'[c]) = IF timedOut[c] THEN "late" ELSE "exit"
    <2>1. timedOut'[c] = timedOut[c]
      BY <1>13 DEF ContractMove, SamePhase
    <2>2. SaidMap' = [SaidMap EXCEPT ![c] = IF c \in LateMap THEN "late" ELSE "exit"]
      BY <1>7, <1>8, <1>13, Zenon
    <2>3. PhaseMap' = [PhaseMap EXCEPT ![c] = "answered"] /\ PhaseMap[c] = "asked"
      BY <1>6, <1>8, <1>13
    <2>4. OverMap' = OverMap /\ LateMap' = LateMap /\ c \in OverMap
      BY <1>3, <1>4, <1>8, <1>13, <2>1
    <2>5. Contract!Answer(c)
      BY <2>2, <2>3, <2>4, Zenon
         DEF Contract!Answer, PhaseMap, SaidMap, OverMap, LateMap
    <2> QED BY <2>5, Zenon
  <1> QED BY <1>9, <1>10, <1>11, <1>12, <1>13 DEF ContractMove

LEMMA ProgramMove ==
  ASSUME SubprocessOK, NEW c \in Calls, CallOK(c), ProgramStep(c)
  PROVE  ContractMove(c)
  <1>1. handle[c] = "live" /\ UNCHANGED <<handle, answer, timedOut>>
    BY DEF ProgramStep, Writes, ClosesPipe, LeavesHelper, ChildExits, HelperExits, handleVars
  <1>2. SamePhase(c) /\ Phase(c) # "unasked"
    BY <1>1 DEF SamePhase, Phase
  <1>3. Over(c) => Over(c)'
    <2> SUFFICES ASSUME Over(c) PROVE Over(c)'
      OBVIOUS
    <2> USE DEF Over, AtEnd, SubprocessOK, ProgramOK
    <2>1. ASSUME NEW s \in Streams, NEW w \in Writers, Writes(c, s, w) \/ ClosesPipe(c, s, w)
          PROVE  Over(c)'
      BY <2>1 DEF Writes, ClosesPipe
    <2>2. ASSUME NEW where \in {"group", "escaped"}, NEW held \in SUBSET Streams,
                 LeavesHelper(c, where, held)
          PROVE  Over(c)'
      BY <2>2 DEF LeavesHelper
    <2>3. ASSUME NEW how \in {"success", "failure"}, ChildExits(c, how)
          PROVE  Over(c)'
      BY <2>3 DEF ChildExits
    <2>4. CASE HelperExits(c)
      BY <2>4 DEF HelperExits, Die
    <2> QED BY <2>1, <2>2, <2>3, <2>4, Zenon DEF ProgramStep
  <1> QED BY <1>1, <1>2, <1>3 DEF ContractMove

LEMMA QuietMove ==
  ASSUME SubprocessOK, NEW c \in Calls, CallOK(c), QuietStep(c)
  PROVE  ContractMove(c)
  <1>1. ASSUME NEW s \in Streams, OnReadable(c, s) \/ ReadChunk(c, s) \/ WouldBlock(c, s)
        PROVE  ContractMove(c)
    <2>1. UNCHANGED <<handle, answer, timedOut, child, ends>>
      BY <1>1 DEF OnReadable, ReadChunk, WouldBlock, handleVars, programVars
    <2>2. handle[c] = "live"
      BY <1>1, Places DEF OnReadable, ReadChunk, WouldBlock, CallOK, LifeOK, SubprocessOK, ProgramOK
    <2> QED BY <2>1, <2>2 DEF ContractMove, SamePhase, Phase, Over, AtEnd
  <1>2. CASE OnDeadline(c)
    <2>1. handle[c] = "live" /\ answer[c] = "none"
      BY <1>2, Places DEF OnDeadline, CallOK, LifeOK, SubprocessOK, ProgramOK
    <2>2. UNCHANGED <<handle, answer>> /\ timedOut'[c] = TRUE
      BY <1>2 DEF OnDeadline, SubprocessOK, TimersOK
    <2>3. Over(c) => Over(c)'
      BY <1>2 DEF OnDeadline, Die, Group, Over, AtEnd, SubprocessOK, ProgramOK
    <2>4. Phase(c) = "asked" /\ SamePhase(c)
      BY <2>1, <2>2 DEF Phase, SamePhase
    <2> QED BY <2>2, <2>3, <2>4 DEF ContractMove
  <1>3. CASE DoneReturns(c)
    <2>1. answer[c] # "none" /\ UNCHANGED <<answer, timedOut, child, ends>>
      BY <1>3 DEF DoneReturns, CallOK, LifeOK
    <2> QED BY <2>1 DEF ContractMove, SamePhase, Phase, Over, AtEnd
  <1> QED BY <1>1, <1>2, <1>3, Zenon DEF QuietStep

LEMMA ReapingMove ==
  ASSUME SubprocessOK, NEW c \in Calls, CallOK(c),
         (\E s \in Streams : ReadEnd(c, s)) \/ OnReapTimer(c)
  PROVE  ContractMove(c)
  <1>1. PICK open : TryReap(c, open)
    BY ReapingKeeps
  <1>2. /\ handle[c] = "live" /\ answer[c] = "none" /\ Phase(c) = "asked" /\ CallOK(c)'
        /\ UNCHANGED <<handle, timedOut>>
    BY ReapingKeeps DEF CallOK, LifeOK, Phase
  <1>3. UNCHANGED ends
    BY <1>1 DEF TryReap
  <1>4. CASE thread' = AtLoop /\ UNCHANGED <<child, status, answer>>
    BY <1>2, <1>3, <1>4 DEF ContractMove, SamePhase, Phase, Over, AtEnd
  <1>5. CASE /\ open = {} /\ child[c] # "running" /\ Reap(c) /\ thread' = InDone(c)
             /\ answer' = [answer EXCEPT ![c] = IF timedOut[c] THEN "late" ELSE WaitStatus(c)]
    <2>1. \A s \in Streams : AtEnd(c, s)
      BY <1>2, <1>3, <1>5 DEF CallOK, LifeOK, PipesOK, AtEnd
    <2>2. child[c] = "zombie" /\ child'[c] = "reaped"
      BY <1>2, <1>5, ReapingKeeps DEF CallOK, LifeOK, Reap, SubprocessOK, ProgramOK
    <2>3. Over(c) /\ Over(c)'
      BY <1>3, <2>1, <2>2 DEF Over, AtEnd
    <2>4. answer'[c] = IF timedOut[c] THEN "late" ELSE status[c]
      BY <1>5, <2>2 DEF WaitStatus, SubprocessOK, ProgramOK
    <2>5. status[c] \in {"success", "failure", "signalled"}
      BY <1>2, <2>2 DEF CallOK, LifeOK, SubprocessOK, ProgramOK
    <2>6. Phase(c)' = "answered"
      BY <2>4, <2>5 DEF Phase
    <2>7. Said(answer'[c]) = IF timedOut[c] THEN "late" ELSE "exit"
      BY <2>4, <2>5 DEF Said
    <2> QED BY <1>2, <2>3, <2>6, <2>7 DEF ContractMove, Said
  <1> QED BY <1>1, <1>4, <1>5, TryReapCases

LEMMA SpawnMove ==
  ASSUME SubprocessOK, NEW c \in Calls, CallOK(c), Spawn(c, TRUE)
  PROVE  ContractMove(c)
  BY DEF Spawn, CallOK, LifeOK, ContractMove, SamePhase, Phase, Over, SubprocessOK, ProgramOK

LEMMA SignalMove ==
  ASSUME SubprocessOK, NEW c \in Calls, CallOK(c), handle[c] = "live", Signal(c)
  PROVE  ContractMove(c)
  <1>1. PICK who \in SUBSET Group(c) : Die(c, who, "signalled")
    BY Zenon DEF Signal
  <1>2. UNCHANGED <<handle, answer, timedOut>>
    BY DEF Signal, handleVars
  <1>3. Over(c) => Over(c)'
    BY <1>1 DEF Die, Group, Over, AtEnd, SubprocessOK, ProgramOK
  <1>4. SamePhase(c) /\ Phase(c) # "unasked"
    BY <1>2 DEF SamePhase, Phase
  <1> QED BY <1>2, <1>3, <1>4 DEF ContractMove

LEMMA CancelMove ==
  ASSUME SubprocessOK, NEW c \in Calls, CallOK(c), handle[c] = "live", thread # InDone(c), Cancel(c)
  PROVE  ContractMove(c)
  <1>1. answer[c] = "none" /\ answer' = answer /\ timedOut' = timedOut /\ handle'[c] = "freed"
    BY DEF Cancel, Free, CallOK, LifeOK, SubprocessOK, ProgramOK
  <1>2. Over(c) => Over(c)'
    BY DEF Cancel, Reap, Over, AtEnd, SubprocessOK, ProgramOK
  <1>3. Phase(c) = "asked" /\ Phase(c)' = "withdrawn"
    BY <1>1 DEF Phase
  <1> QED BY <1>1, <1>2, <1>3 DEF ContractMove

LEMMA ContractStands ==
  ASSUME UNCHANGED subprocessVars
  PROVE  UNCHANGED Contract!contractVars
  BY DEF subprocessVars, handleVars, programVars, Contract!contractVars,
         Phase, Over, AtEnd, Said

LEMMA ContractStep ==
  ASSUME IInv, [Next]_vars
  PROVE  [Contract!ContractNext]_(Contract!contractVars)
  <1>0. TimersOK'
    BY NextKeeps DEF IInv, SubprocessOK
  <1>1. ASSUME NEW c \in Calls, VoiceStart(c)
        PROVE  [Contract!ContractNext]_(Contract!contractVars)
    <2>1. Spawn(c, TRUE)
      BY <1>1 DEF VoiceStart
    <2> QED BY <1>0, <2>1, SpawnKeeps, SpawnMove, MoveIsStep DEF IInv
  <1>2. ASSUME NEW c \in Calls, MayAnswer(c)
        PROVE  [Contract!ContractNext]_(Contract!contractVars)
    <2>1. (\E s \in Streams : ReadEnd(c, s)) \/ OnReapTimer(c)
      BY <1>2 DEF MayAnswer
    <2>2. ContractMove(c) /\ OnlyTouches(c)
      BY <2>1, ReapingKeeps, ReapingMove DEF IInv
    <2> QED BY <1>0, <2>2, MoveIsStep
  <1>3. ASSUME NEW c \in Calls, ProgramStep(c) \/ QuietStep(c)
        PROVE  [Contract!ContractNext]_(Contract!contractVars)
    <2>1. ContractMove(c) /\ OnlyTouches(c)
      BY <1>3, ProgramStepKeeps, QuietStepKeeps, ProgramMove, QuietMove DEF IInv
    <2> QED BY <1>0, <2>1, MoveIsStep
  <1>4. ASSUME NEW c \in Calls, c = proc, Signal(c)
        PROVE  [Contract!ContractNext]_(Contract!contractVars)
    <2>1. handle[c] = "live"
      BY <1>4, VoiceAssumption DEF IInv, ProcOK
    <2>2. ContractMove(c) /\ OnlyTouches(c)
      BY <1>4, <2>1, SignalKeeps, SignalMove DEF IInv
    <2> QED BY <1>0, <2>2, MoveIsStep
  <1>5. CASE VoiceStop
    BY <1>4, <1>5 DEF VoiceStop, IInv, VoiceOK
  <1>6. CASE VoiceCancel \/ Deactivate
    <2>1. InCommand /\ StopListening
      BY <1>6 DEF VoiceCancel, Deactivate
    <2>2. CASE proc = NoCall
      <3>1. UNCHANGED subprocessVars
        BY <2>1, <2>2, Zenon DEF StopListening
      <3> QED BY <3>1, ContractStands
    <2>3. CASE proc # NoCall
      <3>1. PICK c \in Calls : c = proc
        BY <2>3 DEF IInv, VoiceOK
      <3>2. Cancel(c)
        BY <2>1, <2>3, <3>1, Zenon DEF StopListening
      <3>3. handle[c] = "live" /\ thread # InDone(c)
        BY <2>3, <3>1 DEF IInv, ProcOK
      <3>4. ContractMove(c) /\ OnlyTouches(c)
        BY <2>1, <3>2, <3>3, CommandPlace, CancelKeeps, CancelMove DEF IInv
      <3> QED BY <1>0, <3>4, MoveIsStep
    <2> QED BY <2>2, <2>3
  <1>7. CASE OnVoiceTimer
    <2>1. UNCHANGED subprocessVars \/ \E c \in Calls : c = proc /\ Signal(c)
      <3>1. proc # NoCall => \E c \in Calls : c = proc
        BY DEF IInv, VoiceOK
      <3> QED BY <1>7, <3>1, Zenon DEF OnVoiceTimer
    <2> QED BY <1>4, <2>1, ContractStands
  <1>8. CASE Activate \/ UNCHANGED vars
    <2>1. UNCHANGED subprocessVars
      BY <1>8 DEF Activate, vars
    <2> QED BY <2>1, ContractStands
  <1> QED BY <1>1, <1>2, <1>3, <1>5, <1>6, <1>7, <1>8, Zenon DEF Next

\* Whoever asked gets one answer or takes the question back, and the answer is
\* given once the program is over and nobody can write to its output any more.
THEOREM ListenerKeepsContract == Spec => KeepsContract
  <1>1. Init => Contract!ContractInit
    BY DEF Init, SubprocessInit, Contract!ContractInit, Phase, Over, Said
  <1>2. IInv /\ [Next]_vars => [Contract!ContractNext]_(Contract!contractVars)
    BY ContractStep
  <1> QED BY <1>1, <1>2, Inductive, PTL DEF Spec, KeepsContract, Contract!ContractSpec

=============================================================================
