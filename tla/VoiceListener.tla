---------------------------- MODULE VoiceListener ----------------------------
(***************************************************************************)
(* The voice listener of modules/macro/gowl-module-macro.c, a user of      *)
(* Subprocess: a program listens until SIGINT, transcribes, and what it    *)
(* printed starts a macro.  The macro starts inside the callback, and may  *)
(* itself give voice commands there, before the old handle is freed.       *)
(***************************************************************************)
EXTENDS Subprocess

CONSTANT NoCall

ASSUME VoiceAssumption == NoCall \notin Calls

VARIABLES
  enabled,     \* the module is switched on
  proc,        \* self->voice_proc
  voiceTimer,  \* self->voice_timer is armed
  heard        \* what the last listening came to: voice_last, voice_error

voiceVars == <<enabled, proc, voiceTimer, heard>>
vars == <<subprocessVars, voiceVars>>

\* A command runs from the loop, or from the macro that was just started.
InCommand ==
  \/ thread = AtLoop
  \/ \E c \in Calls : thread = InDone(c) /\ heard = "words"

VoiceStart(c) ==
  /\ InCommand /\ enabled /\ proc = NoCall
  /\ Spawn(c, TRUE)
  /\ proc' = c /\ voiceTimer' = TRUE
  /\ UNCHANGED <<enabled, heard>>

VoiceStop ==
  /\ InCommand /\ enabled /\ proc # NoCall
  /\ voiceTimer' = FALSE
  /\ Signal(proc)
  /\ UNCHANGED <<enabled, proc, heard>>

\* voice_cancel(): the timer goes, and with it the listener if there is one.
StopListening ==
  /\ voiceTimer' = FALSE /\ proc' = NoCall
  /\ IF proc = NoCall THEN UNCHANGED subprocessVars ELSE Cancel(proc)

\* `macro-voice cancel'
VoiceCancel ==
  /\ InCommand /\ enabled /\ proc # NoCall
  /\ StopListening
  /\ UNCHANGED <<enabled, heard>>

\* The module is switched off, or the display it listens on goes.
Deactivate ==
  /\ InCommand /\ enabled
  /\ enabled' = FALSE
  /\ StopListening
  /\ UNCHANGED heard

Activate ==
  /\ thread = AtLoop /\ ~enabled
  /\ enabled' = TRUE
  /\ UNCHANGED <<subprocessVars, proc, voiceTimer, heard>>

OnVoiceTimer ==
  /\ thread = AtLoop /\ voiceTimer
  /\ voiceTimer' = FALSE
  /\ IF proc = NoCall THEN UNCHANGED subprocessVars ELSE Signal(proc)
  /\ UNCHANGED <<enabled, proc, heard>>

\* What the callback makes of an answer.
Outcome(a) ==
  CASE a = "late" -> "late" [] a = "success" -> "words" [] OTHER -> "failed"

\* on_voice_done(), up to the macro it starts.
OnVoiceDone(a) ==
  /\ proc' = NoCall /\ voiceTimer' = FALSE
  /\ heard' = Outcome(a)
  /\ UNCHANGED enabled

\* The two steps of the event loop that may answer.
MayAnswer(c) ==
  /\ (\E s \in Streams : ReadEnd(c, s)) \/ OnReapTimer(c)
  /\ IF thread' = InDone(c) THEN OnVoiceDone(answer'[c]) ELSE UNCHANGED voiceVars

Init ==
  /\ SubprocessInit
  /\ enabled = TRUE /\ proc = NoCall /\ voiceTimer = FALSE /\ heard = "nothing"

Next ==
  \/ \E c \in Calls : \/ VoiceStart(c)
                      \/ MayAnswer(c)
                      \/ (ProgramStep(c) \/ QuietStep(c)) /\ UNCHANGED voiceVars
  \/ VoiceStop \/ VoiceCancel \/ Deactivate \/ Activate \/ OnVoiceTimer

\* The thread runs on, and its loop gives every ready source its turn.  At most
\* one call has sources at a time, so a kind of source stands for its only one.
ThreadStep(c) ==
  \/ \E s \in Streams : (ReadChunk(c, s) \/ WouldBlock(c, s)) /\ UNCHANGED voiceVars
  \/ (\E s \in Streams : ReadEnd(c, s)) /\ MayAnswer(c)
  \/ DoneReturns(c) /\ UNCHANGED voiceVars

Fairness ==
  /\ WF_vars(\E c \in Calls : ThreadStep(c))
  /\ \A s \in Streams : SF_vars(\E c \in Calls : OnReadable(c, s) /\ UNCHANGED voiceVars)
  /\ SF_vars(\E c \in Calls : OnReapTimer(c) /\ MayAnswer(c))
  /\ SF_vars(\E c \in Calls : OnDeadline(c) /\ UNCHANGED voiceVars)

Spec == Init /\ [][Next]_vars /\ Fairness

(***************************************************************************)
(* Properties.                                                             *)
(***************************************************************************)

\* Every handle, timer, pipe and process is in a state of its own.
TypeOK ==
  /\ handle \in [Calls -> {"none", "live", "freed"}]
  /\ fds \in [Calls -> SUBSET Streams]
  /\ buf \in [Calls -> [Streams -> 0..MaxOutput]]
  /\ reapTimer \in [Calls -> BOOLEAN] /\ deadline \in [Calls -> BOOLEAN]
  /\ timedOut \in [Calls -> BOOLEAN]
  /\ answer \in [Calls -> {"none", "success", "failure", "signalled", "late", "lost"}]
  /\ \/ thread = AtLoop
     \/ \E c \in Calls : thread = InDone(c) \/ \E s \in Streams : thread = Reading(c, s)
  /\ child \in [Calls -> {"none", "running", "zombie", "reaped"}]
  /\ status \in [Calls -> {"none", "success", "failure", "signalled"}]
  /\ helper \in [Calls -> {"none", "group", "escaped"}]
  /\ ends \in [Calls -> [Streams -> SUBSET Writers]]
  /\ pipe \in [Calls -> [Streams -> 0..PipeSize]]
  /\ wrote \in [Calls -> [Streams -> 0..MaxWrites]]
  /\ enabled \in BOOLEAN /\ proc \in Calls \cup {NoCall} /\ voiceTimer \in BOOLEAN
  /\ heard \in {"nothing", "words", "late", "failed"}

\* What voice_proc names is a live handle whose child nobody has waited for:
\* stop, the timer and cancel touch no freed memory, and signal no process
\* group whose number may have gone to somebody else.  And a source that is still
\* registered has a live handle behind it.
HandleIsOwn ==
  /\ proc # NoCall => /\ handle[proc] = "live" /\ child[proc] \in {"running", "zombie"}
                      /\ thread # InDone(proc)
  /\ \A c \in Calls : fds[c] # {} \/ reapTimer[c] \/ deadline[c] => handle[c] = "live"

\* The answer carries all that was written, up to the limit: whatever order the
\* two ends, the exit, the kill and the reaping came in.
AnswerIsWhole ==
  \A c \in Calls : thread = InDone(c) =>
    \A s \in Streams : buf[c][s] = Least(wrote[c][s], MaxOutput)

\* A listening that is not cancelled is heard of again, unless a process that
\* left the group keeps the pipes.
ListeningEnds ==
  \A c \in Calls : handle[c] = "live" ~> handle[c] = "freed" \/ helper[c] = "escaped"

\* gowl-subprocess.h: -1 is "when the child was killed for running past its
\* deadline".
LateWasKilled ==
  [][\A c \in Calls : answer[c] # "late" /\ answer'[c] = "late" => status[c] = "signalled"]_vars

\* gowl-subprocess.h: the callback runs once the child ended by itself, "or
\* after the deadline, when the child is killed and the callback is told so".
DeadlineIsKept == \A c \in Calls : handle[c] = "live" ~> handle[c] = "freed"

\* The listener gives one answer, or is cancelled: AnswerContract.
Phase(c) ==
  CASE answer[c] # "none" -> "answered"
    [] answer[c] = "none" /\ handle[c] = "none" -> "unasked"
    [] answer[c] = "none" /\ handle[c] = "live" -> "asked"
    [] answer[c] = "none" /\ handle[c] = "freed" -> "withdrawn"

Over(c) == child[c] \in {"zombie", "reaped"} /\ \A s \in Streams : AtEnd(c, s)

Said(a) == CASE a = "none" -> "nothing" [] a = "late" -> "late" [] OTHER -> "exit"

Contract == INSTANCE AnswerContract WITH
  phase <- [c \in Calls |-> Phase(c)],
  over <- {c \in Calls : Over(c)},
  late <- {c \in Calls : timedOut[c]},
  said <- [c \in Calls |-> Said(answer[c])]

KeepsContract == Contract!ContractSpec

=============================================================================
