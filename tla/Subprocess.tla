------------------------------ MODULE Subprocess ------------------------------
(***************************************************************************)
(* Running a program and hearing back on the compositor's event loop:      *)
(* src/util/gowl-subprocess.c.                                             *)
(*                                                                         *)
(* The end of each pipe, the exit, the deadline and the reap timer come in *)
(* any order; the answer is given once both pipes ended and the child was  *)
(* reaped.  The program may leave a helper behind that holds the pipes: in *)
(* its process group, or escaped from it (setsid).  The compositor thread  *)
(* is at one of three places: its loop, the read loop of read_pipe(), or   *)
(* the caller's callback, whose handle is freed when it returns.           *)
(***************************************************************************)
EXTENDS Naturals, FiniteSets

CONSTANTS
  Calls,       \* the spawned programs, each used once
  PipeSize,    \* chunks a pipe holds
  MaxOutput,   \* GOWL_SUBPROCESS_MAX_OUTPUT, in chunks
  Talks,       \* bound: the pipes programs write to
  MaxWrites,   \* bound: chunks written to a pipe that are counted
  Chatty       \* programs may go on writing after that, without end

ASSUME SubprocessAssumption ==
  /\ PipeSize \in Nat \ {0}
  /\ Talks \subseteq {"out", "err"}
  /\ MaxOutput \in Nat /\ MaxWrites \in Nat
  /\ Chatty \in BOOLEAN
  /\ Chatty => MaxOutput <= MaxWrites

VARIABLES
  \* The GowlSubprocess.
  handle,      \* "none", "live" or "freed"
  fds,         \* the pipes still open here: out_fd, err_fd
  buf,         \* chunks collected from each
  reapTimer,   \* armed
  deadline,    \* armed
  timedOut,
  answer,      \* what the callback was told; "none" before
  thread,      \* where the compositor thread is
  \* The program.
  child,       \* "none", "running", "zombie" or "reaped"
  status,      \* how it ended, until somebody waits for it
  helper,      \* a background process of it: "none", "group" or "escaped"
  ends,        \* per pipe: who holds its write end
  pipe,        \* per pipe: chunks written and not read
  wrote        \* per pipe: chunks written so far

handleVars == <<handle, fds, buf, reapTimer, deadline, timedOut, answer>>
programVars == <<child, status, helper, ends, pipe, wrote>>
subprocessVars == <<handleVars, thread, programVars>>

Streams == {"out", "err"}
Writers == {"child", "helper"}

AtLoop == <<"loop">>
Reading(c, s) == <<"reading", c, s>>
InDone(c) == <<"done", c>>

Nothing == [s \in Streams |-> 0]

Least(a, b) == IF a < b THEN a ELSE b

(***************************************************************************)
(* The program, on its own.                                                *)
(***************************************************************************)

\* Nobody is left who could write to pipe s.
AtEnd(c, s) == ends[c][s] = {}

\* Who of the process group is alive: what a signal to -pid reaches.
Group(c) ==
  {w \in Writers : \/ w = "child" /\ child[c] = "running"
                   \/ w = "helper" /\ helper[c] = "group"}

\* Processes end; the child stays a zombie until it is waited for.
Die(c, who, how) ==
  /\ child' = [child EXCEPT ![c] = IF "child" \in who THEN "zombie" ELSE @]
  /\ status' = [status EXCEPT ![c] = IF "child" \in who THEN how ELSE @]
  /\ helper' = [helper EXCEPT ![c] = IF "helper" \in who THEN "none" ELSE @]
  /\ ends' = [ends EXCEPT ![c] = [s \in Streams |-> ends[c][s] \ who]]

Writes(c, s, w) ==
  /\ w \in ends[c][s] /\ s \in fds[c] \cap Talks
  /\ pipe[c][s] < PipeSize
  /\ Chatty \/ wrote[c][s] < MaxWrites
  /\ pipe' = [pipe EXCEPT ![c][s] = @ + 1]
  /\ wrote' = [wrote EXCEPT ![c][s] = Least(@ + 1, MaxWrites)]
  /\ UNCHANGED <<handleVars, thread, child, status, helper, ends>>

ClosesPipe(c, s, w) ==
  /\ w \in ends[c][s]
  /\ ends' = [ends EXCEPT ![c][s] = @ \ {w}]
  /\ UNCHANGED <<handleVars, thread, child, status, helper, pipe, wrote>>

\* The child leaves something running in the background, with some of its pipes.
LeavesHelper(c, where, held) ==
  /\ child[c] = "running" /\ helper[c] = "none"
  /\ \A s \in held : "child" \in ends[c][s]
  /\ helper' = [helper EXCEPT ![c] = where]
  /\ ends' = [ends EXCEPT ![c] =
       [s \in Streams |-> ends[c][s] \cup IF s \in held THEN {"helper"} ELSE {}]]
  /\ UNCHANGED <<handleVars, thread, child, status, pipe, wrote>>

ChildExits(c, how) ==
  /\ child[c] = "running"
  /\ Die(c, {"child"}, how)
  /\ UNCHANGED <<handleVars, thread, pipe, wrote>>

HelperExits(c) ==
  /\ helper[c] \in {"group", "escaped"}
  /\ Die(c, {"helper"}, "success")
  /\ UNCHANGED <<handleVars, thread, pipe, wrote>>

(***************************************************************************)
(* gowl_subprocess_spawn(), gowl_subprocess_signal(), and                  *)
(* gowl_subprocess_cancel().  They are called from the loop or from a      *)
(* callback, and leave the thread where it is.  A spawn that fails leaves  *)
(* nothing behind.                                                         *)
(***************************************************************************)

Spawn(c, timeout) ==
  /\ handle[c] = "none"
  /\ handle' = [handle EXCEPT ![c] = "live"]
  /\ fds' = [fds EXCEPT ![c] = Streams]
  /\ deadline' = [deadline EXCEPT ![c] = timeout]
  /\ child' = [child EXCEPT ![c] = "running"]
  /\ ends' = [ends EXCEPT ![c] = [s \in Streams |-> {"child"}]]
  /\ UNCHANGED <<buf, reapTimer, timedOut, answer, thread, status, helper, pipe, wrote>>

\* A signal the program may handle: any part of its group may die of it.
Signal(c) ==
  /\ \E who \in SUBSET Group(c) : Die(c, who, "signalled")
  /\ UNCHANGED <<handleVars, thread, pipe, wrote>>

\* MUTANT of Free: the deadline's source is left behind.
FreeLeavesDeadline(c) ==
  /\ handle' = [handle EXCEPT ![c] = "freed"]
  /\ fds' = [fds EXCEPT ![c] = {}]
  /\ reapTimer' = [reapTimer EXCEPT ![c] = FALSE]
  /\ buf' = [buf EXCEPT ![c] = Nothing]
  /\ pipe' = [pipe EXCEPT ![c] = Nothing]
  /\ wrote' = [wrote EXCEPT ![c] = Nothing]
  /\ UNCHANGED deadline

\* detach_all() and the end of the handle.  What its pipes held goes with it.
Free(c) ==
  /\ handle' = [handle EXCEPT ![c] = "freed"]
  /\ fds' = [fds EXCEPT ![c] = {}]
  /\ reapTimer' = [reapTimer EXCEPT ![c] = FALSE]
  /\ deadline' = [deadline EXCEPT ![c] = FALSE]
  /\ buf' = [buf EXCEPT ![c] = Nothing]
  /\ pipe' = [pipe EXCEPT ![c] = Nothing]
  /\ wrote' = [wrote EXCEPT ![c] = Nothing]

\* waitpid() takes the child and its status.
Reap(c) ==
  /\ child' = [child EXCEPT ![c] = "reaped"]
  /\ status' = [status EXCEPT ![c] = "none"]

\* Kills the group and waits for the child, on the compositor thread.
Cancel(c) ==
  /\ Free(c)
  /\ Reap(c)
  /\ helper' = [helper EXCEPT ![c] = IF @ = "group" THEN "none" ELSE @]
  /\ ends' = [ends EXCEPT ![c] = [s \in Streams |-> ends[c][s] \ (Group(c) \cup {"child"})]]
  /\ UNCHANGED <<timedOut, answer, thread>>

(***************************************************************************)
(* The event loop.                                                         *)
(***************************************************************************)

\* The pipe has something to read, or ended: on_out(), on_err().
OnReadable(c, s) ==
  /\ thread = AtLoop /\ s \in fds[c]
  /\ pipe[c][s] > 0 \/ AtEnd(c, s)
  /\ thread' = Reading(c, s)
  /\ UNCHANGED <<handleVars, programVars>>

\* Past MaxOutput a chunk is read and thrown away.
ReadChunk(c, s) ==
  /\ thread = Reading(c, s) /\ pipe[c][s] > 0
  /\ pipe' = [pipe EXCEPT ![c][s] = @ - 1]
  /\ buf' = [buf EXCEPT ![c][s] = Least(@ + 1, MaxOutput)]
  /\ UNCHANGED <<handle, fds, reapTimer, deadline, timedOut, answer, thread>>
  /\ UNCHANGED <<child, status, helper, ends, wrote>>

WouldBlock(c, s) ==
  /\ thread = Reading(c, s) /\ pipe[c][s] = 0 /\ ~AtEnd(c, s)
  /\ thread' = AtLoop
  /\ UNCHANGED <<handleVars, programVars>>

\* MUTANT of Answers: the exit is enough.
AnswersAtExit(c, open) == child[c] # "running"

\* waitpid() finds the child, once both pipes are closed.
Answers(c, open) == open = {} /\ child[c] # "running"

\* What it then says; a child somebody else reaped is a failure too.
WaitStatus(c) == IF child[c] = "zombie" THEN status[c] ELSE "lost"

\* MUTANT of TryReap: the reap timer is not armed.
TryReapOnce(c, open) ==
  /\ fds' = [fds EXCEPT ![c] = open]
  /\ IF Answers(c, open)
     THEN /\ Reap(c)
          /\ answer' = [answer EXCEPT ![c] = IF timedOut[c] THEN "late" ELSE WaitStatus(c)]
          /\ thread' = InDone(c)
     ELSE /\ thread' = AtLoop
          /\ UNCHANGED <<child, status, answer>>
  /\ reapTimer' = [reapTimer EXCEPT ![c] = FALSE]
  /\ UNCHANGED <<handle, buf, deadline, timedOut, helper, ends, pipe, wrote>>

\* try_reap(), with the pipes in `open` still open: the callback is called,
\* or the reap timer armed to look again.
TryReap(c, open) ==
  /\ fds' = [fds EXCEPT ![c] = open]
  /\ IF Answers(c, open)
     THEN /\ Reap(c)
          /\ answer' = [answer EXCEPT ![c] = IF timedOut[c] THEN "late" ELSE WaitStatus(c)]
          /\ thread' = InDone(c)
     ELSE /\ thread' = AtLoop
          /\ UNCHANGED <<child, status, answer>>
  /\ reapTimer' = [reapTimer EXCEPT ![c] = open = {} /\ ~Answers(c, open)]
  /\ UNCHANGED <<handle, buf, deadline, timedOut, helper, ends, pipe, wrote>>

\* MUTANT of ReadEnd: a hangup closes the pipe with what is still in it.
ReadEndAtHangup(c, s) ==
  /\ thread = Reading(c, s) /\ AtEnd(c, s)
  /\ TryReap(c, fds[c] \ {s})

\* The end of the pipe: close_pipe() and try_reap().
ReadEnd(c, s) ==
  /\ thread = Reading(c, s) /\ pipe[c][s] = 0 /\ AtEnd(c, s)
  /\ TryReap(c, fds[c] \ {s})

OnReapTimer(c) ==
  /\ thread = AtLoop /\ reapTimer[c]
  /\ TryReap(c, fds[c])

OnDeadline(c) ==
  /\ thread = AtLoop /\ deadline[c]
  /\ deadline' = [deadline EXCEPT ![c] = FALSE]
  /\ timedOut' = [timedOut EXCEPT ![c] = TRUE]
  /\ Die(c, Group(c), "signalled")
  /\ UNCHANGED <<handle, fds, buf, reapTimer, answer, thread, pipe, wrote>>

\* The callback returns: subprocess_free().
DoneReturns(c) ==
  /\ thread = InDone(c)
  /\ thread' = AtLoop
  /\ Free(c)
  /\ UNCHANGED <<timedOut, answer, child, status, helper, ends>>

SubprocessInit ==
  /\ handle = [c \in Calls |-> "none"]
  /\ fds = [c \in Calls |-> {}]
  /\ buf = [c \in Calls |-> Nothing]
  /\ reapTimer = [c \in Calls |-> FALSE]
  /\ deadline = [c \in Calls |-> FALSE]
  /\ timedOut = [c \in Calls |-> FALSE]
  /\ answer = [c \in Calls |-> "none"]
  /\ thread = AtLoop
  /\ child = [c \in Calls |-> "none"]
  /\ status = [c \in Calls |-> "none"]
  /\ helper = [c \in Calls |-> "none"]
  /\ ends = [c \in Calls |-> [s \in Streams |-> {}]]
  /\ pipe = [c \in Calls |-> Nothing]
  /\ wrote = [c \in Calls |-> Nothing]

\* What the program does by itself; once its handle is gone nobody hears of it.
ProgramStep(c) ==
  /\ handle[c] = "live"
  /\ \/ \E s \in Streams, w \in Writers : Writes(c, s, w) \/ ClosesPipe(c, s, w)
     \/ \E where \in {"group", "escaped"}, held \in SUBSET Streams : LeavesHelper(c, where, held)
     \/ \E how \in {"success", "failure"} : ChildExits(c, how)
     \/ HelperExits(c)

\* What the event loop does without calling back.
QuietStep(c) ==
  \/ \E s \in Streams : OnReadable(c, s) \/ ReadChunk(c, s) \/ WouldBlock(c, s)
  \/ OnDeadline(c)
  \/ DoneReturns(c)

=============================================================================
