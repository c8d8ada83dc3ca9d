-------------------------- MODULE HotkeyRunner_proofs --------------------------
(***************************************************************************)
(* The lists that HotkeyRunner.tla runs, whatever the hotkeys, keys, macros *)
(* and modes, and however many lists.                                      *)
(***************************************************************************)
EXTENDS HotkeyRunner, Integers, FiniteSetTheorems, SequenceTheorems, TLAPS

\* What lists do once they waited for an input hook or a build, and what the lists
\* of modes do, such that none runs into the known faults of a wait: a list that
\* carries on inside another's `input', or inside the loop of c_built(), does not
\* end, start or wake others there; and no mode's list waits for a macro, whose end
\* the module does not hear while it is switched off.
Tame ==
  /\ After["input"] \cap {"input", "input-stop", "cancel", "mode", "macro-stop"} = {}
  /\ After["c"] \cap {"input", "input-stop", "mode", "macro-stop"} = {}
  /\ "macro" \notin HookActs

(***************************************************************************)
(* The inductive invariant.                                                *)
(***************************************************************************)

AllModes == Modes \cup {Default}
Frames ==
  [at : {"step", "acted", "input"}, runner : Nat]
    \cup [at : {"fires", "plays", "posts", "entered"}]
    \cup [at : {"oneshot", "enter"}, mode : AllModes, freed : BOOLEAN]
    \cup [at : {"exit"}, mode : AllModes]
    \cup [at : {"built"}, key : Keys, i : Nat \ {0}]
    \cup [at : {"built next"}, key : Keys, i : Nat \ {0}, before : Nat]
    \cup [at : {"told"}, macro : Macros]

Lists == [id : Ids \cup {NoId}, left : 0..(ListLen + HookLen), may : SUBSET Kinds, redo : Keys \cup {NoKey},
          waiting : BOOLEAN, slot : SUBSET {"timer", "proc", "c"}, macro : Macros \cup {NoMacro}]

\* Types of what the lists are, and of what they wait for.
DataOK ==
  /\ stack \in Seq(Frames)
  /\ started \in 0..MaxStarts /\ runners \in Seq(1..started)
  /\ run \in [Serials -> Lists] /\ running \in [Ids -> Int]
  /\ fires \in Seq(Ids) /\ fireIdle \in BOOLEAN
  /\ plays \in Seq([runner : Nat, delays : 0..1])
  /\ playing \in BOOLEAN /\ playTimer \in BOOLEAN
  /\ input \in [active : BOOLEAN, runner : Nat, timer : BOOLEAN]
  /\ macros \in [Macros -> {"off", "on", "over"}]
  /\ building \subseteq Keys /\ faulted \subseteq Keys
  /\ compiler \in [Keys -> Builds \cup {NoBuild}]
  /\ posted \in Seq([key : Keys, build : Builds \cup {NoBuild}])
  /\ funcs \in [Keys -> Builds \cup {NoBuild}]
  /\ keyMode \in AllModes /\ mode \in AllModes
  /\ modeTimer \in BOOLEAN /\ enabled \in BOOLEAN

Running(r) == \E j \in 1..Len(runners) : runners[j] = r

\* A list that ended is forgotten, and one has one place in the table.
ListsOK ==
  /\ \A i, j \in 1..Len(runners) : runners[i] = runners[j] => i = j
  /\ \A r \in Serials : ~Running(r) => run[r] = Gone
  /\ \A r \in Serials : run[r].redo # NoKey => run[r].left > 0

\* A build that is under way, once for each key.
Posted(k) == \E p \in 1..Len(posted) : posted[p].key = k
BuildsOK ==
  /\ \A p, q \in 1..Len(posted) : posted[p].key = posted[q].key => p = q
  /\ \A k \in Keys : k \in building <=> compiler[k] # NoBuild \/ Posted(k)
  /\ \A k \in Keys : Posted(k) => compiler[k] = NoBuild

OfList == {"step", "acted", "input"}
Top == stack[Len(stack)]

\* Some frames are found at certain places only: what a frame has above it.
Shaped(s) ==
  \A f \in 1..Len(s) : f # Len(s) =>
    /\ s[f].at \notin {"step", "built"}
    /\ s[f].at \in {"input", "built next"} => f = Len(s) - 1 /\ s[Len(s)].at \in {"step", "acted"}

\* A list that runs has one frame, and a macro one that tells of its end.
ListsOnce ==
  \A f, g \in 1..Len(stack) :
    /\ stack[f].at \in OfList /\ stack[g].at \in OfList
    /\ stack[f].runner = stack[g].runner /\ Running(stack[f].runner)
    => f = g
ToldsOnce ==
  \A f, g \in 1..Len(stack) :
    stack[f].at = "told" /\ stack[g].at = "told" /\ stack[f].macro = stack[g].macro => f = g

FrameOK(f) ==
  /\ f.at \in OfList => f.runner <= started
  /\ f.at = "step" => Running(f.runner)
  /\ f.at = "input" => f.runner = NoRunner \/ Running(f.runner)
  /\ f.at = "told" => macros[f.macro] = "over"
FramesOK == \A f \in 1..Len(stack) : FrameOK(stack[f])

StackOK == Shaped(stack) /\ ListsOnce /\ ToldsOnce /\ FramesOK

\* What a list may do that waits for an input hook, or runs in the middle of another's
\* `input', or of c_built().
HookReady(l) == l.may \subseteq After["input"] /\ l.waiting
InputsOK ==
  \A f \in 1..Len(stack) : stack[f].at = "input" =>
    /\ input.runner = NoRunner
    /\ stack[f].runner # NoRunner => HookReady(run[stack[f].runner])
    /\ f # Len(stack) => Top.at = "step" /\ run[Top.runner].may \subseteq After["input"]

InLoop(f, r) ==
  IF Running(r)
  THEN /\ Len(runners) = f.before /\ f.i <= Len(runners) /\ runners[f.i] = r
       /\ run[r].redo # NoKey \/ run[r].may \subseteq After["c"]
  ELSE runners = <<>>
LoopsOK ==
  \A f \in 1..Len(stack) :
    stack[f].at = "built next" /\ f # Len(stack) => InLoop(stack[f], Top.runner)

\* Who points at a list points at one that runs; and a list is waited for once.
HookOK ==
  input.runner # NoRunner =>
    Running(input.runner) /\ input.active /\ run[input.runner].may \subseteq After["input"]
TypingOK ==
  /\ \A p \in 1..Len(plays) : plays[p].runner # NoRunner => Running(plays[p].runner)
  /\ \A p, q \in 1..Len(plays) :
       plays[p].runner = plays[q].runner /\ plays[p].runner # NoRunner => p = q
MacrosOK ==
  /\ \A r \in Serials : run[r].macro # NoMacro => macros[run[r].macro] = "on"
  /\ \A r, s \in Serials : run[r].macro = run[s].macro /\ run[r].macro # NoMacro => r = s
PointersOK == HookOK /\ TypingOK /\ MacrosOK

\* A list that the thread is in the middle of waits for nothing; any other for one thing.
OnS(r) == \E f \in 1..Len(stack) : stack[f].at \in OfList /\ stack[f].runner = r
Typed(r) == \E p \in 1..Len(plays) : plays[p].runner = r
Rests(l, on, hooked, typed) ==
  IF on THEN l.slot = {} /\ l.macro = NoMacro /\ ~hooked /\ ~typed
  ELSE /\ l.waiting
       /\ \/ /\ l.slot \in {{"timer"}, {"proc"}, {"c"}}
             /\ l.macro = NoMacro /\ ~hooked /\ ~typed
          \/ l.slot = {} /\ l.macro # NoMacro /\ ~hooked /\ ~typed
          \/ l.slot = {} /\ l.macro = NoMacro /\ hooked /\ ~typed
          \/ l.slot = {} /\ l.macro = NoMacro /\ ~hooked /\ typed
RestsNow(r) == Rests(run[r], OnS(r), input.runner = r, Typed(r))
RestsOK == \A r \in Serials : Running(r) => RestsNow(r)

\* A list that waits for a build: it is under way, or the loop of c_built() is yet to
\* come to the list.
ComesTo(f, length, j) ==
  \/ f.at = "built" /\ f.i <= j
  \/ f.at = "built next" /\ IF length < f.before THEN f.i <= j ELSE f.i < j
Reached(f, j) == ComesTo(stack[f], Len(runners), j)
Comes(j) ==
  LET k == run[runners[j]].redo IN
  \/ k \in building
  \/ \E f \in 1..Len(stack) :
       stack[f].at \in {"built", "built next"} /\ stack[f].key = k /\ Reached(f, j)
WaitsForBuild(r) == "c" \in run[r].slot
BuiltsOK ==
  \A j \in 1..Len(runners) : WaitsForBuild(runners[j]) =>
    run[runners[j]].redo \in Keys /\ Comes(j)

QueuesOK ==
  /\ fires # <<>> => fireIdle \/ \E f \in 1..Len(stack) : stack[f] = FireLoop
  /\ plays # <<>> => playing
  /\ playing => playTimer \/ \E f \in 1..Len(stack) : stack[f] = PlayLoop

\* While the module is switched off only lists of modes run.
OffOK ==
  ~enabled => fires = <<>> /\ \A r \in Serials :
    "macro" \notin run[r].may /\ run[r].macro = NoMacro

IInv ==
  /\ DataOK /\ ListsOK /\ CountsAgree /\ BuildsOK /\ StackOK /\ InputsOK /\ LoopsOK
  /\ PointersOK /\ RestsOK /\ BuiltsOK /\ QueuesOK /\ OffOK

-----------------------------------------------------------------------------
(* Sequences.                                                              *)

LEMMA CutFacts ==
  ASSUME NEW S, NEW s \in Seq(S), NEW m \in Nat, NEW n \in Nat, 1 <= m, m <= n + 1, n <= Len(s)
  PROVE  /\ SubSeq(s, m, n) \in Seq(S) /\ Len(SubSeq(s, m, n)) = n + 1 - m
         /\ \A f \in 1..(n + 1 - m) : SubSeq(s, m, n)[f] = s[m + f - 1]
  <1>1. Len(s) \in Nat /\ m \in Int /\ n \in Int /\ \A f \in m..n : s[f] \in S
    OBVIOUS
  <1>2. /\ SubSeq(s, m, n) \in Seq(S)
        /\ Len(SubSeq(s, m, n)) = IF m <= n THEN n - m + 1 ELSE 0
        /\ \A f \in 1..(n - m + 1) : SubSeq(s, m, n)[f] = s[m + f - 1]
    BY <1>1, SubSeqProperties
  <1>3. n - m + 1 = n + 1 - m /\ (~(m <= n) => n + 1 - m = 0)
    OBVIOUS
  <1> QED BY <1>2, <1>3

LEMMA FrontFacts ==
  ASSUME NEW S, NEW s \in Seq(S), s # <<>>
  PROVE  /\ Front(s) \in Seq(S) /\ Len(Front(s)) = Len(s) - 1 /\ Len(s) \in Nat \ {0}
         /\ \A f \in 1..(Len(s) - 1) : Front(s)[f] = s[f]
         /\ Last(s) = s[Len(s)]
  <1>1. Len(s) \in Nat \ {0}
    OBVIOUS
  <1> DEFINE n == Len(s) - 1
  <1>2. n \in Nat /\ 1 <= n + 1 /\ n <= Len(s)
    BY <1>1
  <1> HIDE DEF n
  <1>3. /\ SubSeq(s, 1, n) \in Seq(S) /\ Len(SubSeq(s, 1, n)) = n + 1 - 1
        /\ \A f \in 1..(n + 1 - 1) : SubSeq(s, 1, n)[f] = s[1 + f - 1]
    BY <1>2, CutFacts
  <1>4. n + 1 - 1 = n /\ \A f \in 1..n : 1 + f - 1 = f
    BY <1>2
  <1>5. Front(s) = SubSeq(s, 1, n) /\ Len(s) - 1 = n /\ Last(s) = s[Len(s)]
    BY DEF Front, n, Last
  <1> QED BY <1>1, <1>3, <1>4, <1>5

LEMMA AppendFacts ==
  ASSUME NEW S, NEW s \in Seq(S), NEW m \in S
  PROVE  /\ Append(s, m) \in Seq(S) /\ Len(Append(s, m)) = Len(s) + 1
         /\ Append(s, m)[Len(s) + 1] = m
         /\ \A f \in 1..Len(s) : Append(s, m)[f] = s[f]
  OBVIOUS

LEMMA TailFacts ==
  ASSUME NEW S, NEW s \in Seq(S), s # <<>>
  PROVE  /\ Tail(s) \in Seq(S) /\ Len(s) \in Nat \ {0} /\ Len(Tail(s)) = Len(s) - 1
         /\ \A f \in 1..(Len(s) - 1) : Tail(s)[f] = s[f + 1]
         /\ Head(s) = s[1] /\ s[1] \in S
  OBVIOUS

LEMMA RemoveFacts ==
  ASSUME NEW S, NEW s \in Seq(S), NEW i \in 1..Len(s)
  PROVE  /\ RemoveAt(s, i) \in Seq(S) /\ Len(RemoveAt(s, i)) = Len(s) - 1
         /\ \A j \in 1..(Len(s) - 1) : RemoveAt(s, i)[j] = IF j < i THEN s[j] ELSE s[j + 1]
  <1> DEFINE a == SubSeq(s, 1, i - 1)
             b == SubSeq(s, i + 1, Len(s))
  <1>1. Len(s) \in Nat /\ i \in Nat /\ i - 1 \in Nat /\ i + 1 \in Nat /\ i <= Len(s)
    OBVIOUS
  <1>2. /\ a \in Seq(S) /\ Len(a) = i - 1 + 1 - 1
        /\ \A j \in 1..(i - 1 + 1 - 1) : a[j] = s[1 + j - 1]
    <2>1. 1 <= i - 1 + 1 /\ i - 1 <= Len(s)
      BY <1>1
    <2> QED BY <1>1, <2>1, CutFacts
  <1>3. /\ b \in Seq(S) /\ Len(b) = Len(s) + 1 - (i + 1)
        /\ \A j \in 1..(Len(s) + 1 - (i + 1)) : b[j] = s[i + 1 + j - 1]
    <2>1. 1 <= i + 1 /\ i + 1 <= Len(s) + 1 /\ Len(s) <= Len(s)
      BY <1>1
    <2> QED BY <1>1, <2>1, CutFacts
  <1>4. RemoveAt(s, i) = a \o b
    BY DEF RemoveAt
  <1> HIDE DEF a, b
  <1>5. Len(a) = i - 1 /\ \A j \in 1..(i - 1) : a[j] = s[j]
    BY <1>1, <1>2
  <1>6. Len(b) = Len(s) - i /\ \A j \in 1..(Len(s) - i) : b[j] = s[j + i]
    BY <1>1, <1>3
  <1>7. /\ a \o b \in Seq(S) /\ Len(a \o b) = Len(a) + Len(b)
        /\ \A f \in 1..(Len(a) + Len(b)) : (a \o b)[f] = IF f <= Len(a) THEN a[f] ELSE b[f - Len(a)]
    BY <1>2, <1>3, ConcatProperties
  <1>8. Len(a) + Len(b) = Len(s) - 1
    BY <1>1, <1>5, <1>6
  <1>9. ASSUME NEW j \in 1..(Len(s) - 1) PROVE (a \o b)[j] = IF j < i THEN s[j] ELSE s[j + 1]
    <2>1. (a \o b)[j] = IF j <= i - 1 THEN a[j] ELSE b[j - (i - 1)]
      BY <1>5, <1>7, <1>8
    <2>2. CASE j < i
      BY <1>1, <1>5, <2>1, <2>2
    <2>3. CASE ~(j < i)
      <3>1. j - (i - 1) \in 1..(Len(s) - i) /\ ~(j <= i - 1) /\ j - (i - 1) + i = j + 1
        BY <1>1, <2>3
      <3>2. b[j - (i - 1)] = s[j - (i - 1) + i]
        BY <1>6, <3>1
      <3> QED BY <2>1, <2>3, <3>1, <3>2
    <2> QED BY <2>2, <2>3
  <1> QED BY <1>4, <1>7, <1>8, <1>9

LEMMA OneMore == \A n \in Nat : n <= n + 1 /\ ~(n + 1 <= n) /\ n + 1 # 0 /\ n + 1 <= n + 1
  OBVIOUS
LEMMA LastPlace ==
  ASSUME NEW S, NEW s \in Seq(S) PROVE Len(s) \in Nat /\ (Len(s) > 0 => Len(s) \in 1..Len(s))
  OBVIOUS
LEMMA NoPlaces == \A j \in 1..0 : FALSE
  OBVIOUS

LEMMA NotLess == \A i \in Nat : i <= i
  OBVIOUS

LEMMA OneFrame == \A f \in Frames : <<f>> \in Seq(Frames) /\ Len(<<f>>) = 1 /\ <<f>>[1] = f
  OBVIOUS
LEMMA TwoFrames ==
  \A f, g \in Frames : <<f, g>> \in Seq(Frames) /\ Len(<<f, g>>) = 2 /\ <<f, g>>[1] = f /\ <<f, g>>[2] = g
  OBVIOUS

LEMMA FramesAre ==
  /\ \A r \in Nat :
       /\ Step(r) \in Frames /\ Step(r).at = "step" /\ Step(r).runner = r
       /\ Acted(r) \in Frames /\ Acted(r).at = "acted" /\ Acted(r).runner = r
       /\ StartsInput(r) \in Frames /\ StartsInput(r).at = "input" /\ StartsInput(r).runner = r
  /\ FireLoop \in Frames /\ FireLoop.at = "fires"
  /\ PlayLoop \in Frames /\ PlayLoop.at = "plays"
  /\ PostLoop \in Frames /\ PostLoop.at = "posts"
  /\ ModeEntered \in Frames /\ ModeEntered.at = "entered"
  /\ \A m \in AllModes :
       /\ OneShot(m) \in Frames /\ OneShot(m).at = "oneshot"
       /\ ModeEnter(m) \in Frames /\ ModeEnter(m).at = "enter"
       /\ [at |-> "exit", mode |-> m] \in Frames /\ [at |-> "exit", mode |-> m].at = "exit"
  /\ \A m \in Macros :
       MacroTold(m) \in Frames /\ MacroTold(m).at = "told" /\ MacroTold(m).macro = m
  /\ \A k \in Keys, i \in Nat \ {0} :
       /\ Built(k, i) \in Frames /\ Built(k, i).at = "built"
       /\ Built(k, i).key = k /\ Built(k, i).i = i
       /\ \A n \in Nat :
            /\ BuiltNext(k, i, n) \in Frames /\ BuiltNext(k, i, n).at = "built next"
            /\ BuiltNext(k, i, n).key = k /\ BuiltNext(k, i, n).i = i
            /\ BuiltNext(k, i, n).before = n
  BY DEF Frames, Step, Acted, StartsInput, FireLoop, PlayLoop, PostLoop, ModeEntered, OneShot,
         ModeEnter, MacroTold, Built, BuiltNext

LEMMA FramesHave ==
  \A f \in Frames :
    /\ f.at \in OfList => f.runner \in Nat
    /\ f.at = "told" => f.macro \in Macros
    /\ f.at \in {"built", "built next"} => f.key \in Keys /\ f.i \in Nat \ {0}
    /\ f.at = "built next" => f.before \in Nat
    /\ f.at \in {"oneshot", "enter", "exit"} => f.mode \in AllModes
  BY DEF Frames, OfList

\* A frame, but for what hk_reload() or a change of mode freed.
Alike(a, b) == a.at = b.at /\ (a.at \notin {"enter", "oneshot"} => a = b)
Kept(s, t, n) ==
  /\ n \in Nat /\ n <= Len(s) /\ n <= Len(t)
  /\ \A f \in 1..n : Alike(t[f], s[f])

LEMMA FreedFacts ==
  ASSUME NEW s \in Seq(Frames), NEW place \in {"enter", "oneshot"}
  PROVE  /\ Freed(s, place) \in Seq(Frames) /\ Len(Freed(s, place)) = Len(s)
         /\ \A f \in 1..Len(s) : Alike(Freed(s, place)[f], s[f])
  <1> DEFINE t == Freed(s, place)
  <1>1. Len(s) \in Nat /\ DOMAIN s = 1..Len(s) /\ \A f \in 1..Len(s) : s[f] \in Frames
    OBVIOUS
  <1>2. \A f \in Frames : f.at = place => [f EXCEPT !.freed = TRUE] \in Frames
                                         /\ [f EXCEPT !.freed = TRUE].at = place
    BY DEF Frames
  <1>3. t = [f \in 1..Len(s) |-> IF s[f].at = place THEN [s[f] EXCEPT !.freed = TRUE] ELSE s[f]]
    BY <1>1 DEF Freed
  <1>4. \A f \in 1..Len(s) : t[f] \in Frames /\ Alike(t[f], s[f])
    BY <1>1, <1>2, <1>3 DEF Alike
  <1>5. t \in Seq(Frames) /\ Len(t) = Len(s)
    BY <1>1, <1>3, <1>4
  <1> QED BY <1>4, <1>5

-----------------------------------------------------------------------------
(* How a step changes the stack: n frames are kept, and t is on top.       *)

Piled(n, t) ==
  /\ stack' \in Seq(Frames) /\ Kept(stack, stack', n)
  /\ Len(stack') = n + Len(t)
  /\ \A j \in 1..Len(t) : stack'[n + j] = t[j]

LEMMA Join ==
  ASSUME NEW s \in Seq(Frames), NEW t \in Seq(Frames), Kept(stack, s, Len(s)), stack' = s \o t
  PROVE  Piled(Len(s), t)
  <1>1. /\ s \o t \in Seq(Frames) /\ Len(s \o t) = Len(s) + Len(t)
        /\ \A f \in 1..(Len(s) + Len(t)) : (s \o t)[f] = IF f <= Len(s) THEN s[f] ELSE t[f - Len(s)]
    BY ConcatProperties
  <1>2. Len(s) \in Nat /\ Len(t) \in Nat
    OBVIOUS
  <1>3. \A f \in 1..Len(s) : f \in 1..(Len(s) + Len(t)) /\ f <= Len(s)
    BY <1>2
  <1>4. \A f \in 1..Len(s) : stack'[f] = s[f]
    BY <1>1, <1>3
  <1>5. ASSUME NEW j \in 1..Len(t) PROVE stack'[Len(s) + j] = t[j]
    <2>1. /\ Len(s) + j \in 1..(Len(s) + Len(t)) /\ ~(Len(s) + j <= Len(s))
          /\ Len(s) + j - Len(s) = j
      BY <1>2
    <2> QED BY <1>1, <2>1
  <1>6. Kept(stack, stack', Len(s))
    <2>1. Len(s) <= Len(s) + Len(t)
      BY <1>2
    <2> QED BY <1>1, <1>2, <1>4, <2>1 DEF Kept, Alike
  <1> QED BY <1>1, <1>5, <1>6 DEF Piled

LEMMA KeptSelf == ASSUME NEW s \in Seq(Frames) PROVE Kept(s, s, Len(s))
  <1>1. Len(s) \in Nat
    OBVIOUS
  <1> QED BY <1>1 DEF Kept, Alike

LEMMA KeptFront ==
  ASSUME NEW s \in Seq(Frames), s # <<>>
  PROVE  /\ Front(s) \in Seq(Frames) /\ Kept(s, Front(s), Len(Front(s)))
         /\ Len(Front(s)) = Len(s) - 1 /\ Len(s) \in Nat \ {0} /\ Last(s) = s[Len(s)]
  <1>1. /\ Front(s) \in Seq(Frames) /\ Len(Front(s)) = Len(s) - 1 /\ Len(s) \in Nat \ {0}
        /\ \A f \in 1..(Len(s) - 1) : Front(s)[f] = s[f]
        /\ Last(s) = s[Len(s)]
    BY FrontFacts
  <1> QED BY <1>1 DEF Kept, Alike

\* Becomes(t)
LEMMA Popped ==
  ASSUME DataOK, stack # <<>>, NEW t \in Seq(Frames), stack' = Becomes(t)
  PROVE  Piled(Len(stack) - 1, t) /\ Len(stack) \in Nat \ {0} /\ Last(stack) = Top
  <1>1. stack \in Seq(Frames)
    BY DEF DataOK
  <1>2. /\ Front(stack) \in Seq(Frames) /\ Kept(stack, Front(stack), Len(Front(stack)))
        /\ Len(Front(stack)) = Len(stack) - 1 /\ Len(stack) \in Nat \ {0}
        /\ Last(stack) = stack[Len(stack)]
    BY <1>1, KeptFront
  <1>3. Piled(Len(Front(stack)), t)
    BY <1>2, Join DEF Becomes
  <1> QED BY <1>2, <1>3 DEF Top

\* Frames on top of the stack as it is.
LEMMA Raised ==
  ASSUME DataOK, NEW t \in Seq(Frames), stack' = stack \o t
  PROVE  Piled(Len(stack), t)
  <1>1. stack \in Seq(Frames)
    BY DEF DataOK
  <1> QED BY <1>1, KeptSelf, Join

LEMMA Stays ==
  ASSUME DataOK, stack' = stack
  PROVE  Piled(Len(stack), <<>>)
  <1>1. stack \in Seq(Frames) /\ Len(<<>>) = 0 /\ Len(stack) \in Nat
    BY DEF DataOK
  <1>2. Kept(stack, stack, Len(stack))
    BY <1>1, KeptSelf
  <1>3. \A j \in 1..0 : stack[Len(stack) + j] = <<>>[j]
    OBVIOUS
  <1>4. Len(stack) = Len(stack) + 0
    BY <1>1
  <1> QED BY <1>1, <1>2, <1>3, <1>4 DEF Piled

\* A stack of its own, from the event loop.
LEMMA FromLoop ==
  ASSUME DataOK, stack = <<>>, NEW t \in Seq(Frames), stack' = t
  PROVE  Piled(0, t)
  <1>1. Len(stack) = 0 /\ Len(t) \in Nat
    OBVIOUS
  <1>2. Kept(stack, stack', 0)
    BY <1>1 DEF Kept
  <1>3. Len(t) = 0 + Len(t) /\ \A j \in 1..Len(t) : stack'[0 + j] = t[j]
    BY <1>1
  <1> QED BY <1>2, <1>3 DEF Piled

\* Frames that are found at certain places only.
Special == {"step", "built", "input", "built next"}
OnBelow(n, r) == \E f \in 1..n : stack[f].at \in OfList /\ stack[f].runner = r
Ordinary(n) == \A f \in 1..n : stack[f].at \notin Special

LEMMA StackFacts ==
  ASSUME DataOK
  PROVE  /\ Len(stack) \in Nat /\ \A f \in 1..Len(stack) : stack[f] \in Frames
         /\ (stack = <<>> <=> Len(stack) = 0)
  BY DEF DataOK

LEMMA RunnersAreStarted ==
  ASSUME DataOK
  PROVE  /\ started \in Nat /\ started <= MaxStarts /\ Len(runners) \in Nat
         /\ \A j \in 1..Len(runners) : runners[j] \in Serials /\ runners[j] <= started
         /\ \A r : Running(r) => r \in Serials /\ r \in Nat \ {0} /\ r <= started
  <1>1. started \in 0..MaxStarts /\ MaxStarts \in Nat /\ runners \in Seq(1..started)
    BY HotkeyAssumption DEF DataOK, HotkeyAssumption
  <1>2. Len(runners) \in Nat /\ \A j \in 1..Len(runners) : runners[j] \in 1..started
    BY <1>1
  <1> QED BY <1>1, <1>2 DEF Running, Serials

LEMMA NoSpecialBelow ==
  ASSUME DataOK, StackOK, stack = <<>> \/ Top.at \notin {"step", "acted"}
  PROVE  Ordinary(Len(stack) - 1)
  <1> SUFFICES ASSUME NEW f \in 1..(Len(stack) - 1) PROVE stack[f].at \notin Special
    BY DEF Ordinary
  <1>1. Len(stack) \in Nat /\ f \in 1..Len(stack) /\ f # Len(stack) /\ stack # <<>>
    BY StackFacts
  <1>2. /\ stack[f].at \notin {"step", "built"}
        /\ stack[f].at \in {"input", "built next"} => stack[Len(stack)].at \in {"step", "acted"}
    BY <1>1 DEF StackOK, Shaped
  <1> QED BY <1>1, <1>2 DEF Special, Top

LEMMA ListsBelow ==
  ASSUME DataOK, StackOK, stack # <<>>
  PROVE  /\ Top.at \notin OfList => \A r : OnBelow(Len(stack) - 1, r) <=> OnS(r)
         /\ Top.at \in OfList =>
              /\ \A r : r # Top.runner => (OnBelow(Len(stack) - 1, r) <=> OnS(r))
              /\ Running(Top.runner) => ~OnBelow(Len(stack) - 1, Top.runner)
              /\ OnS(Top.runner)
  <1>1. Len(stack) \in Nat \ {0}
    BY StackFacts
  <1>2. \A f \in 1..Len(stack) : f \in 1..(Len(stack) - 1) \/ f = Len(stack)
    BY <1>1
  <1>3. \A f \in 1..(Len(stack) - 1) : f \in 1..Len(stack) /\ f # Len(stack)
    BY <1>1
  <1>4. Len(stack) \in 1..Len(stack)
    BY <1>1
  <1>5. \A r : OnS(r) <=> OnBelow(Len(stack) - 1, r) \/ (Top.at \in OfList /\ Top.runner = r)
    BY <1>2, <1>3, <1>4 DEF OnS, OnBelow, Top
  <1>6. ASSUME Top.at \in OfList, Running(Top.runner), OnBelow(Len(stack) - 1, Top.runner)
        PROVE  FALSE
    <2>1. PICK f \in 1..(Len(stack) - 1) : stack[f].at \in OfList /\ stack[f].runner = Top.runner
      BY <1>6 DEF OnBelow
    <2> QED BY <1>3, <1>4, <1>6, <2>1 DEF StackOK, ListsOnce, Top
  <1> QED BY <1>5, <1>6

\* The new frames fit on the n that are kept.
Fits(n, t) ==
  /\ n = Len(stack) /\ n > 0 /\ Len(t) > 0 => Top.at \notin {"step", "built", "input", "built next", "acted"}
  /\ n = Len(stack) - 1 /\ n > 0 /\ stack[n].at \in {"input", "built next"} =>
       Len(t) = 0 \/ (Len(t) = 1 /\ t[1].at \in {"step", "acted"})
  /\ Shaped(t)

LEMMA TurnShape ==
  ASSUME DataOK, StackOK, NEW n \in {Len(stack), Len(stack) - 1}, NEW t \in Seq(Frames),
         Piled(n, t), Fits(n, t)
  PROVE  Shaped(stack')
  <1>1. /\ Len(stack) \in Nat /\ n \in Nat /\ Len(t) \in Nat /\ Len(stack') = n + Len(t)
        /\ \A f \in 1..n : stack'[f].at = stack[f].at
        /\ \A j \in 1..Len(t) : stack'[n + j] = t[j]
    BY StackFacts DEF Piled, Kept, Alike
  <1> DEFINE Good(s, f) ==
        /\ s[f].at \notin {"step", "built"}
        /\ s[f].at \in {"input", "built next"} => f = Len(s) - 1 /\ s[Len(s)].at \in {"step", "acted"}
  <1>s. \A f \in 1..Len(stack) : f # Len(stack) => Good(stack, f)
    BY DEF StackOK, Shaped
  <1>t. \A f \in 1..Len(t) : f # Len(t) => Good(t, f)
    BY DEF Fits, Shaped
  <1>2. ASSUME NEW f \in 1..Len(stack'), f # Len(stack'), f > n
        PROVE  Good(stack', f)
    <2>1. /\ f - n \in 1..Len(t) /\ f - n # Len(t) /\ f = n + (f - n) /\ Len(t) \in 1..Len(t)
          /\ (f - n = Len(t) - 1 => f = n + Len(t) - 1)
      BY <1>1, <1>2
    <2>2. stack'[f] = t[f - n] /\ stack'[Len(stack')] = t[Len(t)]
      BY <1>1, <2>1
    <2>3. Good(t, f - n)
      BY <1>t, <2>1
    <2>4. ASSUME stack'[f].at \in {"input", "built next"}
          PROVE  f = Len(stack') - 1 /\ stack'[Len(stack')].at \in {"step", "acted"}
      <3>1. f - n = Len(t) - 1 /\ t[Len(t)].at \in {"step", "acted"}
        BY <2>2, <2>3, <2>4
      <3> QED BY <1>1, <2>1, <2>2, <3>1
    <2>5. stack'[f].at \notin {"step", "built"}
      BY <2>2, <2>3
    <2> QED BY <2>4, <2>5
  <1>3. ASSUME NEW f \in 1..Len(stack'), f # Len(stack'), f <= n
        PROVE  Good(stack', f)
    <2>1. f \in 1..n /\ f \in 1..Len(stack) /\ stack'[f].at = stack[f].at
      BY <1>1, <1>3
    <2>2. CASE n = Len(stack) /\ Len(t) = 0
      <3>1. Len(stack') = Len(stack) /\ f # Len(stack) /\ Len(stack) \in 1..n
        BY <1>1, <1>3, <2>1, <2>2
      <3>2. stack'[Len(stack')].at = stack[Len(stack)].at
        BY <1>1, <3>1
      <3>3. Good(stack, f)
        BY <1>s, <2>1, <3>1
      <3> QED BY <2>1, <3>1, <3>2, <3>3
    <2>3. CASE n = Len(stack) /\ Len(t) > 0
      <3>1. stack[Len(stack)].at \notin {"step", "built", "input", "built next", "acted"}
        <4>1. n > 0
          BY <1>1, <2>1
        <4> QED BY <2>3, <4>1 DEF Fits, Top
      <3>2. f = Len(stack) => stack[f].at \notin {"step", "built", "input", "built next"}
        BY <3>1
      <3>3. f # Len(stack) => Good(stack, f)
        BY <1>s, <2>1
      <3> QED BY <2>1, <3>1, <3>2, <3>3
    <2>4. CASE n = Len(stack) - 1
      <3>1. f # Len(stack)
        BY <1>1, <2>1, <2>4
      <3>2. Good(stack, f)
        BY <1>s, <2>1, <3>1
      <3>3. ASSUME stack[f].at \in {"input", "built next"}
            PROVE  f = Len(stack') - 1 /\ stack'[Len(stack')].at \in {"step", "acted"}
        <4>1. f = n /\ n > 0
          <5>1. f = Len(stack) - 1
            BY <2>1, <3>2, <3>3
          <5> QED BY <1>1, <2>1, <2>4, <5>1
        <4>2. Len(t) = 0 \/ (Len(t) = 1 /\ t[1].at \in {"step", "acted"})
          BY <2>4, <3>3, <4>1 DEF Fits
        <4>3. Len(t) = 1
          BY <1>1, <1>3, <4>1, <4>2
        <4>4. stack'[n + 1] = t[1] /\ Len(stack') = n + 1
          BY <1>1, <4>3
        <4> QED BY <1>1, <4>1, <4>2, <4>3, <4>4
      <3> QED BY <2>1, <3>2, <3>3
    <2>5. Len(t) = 0 \/ Len(t) > 0
      BY <1>1
    <2> HIDE DEF Good
    <2> QED BY <2>2, <2>3, <2>4, <2>5
  <1>4. \A f \in 1..Len(stack') : f > n \/ f <= n
    BY <1>1
  <1> QED BY <1>2, <1>3, <1>4 DEF Shaped

\* Each frame is one that was kept or a new one.
LEMMA PiledFacts ==
  ASSUME DataOK, NEW n \in {Len(stack), Len(stack) - 1}, NEW t \in Seq(Frames), Piled(n, t)
  PROVE  /\ n \in Nat /\ Len(t) \in Nat /\ Len(stack') = n + Len(t)
         /\ \A f \in 1..n : f \in 1..Len(stack) /\ f \in 1..Len(stack') /\ Alike(stack'[f], stack[f])
         /\ \A j \in 1..Len(t) : n + j \in 1..Len(stack') /\ stack'[n + j] = t[j] /\ n + j \notin 1..n
         /\ \A f \in 1..Len(stack') : f \notin 1..n =>
              f - n \in 1..Len(t) /\ f = n + (f - n) /\ stack'[f] = t[f - n]
  <1>1. /\ Len(stack) \in Nat /\ n \in Nat /\ Len(t) \in Nat /\ Len(stack') = n + Len(t)
        /\ \A f \in 1..n : Alike(stack'[f], stack[f])
        /\ \A j \in 1..Len(t) : stack'[n + j] = t[j]
    BY StackFacts DEF Piled, Kept
  <1>2. \A f \in 1..n : f \in 1..Len(stack) /\ f \in 1..Len(stack')
    BY <1>1
  <1>3. \A j \in 1..Len(t) : n + j \in 1..Len(stack') /\ n + j \notin 1..n
    BY <1>1
  <1>4. \A f \in 1..Len(stack') : f \notin 1..n => f - n \in 1..Len(t) /\ f = n + (f - n)
    BY <1>1
  <1>5. \A f \in 1..Len(stack') : f \notin 1..n => stack'[f] = t[f - n]
    BY <1>1, <1>4
  <1> QED BY <1>1, <1>2, <1>3, <1>4, <1>5

OnNew(t, r) == \E j \in 1..Len(t) : t[j].at \in OfList /\ t[j].runner = r

LEMMA TurnOnS ==
  ASSUME DataOK, NEW n \in {Len(stack), Len(stack) - 1}, NEW t \in Seq(Frames), Piled(n, t), NEW r
  PROVE  OnS(r)' <=> OnBelow(n, r) \/ OnNew(t, r)
  <1>1. \A f \in 1..n : f \in 1..Len(stack) /\ f \in 1..Len(stack') /\ Alike(stack'[f], stack[f])
    BY PiledFacts
  <1>2. \A j \in 1..Len(t) : n + j \in 1..Len(stack') /\ stack'[n + j] = t[j] /\ n + j \notin 1..n
    BY PiledFacts
  <1>3. \A f \in 1..Len(stack') : f \notin 1..n =>
          f - n \in 1..Len(t) /\ f = n + (f - n) /\ stack'[f] = t[f - n]
    BY PiledFacts
  <1>4. ASSUME OnS(r)' PROVE OnBelow(n, r) \/ OnNew(t, r)
    <2>1. PICK f \in 1..Len(stack') : stack'[f].at \in OfList /\ stack'[f].runner = r
      BY <1>4 DEF OnS
    <2> QED BY <1>1, <1>3, <2>1 DEF OnBelow, OnNew, Alike, OfList
  <1>5. ASSUME OnBelow(n, r) PROVE OnS(r)'
    BY <1>1, <1>5 DEF OnBelow, OnS, Alike, OfList
  <1>6. ASSUME OnNew(t, r) PROVE OnS(r)'
    BY <1>2, <1>6 DEF OnNew, OnS
  <1> QED BY <1>4, <1>5, <1>6

\* The new frames are of lists and macros that have no frame among the n.
Fresh(n, t) ==
  /\ \A j \in 1..Len(t) :
       /\ t[j].at \in OfList /\ Running(t[j].runner)' => ~OnBelow(n, t[j].runner)
       /\ t[j].at = "told" => macros[t[j].macro] # "over"
  /\ \A i, j \in 1..Len(t) :
       /\ t[i].at \in OfList /\ t[j].at \in OfList /\ t[i].runner = t[j].runner => i = j
       /\ t[i].at = "told" /\ t[j].at = "told" => i = j

LEMMA TurnOnce ==
  ASSUME DataOK, StackOK, NEW n \in {Len(stack), Len(stack) - 1}, NEW t \in Seq(Frames),
         Piled(n, t), Fresh(n, t),
         \A r \in Nat : r <= started /\ Running(r)' => Running(r)
  PROVE  ListsOnce' /\ ToldsOnce'
  <1>1. \A f \in 1..n : f \in 1..Len(stack) /\ f \in 1..Len(stack') /\ Alike(stack'[f], stack[f])
    BY PiledFacts
  <1>2. \A f \in 1..Len(stack') : f \notin 1..n =>
          f - n \in 1..Len(t) /\ f = n + (f - n) /\ stack'[f] = t[f - n]
    BY PiledFacts
  <1>3. /\ \A f \in 1..Len(stack) : stack[f] \in Frames /\ FrameOK(stack[f])
        /\ n \in Nat /\ Len(stack') \in Nat
    BY StackFacts, PiledFacts DEF StackOK, FramesOK
  <1>4. \A f \in 1..n : stack[f].at \in OfList =>
          stack[f].runner \in Nat /\ stack[f].runner <= started
    BY <1>1, <1>3, FramesHave DEF FrameOK
  <1>5. ASSUME NEW f \in 1..Len(stack'), NEW g \in 1..Len(stack'),
               NEW r, stack'[f].at \in OfList, stack'[g].at \in OfList,
               stack'[f].runner = r, stack'[g].runner = r, Running(r)'
        PROVE  f = g
    <2>1. ASSUME NEW a \in 1..n, NEW b \in 1..Len(stack'), b \notin 1..n,
                 stack'[a].at \in OfList, stack'[b].at \in OfList,
                 stack'[a].runner = r, stack'[b].runner = r
          PROVE  FALSE
      <3>1. b - n \in 1..Len(t) /\ stack'[b] = t[b - n]
        BY <1>2, <2>1
      <3>2. stack'[a] = stack[a]
        BY <1>1, <2>1 DEF Alike, OfList
      <3>3. t[b - n].at \in OfList /\ t[b - n].runner = r
        BY <2>1, <3>1
      <3>4. Running(t[b - n].runner)'
        BY <1>5, <3>3
      <3>5. ~OnBelow(n, r)
        BY <3>1, <3>3, <3>4 DEF Fresh
      <3> QED BY <2>1, <3>2, <3>5 DEF OnBelow
    <2>2. CASE f \in 1..n /\ g \in 1..n
      <3>1. stack'[f] = stack[f] /\ stack'[g] = stack[g]
        BY <1>1, <1>5, <2>2 DEF Alike, OfList
      <3>2. Running(r)
        <4>1. r \in Nat /\ r <= started
          BY <1>4, <1>5, <2>2, <3>1
        <4> QED BY <1>5, <4>1
      <3> QED BY <1>1, <1>5, <2>2, <3>1, <3>2 DEF StackOK, ListsOnce
    <2>3. CASE f \notin 1..n /\ g \notin 1..n
      <3>1. /\ f - n \in 1..Len(t) /\ stack'[f] = t[f - n] /\ f = n + (f - n)
            /\ g - n \in 1..Len(t) /\ stack'[g] = t[g - n] /\ g = n + (g - n)
        BY <1>2, <2>3
      <3>2. f - n = g - n
        BY <1>5, <3>1 DEF Fresh
      <3> QED BY <3>1, <3>2
    <2> QED BY <1>5, <2>1, <2>2, <2>3
  <1>6. ASSUME NEW f \in 1..Len(stack'), NEW g \in 1..Len(stack'),
               stack'[f].at = "told", stack'[g].at = "told", stack'[f].macro = stack'[g].macro
        PROVE  f = g
    <2>1. ASSUME NEW a \in 1..n, NEW b \in 1..Len(stack'), b \notin 1..n,
                 stack'[a].at = "told", stack'[b].at = "told", stack'[a].macro = stack'[b].macro
          PROVE  FALSE
      <3>1. b - n \in 1..Len(t) /\ stack'[b] = t[b - n]
        BY <1>2, <2>1
      <3>2. stack'[a] = stack[a] /\ FrameOK(stack[a])
        BY <1>1, <1>3, <2>1 DEF Alike
      <3>3. macros[stack[a].macro] = "over"
        BY <2>1, <3>2 DEF FrameOK
      <3> QED BY <2>1, <3>1, <3>2, <3>3 DEF Fresh
    <2>2. CASE f \in 1..n /\ g \in 1..n
      <3>1. stack'[f] = stack[f] /\ stack'[g] = stack[g]
        BY <1>1, <1>6, <2>2 DEF Alike
      <3> QED BY <1>1, <1>6, <2>2, <3>1 DEF StackOK, ToldsOnce
    <2>3. CASE f \notin 1..n /\ g \notin 1..n
      <3>1. /\ f - n \in 1..Len(t) /\ stack'[f] = t[f - n] /\ f = n + (f - n)
            /\ g - n \in 1..Len(t) /\ stack'[g] = t[g - n] /\ g = n + (g - n)
        BY <1>2, <2>3
      <3>2. f - n = g - n
        BY <1>6, <3>1 DEF Fresh
      <3> QED BY <3>1, <3>2
    <2> QED BY <1>6, <2>1, <2>2, <2>3
  <1>7. ListsOnce'
    BY <1>5 DEF ListsOnce
  <1>8. ToldsOnce'
    BY <1>6 DEF ToldsOnce
  <1> QED BY <1>7, <1>8

LEMMA TurnFrames ==
  ASSUME DataOK, StackOK, NEW n \in {Len(stack), Len(stack) - 1}, NEW t \in Seq(Frames),
         Piled(n, t), started' \in Nat, started <= started',
         \A f \in 1..n : \A r \in Nat :
           stack[f].at \in {"step", "input"} /\ stack[f].runner = r /\ r # NoRunner => Running(r)',
         \A f \in 1..n : stack[f].at = "told" => macros'[stack[f].macro] = "over",
         \A j \in 1..Len(t) : FrameOK(t[j])'
  PROVE  FramesOK'
  <1> SUFFICES ASSUME NEW f \in 1..Len(stack') PROVE FrameOK(stack[f])'
    BY DEF FramesOK
  <1>1. CASE f \in 1..n
    <2>1. f \in 1..Len(stack) /\ stack[f] \in Frames /\ FrameOK(stack[f]) /\ Alike(stack'[f], stack[f])
      BY <1>1, StackFacts, PiledFacts DEF StackOK, FramesOK
    <2>2. stack[f].at \in OfList => stack[f].runner \in Nat /\ stack[f].runner <= started
      BY <2>1, FramesHave DEF FrameOK
    <2>3. started \in Nat /\ ~Running(NoRunner)
      BY RunnersAreStarted DEF NoRunner
    <2>4. stack'[f].at \in {"enter", "oneshot"} => FrameOK(stack[f])'
      BY DEF FrameOK, OfList
    <2>5. stack'[f].at \notin {"enter", "oneshot"} => stack'[f] = stack[f]
      BY <2>1 DEF Alike
    <2>6. ASSUME stack'[f] = stack[f] PROVE FrameOK(stack[f])'
      <3>1. stack[f].at \in OfList => stack[f].runner <= started'
        BY <2>2, <2>3
      <3>2. ASSUME NEW r, stack[f].at \in {"step", "input"}, stack[f].runner = r, r # NoRunner
            PROVE  Running(r)'
        BY <1>1, <2>2, <3>2 DEF OfList
      <3>3. stack[f].at = "step" => stack[f].runner # NoRunner
        BY <2>1, <2>3 DEF FrameOK
      <3>4. stack[f].at = "step" => Running(stack[f].runner)'
        BY <2>6, <3>2, <3>3
      <3>5. stack[f].at = "input" => stack[f].runner = NoRunner \/ Running(stack[f].runner)'
        BY <2>6, <3>2
      <3> QED BY <1>1, <2>6, <3>1, <3>4, <3>5 DEF FrameOK
    <2> QED BY <2>4, <2>5, <2>6
  <1>2. CASE f \notin 1..n
    <2>1. f - n \in 1..Len(t) /\ stack'[f] = t[f - n]
      BY <1>2, PiledFacts
    <2>2. FrameOK(t[f - n])'
      BY <2>1
    <2> QED BY <2>1, <2>2 DEF FrameOK
  <1> QED BY <1>1, <1>2

-----------------------------------------------------------------------------
(* Steps that change no list.                                              *)

\* What of the stack is kept has nothing special in it.
Calm(n) ==
  \/ stack = <<>> /\ n = 0
  \/ stack # <<>> /\ Top.at \notin Special \cup {"acted"} /\ n \in {Len(stack), Len(stack) - 1}
  \/ stack # <<>> /\ Top.at \notin {"step", "acted"} /\ n = Len(stack) - 1

LEMMA CalmFacts ==
  ASSUME DataOK, StackOK, NEW n, Calm(n)
  PROVE  /\ n \in {Len(stack), Len(stack) - 1} /\ n \in Nat /\ Ordinary(n)
         /\ stack = <<>> \/ Top.at \notin OfList => \A r : OnBelow(n, r) <=> OnS(r)
         /\ \A t \in Seq(Frames) : Shaped(t) => Fits(n, t)
  <1>1. Len(stack) \in Nat /\ (stack = <<>> <=> Len(stack) = 0)
    BY StackFacts
  <1>2. n \in {Len(stack), Len(stack) - 1} /\ n \in Nat
    BY <1>1 DEF Calm
  <1>3. Ordinary(n)
    <2>1. CASE stack = <<>> /\ n = 0
      BY <2>1 DEF Ordinary
    <2>2. CASE stack # <<>> /\ Top.at \notin {"step", "acted"} /\ n = Len(stack) - 1
      BY <2>2, NoSpecialBelow
    <2>3. CASE stack # <<>> /\ Top.at \notin Special \cup {"acted"} /\ n \in {Len(stack), Len(stack) - 1}
      <3>1. Ordinary(Len(stack) - 1)
        BY <2>3, NoSpecialBelow DEF Special
      <3>2. \A f \in 1..n : f \in 1..(Len(stack) - 1) \/ f = Len(stack)
        BY <1>1, <2>3
      <3> QED BY <2>3, <3>1, <3>2 DEF Ordinary, Top
    <2> QED BY <2>1, <2>2, <2>3 DEF Calm
  <1>4. ASSUME stack = <<>> \/ Top.at \notin OfList, NEW r PROVE OnBelow(n, r) <=> OnS(r)
    <2>1. CASE n = Len(stack)
      BY <2>1 DEF OnBelow, OnS
    <2>2. CASE n = Len(stack) - 1
      BY <1>1, <1>2, <1>4, <2>2, ListsBelow
    <2> QED BY <1>2, <2>1, <2>2
  <1>5. ASSUME NEW t \in Seq(Frames), Shaped(t) PROVE Fits(n, t)
    <2>1. n > 0 => n \in 1..n
      BY <1>2
    <2>2. n > 0 => stack[n].at \notin Special
      BY <1>3, <2>1 DEF Ordinary
    <2>3. n = Len(stack) /\ n > 0 =>
            Top.at \notin {"step", "built", "input", "built next", "acted"}
      <3>1. n = Len(stack) /\ n > 0 => Top.at \notin Special \cup {"acted"}
        BY <1>1 DEF Calm
      <3> QED BY <3>1 DEF Special
    <2> QED BY <1>5, <2>2, <2>3 DEF Fits, Special
  <1> QED BY <1>2, <1>3, <1>4, <1>5

\* No loop of c_built() and no `input' is in progress.
Plain == \A f \in 1..Len(stack) : stack[f].at \notin {"input", "built", "built next"}
ByBuilding ==
  \A r \in Serials : Running(r) /\ WaitsForBuild(r) => run[r].redo \in building

LEMMA PlainIsOK == Plain => InputsOK /\ LoopsOK
  BY DEF Plain, InputsOK, LoopsOK
LEMMA PlainIsOKNext == Plain' => InputsOK' /\ LoopsOK'
  BY DEF Plain, InputsOK, LoopsOK

LEMMA PlainBuilds ==
  ASSUME DataOK, BuiltsOK, \A f \in 1..Len(stack) : stack[f].at \notin {"built", "built next"}
  PROVE  ByBuilding
  BY DEF ByBuilding, BuiltsOK, Comes, Running

LEMMA ByBuildingNext ==
  ASSUME DataOK', ByBuilding'
  PROVE  BuiltsOK'
  <1>1. building' \subseteq Keys /\ runners' \in Seq(1..started') /\ started' \in 0..MaxStarts
    BY DEF DataOK
  <1>2. \A j \in 1..Len(runners') : runners'[j] \in Serials
    BY <1>1, HotkeyAssumption DEF Serials, HotkeyAssumption
  <1> QED BY <1>1, <1>2 DEF ByBuilding, BuiltsOK, Comes, Running

LEMMA TurnPlain ==
  ASSUME DataOK, NEW n \in {Len(stack), Len(stack) - 1}, Ordinary(n), NEW t \in Seq(Frames),
         Piled(n, t), \A j \in 1..Len(t) : t[j].at \notin {"input", "built", "built next"}
  PROVE  Plain'
  <1> SUFFICES ASSUME NEW f \in 1..Len(stack')
               PROVE  stack'[f].at \notin {"input", "built", "built next"}
    BY DEF Plain
  <1>1. CASE f \in 1..n
    <2>1. Alike(stack'[f], stack[f])
      BY <1>1, PiledFacts
    <2>2. stack[f].at \notin Special
      BY <1>1 DEF Ordinary
    <2> QED BY <2>1, <2>2 DEF Special, Alike
  <1>2. CASE f \notin 1..n
    <2>1. \A g \in 1..Len(stack') : g \notin 1..n =>
            g - n \in 1..Len(t) /\ g = n + (g - n) /\ stack'[g] = t[g - n]
      BY PiledFacts
    <2> QED BY <1>2, <2>1
  <1> QED BY <1>1, <1>2

\* What a list is at, and what it waits for.
Still(r) ==
  /\ run'[r] = run[r] /\ (OnS(r)' <=> OnS(r))
  /\ input'.runner = r <=> input.runner = r
  /\ Typed(r)' <=> Typed(r)
LEMMA StillRests ==
  ASSUME RestsOK, NEW r \in Serials, Running(r), Still(r)
  PROVE  RestsNow(r)'
  <1>1. Rests(run[r], OnS(r), input.runner = r, Typed(r))
    BY DEF RestsOK, RestsNow
  <1> DEFINE a == OnS(r)
             b == Typed(r)
             c == OnS(r)'
             d == Typed(r)'
  <1>2. /\ run'[r] = run[r] /\ (c <=> a) /\ (input'.runner = r <=> input.runner = r) /\ (d <=> b)
    BY DEF Still
  <1>3. Rests(run[r], a, input.runner = r, b)
    BY <1>1
  <1> HIDE DEF a, b, c, d
  <1>4. Rests(run'[r], c, input'.runner = r, d)
    BY <1>2, <1>3 DEF Rests
  <1> QED BY <1>4 DEF RestsNow, c, d

\* A step that changes no list, but what the thread is at.
LEMMA CalmStep ==
  ASSUME DataOK, ListsOK, CountsAgree, StackOK, RestsOK,
         NEW n, Calm(n), stack = <<>> \/ Top.at \notin OfList,
         NEW t \in Seq(Frames), Piled(n, t), Shaped(t),
         UNCHANGED <<listVars, plays>>, input'.runner = input.runner,
         \A j \in 1..Len(t) : t[j].at \notin OfList \cup {"built", "built next"},
         \A j \in 1..Len(t) : t[j].at = "told" =>
           macros[t[j].macro] # "over" /\ macros'[t[j].macro] = "over",
         \A i, j \in 1..Len(t) : t[i].at = "told" /\ t[j].at = "told" => i = j,
         \A f \in 1..n : stack[f].at = "told" => macros'[stack[f].macro] = "over"
  PROVE  ListsOK' /\ CountsAgree' /\ StackOK' /\ Plain' /\ RestsOK'
  <1>1. /\ n \in {Len(stack), Len(stack) - 1} /\ n \in Nat /\ Ordinary(n)
        /\ \A r : OnBelow(n, r) <=> OnS(r)
        /\ Fits(n, t)
    BY CalmFacts
  <1>2. \A r : Running(r)' <=> Running(r)
    BY DEF Running, listVars, tableVars
  <1>3. ListsOK' /\ CountsAgree'
    <2>1. UNCHANGED <<runners, run, running>>
      BY DEF listVars, tableVars
    <2>2. ListsOK'
      BY <2>1, <1>2 DEF ListsOK
    <2>3. Live' = Live
      BY <2>1 DEF Live
    <2>4. CountsAgree'
      BY <2>1, <2>3 DEF CountsAgree
    <2> QED BY <2>2, <2>4
  <1>4. \A j \in 1..Len(t) : t[j].at \notin {"step", "acted", "input", "built", "built next"}
    BY DEF OfList
  <1>5. Shaped(stack)'
    BY <1>1, TurnShape
  <1>6. Fresh(n, t)
    BY <1>4 DEF Fresh, OfList
  <1>7. ListsOnce' /\ ToldsOnce'
    BY <1>1, <1>2, <1>6, TurnOnce
  <1>8. FramesOK'
    <2>1. started' = started /\ started \in Nat
      BY RunnersAreStarted DEF listVars, tableVars
    <2>2. \A f \in 1..n : \A r \in Nat :
            stack[f].at \in {"step", "input"} /\ stack[f].runner = r /\ r # NoRunner => Running(r)'
      BY <1>1 DEF Ordinary, Special
    <2>3. ASSUME NEW j \in 1..Len(t) PROVE FrameOK(t[j])'
      BY <1>4 DEF FrameOK, OfList
    <2>4. started' \in Nat /\ started <= started'
      BY <2>1, NotLess, Zenon
    <2>5. \A j \in 1..Len(t) : FrameOK(t[j])'
      BY <2>3
    <2> QED BY <1>1, <2>2, <2>4, <2>5, TurnFrames, Zenon
  <1>9. Plain'
    BY <1>1, <1>4, TurnPlain
  <1>10. ASSUME NEW r \in Serials, Running(r)' PROVE RestsNow(r)'
    <2>1. OnS(r)' <=> OnS(r)
      <3>1. ~OnNew(t, r)
        BY <1>4 DEF OnNew, OfList
      <3>2. OnS(r)' <=> OnBelow(n, r) \/ OnNew(t, r)
        BY <1>1, TurnOnS
      <3> QED BY <1>1, <3>1, <3>2
    <2>2. Typed(r)' <=> Typed(r)
      BY DEF Typed
    <2>3. run'[r] = run[r]
      BY DEF listVars
    <2>4. Still(r)
      BY <2>1, <2>2, <2>3 DEF Still
    <2> QED BY <1>2, <1>10, <2>4, StillRests
  <1>11. RestsOK'
    BY <1>10 DEF RestsOK
  <1> QED BY <1>3, <1>5, <1>7, <1>8, <1>9, <1>11 DEF StackOK

\* What the loop has left to do is still left.
Awaited(x) == \E f \in 1..Len(stack) : stack[f] = x
LEMMA LoopsKept ==
  ASSUME DataOK, NEW n \in {Len(stack), Len(stack) - 1}, NEW t \in Seq(Frames), Piled(n, t),
         NEW x \in {FireLoop, PlayLoop}, Awaited(x),
         n = Len(stack) \/ Top # x \/ \E j \in 1..Len(t) : t[j] = x
  PROVE  Awaited(x)'
  <1>1. PICK f \in 1..Len(stack) : stack[f] = x
    BY DEF Awaited
  <1>2. x.at \in {"fires", "plays"}
    BY FramesAre
  <1>3. CASE f \in 1..n
    <2>1. \A g \in 1..n : g \in 1..Len(stack) /\ g \in 1..Len(stack') /\ Alike(stack'[g], stack[g])
      BY PiledFacts
    <2> QED BY <1>1, <1>2, <1>3, <2>1 DEF Alike, Awaited
  <1>4. CASE \E j \in 1..Len(t) : t[j] = x
    <2>1. \A j \in 1..Len(t) : n + j \in 1..Len(stack') /\ stack'[n + j] = t[j] /\ n + j \notin 1..n
      BY PiledFacts
    <2> QED BY <1>4, <2>1 DEF Awaited
  <1>5. f \in 1..n \/ (n = Len(stack) - 1 /\ f = Len(stack))
    BY <1>1, StackFacts
  <1> QED BY <1>1, <1>3, <1>4, <1>5, StackFacts DEF Top

LEMMA PointersKept ==
  ASSUME PointersOK, UNCHANGED <<runners, run, plays, input, macros>>
  PROVE  PointersOK'
  <1>1. \A r : Running(r)' <=> Running(r)
    BY DEF Running
  <1> QED BY <1>1 DEF PointersOK, HookOK, TypingOK, MacrosOK

LEMMA BuildsKept ==
  ASSUME BuildsOK, UNCHANGED <<building, compiler, posted>>
  PROVE  BuildsOK'
  BY DEF BuildsOK, Posted

LEMMA OffKept ==
  ASSUME OffOK, UNCHANGED <<run, enabled>>, fires' # <<>> => fires # <<>>
  PROVE  OffOK'
  BY DEF OffOK

LEMMA PlacesOf ==
  ASSUME DataOK, NEW n \in {Len(stack), Len(stack) - 1}
  PROVE  /\ \A f \in 1..n : f \in 1..Len(stack)
         /\ \A f \in 1..Len(stack) : f \in 1..n \/ (f = Len(stack) /\ stack # <<>>)
  BY StackFacts

QuietTypes ==
  /\ fires \in Seq(Ids) /\ fireIdle \in BOOLEAN /\ playing \in BOOLEAN /\ playTimer \in BOOLEAN
  /\ keyMode \in AllModes /\ mode \in AllModes /\ modeTimer \in BOOLEAN

\* A step that only puts plain frames on the stack, or takes them away.
LEMMA QuietStep ==
  ASSUME IInv, NEW n, Calm(n),
         stack = <<>> \/ Top.at \notin OfList \cup {"built", "built next"},
         NEW t \in Seq(Frames), Piled(n, t), Shaped(t),
         \A j \in 1..Len(t) : t[j].at \notin OfList \cup {"built", "built next", "told"},
         UNCHANGED <<listVars, plays, input, macros, codeVars, enabled>>,
         fires' # <<>> => fires # <<>>, QuietTypes', QueuesOK'
  PROVE  IInv'
  <1>0. DataOK /\ StackOK
    BY DEF IInv
  <1>7. DataOK'
    BY <1>0 DEF DataOK, QuietTypes, Piled, listVars, tableVars, codeVars
  <1>1. n \in {Len(stack), Len(stack) - 1} /\ n \in Nat /\ Ordinary(n)
    BY <1>0, CalmFacts
  <1>6. /\ \A f \in 1..n : f \in 1..Len(stack)
        /\ \A f \in 1..Len(stack) : f \in 1..n \/ (f = Len(stack) /\ stack # <<>>)
    BY <1>0, <1>1, PlacesOf
  <1>2. ListsOK' /\ CountsAgree' /\ StackOK' /\ Plain' /\ RestsOK'
    <2>1. \A f \in 1..n : stack[f].at = "told" => macros'[stack[f].macro] = "over"
      BY <1>0, <1>6 DEF IInv, StackOK, FramesOK, FrameOK
    <2>2. stack = <<>> \/ Top.at \notin OfList
      OBVIOUS
    <2>3. \A j \in 1..Len(t) : t[j].at \notin OfList \cup {"built", "built next"} /\ t[j].at # "told"
      OBVIOUS
    <2>4. UNCHANGED <<listVars, plays>> /\ input'.runner = input.runner
      OBVIOUS
    <2> QED BY <2>1, <2>2, <2>3, <2>4, CalmStep DEF IInv
  <1>3. InputsOK' /\ LoopsOK'
    BY <1>2, PlainIsOKNext
  <1>4. PointersOK' /\ BuildsOK' /\ OffOK'
    BY PointersKept, BuildsKept, OffKept DEF IInv, listVars, tableVars, codeVars
  <1>5. BuiltsOK'
    <2>1. \A f \in 1..Len(stack) : stack[f].at \notin {"built", "built next"}
      BY <1>1, <1>6 DEF Ordinary, Special, Top
    <2>2. ByBuilding
      BY <2>1, PlainBuilds DEF IInv
    <2>3. ByBuilding'
      BY <2>2 DEF ByBuilding, Running, WaitsForBuild, listVars, tableVars, codeVars
    <2> QED BY <1>7, <2>3, ByBuildingNext
  <1> QED BY <1>2, <1>3, <1>4, <1>5, <1>7 DEF IInv

LEMMA ShapedFacts ==
  /\ Shaped(<<>>) /\ Len(<<>>) = 0
  /\ \A f \in Frames : Shaped(<<f>>)
  /\ \A f, g \in Frames :
       f.at \notin Special \/ (f.at \in {"input", "built next"} /\ g.at \in {"step", "acted"})
         => Shaped(<<f, g>>)
  <1>1. Shaped(<<>>) /\ Len(<<>>) = 0
    BY DEF Shaped
  <1>2. ASSUME NEW f \in Frames PROVE Shaped(<<f>>)
    <2>1. Len(<<f>>) = 1 /\ \A i \in 1..1 : i = 1
      OBVIOUS
    <2> QED BY <2>1 DEF Shaped
  <1>3. ASSUME NEW f \in Frames, NEW g \in Frames,
               f.at \notin Special \/ (f.at \in {"input", "built next"} /\ g.at \in {"step", "acted"})
        PROVE  Shaped(<<f, g>>)
    <2>1. Len(<<f, g>>) = 2 /\ <<f, g>>[1] = f /\ <<f, g>>[2] = g /\ 2 - 1 = 1
          /\ \A i \in 1..2 : i # 2 => i = 1
      OBVIOUS
    <2> QED BY <1>3, <2>1 DEF Shaped, Special
  <1> QED BY <1>1, <1>2, <1>3

QuietVars == <<listVars, plays, input, macros, codeVars, enabled>>
Ends(place) == place \notin {"step", "acted", "input", "built", "built next"}

\* A frame returns.
LEMMA QuietPop ==
  ASSUME IInv, stack # <<>>, Ends(Top.at), stack' = Becomes(<<>>), UNCHANGED QuietVars,
         fires' # <<>> => fires # <<>>, QuietTypes',
         DataOK /\ Piled(Len(stack) - 1, <<>>) => QueuesOK'
  PROVE  IInv'
  <1> DEFINE n == Len(stack) - 1
  <1>1. DataOK /\ <<>> \in Seq(Frames)
    BY DEF IInv
  <1>2. Piled(n, <<>>)
    BY <1>1, Popped
  <1>3. Calm(n) /\ Top.at \notin OfList \cup {"built", "built next"}
    BY DEF Calm, Ends, OfList
  <1>4. \A j \in 1..Len(<<>>) : <<>>[j].at \notin OfList \cup {"built", "built next", "told"}
    <2>1. Len(<<>>) = 0 /\ \A j \in 1..0 : FALSE
      OBVIOUS
    <2> QED BY <2>1
  <1>5. QueuesOK'
    BY <1>1, <1>2
  <1>6. UNCHANGED <<listVars, plays, input, macros, codeVars, enabled>>
    BY DEF QuietVars
  <1> HIDE DEF n
  <1> QED BY <1>1, <1>2, <1>3, <1>4, <1>5, <1>6, ShapedFacts, QuietStep

\* The loop calls back.
LEMMA QuietFromLoop ==
  ASSUME IInv, stack = <<>>, NEW f \in Frames, stack' = <<f>>, Ends(f.at), f.at # "told",
         UNCHANGED QuietVars, fires' # <<>> => fires # <<>>, QuietTypes',
         DataOK /\ Piled(0, <<f>>) => QueuesOK'
  PROVE  IInv'
  <1>1. DataOK /\ <<f>> \in Seq(Frames) /\ Len(<<f>>) = 1 /\ <<f>>[1] = f
    BY DEF IInv
  <1>2. Piled(0, <<f>>)
    BY <1>1, FromLoop
  <1>3. Calm(0)
    BY DEF Calm
  <1>4. \A j \in 1..Len(<<f>>) : <<f>>[j].at \notin OfList \cup {"built", "built next", "told"}
    <2>1. f.at \notin OfList \cup {"built", "built next", "told"}
      BY DEF Ends, OfList
    <2>2. \A j \in 1..Len(<<f>>) : <<f>>[j] = f
      BY <1>1
    <2> QED BY <2>1, <2>2
  <1>5. QueuesOK'
    BY <1>1, <1>2
  <1>6. UNCHANGED <<listVars, plays, input, macros, codeVars, enabled>>
    BY DEF QuietVars
  <1> QED BY <1>1, <1>2, <1>3, <1>4, <1>5, <1>6, ShapedFacts, QuietStep

LEMMA QueuesFacts ==
  QueuesOK <=> /\ fires # <<>> => fireIdle \/ Awaited(FireLoop)
               /\ plays # <<>> => playing
               /\ playing => playTimer \/ Awaited(PlayLoop)
  BY DEF QueuesOK, Awaited
LEMMA QueuesFactsNext ==
  QueuesOK' <=> /\ fires' # <<>> => fireIdle' \/ Awaited(FireLoop)'
                /\ plays' # <<>> => playing'
                /\ playing' => playTimer' \/ Awaited(PlayLoop)'
  BY DEF QueuesOK, Awaited

\* The queues are served as before.
LEMMA QueuesKept ==
  ASSUME DataOK, QueuesOK, NEW n \in {Len(stack), Len(stack) - 1}, NEW t \in Seq(Frames), Piled(n, t),
         n = Len(stack) \/ Top \notin {FireLoop, PlayLoop},
         UNCHANGED <<fireVars, playing, playTimer>>, plays' # <<>> => plays # <<>>
  PROVE  QueuesOK'
  <1>1. \A x \in {FireLoop, PlayLoop} : Awaited(x) => Awaited(x)'
    BY LoopsKept
  <1> QED BY <1>1, QueuesFacts, QueuesFactsNext DEF fireVars

LEMMA AwaitedLoops ==
  ASSUME DataOK
  PROVE  stack # <<>> /\ Piled(Len(stack) - 1, <<>>) =>
           /\ Top.at # "fires" /\ Awaited(FireLoop) => Awaited(FireLoop)'
           /\ Top.at # "plays" /\ Awaited(PlayLoop) => Awaited(PlayLoop)'
  <1>1. <<>> \in Seq(Frames)
    OBVIOUS
  <1>2. FireLoop.at = "fires" /\ PlayLoop.at = "plays"
    BY FramesAre
  <1> QED BY <1>1, <1>2, LoopsKept

QuietOld == DataOK /\ QueuesOK /\ QuietTypes
LEMMA QuietNow == ASSUME IInv PROVE QuietOld
  BY DEF IInv, QuietOld, DataOK, QuietTypes

LEMMA TopIs ==
  ASSUME DataOK, NEW f, At(f)
  PROVE  stack # <<>> /\ Top = f
  BY FrontFacts DEF DataOK, At, Top
LEMMA TopAt ==
  ASSUME DataOK, NEW place, AtA(place)
  PROVE  stack # <<>> /\ Top.at = place /\ Last(stack) = Top
  BY FrontFacts DEF DataOK, AtA, Top

LEMMA PlayTickInv == ASSUME IInv, PlayTick PROVE IInv'
  <1>1. QuietOld /\ PlayLoop \in Frames /\ PlayLoop.at = "plays"
    BY QuietNow, FramesAre
  <1>2. stack = <<>> /\ stack' = <<PlayLoop>> /\ UNCHANGED QuietVars /\ QuietTypes' /\ fires' = fires
    BY <1>1 DEF PlayTick, AtLoop, QuietVars, QuietOld, QuietTypes, fireVars, otherVars, modeVars
  <1>3. ASSUME Piled(0, <<PlayLoop>>) PROVE QueuesOK'
    <2>1. Awaited(PlayLoop)'
      BY <1>2 DEF Awaited
    <2>2. ~Awaited(FireLoop) /\ ~Awaited(PlayLoop)
      BY <1>2 DEF Awaited
    <2> QED BY <1>1, <2>1, <2>2, QueuesFacts, QueuesFactsNext DEF QuietOld, PlayTick, fireVars
  <1> QED BY <1>1, <1>2, <1>3, QuietFromLoop DEF Ends

LEMMA OnPostFdInv == ASSUME IInv, OnPostFd PROVE IInv'
  <1>1. QuietOld /\ PostLoop \in Frames /\ PostLoop.at = "posts"
    BY QuietNow, FramesAre
  <1>2. stack = <<>> /\ stack' = <<PostLoop>> /\ UNCHANGED QuietVars /\ QuietTypes' /\ fires' = fires
    BY <1>1 DEF OnPostFd, AtLoop, QuietVars, QuietOld, QuietTypes, fireVars, playVars, otherVars, modeVars
  <1>3. ASSUME Piled(0, <<PostLoop>>) PROVE QueuesOK'
    <2>1. ~Awaited(FireLoop) /\ ~Awaited(PlayLoop)
      BY <1>2 DEF Awaited
    <2> QED BY <1>1, <2>1, QueuesFacts, QueuesFactsNext DEF QuietOld, OnPostFd, fireVars, playVars
  <1> QED BY <1>1, <1>2, <1>3, QuietFromLoop DEF Ends

LEMMA FireIdleInv == ASSUME IInv, FireIdle PROVE IInv'
  <1>1. QuietOld /\ FireLoop \in Frames /\ FireLoop.at = "fires"
    BY QuietNow, FramesAre
  <1>2. stack = <<>> /\ stack' = <<FireLoop>> /\ UNCHANGED QuietVars /\ QuietTypes' /\ fires' = fires
    BY <1>1 DEF FireIdle, AtLoop, QuietVars, QuietOld, QuietTypes, playVars, otherVars, modeVars
  <1>3. ASSUME Piled(0, <<FireLoop>>) PROVE QueuesOK'
    <2>1. Awaited(FireLoop)'
      BY <1>2 DEF Awaited
    <2>2. ~Awaited(FireLoop) /\ ~Awaited(PlayLoop)
      BY <1>2 DEF Awaited
    <2> QED BY <1>1, <2>1, <2>2, QueuesFacts, QueuesFactsNext DEF QuietOld, FireIdle, playVars
  <1> QED BY <1>1, <1>2, <1>3, QuietFromLoop DEF Ends

LEMMA PlayEndsInv == ASSUME IInv, PlayEnds PROVE IInv'
  <1>1. QuietOld
    BY QuietNow
  <1>2. stack # <<>> /\ Top = PlayLoop /\ PlayLoop.at = "plays"
    BY <1>1, TopIs, FramesAre DEF PlayEnds, QuietOld
  <1>3. stack' = Becomes(<<>>) /\ UNCHANGED QuietVars /\ QuietTypes' /\ fires' = fires
    BY <1>1 DEF PlayEnds, QuietVars, QuietOld, QuietTypes, fireVars, otherVars, modeVars
  <1>4. ASSUME Piled(Len(stack) - 1, <<>>) PROVE QueuesOK'
    <2>1. Awaited(FireLoop) => Awaited(FireLoop)'
      BY <1>1, <1>2, <1>4, AwaitedLoops DEF QuietOld
    <2> QED BY <1>1, <2>1, QueuesFacts, QueuesFactsNext DEF QuietOld, PlayEnds, fireVars
  <1> QED BY <1>2, <1>3, <1>4, QuietPop DEF Ends

LEMMA FiresEndInv == ASSUME IInv, FiresEnd PROVE IInv'
  <1>1. QuietOld
    BY QuietNow
  <1>2. stack # <<>> /\ Top = FireLoop /\ FireLoop.at = "fires"
    BY <1>1, TopIs, FramesAre DEF FiresEnd, QuietOld
  <1>3. /\ stack' = Becomes(<<>>) /\ UNCHANGED QuietVars /\ QuietTypes' /\ fires' = fires
        /\ fires = <<>>
    BY <1>1 DEF FiresEnd, QuietVars, QuietOld, QuietTypes, fireVars, playVars, otherVars, modeVars
  <1>4. ASSUME Piled(Len(stack) - 1, <<>>) PROVE QueuesOK'
    <2>1. Awaited(PlayLoop) => Awaited(PlayLoop)'
      BY <1>1, <1>2, <1>4, AwaitedLoops DEF QuietOld
    <2> QED BY <1>1, <1>3, <2>1, QueuesFacts, QueuesFactsNext DEF QuietOld, FiresEnd, playVars
  <1> QED BY <1>2, <1>3, <1>4, QuietPop DEF Ends

LEMMA PostsEndInv == ASSUME IInv, PostsEnd PROVE IInv'
  <1>1. QuietOld
    BY QuietNow
  <1>2. stack # <<>> /\ Top = PostLoop /\ PostLoop.at = "posts"
    BY <1>1, TopIs, FramesAre DEF PostsEnd, QuietOld
  <1>3. /\ stack' = Becomes(<<>>) /\ UNCHANGED QuietVars /\ QuietTypes' /\ fires' = fires
        /\ UNCHANGED <<fireVars, playVars>>
    BY <1>1 DEF PostsEnd, QuietVars, QuietOld, QuietTypes, fireVars, playVars, otherVars, modeVars
  <1>4. ASSUME Piled(Len(stack) - 1, <<>>) PROVE QueuesOK'
    <2>1. /\ Awaited(PlayLoop) => Awaited(PlayLoop)'
          /\ Awaited(FireLoop) => Awaited(FireLoop)'
      BY <1>1, <1>2, <1>4, AwaitedLoops DEF QuietOld
    <2> QED BY <1>1, <1>3, <2>1, QueuesFacts, QueuesFactsNext DEF QuietOld, fireVars, playVars
  <1> QED BY <1>2, <1>3, <1>4, QuietPop DEF Ends

LEMMA EnteredModeInv == ASSUME IInv, EnteredMode PROVE IInv'
  <1>1. QuietOld
    BY QuietNow
  <1>2. stack # <<>> /\ Top = ModeEntered /\ ModeEntered.at = "entered"
    BY <1>1, TopIs, FramesAre DEF EnteredMode, QuietOld
  <1>3. /\ stack' = Becomes(<<>>) /\ UNCHANGED QuietVars /\ QuietTypes' /\ fires' = fires
        /\ UNCHANGED <<fireVars, playVars>>
    BY <1>1 DEF EnteredMode, QuietVars, QuietOld, QuietTypes, fireVars, playVars
  <1>4. ASSUME Piled(Len(stack) - 1, <<>>) PROVE QueuesOK'
    <2>1. /\ Awaited(PlayLoop) => Awaited(PlayLoop)'
          /\ Awaited(FireLoop) => Awaited(FireLoop)'
      BY <1>1, <1>2, <1>4, AwaitedLoops DEF QuietOld
    <2> QED BY <1>1, <1>3, <2>1, QueuesFacts, QueuesFactsNext DEF QuietOld, fireVars, playVars
  <1> QED BY <1>2, <1>3, <1>4, QuietPop DEF Ends

LEMMA JoinFreed ==
  ASSUME NEW s \in Seq(Frames), NEW t \in Seq(Frames), Kept(stack, s, Len(s)),
         NEW place \in {"enter", "oneshot"}, stack' = Freed(s, place) \o t
  PROVE  Piled(Len(s), t)
  <1>1. /\ Freed(s, place) \in Seq(Frames) /\ Len(Freed(s, place)) = Len(s)
        /\ \A f \in 1..Len(s) : Alike(Freed(s, place)[f], s[f])
    BY FreedFacts
  <1>2. Kept(stack, Freed(s, place), Len(s))
    BY <1>1 DEF Kept, Alike
  <1> DEFINE u == Freed(s, place)
  <1>3. u \in Seq(Frames) /\ Kept(stack, u, Len(u)) /\ stack' = u \o t /\ Len(u) = Len(s)
    BY <1>1, <1>2
  <1> HIDE DEF u
  <1> QED BY <1>3, Join

\* A frame that returns, or the event loop: what is below.
LEMMA BelowFacts ==
  ASSUME DataOK, StackOK, Ends(Top.at) \/ stack = <<>>, NEW s,
         (stack = <<>> /\ s = <<>>) \/ (stack # <<>> /\ s = Becomes(<<>>))
  PROVE  /\ s \in Seq(Frames) /\ Kept(stack, s, Len(s)) /\ Calm(Len(s))
         /\ stack # <<>> => Len(s) = Len(stack) - 1
  <1>1. CASE stack = <<>> /\ s = <<>>
    <2>1. Len(s) = 0 /\ Len(stack) = 0 /\ s \in Seq(Frames)
      BY <1>1
    <2> QED BY <1>1, <2>1 DEF Calm, Kept
  <1>2. CASE stack # <<>> /\ s = Becomes(<<>>)
    <2>1. stack \in Seq(Frames)
      BY DEF DataOK
    <2>2. /\ Front(stack) \in Seq(Frames) /\ Kept(stack, Front(stack), Len(Front(stack)))
          /\ Len(Front(stack)) = Len(stack) - 1 /\ Len(stack) \in Nat \ {0}
      BY <1>2, <2>1, KeptFront
    <2>3. s = Front(stack)
      BY <1>2, <2>2 DEF Becomes
    <2>4. Calm(Len(s))
      BY <1>2, <2>2, <2>3 DEF Calm, Ends
    <2> QED BY <2>2, <2>3, <2>4
  <1> QED BY <1>1, <1>2

\* SetKeyMode()
LEMMA KeyModeStep ==
  ASSUME IInv, Ends(Top.at) \/ stack = <<>>, Top \notin {FireLoop, PlayLoop} \/ stack = <<>>, NEW s,
         (stack = <<>> /\ s = <<>>) \/ (stack # <<>> /\ s = Becomes(<<>>)),
         NEW m \in AllModes, SetKeyMode(m, s) \/ (stack' = s /\ UNCHANGED keyMode),
         UNCHANGED QuietVars, UNCHANGED fireVars, UNCHANGED playVars,
         mode' \in AllModes, modeTimer' \in BOOLEAN
  PROVE  IInv'
  <1>1. DataOK /\ StackOK /\ QueuesOK /\ QuietOld
    BY QuietNow DEF IInv
  <1>2. /\ s \in Seq(Frames) /\ Kept(stack, s, Len(s)) /\ Calm(Len(s))
        /\ stack # <<>> => Len(s) = Len(stack) - 1
    BY <1>1, BelowFacts
  <1>3. Len(s) \in {Len(stack), Len(stack) - 1} /\ Len(s) \in Nat
    BY <1>1, <1>2, CalmFacts
  <1>4. QuietTypes' /\ fires' = fires
    BY <1>1 DEF QuietOld, QuietTypes, fireVars, playVars, SetKeyMode
  <1>5. ASSUME NEW t \in Seq(Frames), Piled(Len(s), t) PROVE QueuesOK'
    <2>1. Len(s) = Len(stack) \/ Top \notin {FireLoop, PlayLoop}
      BY <1>2
    <2> QED BY <1>1, <1>3, <1>5, <2>1, QueuesKept DEF fireVars, playVars
  <1>6. ASSUME NEW t \in Seq(Frames), Piled(Len(s), t), Shaped(t),
               \A j \in 1..Len(t) : t[j].at \notin OfList \cup {"built", "built next", "told"}
        PROVE  IInv'
    <2>1. stack = <<>> \/ Top.at \notin OfList \cup {"built", "built next"}
      BY DEF Ends, OfList
    <2>2. UNCHANGED <<listVars, plays, input, macros, codeVars, enabled>>
      BY DEF QuietVars
    <2>3. QueuesOK'
      BY <1>5, <1>6
    <2> QED BY <1>2, <1>4, <1>6, <2>1, <2>2, <2>3, QuietStep
  <1>7. CASE stack' = s
    <2>1. <<>> \in Seq(Frames) /\ Len(<<>>) = 0 /\ s \o <<>> = s
      BY <1>2
    <2>2. Piled(Len(s), <<>>)
      BY <1>2, <1>7, <2>1, Join
    <2>3. \A j \in 1..Len(<<>>) : <<>>[j].at \notin OfList \cup {"built", "built next", "told"}
      BY <2>1, NoPlaces
    <2> QED BY <1>6, <2>1, <2>2, <2>3, ShapedFacts
  <1>8. CASE stack' = Freed(s, "oneshot") \o <<[at |-> "exit", mode |-> m]>>
    <2> DEFINE x == [at |-> "exit", mode |-> m]
    <2>1. x \in Frames /\ x.at = "exit"
      BY FramesAre
    <2>2. stack' = Freed(s, "oneshot") \o <<x>>
      BY <1>8
    <2> HIDE DEF x
    <2>3. <<x>> \in Seq(Frames) /\ Len(<<x>>) = 1 /\ <<x>>[1] = x
      BY <2>1
    <2>4. Piled(Len(s), <<x>>)
      BY <1>2, <2>2, <2>3, JoinFreed
    <2>5. \A j \in 1..Len(<<x>>) : <<x>>[j].at \notin OfList \cup {"built", "built next", "told"}
      <3>1. \A j \in 1..Len(<<x>>) : <<x>>[j] = x
        BY <2>3
      <3> QED BY <2>1, <3>1 DEF OfList
    <2> QED BY <1>6, <2>1, <2>3, <2>4, <2>5, ShapedFacts
  <1> QED BY <1>7, <1>8 DEF SetKeyMode

LEMMA ModeKeyInv == ASSUME IInv, NEW m \in AllModes, ModeKey(m) PROVE IInv'
  <1>1. /\ stack = <<>> /\ SetKeyMode(m, <<>>) /\ UNCHANGED QuietVars
        /\ UNCHANGED fireVars /\ UNCHANGED playVars /\ UNCHANGED <<mode, modeTimer>>
    BY DEF ModeKey, AtLoop, QuietVars, playVars
  <1>2. mode' \in AllModes /\ modeTimer' \in BOOLEAN
    BY <1>1, QuietNow DEF QuietOld, QuietTypes
  <1> QED BY <1>1, <1>2, KeyModeStep

LEMMA ModeTimeoutInv == ASSUME IInv, ModeTimeout PROVE IInv'
  <1>1. /\ stack = <<>> /\ UNCHANGED QuietVars
        /\ SetKeyMode(Default, <<>>) \/ (stack' = <<>> /\ UNCHANGED keyMode)
        /\ UNCHANGED fireVars /\ UNCHANGED playVars /\ UNCHANGED mode /\ modeTimer' = FALSE
    BY DEF ModeTimeout, AtLoop, QuietVars, playVars
  <1>2. mode' \in AllModes /\ modeTimer' \in BOOLEAN /\ Default \in AllModes
    BY <1>1, QuietNow DEF QuietOld, QuietTypes, AllModes
  <1> QED BY <1>1, <1>2, KeyModeStep

LEMMA OneShotEndsInv == ASSUME IInv, OneShotEnds PROVE IInv'
  <1>1. DataOK
    BY DEF IInv
  <1>2. stack # <<>> /\ Top.at = "oneshot"
    BY <1>1, TopAt DEF OneShotEnds
  <1>3. Ends(Top.at) /\ Top \notin {FireLoop, PlayLoop}
    BY <1>2, FramesAre DEF Ends
  <1>4. /\ UNCHANGED QuietVars
        /\ SetKeyMode(Default, Becomes(<<>>)) \/ (stack' = Becomes(<<>>) /\ UNCHANGED keyMode)
        /\ UNCHANGED fireVars /\ UNCHANGED playVars /\ UNCHANGED <<mode, modeTimer>>
    BY DEF OneShotEnds, QuietVars, playVars
  <1>5. mode' \in AllModes /\ modeTimer' \in BOOLEAN /\ Default \in AllModes
    BY <1>4, QuietNow DEF QuietOld, QuietTypes, AllModes
  <1> QED BY <1>2, <1>3, <1>4, <1>5, KeyModeStep

-----------------------------------------------------------------------------
(* Steps that leave the stack alone.                                       *)

LEMMA LiveIs == ASSUME DataOK PROVE \A r : r \in Live <=> Running(r)
  <1>1. DOMAIN runners = 1..Len(runners)
    BY DEF DataOK
  <1> QED BY <1>1 DEF Live, Running, ToSet
LEMMA LiveIsNext == ASSUME DataOK' PROVE \A r : r \in Live' <=> Running(r)'
  <1>1. DOMAIN runners' = 1..Len(runners')
    BY DEF DataOK
  <1> QED BY <1>1 DEF Live, Running, ToSet

LEMMA SameLists ==
  ASSUME IInv, UNCHANGED <<stack, listVars, plays, input, macros, building>>
  PROVE  /\ ListsOK' /\ CountsAgree' /\ StackOK' /\ InputsOK' /\ LoopsOK'
         /\ PointersOK' /\ RestsOK' /\ BuiltsOK'
  <1>1. UNCHANGED <<stack, started, runners, run, running, plays, input, macros, building>>
    BY DEF listVars, tableVars
  <1>2. \A r : Running(r)' <=> Running(r)
    BY <1>1 DEF Running
  <1>3. Live' = Live
    BY <1>1 DEF Live
  <1>4. ListsOK' /\ CountsAgree'
    BY <1>1, <1>2, <1>3 DEF IInv, ListsOK, CountsAgree
  <1>5. StackOK'
    BY <1>1, <1>2 DEF IInv, StackOK, Shaped, ListsOnce, ToldsOnce, FramesOK, FrameOK
  <1>6. InputsOK' /\ LoopsOK'
    <2>1. Top' = Top
      BY <1>1 DEF Top
    <2>2. InputsOK'
      BY <1>1, <1>2, <2>1 DEF IInv, InputsOK
    <2>3. LoopsOK'
      <3>1. \A f, r : InLoop(f, r)' <=> InLoop(f, r)
        BY <1>1, <1>2 DEF InLoop
      <3> QED BY <1>1, <2>1, <3>1 DEF IInv, LoopsOK
    <2> QED BY <2>2, <2>3
  <1>7. PointersOK'
    BY <1>1, PointersKept DEF IInv
  <1>8. \A r : (OnS(r)' <=> OnS(r)) /\ (Typed(r)' <=> Typed(r))
    BY <1>1 DEF OnS, Typed
  <1>9. \A r \in Serials : Running(r) => RestsNow(r)'
    BY <1>1, <1>8, StillRests DEF IInv, Still
  <1>10. RestsOK'
    BY <1>2, <1>9 DEF RestsOK
  <1>11. BuiltsOK'
    BY <1>1 DEF IInv, BuiltsOK, WaitsForBuild, Comes, Reached
  <1> QED BY <1>4, <1>5, <1>6, <1>7, <1>10, <1>11

LEMMA QueuesSame ==
  ASSUME QueuesOK, UNCHANGED <<stack, fireVars, playVars>>
  PROVE  QueuesOK'
  BY DEF QueuesOK, fireVars, playVars

LEMMA PressInv == ASSUME IInv, NEW id \in Ids, Press(id) PROVE IInv'
  <1>1. UNCHANGED <<stack, listVars, plays, playing, playTimer, input, macros, codeVars, modeVars, enabled>>
    BY DEF Press, playVars, otherVars
  <1>2. /\ ListsOK' /\ CountsAgree' /\ StackOK' /\ InputsOK' /\ LoopsOK'
        /\ PointersOK' /\ RestsOK' /\ BuiltsOK'
    BY <1>1, SameLists DEF codeVars
  <1>3. DataOK'
    <2>1. fires' \in Seq(Ids) /\ fireIdle' \in BOOLEAN
      BY DEF IInv, DataOK, Press
    <2> QED BY <1>1, <2>1 DEF IInv, DataOK, listVars, tableVars, codeVars, modeVars
  <1>4. BuildsOK' /\ OffOK'
    BY <1>1, BuildsKept DEF IInv, codeVars, OffOK, Press
  <1>5. QueuesOK'
    BY <1>1 DEF IInv, QueuesOK, Press
  <1> QED BY <1>2, <1>3, <1>4, <1>5 DEF IInv

LEMMA ActivateInv == ASSUME IInv, Activate PROVE IInv'
  <1>1. /\ UNCHANGED <<stack, listVars, plays, input, macros, codeVars, modeVars>>
        /\ UNCHANGED <<fireVars, playVars>>
    BY DEF Activate, playVars
  <1>2. /\ ListsOK' /\ CountsAgree' /\ StackOK' /\ InputsOK' /\ LoopsOK'
        /\ PointersOK' /\ RestsOK' /\ BuiltsOK'
    BY <1>1, SameLists DEF codeVars
  <1>3. DataOK'
    BY <1>1 DEF IInv, DataOK, listVars, tableVars, codeVars, modeVars, fireVars, playVars, Activate
  <1>4. BuildsOK' /\ OffOK' /\ QueuesOK'
    BY <1>1, BuildsKept, QueuesSame DEF IInv, codeVars, OffOK, Activate
  <1> QED BY <1>2, <1>3, <1>4 DEF IInv

BuildTypes ==
  /\ building \subseteq Keys /\ faulted \subseteq Keys
  /\ compiler \in [Keys -> Builds \cup {NoBuild}]
  /\ posted \in Seq([key : Keys, build : Builds \cup {NoBuild}])
  /\ funcs \in [Keys -> Builds \cup {NoBuild}]

LEMMA BuildsStep ==
  ASSUME IInv, UNCHANGED <<stack, listVars, fireVars, playVars, input, macros, building>>,
         UNCHANGED <<modeVars, enabled>>, BuildTypes', BuildsOK'
  PROVE  IInv'
  <1>2. /\ ListsOK' /\ CountsAgree' /\ StackOK' /\ InputsOK' /\ LoopsOK'
        /\ PointersOK' /\ RestsOK' /\ BuiltsOK'
    BY SameLists DEF playVars
  <1>3. DataOK'
    BY DEF IInv, DataOK, BuildTypes, listVars, tableVars, modeVars, fireVars, playVars
  <1>4. OffOK' /\ QueuesOK'
    BY QueuesSame, OffKept DEF IInv, fireVars, listVars
  <1> QED BY <1>2, <1>3, <1>4 DEF IInv

LEMMA CompilerEndsInv == ASSUME IInv, NEW k \in Keys, CompilerEnds(k) PROVE IInv'
  <1>1. DataOK /\ BuildsOK
    BY DEF IInv
  <1>2. PICK b \in {compiler[k], NoBuild} : posted' = Append(posted, [key |-> k, build |-> b])
    BY DEF CompilerEnds
  <1> DEFINE T == [key : Keys, build : Builds \cup {NoBuild}]
  <1>3. [key |-> k, build |-> b] \in T /\ posted \in Seq(T) /\ [key |-> k, build |-> b].key = k
    BY <1>1 DEF DataOK
  <1>4. /\ posted' \in Seq(T) /\ Len(posted') = Len(posted) + 1
        /\ posted'[Len(posted) + 1].key = k
        /\ \A f \in 1..Len(posted) : posted'[f] = posted[f]
    BY <1>2, <1>3, AppendFacts
  <1>5. BuildTypes'
    BY <1>1, <1>4 DEF DataOK, BuildTypes, CompilerEnds
  <1>6. /\ compiler[k] # NoBuild /\ compiler' = [compiler EXCEPT ![k] = NoBuild]
        /\ compiler \in [Keys -> Builds \cup {NoBuild}]
    BY <1>1 DEF CompilerEnds, DataOK
  <1>7. ~Posted(k)
    BY <1>1, <1>6 DEF BuildsOK
  <1>8. Len(posted) \in Nat /\ \A f \in 1..Len(posted') : f \in 1..Len(posted) \/ f = Len(posted) + 1
    BY <1>3, <1>4
  <1>9. \A f \in 1..Len(posted) : f \in 1..Len(posted')
    BY <1>4, <1>8
  <1>10. Len(posted) + 1 \in 1..Len(posted')
    BY <1>4, <1>8
  <1>11. \A x \in Keys : Posted(x)' <=> Posted(x) \/ x = k
    BY <1>4, <1>8, <1>9, <1>10 DEF Posted
  <1>12. \A p, q \in 1..Len(posted') : posted'[p].key = posted'[q].key => p = q
    BY <1>1, <1>4, <1>7, <1>8 DEF BuildsOK, Posted
  <1>13. BuildsOK'
    <2>1. building' = building
      BY DEF CompilerEnds
    <2> QED BY <1>1, <1>6, <1>11, <1>12, <2>1 DEF BuildsOK
  <1>14. UNCHANGED <<stack, listVars, fireVars, playVars, input, macros, building, modeVars, enabled>>
    BY DEF CompilerEnds
  <1> QED BY <1>5, <1>13, <1>14, BuildsStep

LEMMA ReloadBuilds ==
  ASSUME DataOK, BuildsOK, Reload
  PROVE  BuildTypes' /\ BuildsOK' /\ building' = building
  <1> DEFINE T == [key : Keys, build : Builds \cup {NoBuild}]
  <1>1. /\ posted \in Seq(T) /\ DOMAIN posted = 1..Len(posted) /\ Len(posted) \in Nat
        /\ \A p \in 1..Len(posted) : posted[p] \in T
    <2>1. posted \in Seq(T)
      BY DEF DataOK
    <2> HIDE DEF T
    <2> QED BY <2>1
  <1>2. posted' = [p \in 1..Len(posted) |->
                     [posted[p] EXCEPT !.build = IF @ = "new" THEN "old" ELSE @]]
    BY <1>1 DEF Reload
  <1>3. \A x \in T : [x EXCEPT !.build = IF @ = "new" THEN "old" ELSE @] \in T
                     /\ [x EXCEPT !.build = IF @ = "new" THEN "old" ELSE @].key = x.key
    BY DEF Builds
  <1>4. /\ posted' \in Seq(T) /\ Len(posted') = Len(posted)
        /\ \A p \in 1..Len(posted) : posted'[p].key = posted[p].key
    BY <1>1, <1>2, <1>3
  <1>5. /\ compiler' \in [Keys -> Builds \cup {NoBuild}]
        /\ \A k \in Keys : compiler'[k] = NoBuild <=> compiler[k] = NoBuild
    BY DEF Reload, DataOK, Builds, NoBuild
  <1>6. funcs' \in [Keys -> Builds \cup {NoBuild}] /\ faulted' \subseteq Keys /\ building' = building
    BY DEF Reload, NoBuild
  <1>7. \A k : Posted(k)' <=> Posted(k)
    BY <1>4 DEF Posted
  <1>8. BuildsOK'
    BY <1>4, <1>5, <1>6, <1>7 DEF BuildsOK
  <1>9. BuildTypes'
    BY <1>4, <1>5, <1>6 DEF BuildTypes, DataOK
  <1> QED BY <1>6, <1>8, <1>9

LEMMA ReloadCommandInv == ASSUME IInv, ReloadCommand PROVE IInv'
  <1>1. BuildTypes' /\ BuildsOK' /\ building' = building
    BY ReloadBuilds DEF IInv, ReloadCommand
  <1>2. UNCHANGED <<stack, listVars, fireVars, playVars, input, macros, modeVars, enabled>>
    BY DEF ReloadCommand
  <1> QED BY <1>1, <1>2, BuildsStep

-----------------------------------------------------------------------------
(* All lists end.                                                          *)

LEMMA GoneIsList ==
  Gone \in Lists /\ Gone.may = {} /\ Gone.macro = NoMacro /\ Gone.redo = NoKey
  <1>1. 0 \in 0..(ListLen + HookLen)
    BY HotkeyAssumption DEF HotkeyAssumption
  <1> QED BY <1>1 DEF Gone, Lists

LEMMA Cancelled ==
  ASSUME DataOK, CountsAgree, PointersOK, CancelAll, UNCHANGED <<started, macros>>,
         input' \in {InputWithout(Live), NoHook}
  PROVE  /\ runners' = <<>> /\ (\A r : ~Running(r)') /\ input'.runner = NoRunner
         /\ \A r \in Serials : run'[r] = Gone
         /\ runners' \in Seq(1..started') /\ run' \in [Serials -> Lists] /\ running' \in [Ids -> Int]
         /\ fires' = <<>> /\ fireIdle' = FALSE /\ plays' = <<>> /\ playing' = FALSE /\ playTimer' = FALSE
         /\ input' \in [active : BOOLEAN, runner : Nat, timer : BOOLEAN]
         /\ ListsOK' /\ CountsAgree' /\ PointersOK' /\ RestsOK' /\ BuiltsOK' /\ QueuesOK'
  <1>1. /\ runners' = <<>> /\ fires' = <<>> /\ fireIdle' = FALSE
        /\ plays' = <<>> /\ playing' = FALSE /\ playTimer' = FALSE
        /\ run' = [r \in Serials |-> Gone]
        /\ running' = [i \in Ids |-> running[i] - Cardinality({r \in Live : run[r].id = i})]
    BY DEF CancelAll
  <1>2. Len(<<>>) = 0 /\ \A j \in 1..0 : FALSE
    OBVIOUS
  <1>3. \A r : ~Running(r)'
    BY <1>1, <1>2 DEF Running
  <1>4. run' \in [Serials -> Lists] /\ \A r \in Serials : run'[r] = Gone
    BY <1>1, GoneIsList
  <1>5. running' = [i \in Ids |-> 0]
    <2>1. running \in [Ids -> Int]
      BY DEF DataOK
    <2>2. \A i \in Ids : running[i] - Cardinality({r \in Live : run[r].id = i}) = 0
      BY <2>1 DEF CountsAgree
    <2> QED BY <1>1, <2>2
  <1>6. CountsAgree'
    <2>1. Live' = {}
      BY <1>1 DEF Live, ToSet
    <2>2. \A i : {r \in Live' : run'[r].id = i} = {}
      BY <2>1
    <2> QED BY <1>5, <2>2, FS_EmptySet DEF CountsAgree
  <1>7. ListsOK'
    <2>1. \A r \in Serials : run'[r].redo = NoKey
      BY <1>4, GoneIsList
    <2> QED BY <1>1, <1>2, <1>4, <2>1 DEF ListsOK
  <1>8. /\ input' \in [active : BOOLEAN, runner : Nat, timer : BOOLEAN]
        /\ input'.runner = NoRunner
    <2>1. input \in [active : BOOLEAN, runner : Nat, timer : BOOLEAN] /\ NoRunner \in Nat
      BY DEF DataOK, NoRunner
    <2>2. input.runner # NoRunner => input.runner \in Live
      BY LiveIs DEF PointersOK, HookOK, TypingOK, MacrosOK
    <2>3. CASE input' = NoHook
      BY <2>1, <2>3 DEF NoHook
    <2>4. CASE input' = InputWithout(Live)
      <3>1. (IF input.runner \in Live THEN NoRunner ELSE input.runner) = NoRunner
        BY <2>2
      <3>2. input' = [input EXCEPT !.runner = NoRunner]
        BY <2>4, <3>1 DEF InputWithout
      <3> QED BY <2>1, <3>2
    <2> QED BY <2>3, <2>4
  <1>9. PointersOK'
    <2>1. \A r \in Serials : run'[r].macro = NoMacro
      BY <1>4, GoneIsList
    <2> QED BY <1>1, <1>2, <1>8, <2>1 DEF PointersOK, HookOK, TypingOK, MacrosOK
  <1>10. RestsOK' /\ BuiltsOK' /\ QueuesOK'
    BY <1>1, <1>2, <1>3 DEF RestsOK, BuiltsOK, QueuesOK
  <1>11. runners' \in Seq(1..started')
    BY <1>1
  <1> QED BY <1>1, <1>3, <1>4, <1>5, <1>6, <1>7, <1>8, <1>9, <1>10, <1>11

LEMMA CancelledOff ==
  ASSUME OffOK, \A r \in Serials : run'[r] = Gone, fires' = <<>>
  PROVE  OffOK'
  BY GoneIsList DEF OffOK

\* The event loop: nothing is on the stack.
LEMMA EmptyStack ==
  ASSUME stack' = <<>>
  PROVE  StackOK' /\ InputsOK' /\ LoopsOK' /\ stack' \in Seq(Frames)
  <1>1. Len(stack') = 0 /\ stack' \in Seq(Frames)
    OBVIOUS
  <1> QED BY <1>1, NoPlaces DEF StackOK, Shaped, ListsOnce, ToldsOnce, FramesOK, InputsOK, LoopsOK

LEMMA CancelAtLoop ==
  ASSUME IInv, stack = <<>>, stack' = stack, CancelAll, UNCHANGED <<started, macros, codeVars>>,
         input' \in {InputWithout(Live), NoHook}, UNCHANGED <<keyMode, mode>>,
         modeTimer' \in BOOLEAN, enabled' \in BOOLEAN
  PROVE  IInv'
  <1>1. DataOK /\ CountsAgree /\ PointersOK /\ BuildsOK /\ OffOK
    BY DEF IInv
  <1>2. UNCHANGED <<started, macros>>
    OBVIOUS
  <1>3. /\ runners' = <<>> /\ (\A r : ~Running(r)') /\ input'.runner = NoRunner
        /\ \A r \in Serials : run'[r] = Gone
        /\ runners' \in Seq(1..started') /\ run' \in [Serials -> Lists] /\ running' \in [Ids -> Int]
        /\ fires' = <<>> /\ fireIdle' = FALSE /\ plays' = <<>> /\ playing' = FALSE /\ playTimer' = FALSE
        /\ input' \in [active : BOOLEAN, runner : Nat, timer : BOOLEAN]
        /\ ListsOK' /\ CountsAgree' /\ PointersOK' /\ RestsOK' /\ BuiltsOK' /\ QueuesOK'
    BY <1>1, <1>2, Cancelled
  <1>4. StackOK' /\ InputsOK' /\ LoopsOK' /\ stack' \in Seq(Frames)
    BY EmptyStack
  <1>5. BuildsOK' /\ OffOK'
    <2>1. BuildsOK'
      BY <1>1, BuildsKept DEF codeVars
    <2>2. OffOK'
      BY <1>3, GoneIsList DEF OffOK
    <2> QED BY <2>1, <2>2
  <1>6. DataOK'
    <2>1. fires' \in Seq(Ids) /\ plays' \in Seq([runner : Nat, delays : 0..1])
      BY <1>3
    <2> QED BY <1>1, <1>3, <1>4, <2>1 DEF DataOK, codeVars
  <1> QED BY <1>3, <1>4, <1>5, <1>6 DEF IInv

LEMMA CancelCommandInv == ASSUME IInv, CancelCommand PROVE IInv'
  <1>1. DataOK
    BY DEF IInv
  <1> QED BY <1>1, CancelAtLoop DEF CancelCommand, AtLoop, otherVars, modeVars, DataOK
LEMMA DeactivateInv == ASSUME IInv, Deactivate PROVE IInv'
  BY CancelAtLoop DEF Deactivate, AtLoop

-----------------------------------------------------------------------------
(* A list starts: hk_run_actions().                                        *)

LEMMA LiveFinite ==
  ASSUME DataOK
  PROVE  \A i : IsFiniteSet({r \in Live : run[r].id = i}) /\ Cardinality({r \in Live : run[r].id = i}) \in Nat
  <1>1. MaxStarts \in Nat /\ \A r \in Live : r \in 1..MaxStarts
    BY HotkeyAssumption, LiveIs, RunnersAreStarted DEF HotkeyAssumption, Serials
  <1>2. IsFiniteSet(1..MaxStarts)
    BY <1>1, FS_Interval
  <1>3. \A i : {r \in Live : run[r].id = i} \subseteq 1..MaxStarts
    BY <1>1
  <1> QED BY <1>2, <1>3, FS_Subset, FS_CardinalityType

Starts(id, may, k) ==
  /\ started < MaxStarts /\ k \in 1..(ListLen + HookLen) /\ id \in Ids \cup {NoId} /\ may \subseteq Kinds
  /\ started' = started + 1
  /\ runners' = Append(runners, started + 1)
  /\ run' = [run EXCEPT ![started + 1] = [Gone EXCEPT !.id = id, !.left = k, !.may = may]]
  /\ running' = [i \in Ids |-> running[i] + IF i = id THEN 1 ELSE 0]

LEMMA TableGrows ==
  ASSUME DataOK, ListsOK, CountsAgree, NEW id, NEW may, NEW k, Starts(id, may, k)
  PROVE  /\ started + 1 \in Serials /\ ~Running(started + 1) /\ started + 1 \in Nat
         /\ \A x : Running(x)' <=> Running(x) \/ x = started + 1
         /\ \A x \in Serials : x # started + 1 => run'[x] = run[x]
         /\ LET l == run'[started + 1] IN
              l.may = may /\ l.slot = {} /\ l.macro = NoMacro /\ l.redo = NoKey
         /\ started' \in 0..MaxStarts /\ runners' \in Seq(1..started')
         /\ run' \in [Serials -> Lists] /\ running' \in [Ids -> Int]
         /\ \A j \in 1..Len(runners) : runners'[j] = runners[j]
         /\ Len(runners') = Len(runners) + 1
         /\ ListsOK' /\ CountsAgree'
  <1> DEFINE r == started + 1
             l == [Gone EXCEPT !.id = id, !.left = k, !.may = may]
  <1>1. /\ started \in Nat /\ MaxStarts \in Nat /\ r \in Serials /\ r \in Nat
        /\ r \in 0..MaxStarts /\ started < r
    BY RunnersAreStarted, HotkeyAssumption DEF HotkeyAssumption, Starts, Serials
  <1>2. ~Running(r)
    <2>1. Running(r) => r <= started
      BY RunnersAreStarted
    <2> QED BY <1>1, <2>1
  <1>3. /\ l \in Lists /\ l.may = may /\ l.slot = {} /\ l.macro = NoMacro /\ l.redo = NoKey
        /\ l.id = id /\ l.left = k /\ l.left > 0
    <2>1. k \in 0..(ListLen + HookLen) /\ k > 0 /\ k \in Nat
      BY HotkeyAssumption DEF HotkeyAssumption, Starts
    <2> QED BY <2>1 DEF Gone, Lists, Starts
  <1>4. /\ run \in [Serials -> Lists] /\ running \in [Ids -> Int] /\ runners \in Seq(1..started)
        /\ Len(runners) \in Nat
    BY DEF DataOK
  <1>5. runners' = Append(runners, r) /\ run' = [run EXCEPT ![r] = l] /\ started' = r
    BY DEF Starts
  <1> HIDE DEF l, r
  <1>6. /\ run' \in [Serials -> Lists] /\ run'[r] = l
        /\ \A x \in Serials : x # r => run'[x] = run[x]
    BY <1>1, <1>3, <1>4, <1>5
  <1>7. runners \in Seq(1..r) /\ r \in 1..r
    <2>1. \A x \in 1..started : x \in 1..r
      BY <1>1
    <2> QED BY <1>1, <1>4, <2>1
  <1>8. /\ runners' \in Seq(1..r) /\ Len(runners') = Len(runners) + 1
        /\ runners'[Len(runners) + 1] = r
        /\ \A j \in 1..Len(runners) : runners'[j] = runners[j]
    BY <1>5, <1>7, AppendFacts
  <1>9. /\ \A j \in 1..Len(runners') : j \in 1..Len(runners) \/ j = Len(runners) + 1
        /\ \A j \in 1..Len(runners) : j \in 1..Len(runners')
        /\ Len(runners) + 1 \in 1..Len(runners')
    BY <1>4, <1>8
  <1>10. \A x : Running(x)' <=> Running(x) \/ x = r
    BY <1>8, <1>9 DEF Running
  <1>11. running' \in [Ids -> Int] /\ \A i \in Ids : running'[i] = running[i] + IF i = id THEN 1 ELSE 0
    BY <1>4 DEF Starts
  <1>12. ListsOK'
    <2>1. \A i, j \in 1..Len(runners') : runners'[i] = runners'[j] => i = j
      BY <1>2, <1>8, <1>9 DEF ListsOK, Running
    <2>2. \A x \in Serials : ~Running(x)' => run'[x] = Gone
      BY <1>6, <1>10 DEF ListsOK
    <2>3. \A x \in Serials : run'[x].redo # NoKey => run'[x].left > 0
      BY <1>3, <1>6 DEF ListsOK
    <2> QED BY <2>1, <2>2, <2>3 DEF ListsOK
  <1>13. \A x : x \in Live' <=> x \in Live \/ x = r
    <2>1. DOMAIN runners' = 1..Len(runners')
      BY <1>8
    <2>2. \A x : x \in Live' <=> Running(x)'
      BY <2>1 DEF Live, Running, ToSet
    <2> QED BY <1>10, <2>2, LiveIs
  <1>14. ASSUME NEW i \in Ids PROVE running'[i] = Cardinality({x \in Live' : run'[x].id = i})
    <2> DEFINE A == {x \in Live : run[x].id = i}
    <2>1. IsFiniteSet(A) /\ Cardinality(A) \in Nat /\ running[i] = Cardinality(A)
      BY LiveFinite DEF CountsAgree
    <2>2. r \notin A
      BY <1>2, LiveIs
    <2>3. \A x \in Live : x \in Serials /\ x # r
      BY <1>2, LiveIs, RunnersAreStarted
    <2>4. CASE i = id
      <3>1. {x \in Live' : run'[x].id = i} = A \cup {r}
        BY <1>3, <1>6, <1>13, <2>3, <2>4
      <3>2. Cardinality(A \cup {r}) = Cardinality(A) + 1
        BY <2>1, <2>2, FS_AddElement
      <3> QED BY <1>11, <2>1, <2>4, <3>1, <3>2
    <2>5. CASE i # id
      <3>1. {x \in Live' : run'[x].id = i} = A
        BY <1>3, <1>6, <1>13, <2>3, <2>5
      <3>2. running[i] \in Int /\ running'[i] = running[i] + 0
        BY <1>4, <1>11, <2>5
      <3>3. running'[i] = running[i]
        BY <3>2
      <3> QED BY <2>1, <3>1, <3>3
    <2> QED BY <2>4, <2>5
  <1>15. CountsAgree'
    BY <1>14 DEF CountsAgree
  <1> QED BY <1>1, <1>2, <1>3, <1>5, <1>6, <1>8, <1>10, <1>11, <1>12, <1>15 DEF r

\* A list starts on top of what is kept.
LEMMA StartStep ==
  ASSUME IInv, NEW n, Calm(n), stack = <<>> \/ Top.at \notin OfList \cup {"built", "built next"},
         NEW id, NEW may, NEW k, Starts(id, may, k), enabled \/ "macro" \notin may,
         NEW t \in Seq(Frames), Len(t) > 0, Piled(n, t), Shaped(t), t[Len(t)] = Step(started + 1),
         \A j \in 1..Len(t) : j # Len(t) =>
           t[j].at \notin OfList \cup {"built", "built next", "told"},
         UNCHANGED <<plays, input, macros, codeVars, enabled>>,
         fires' # <<>> => fires # <<>>, QuietTypes', QueuesOK'
  PROVE  IInv'
  <1>0. DataOK /\ StackOK /\ ListsOK /\ CountsAgree
    BY DEF IInv
  <1>1. /\ n \in {Len(stack), Len(stack) - 1} /\ n \in Nat /\ Ordinary(n)
        /\ \A x : OnBelow(n, x) <=> OnS(x)
        /\ Fits(n, t)
    <2>1. stack = <<>> \/ Top.at \notin OfList
      OBVIOUS
    <2> QED BY <1>0, <2>1, CalmFacts
  <1>r. PICK r : r = started + 1
    OBVIOUS
  <1>2. /\ r \in Serials /\ ~Running(r) /\ r \in Nat
        /\ \A x : Running(x)' <=> Running(x) \/ x = r
        /\ \A x \in Serials : x # r => run'[x] = run[x]
        /\ run'[r].may = may /\ run'[r].slot = {} /\ run'[r].macro = NoMacro /\ run'[r].redo = NoKey
        /\ started' \in 0..MaxStarts /\ runners' \in Seq(1..started')
        /\ run' \in [Serials -> Lists] /\ running' \in [Ids -> Int]
        /\ ListsOK' /\ CountsAgree'
    BY <1>0, <1>r, TableGrows
  <1>3. started \in Nat /\ started' = r /\ started <= r /\ ~(r <= started) /\ r # NoRunner
    <2>1. started \in Nat
      BY <1>0, RunnersAreStarted
    <2>2. started' = r
      BY <1>r DEF Starts
    <2> QED BY <1>r, <2>1, <2>2, OneMore DEF NoRunner
  <1>4. Step(r) \in Frames /\ Step(r).at = "step" /\ Step(r).runner = r /\ t[Len(t)] = Step(r)
    BY <1>2, <1>r, FramesAre
  <1>5. Len(t) \in Nat /\ Len(t) \in 1..Len(t)
    BY LastPlace
  <1>6. ~OnS(r)
    <2>1. \A f \in 1..Len(stack) : stack[f].at \in OfList => stack[f].runner <= started
      BY <1>0 DEF StackOK, FramesOK, FrameOK
    <2> QED BY <1>3, <2>1 DEF OnS
  <1>7. \A j \in 1..Len(t) : t[j].at \in OfList => j = Len(t) /\ t[j].runner = r
    BY <1>4
  <1>8. \A j \in 1..Len(t) : t[j].at \notin {"input", "built", "built next", "told"}
    BY <1>4 DEF OfList
  <1>9. StackOK'
    <2>1. Shaped(stack)'
      BY <1>0, <1>1, TurnShape
    <2>2. Fresh(n, t)
      BY <1>1, <1>6, <1>7, <1>8 DEF Fresh
    <2>3. \A x \in Nat : x <= started /\ Running(x)' => Running(x)
      BY <1>2, <1>3
    <2>4. ListsOnce' /\ ToldsOnce'
      BY <1>0, <1>1, <2>2, <2>3, TurnOnce
    <2>5. \A f \in 1..n : \A x \in Nat :
            stack[f].at \in {"step", "input"} /\ stack[f].runner = x /\ x # NoRunner => Running(x)'
      BY <1>1 DEF Ordinary, Special
    <2>6. \A f \in 1..n : stack[f].at = "told" => macros'[stack[f].macro] = "over"
      BY <1>0, <1>1, PlacesOf DEF StackOK, FramesOK, FrameOK
    <2>7. ASSUME NEW j \in 1..Len(t) PROVE FrameOK(t[j])'
      <3>1. CASE j = Len(t)
        <4>1. t[j].runner = r /\ t[j].at = "step"
          BY <1>4, <3>1
        <4>2. Running(r)' /\ r <= started'
          BY <1>2, <1>3, NotLess
        <4>3. Running(t[j].runner)'
          BY <4>1, <4>2
        <4> QED BY <4>1, <4>2, <4>3 DEF FrameOK
      <3>2. CASE j # Len(t)
        BY <1>7, <1>8, <3>2 DEF FrameOK, OfList
      <3> QED BY <3>1, <3>2
    <2>8. started' \in Nat /\ started <= started'
      BY <1>2, <1>3
    <2>9. \A j \in 1..Len(t) : FrameOK(t[j])'
      BY <2>7
    <2>10. FramesOK'
      BY <1>0, <1>1, <2>5, <2>6, <2>8, <2>9, TurnFrames
    <2> QED BY <2>1, <2>4, <2>10 DEF StackOK
  <1>10. Plain'
    BY <1>0, <1>1, <1>8, TurnPlain
  <1>11. InputsOK' /\ LoopsOK'
    BY <1>10, PlainIsOKNext
  <1>12. input.runner # r /\ ~Typed(r)
    BY <1>2, <1>3 DEF IInv, PointersOK, HookOK, TypingOK, Typed
  <1>13. PointersOK'
    <2>1. UNCHANGED <<plays, input, macros>>
      OBVIOUS
    <2>2. MacrosOK'
      <3>1. \A x \in Serials : run'[x].macro # NoMacro => run'[x].macro = run[x].macro
        BY <1>2
      <3> QED BY <2>1, <3>1 DEF IInv, PointersOK, MacrosOK
    <2>3. HookOK'
      <3>1. input.runner # NoRunner => input.runner \in Serials /\ Running(input.runner)
        BY <1>0, RunnersAreStarted DEF IInv, PointersOK, HookOK
      <3>2. input.runner # NoRunner =>
              /\ Running(input.runner)' /\ run'[input.runner].may = run[input.runner].may
              /\ input.active /\ run[input.runner].may \subseteq After["input"]
        BY <1>2, <1>12, <3>1 DEF IInv, PointersOK, HookOK
      <3>3. input' = input
        BY <2>1
      <3> QED BY <3>2, <3>3 DEF HookOK
    <2>4. TypingOK'
      <3>1. \A p \in 1..Len(plays) : plays[p].runner # NoRunner => Running(plays[p].runner)'
        BY <1>2 DEF IInv, PointersOK, TypingOK
      <3>2. plays' = plays
        BY <2>1
      <3> QED BY <3>1, <3>2 DEF IInv, PointersOK, TypingOK
    <2> QED BY <2>2, <2>3, <2>4 DEF PointersOK
  <1>14. RestsOK'
    <2> SUFFICES ASSUME NEW x \in Serials, Running(x)' PROVE RestsNow(x)'
      BY DEF RestsOK
    <2>1. OnS(x)' <=> OnBelow(n, x) \/ OnNew(t, x)
      BY <1>0, <1>1, TurnOnS
    <2>2. OnNew(t, x) <=> x = r
      BY <1>4, <1>5, <1>7 DEF OnNew, OfList
    <2>3. Typed(x)' <=> Typed(x)
      BY DEF Typed
    <2>4. CASE x = r
      <3>1. OnS(x)' /\ ~Typed(x)' /\ ~(input'.runner = x)
        BY <1>12, <2>1, <2>2, <2>3, <2>4
      <3> QED BY <1>2, <2>4, <3>1 DEF RestsNow, Rests
    <2>5. CASE x # r
      <3>1. Running(x) /\ run'[x] = run[x] /\ (OnS(x)' <=> OnS(x))
        BY <1>1, <1>2, <2>1, <2>2, <2>5
      <3>2. Still(x)
        BY <2>3, <3>1 DEF Still
      <3> QED BY <3>1, <3>2, StillRests DEF IInv
    <2> QED BY <2>4, <2>5
  <1>15. DataOK'
    BY <1>0, <1>2 DEF DataOK, QuietTypes, Piled, codeVars
  <1>16. BuiltsOK'
    <2>1. \A f \in 1..Len(stack) : stack[f].at \notin {"built", "built next"}
      BY <1>0, <1>1, PlacesOf DEF Ordinary, Special, Top
    <2>2. ByBuilding
      BY <2>1, PlainBuilds DEF IInv
    <2>3. ASSUME NEW x \in Serials, Running(x)', WaitsForBuild(x)' PROVE run'[x].redo \in building'
      <3>1. x # r
        BY <1>2, <2>3 DEF WaitsForBuild
      <3> QED BY <1>2, <2>2, <2>3, <3>1 DEF ByBuilding, WaitsForBuild, codeVars
    <2>4. ByBuilding'
      BY <2>3 DEF ByBuilding
    <2> QED BY <1>15, <2>4, ByBuildingNext
  <1>17. OffOK' /\ BuildsOK'
    <2>1. BuildsOK'
      BY BuildsKept DEF IInv, codeVars
    <2>2. OffOK'
      BY <1>2 DEF IInv, OffOK
    <2> QED BY <2>1, <2>2
  <1> QED BY <1>2, <1>9, <1>11, <1>13, <1>14, <1>15, <1>16, <1>17 DEF IInv

LEMMA OneOne == \A f, g \in Frames : <<f>> \o <<g>> = <<f, g>>
  <1> SUFFICES ASSUME NEW f \in Frames, NEW g \in Frames PROVE <<f>> \o <<g>> = <<f, g>>
    OBVIOUS
  <1>1. <<f>> \in Seq(Frames) /\ Append(<<f>>, g) = <<f>> \o <<g>>
    BY AppendIsConcat, OneFrame
  <1>2. Append(<<f>>, g) = <<f, g>>
    <2>1. /\ Append(<<f>>, g) \in Seq(Frames) /\ Len(Append(<<f>>, g)) = 2
          /\ Append(<<f>>, g)[2] = g /\ Append(<<f>>, g)[1] = f
      <3>1. PICK s \in Seq(Frames) : s = <<f>> /\ Len(s) = 1 /\ s[1] = f
        BY OneFrame
      <3>2. /\ Append(s, g) \in Seq(Frames) /\ Len(Append(s, g)) = 2
            /\ Append(s, g)[2] = g /\ Append(s, g)[1] = f
        BY <3>1, AppendFacts
      <3> QED BY <3>1, <3>2
    <2>2. <<f, g>> \in Seq(Frames) /\ Len(<<f, g>>) = 2 /\ <<f, g>>[1] = f /\ <<f, g>>[2] = g
      BY TwoFrames
    <2>3. \A i \in 1..2 : i = 1 \/ i = 2
      OBVIOUS
    <2> QED BY <2>1, <2>2, <2>3, SeqEqual
  <1> QED BY <1>1, <1>2
LEMMA AddFrames ==
  ASSUME NEW s \in Seq(Frames), NEW f \in Frames, NEW g \in Frames
  PROVE  /\ s \o <<>> = s
         /\ (s \o <<>>) \o <<g>> = s \o <<g>>
         /\ (s \o <<f>>) \o <<g>> = s \o <<f, g>>
  <1>1. <<f>> \in Seq(Frames) /\ <<g>> \in Seq(Frames) /\ <<f>> \o <<g>> = <<f, g>>
    BY OneFrame, OneOne
  <1>2. s \o <<>> = s
    BY ConcatEmptySeq
  <1>3. (s \o <<f>>) \o <<g>> = s \o (<<f>> \o <<g>>)
    BY <1>1, ConcatAssociative
  <1> QED BY <1>1, <1>2, <1>3

NoListOnTop == stack = <<>> \/ Top.at \notin OfList \cup {"built", "built next"}
IsLength(k) == k \in 0..(ListLen + HookLen)

\* The queues are served, whatever is put on n frames.
ServedOn(n) == \A u \in Seq(Frames) : Piled(n, u) => QueuesOK'
OnTop(below, s, t) == below = s \o t

\* One frame that may return, or none.
Short(t) == t = <<>> \/ \E f \in Frames : Ends(f.at) /\ f.at # "told" /\ t = <<f>>

LEMMA StartListStep ==
  ASSUME IInv, NEW s \in Seq(Frames), Kept(stack, s, Len(s)), Calm(Len(s)),
         NoListOnTop,
         NEW t \in Seq(Frames), Short(t), NEW below, OnTop(below, s, t),
         NEW id \in Ids \cup {NoId}, NEW may \in SUBSET Kinds, NEW k, IsLength(k),
         StartList(id, may, k, below), enabled \/ "macro" \notin may,
         UNCHANGED <<plays, input, macros, codeVars, enabled>>,
         fires' # <<>> => fires # <<>>, QuietTypes',
         ServedOn(Len(s))
  PROVE  IInv'
  <1>1. DataOK
    BY DEF IInv
  <1>2. /\ started \in Nat /\ MaxStarts \in Nat /\ started <= MaxStarts
        /\ started + 1 \in Nat
    BY <1>1, RunnersAreStarted, HotkeyAssumption DEF HotkeyAssumption, IsLength
  <1>3. t \in Seq(Frames) /\ Shaped(t)
        /\ \A j \in 1..Len(t) : t[j].at \notin OfList \cup {"built", "built next", "told"}
    <2>1. CASE t = <<>>
      BY <2>1, NoPlaces, ShapedFacts
    <2>2. ASSUME NEW f \in Frames, Ends(f.at), f.at # "told", t = <<f>>
          PROVE  /\ t \in Seq(Frames) /\ Shaped(t)
                 /\ \A j \in 1..Len(t) : t[j].at \notin OfList \cup {"built", "built next", "told"}
      <3>1. t \in Seq(Frames) /\ Len(t) = 1 /\ t[1] = f /\ Shaped(t)
        BY <2>2, OneFrame, ShapedFacts
      <3>2. f.at \notin OfList \cup {"built", "built next", "told"}
        BY <2>2 DEF Ends, OfList
      <3>3. \A j \in 1..Len(t) : t[j] = f
        BY <3>1
      <3> QED BY <3>1, <3>2, <3>3
    <2> QED BY <2>1, <2>2 DEF Short
  <1>4. CASE stack' = below /\ UNCHANGED listVars
    <2>1. Piled(Len(s), t)
      BY <1>3, <1>4, Join DEF OnTop
    <2> QED BY <1>3, <1>4, <2>1, QuietStep DEF ServedOn, NoListOnTop
  <1>5. CASE /\ k > 0 /\ started # MaxStarts
             /\ started' = started + 1 /\ runners' = Append(runners, started + 1)
             /\ run' = [run EXCEPT ![started + 1] = [Gone EXCEPT !.id = id, !.left = k, !.may = may]]
             /\ running' = [i \in Ids |-> running[i] + IF i = id THEN 1 ELSE 0]
             /\ stack' = below \o <<Step(started + 1)>>
    <2>1. Starts(id, may, k)
      <3>1. started < MaxStarts /\ k \in 1..(ListLen + HookLen)
        BY <1>2, <1>5, HotkeyAssumption DEF HotkeyAssumption, IsLength
      <3> QED BY <1>5, <3>1 DEF Starts
    <2>2. PICK g \in Frames : g = Step(started + 1) /\ g.at = "step"
      <3>1. Step(started + 1) \in Frames /\ Step(started + 1).at = "step"
        BY <1>2, FramesAre
      <3> QED BY <3>1
    <2>3. CASE t = <<>>
      <3>1. stack' = s \o <<g>>
        BY <1>5, <2>2, <2>3, AddFrames DEF OnTop
      <3>2. <<g>> \in Seq(Frames) /\ Len(<<g>>) = 1 /\ <<g>>[1] = g /\ Shaped(<<g>>)
        BY OneFrame, ShapedFacts
      <3>3. PICK u \in Seq(Frames) : u = <<g>>
        BY <3>2
      <3>4. Piled(Len(s), u)
        BY <3>1, <3>3, Join
      <3>5. QueuesOK'
        BY <3>4 DEF ServedOn
      <3>6. Len(u) = 1 /\ u[1] = g /\ Shaped(u) /\ u[Len(u)] = Step(started + 1)
        BY <2>2, <3>2, <3>3
      <3>7. Len(u) > 0 /\ \A j \in 1..Len(u) : j # Len(u) =>
              u[j].at \notin OfList \cup {"built", "built next", "told"}
        BY <3>6
      <3> QED BY <2>1, <3>4, <3>5, <3>6, <3>7, StartStep DEF NoListOnTop
    <2>4. ASSUME NEW f \in Frames, Ends(f.at), f.at # "told", t = <<f>> PROVE IInv'
      <3>1. stack' = s \o <<f, g>>
        BY <1>5, <2>2, <2>4, AddFrames DEF OnTop
      <3>0. f.at \notin Special /\ f.at \notin OfList \cup {"built", "built next", "told"}
        BY <2>4 DEF Ends, Special, OfList
      <3>2. /\ <<f, g>> \in Seq(Frames) /\ Len(<<f, g>>) = 2 /\ <<f, g>>[1] = f /\ <<f, g>>[2] = g
            /\ Shaped(<<f, g>>)
        BY <3>0, TwoFrames, ShapedFacts
      <3>3. PICK u \in Seq(Frames) : u = <<f, g>>
        BY <3>2
      <3>4. Piled(Len(s), u)
        BY <3>1, <3>3, Join
      <3>5. QueuesOK'
        BY <3>4 DEF ServedOn
      <3>6. Len(u) = 2 /\ u[1] = f /\ Shaped(u) /\ u[Len(u)] = Step(started + 1)
        BY <2>2, <3>2, <3>3
      <3>8. Len(u) > 0 /\ \A j \in 1..Len(u) : j # Len(u) => j = 1
        BY <3>6
      <3>7. \A j \in 1..Len(u) : j # Len(u) =>
              u[j].at \notin OfList \cup {"built", "built next", "told"}
        BY <3>0, <3>6, <3>8
      <3> QED BY <2>1, <3>4, <3>5, <3>6, <3>7, <3>8, StartStep DEF NoListOnTop
    <2> QED BY <2>3, <2>4 DEF Short
  <1>6. k > 0 <=> k # 0
    BY HotkeyAssumption DEF HotkeyAssumption, IsLength
  <1> QED BY <1>4, <1>5, <1>6 DEF StartList

LEMMA TopIsFrame ==
  ASSUME DataOK, stack # <<>> PROVE Top \in Frames /\ Len(stack) \in 1..Len(stack) /\ Len(stack) > 0
  <1>1. stack \in Seq(Frames)
    BY DEF DataOK
  <1>2. Len(stack) \in 1..Len(stack) /\ Len(stack) > 0 /\ stack[Len(stack)] \in Frames
    BY <1>1
  <1> QED BY <1>2 DEF Top

LEMMA Lengths == \A k : k \in 1..ListLen \/ k \in 0..HookLen \/ k = 0 => IsLength(k)
  BY HotkeyAssumption DEF HotkeyAssumption, IsLength
LEMMA KindsAre == Acts \in SUBSET Kinds /\ HookActs \in SUBSET Kinds /\ Acts \cap After["oneshot"] \in SUBSET Kinds
  BY HotkeyAssumption DEF HotkeyAssumption
LEMMA WholeStack ==
  ASSUME DataOK, stack # <<>>, Top.at \notin Special \cup {"acted"}
  PROVE  stack \in Seq(Frames) /\ Kept(stack, stack, Len(stack)) /\ Calm(Len(stack)) /\ stack \o <<>> = stack
  <1>1. stack \in Seq(Frames)
    BY DEF DataOK
  <1> QED BY <1>1, KeptSelf, ConcatEmptySeq DEF Calm

LEMMA ServedAsBefore ==
  ASSUME DataOK, QueuesOK, NEW n \in {Len(stack), Len(stack) - 1},
         n = Len(stack) \/ Top \notin {FireLoop, PlayLoop},
         UNCHANGED <<fireVars, playVars>>
  PROVE  ServedOn(n)
  BY QueuesKept DEF ServedOn, playVars

LEMMA TakeFireInv == ASSUME IInv, TakeFire PROVE IInv'
  <1>1. DataOK /\ OffOK /\ QueuesOK /\ QuietOld
    BY QuietNow DEF IInv
  <1>2. stack # <<>> /\ Top = FireLoop /\ FireLoop.at = "fires"
    BY <1>1, TopIs, FramesAre DEF TakeFire
  <1>3. stack \in Seq(Frames) /\ Kept(stack, stack, Len(stack)) /\ Calm(Len(stack)) /\ stack \o <<>> = stack
    BY <1>1, <1>2, WholeStack DEF Special
  <1>4. NoListOnTop
    BY <1>2 DEF NoListOnTop, OfList
  <1>5. /\ fires # <<>> /\ fires' = Tail(fires) /\ UNCHANGED fireIdle /\ UNCHANGED playVars
        /\ UNCHANGED <<input, macros, codeVars, modeVars, enabled>>
    BY DEF TakeFire, otherVars
  <1>6. Tail(fires) \in Seq(Ids) /\ Head(fires) \in Ids
    BY <1>1, <1>5, TailFacts DEF QuietOld, QuietTypes
  <1>7. enabled
    BY <1>1, <1>5 DEF OffOK
  <1>8. QuietTypes'
    BY <1>1, <1>5, <1>6 DEF QuietOld, QuietTypes, playVars, modeVars
  <1>9. ServedOn(Len(stack))
    <2>1. ASSUME NEW u \in Seq(Frames), Piled(Len(stack), u) PROVE QueuesOK'
      <3>1. Awaited(FireLoop)
        BY <1>1, <1>2, StackFacts DEF Awaited, Top
      <3>2. \A x \in {FireLoop, PlayLoop} : Awaited(x) => Awaited(x)'
        BY <1>1, <2>1, LoopsKept
      <3> QED BY <1>1, <1>5, <3>1, <3>2, QueuesFacts, QueuesFactsNext DEF playVars
    <2> QED BY <2>1 DEF ServedOn
  <1>10. UNCHANGED <<plays, input, macros, codeVars, enabled>> /\ (fires' # <<>> => fires # <<>>)
    BY <1>5 DEF playVars
  <1>11. PICK k \in 1..ListLen :
           \/ StartList(Head(fires), Acts, k, stack)
           \/ StartList(Head(fires), Acts \cap After["oneshot"], k, stack \o <<OneShot(keyMode)>>)
    BY DEF TakeFire
  <1>12. Head(fires) \in Ids \cup {NoId} /\ IsLength(k)
    BY <1>6, Lengths
  <1>13. CASE StartList(Head(fires), Acts, k, stack)
    <2>1. <<>> \in Seq(Frames) /\ Short(<<>>) /\ OnTop(stack, stack, <<>>)
      BY <1>3 DEF Short, OnTop
    <2> QED BY <1>3, <1>4, <1>7, <1>8, <1>9, <1>10, <1>12, <1>13, <2>1, KindsAre, StartListStep
  <1>14. CASE StartList(Head(fires), Acts \cap After["oneshot"], k, stack \o <<OneShot(keyMode)>>)
    <2>1. OneShot(keyMode) \in Frames /\ OneShot(keyMode).at = "oneshot"
      BY <1>1, FramesAre DEF QuietOld, QuietTypes
    <2>2. PICK t \in Seq(Frames) : t = <<OneShot(keyMode)>> /\ Short(t)
      BY <2>1, OneFrame DEF Short, Ends
    <2>3. PICK below : below = stack \o <<OneShot(keyMode)>> /\ OnTop(below, stack, t)
      BY <2>2 DEF OnTop
    <2>4. StartList(Head(fires), Acts \cap After["oneshot"], k, below)
      BY <1>14, <2>3
    <2> QED BY <1>3, <1>4, <1>7, <1>8, <1>9, <1>10, <1>12, <2>2, <2>3, <2>4, KindsAre, StartListStep
  <1> QED BY <1>11, <1>13, <1>14

LEMMA TimerFiresInv == ASSUME IInv, NEW id \in Ids, TimerFires(id) PROVE IInv'
  <1>1. DataOK /\ StackOK /\ QueuesOK /\ QuietOld
    BY QuietNow DEF IInv
  <1>2. /\ stack = <<>> /\ enabled /\ UNCHANGED <<fireVars, playVars>>
        /\ UNCHANGED <<input, macros, codeVars, modeVars, enabled>>
    BY DEF TimerFires, AtLoop, otherVars
  <1>3. /\ <<>> \in Seq(Frames) /\ Kept(stack, <<>>, Len(<<>>)) /\ Calm(Len(<<>>))
        /\ Len(<<>>) = Len(stack)
    BY <1>1, <1>2, BelowFacts
  <1>4. ServedOn(Len(<<>>))
    BY <1>1, <1>2, <1>3, ServedAsBefore
  <1>5. NoListOnTop /\ Short(<<>>) /\ OnTop(<<>>, <<>>, <<>>)
    BY <1>2, ConcatEmptySeq DEF NoListOnTop, Short, OnTop
  <1>6. QuietTypes' /\ UNCHANGED <<plays, input, macros, codeVars, enabled>> /\ (fires' # <<>> => fires # <<>>)
    BY <1>1, <1>2 DEF QuietOld, QuietTypes, fireVars, playVars, modeVars
  <1>7. PICK k \in 1..ListLen : StartList(id, Acts, k, <<>>)
    BY DEF TimerFires
  <1>8. id \in Ids \cup {NoId} /\ IsLength(k)
    BY Lengths
  <1> QED BY <1>2, <1>3, <1>4, <1>5, <1>6, <1>7, <1>8, KindsAre, StartListStep

\* A frame turns into another, and a mode's list may start.
LEMMA HookListStep ==
  ASSUME IInv, stack # <<>>, Ends(Top.at), Top \notin {FireLoop, PlayLoop}, "macro" \notin HookActs,
         NEW t \in Seq(Frames), Short(t), NEW k, IsLength(k), StartList(NoId, HookActs, k, Becomes(t)),
         UNCHANGED fireVars, UNCHANGED playVars, UNCHANGED <<input, macros, codeVars, enabled>>,
         keyMode' \in AllModes, mode' \in AllModes, modeTimer' \in BOOLEAN
  PROVE  IInv'
  <1>1. DataOK /\ StackOK /\ QueuesOK /\ QuietOld
    BY QuietNow DEF IInv
  <1>2. PICK s : s = Becomes(<<>>)
    OBVIOUS
  <1>3. /\ s \in Seq(Frames) /\ Kept(stack, s, Len(s)) /\ Calm(Len(s))
        /\ Len(s) = Len(stack) - 1
    BY <1>1, <1>2, BelowFacts
  <1>4. OnTop(Becomes(t), s, t)
    <2>1. stack \in Seq(Frames)
      BY <1>1 DEF DataOK
    <2>2. Front(stack) \in Seq(Frames)
      BY <2>1, KeptFront
    <2>3. s = Front(stack)
      BY <1>2, <2>2, ConcatEmptySeq DEF Becomes
    <2> QED BY <2>3 DEF OnTop, Becomes
  <1>5. ServedOn(Len(s))
    BY <1>1, <1>3, ServedAsBefore
  <1>6. NoListOnTop
    BY DEF NoListOnTop, Ends, OfList
  <1>7. QuietTypes' /\ UNCHANGED <<plays, input, macros, codeVars, enabled>> /\ (fires' # <<>> => fires # <<>>)
    BY <1>1 DEF QuietOld, QuietTypes, fireVars, playVars
  <1>8. NoId \in Ids \cup {NoId}
    OBVIOUS
  <1>9. PICK below : below = Becomes(t)
    OBVIOUS
  <1>10. StartList(NoId, HookActs, k, below) /\ OnTop(below, s, t)
    BY <1>4, <1>9
  <1> QED BY <1>3, <1>5, <1>6, <1>7, <1>8, <1>10, KindsAre, StartListStep

LEMMA ShortFrame ==
  ASSUME NEW f \in Frames, Ends(f.at), f.at # "told"
  PROVE  <<f>> \in Seq(Frames) /\ Short(<<f>>)
  BY OneFrame DEF Short

LEMMA ExitModeInv == ASSUME IInv, Tame, ExitMode PROVE IInv'
  <1>1. DataOK /\ QuietOld
    BY QuietNow DEF IInv
  <1>2. stack # <<>> /\ Top.at = "exit" /\ Last(stack) = Top
    BY <1>1, TopAt DEF ExitMode
  <1>3. Ends(Top.at) /\ Top \notin {FireLoop, PlayLoop}
    BY <1>2, FramesAre DEF Ends
  <1>4. Top.mode \in AllModes
    BY <1>1, <1>2, TopIsFrame, FramesHave
  <1>5. PICK f \in Frames : f = ModeEnter(Top.mode) /\ f.at = "enter"
    BY <1>4, FramesAre
  <1>6. PICK k \in 0..HookLen \cup {0} : StartList(NoId, HookActs, k, Becomes(<<f>>))
    BY <1>2, <1>5 DEF ExitMode
  <1>7. IsLength(k)
    BY Lengths
  <1>8. <<f>> \in Seq(Frames) /\ Short(<<f>>)
    BY <1>5, ShortFrame DEF Ends
  <1>9. /\ UNCHANGED fireVars /\ UNCHANGED playVars /\ UNCHANGED <<input, macros, codeVars, enabled>>
        /\ keyMode' \in AllModes /\ mode' \in AllModes /\ modeTimer' \in BOOLEAN
    BY <1>1 DEF ExitMode, QuietOld, QuietTypes
  <1> QED BY <1>2, <1>3, <1>6, <1>7, <1>8, <1>9, HookListStep DEF Tame

LEMMA EnterModeInv == ASSUME IInv, Tame, EnterMode PROVE IInv'
  <1>1. DataOK /\ QuietOld
    BY QuietNow DEF IInv
  <1>2. stack # <<>> /\ Top.at = "enter" /\ Last(stack) = Top
    BY <1>1, TopAt DEF EnterMode
  <1>3. Ends(Top.at) /\ Top \notin {FireLoop, PlayLoop}
    BY <1>2, FramesAre DEF Ends
  <1>4. Top.mode \in AllModes
    BY <1>1, <1>2, TopIsFrame, FramesHave
  <1>5. /\ UNCHANGED fireVars /\ UNCHANGED playVars /\ UNCHANGED <<input, macros, codeVars, enabled>>
        /\ UNCHANGED <<keyMode, modeTimer>>
        /\ keyMode' \in AllModes /\ mode' \in AllModes /\ modeTimer' \in BOOLEAN
    BY <1>1, <1>2, <1>4 DEF EnterMode, QuietOld, QuietTypes
  <1>6. CASE stack' = Becomes(<<>>) /\ UNCHANGED listVars
    <2>1. stack' = Becomes(<<>>) /\ UNCHANGED keyMode /\ UNCHANGED QuietVars
      BY <1>5, <1>6 DEF QuietVars, playVars
    <2>2. PICK s : s = Becomes(<<>>)
      OBVIOUS
    <2>3. keyMode \in AllModes
      BY <1>1 DEF QuietOld, QuietTypes
    <2> QED BY <1>2, <1>3, <1>5, <2>1, <2>2, <2>3, KeyModeStep
  <1>7. ASSUME NEW k \in 0..HookLen, StartList(NoId, HookActs, k, Becomes(<<ModeEntered>>))
        PROVE  IInv'
    <2>1. <<ModeEntered>> \in Seq(Frames) /\ Short(<<ModeEntered>>)
      BY FramesAre, ShortFrame DEF Ends
    <2>2. IsLength(k)
      BY Lengths
    <2> QED BY <1>2, <1>3, <1>5, <1>7, <2>1, <2>2, HookListStep DEF Tame
  <1> QED BY <1>6, <1>7 DEF EnterMode

-----------------------------------------------------------------------------
(* Steps that change what lists wait for, but none starts or ends.         *)

RunStep ==
  /\ UNCHANGED tableVars /\ run' \in [Serials -> Lists]
  /\ \A x \in Serials :
       /\ run'[x].id = run[x].id
       /\ ~Running(x) => run'[x] = run[x]
       /\ run'[x].redo # NoKey => run'[x].left > 0

\* Types of what is no list.
RestTypes ==
  /\ fires \in Seq(Ids) /\ fireIdle \in BOOLEAN
  /\ plays \in Seq([runner : Nat, delays : 0..1])
  /\ playing \in BOOLEAN /\ playTimer \in BOOLEAN
  /\ input \in [active : BOOLEAN, runner : Nat, timer : BOOLEAN]
  /\ macros \in [Macros -> {"off", "on", "over"}]
  /\ building \subseteq Keys /\ faulted \subseteq Keys
  /\ compiler \in [Keys -> Builds \cup {NoBuild}]
  /\ posted \in Seq([key : Keys, build : Builds \cup {NoBuild}])
  /\ funcs \in [Keys -> Builds \cup {NoBuild}]
  /\ keyMode \in AllModes /\ mode \in AllModes
  /\ modeTimer \in BOOLEAN /\ enabled \in BOOLEAN
LEMMA RestTypesNow == ASSUME DataOK PROVE RestTypes
  BY DEF DataOK, RestTypes
LEMMA DataStep ==
  ASSUME DataOK, RunStep, stack' \in Seq(Frames), RestTypes'
  PROVE  DataOK'
  <1>1. UNCHANGED <<started, runners, running>> /\ run' \in [Serials -> Lists]
    BY DEF RunStep, tableVars
  <1>2. started \in 0..MaxStarts /\ runners \in Seq(1..started) /\ running \in [Ids -> Int]
    BY DEF DataOK
  <1>3. /\ started' \in 0..MaxStarts /\ runners' \in Seq(1..started') /\ running' \in [Ids -> Int]
    BY <1>1, <1>2
  <1> QED BY <1>1, <1>3 DEF DataOK, RestTypes

LEMMA RunStepFacts ==
  ASSUME DataOK, ListsOK, CountsAgree, RunStep
  PROVE  (\A x : Running(x)' <=> Running(x)) /\ ListsOK' /\ CountsAgree' /\ started' = started
         /\ runners' = runners
  <1>1. UNCHANGED <<started, runners, running>>
    BY DEF RunStep, tableVars
  <1>2. \A x : Running(x)' <=> Running(x)
    BY <1>1 DEF Running
  <1>3. ListsOK'
    <2>1. \A x \in Serials : ~Running(x)' => run'[x] = Gone
      BY <1>2 DEF RunStep, ListsOK
    <2> QED BY <1>1, <2>1 DEF ListsOK, RunStep
  <1>4. CountsAgree'
    <2>1. Live' = Live
      BY <1>1 DEF Live
    <2>2. \A x \in Live : x \in Serials
      BY LiveIs, RunnersAreStarted
    <2>3. \A i : {x \in Live' : run'[x].id = i} = {x \in Live : run[x].id = i}
      BY <2>1, <2>2 DEF RunStep
    <2> QED BY <1>1, <2>3 DEF CountsAgree
  <1> QED BY <1>1, <1>2, <1>3, <1>4

ToldKept(n) == \A f \in 1..n : stack[f].at = "told" => macros'[stack[f].macro] = "over"
LEMMA ToldSame == ASSUME DataOK, StackOK, UNCHANGED macros, NEW n \in {Len(stack), Len(stack) - 1}
                  PROVE  ToldKept(n)
  BY PlacesOf DEF StackOK, FramesOK, FrameOK, ToldKept

LEMMA TurnStep ==
  ASSUME DataOK, StackOK, ListsOK, CountsAgree, RunStep,
         NEW n \in {Len(stack), Len(stack) - 1}, NEW t \in Seq(Frames), Piled(n, t), Fits(n, t), Fresh(n, t),
         ToldKept(n), \A j \in 1..Len(t) : FrameOK(t[j])'
  PROVE  StackOK'
  <1>1. (\A x : Running(x)' <=> Running(x)) /\ started' = started
    BY RunStepFacts
  <1>2. Shaped(stack)'
    BY TurnShape
  <1>3. ListsOnce' /\ ToldsOnce'
    BY <1>1, TurnOnce
  <1>4. \A f \in 1..n : \A r \in Nat :
          stack[f].at \in {"step", "input"} /\ stack[f].runner = r /\ r # NoRunner => Running(r)'
    <2>1. \A f \in 1..n : FrameOK(stack[f])
      BY PlacesOf DEF StackOK, FramesOK
    <2> QED BY <1>1, <2>1 DEF FrameOK
  <1>5. started' \in Nat /\ started <= started'
    BY <1>1, RunnersAreStarted, NotLess, Zenon
  <1>6. \A f \in 1..n : stack[f].at = "told" => macros'[stack[f].macro] = "over"
    BY DEF ToldKept
  <1>7. FramesOK'
    BY <1>4, <1>5, <1>6, TurnFrames
  <1> QED BY <1>2, <1>3, <1>7 DEF StackOK

\* Where there are special frames.
LEMMA SpecialAt ==
  ASSUME DataOK, StackOK, NEW f \in 1..Len(stack), stack[f].at \in Special
  PROVE  \/ f = Len(stack)
         \/ /\ f = Len(stack) - 1 /\ stack[f].at \in {"input", "built next"}
            /\ Top.at \in {"step", "acted"}
  BY DEF StackOK, Shaped, Special, Top

\* Builds that lists wait for: no loop of c_built() moves on.
BuiltsStay(n) ==
  /\ building \subseteq building' /\ building' \subseteq Keys
  /\ \A f \in 1..Len(stack) : stack[f].at \in {"built", "built next"} => f \in 1..n
  /\ \A x \in Serials : Running(x) /\ WaitsForBuild(x)' =>
       \/ WaitsForBuild(x) /\ run'[x].redo = run[x].redo
       \/ run'[x].redo \in building'
LEMMA BuiltsStep ==
  ASSUME DataOK, BuiltsOK, NEW n \in {Len(stack), Len(stack) - 1}, NEW t \in Seq(Frames), Piled(n, t),
         BuiltsStay(n), UNCHANGED runners
  PROVE  BuiltsOK'
  <1> SUFFICES ASSUME NEW j \in 1..Len(runners), WaitsForBuild(runners[j])'
               PROVE  run'[runners[j]].redo \in Keys /\ Comes(j)'
    BY DEF BuiltsOK, WaitsForBuild
  <1>1. PICK x : x = runners[j]
    OBVIOUS
  <1>2. x \in Serials /\ Running(x) /\ WaitsForBuild(x)'
    BY <1>1, RunnersAreStarted DEF Running, WaitsForBuild
  <1>3. CASE run'[x].redo \in building'
    BY <1>1, <1>3 DEF BuiltsStay, Comes
  <1>4. CASE WaitsForBuild(x) /\ run'[x].redo = run[x].redo
    <2>1. run[x].redo \in Keys /\ Comes(j)
      BY <1>1, <1>4 DEF BuiltsOK
    <2>2. CASE run[x].redo \in building
      BY <1>1, <1>4, <2>1, <2>2 DEF BuiltsStay, Comes
    <2>3. ASSUME NEW f \in 1..Len(stack), stack[f].at \in {"built", "built next"},
                 stack[f].key = run[x].redo, Reached(f, j)
          PROVE  Comes(j)'
      <3>1. f \in 1..n
        BY <2>3 DEF BuiltsStay
      <3>2. f \in 1..Len(stack') /\ Alike(stack'[f], stack[f])
        BY <3>1, PiledFacts
      <3>3. stack'[f] = stack[f]
        BY <2>3, <3>2 DEF Alike
      <3>4. Reached(f, j)'
        BY <2>3, <3>3 DEF Reached
      <3> QED BY <1>1, <1>4, <2>3, <3>2, <3>3, <3>4 DEF Comes
    <2> QED BY <1>1, <1>4, <2>1, <2>2, <2>3 DEF Comes
  <1> QED BY <1>1, <1>2, <1>3, <1>4 DEF BuiltsStay

LEMMA NoFrames == \A n : Fits(n, <<>>) /\ Fresh(n, <<>>)
  <1>1. PICK t : t = <<>>
    OBVIOUS
  <1>2. Len(t) = 0 /\ Shaped(t)
    BY <1>1, ShapedFacts
  <1>3. \A n : Fits(n, t)
    BY <1>2 DEF Fits
  <1>4. \A n : Fresh(n, t)
    BY <1>2, NoPlaces DEF Fresh
  <1> QED BY <1>1, <1>3, <1>4

\* The list r is on top: it is what runs, or comes back from what it called.
OnTopIs(r) ==
  /\ r \in Serials /\ Running(r) /\ stack # <<>> /\ Top.at \in {"step", "acted"} /\ Top.runner = r
LEMMA OnTopFacts ==
  ASSUME DataOK, StackOK, RestsOK, NEW r, OnTopIs(r)
  PROVE  /\ OnS(r) /\ ~OnBelow(Len(stack) - 1, r)
         /\ \A x : x # r => (OnBelow(Len(stack) - 1, x) <=> OnS(x))
         /\ run[r].slot = {} /\ run[r].macro = NoMacro /\ input.runner # r /\ ~Typed(r)
         /\ r # NoRunner /\ r \in Nat
  <1>1. Top.at \in OfList /\ Top.runner = r /\ Running(r) /\ stack # <<>> /\ r \in Serials
    BY DEF OnTopIs, OfList
  <1>2. OnS(r) /\ ~OnBelow(Len(stack) - 1, r) /\ \A x : x # r => (OnBelow(Len(stack) - 1, x) <=> OnS(x))
    BY <1>1, ListsBelow
  <1>3. RestsNow(r)
    BY <1>1 DEF RestsOK
  <1>4. r # NoRunner /\ r \in Nat
    BY <1>1, RunnersAreStarted DEF NoRunner
  <1> QED BY <1>2, <1>3, <1>4 DEF RestsNow, Rests

OwnChange(r) == RunStep /\ \A x \in Serials : x # r => run'[x] = run[x]
OthersRest(r) ==
  \A x \in Serials : x # r /\ Running(x) /\ (Typed(x)' <=> Typed(x)) => RestsNow(x)'

LEMMA OwnPop ==
  ASSUME DataOK, ListsOK, CountsAgree, StackOK, InputsOK, LoopsOK, RestsOK,
         NEW r, OnTopIs(r), stack' = Becomes(<<>>), OwnChange(r),
         input'.runner = input.runner, ToldKept(Len(stack) - 1)
  PROVE  /\ Piled(Len(stack) - 1, <<>>) /\ StackOK' /\ InputsOK' /\ LoopsOK' /\ ~OnS(r)'
         /\ OthersRest(r)
  <1>1. stack # <<>> /\ <<>> \in Seq(Frames) /\ Len(<<>>) = 0
    BY DEF OnTopIs
  <1>2. PICK n : n = Len(stack) - 1
    OBVIOUS
  <1>3. Piled(n, <<>>) /\ Len(stack) \in Nat \ {0} /\ n \in {Len(stack), Len(stack) - 1}
    BY <1>1, <1>2, Popped
  <1>4. /\ OnS(r) /\ ~OnBelow(n, r) /\ \A x : x # r => (OnBelow(n, x) <=> OnS(x))
    BY <1>2, OnTopFacts
  <1>5. (\A x : Running(x)' <=> Running(x)) /\ started' = started /\ runners' = runners
    BY RunStepFacts DEF OwnChange
  <1>6. /\ n \in Nat /\ Len(stack') = n
        /\ \A f \in 1..n : f \in 1..Len(stack) /\ f \in 1..Len(stack') /\ Alike(stack'[f], stack[f])
    <2>1. Len(stack') = n + Len(<<>>) /\ n \in Nat
      BY <1>1, <1>3, PiledFacts
    <2>2. \A f \in 1..n : f \in 1..Len(stack) /\ f \in 1..Len(stack') /\ Alike(stack'[f], stack[f])
      BY <1>1, <1>3, PiledFacts
    <2> QED BY <1>1, <2>1, <2>2
  <1>7. StackOK'
    <2>1. Fits(n, <<>>)
      BY NoFrames
    <2>2. Fresh(n, <<>>) /\ \A j \in 1..Len(<<>>) : FrameOK(<<>>[j])'
      BY <1>1, NoPlaces DEF Fresh
    <2>3. RunStep /\ ToldKept(n)
      BY <1>2 DEF OwnChange
    <2> QED BY <1>1, <1>3, <2>1, <2>2, <2>3, TurnStep
  <1>8. ASSUME NEW f \in 1..Len(stack'), stack'[f].at \in {"input", "built next"}
        PROVE  /\ f \in 1..Len(stack) /\ stack'[f] = stack[f] /\ f = Len(stack')
               /\ stack[f].at \in OfList => stack[f].runner # r
    <2>1. f \in 1..n /\ f \in 1..Len(stack) /\ stack'[f] = stack[f]
      BY <1>6, <1>8 DEF Alike
    <2>2. f = Len(stack')
      <3>1. f = Len(stack) \/ f = Len(stack) - 1
        BY <1>8, <2>1, SpecialAt DEF Special
      <3> QED BY <1>2, <1>3, <1>6, <2>1, <3>1
    <2>3. stack[f].at \in OfList => stack[f].runner # r
      BY <1>4, <2>1 DEF OnBelow
    <2> QED BY <2>1, <2>2, <2>3
  <1>9. InputsOK'
    <2> SUFFICES ASSUME NEW f \in 1..Len(stack'), stack'[f].at = "input"
                 PROVE  /\ input'.runner = NoRunner /\ f = Len(stack')
                        /\ stack'[f].runner # NoRunner =>
                             HookReady(run'[stack'[f].runner])
      BY DEF InputsOK
    <2>1. /\ f \in 1..Len(stack) /\ stack'[f] = stack[f] /\ f = Len(stack')
          /\ stack[f].at \in OfList /\ stack[f].runner # r /\ stack[f].at = "input"
      BY <1>8 DEF OfList
    <2>2. /\ input.runner = NoRunner
          /\ stack[f].runner # NoRunner => HookReady(run[stack[f].runner])
      BY <2>1 DEF InputsOK
    <2>3. stack[f].runner # NoRunner => stack[f].runner \in Serials
      <3>1. FrameOK(stack[f])
        BY <2>1 DEF StackOK, FramesOK
      <3> QED BY <2>1, <3>1, RunnersAreStarted DEF FrameOK
    <2>4. stack[f].runner # NoRunner => run'[stack[f].runner] = run[stack[f].runner]
      BY <2>1, <2>3 DEF OwnChange
    <2> QED BY <2>1, <2>2, <2>4
  <1>10. LoopsOK'
    BY <1>8 DEF LoopsOK
  <1>11. \A x : OnS(x)' <=> OnBelow(n, x)
    <2>1. \A x : OnS(x)' <=> OnBelow(n, x) \/ OnNew(<<>>, x)
      BY <1>1, <1>3, TurnOnS
    <2> QED BY <1>1, <2>1, NoPlaces DEF OnNew
  <1>12. OthersRest(r)
    <2> SUFFICES ASSUME NEW x \in Serials, x # r, Running(x), Typed(x)' <=> Typed(x)
                 PROVE  RestsNow(x)'
      BY DEF OthersRest
    <2>1. Still(x)
      BY <1>4, <1>11 DEF Still, OwnChange
    <2> QED BY <2>1, StillRests
  <1> QED BY <1>2, <1>3, <1>4, <1>7, <1>9, <1>10, <1>11, <1>12

\* r stays on top, with its step; or what it called comes back to it.
StaysOnTop(r) ==
  /\ Len(stack') = Len(stack)
  /\ \A f \in 1..(Len(stack) - 1) : Alike(stack'[f], stack[f])
  /\ stack'[Len(stack)].at \in {"step", "acted"} /\ stack'[Len(stack)].runner = r
  /\ stack'[Len(stack)].at = "step" \/ \A f \in 1..Len(stack) : stack[f].at # "input"
OwnMay(r) ==
  /\ run'[r].may \subseteq run[r].may
  /\ run'[r].redo = run[r].redo \/ run'[r].may \subseteq After["c"]
  /\ run'[r].slot = run[r].slot /\ run'[r].macro = run[r].macro
AllRest ==
  \A x \in Serials : Running(x) /\ (Typed(x)' <=> Typed(x)) => RestsNow(x)'

LEMMA OwnStay ==
  ASSUME DataOK, ListsOK, CountsAgree, StackOK, InputsOK, LoopsOK, RestsOK,
         NEW r, OnTopIs(r), OwnChange(r), StaysOnTop(r), OwnMay(r),
         input'.runner = input.runner
  PROVE  InputsOK' /\ LoopsOK' /\ AllRest
  <1>1. (\A x : Running(x)' <=> Running(x)) /\ runners' = runners
    BY RunStepFacts DEF OwnChange
  <1>2. /\ OnS(r) /\ ~OnBelow(Len(stack) - 1, r)
        /\ \A x : x # r => (OnBelow(Len(stack) - 1, x) <=> OnS(x))
        /\ run[r].slot = {} /\ run[r].macro = NoMacro /\ input.runner # r /\ ~Typed(r)
    BY OnTopFacts
  <1>3. Len(stack) \in Nat \ {0} /\ Len(stack) \in 1..Len(stack)
    <2>1. stack # <<>>
      BY DEF OnTopIs
    <2> QED BY <2>1, StackFacts
  <1>4. \A f \in 1..Len(stack) : f \in 1..(Len(stack) - 1) \/ f = Len(stack)
    BY <1>3
  <1>5. \A f \in 1..(Len(stack) - 1) : f \in 1..Len(stack) /\ f # Len(stack)
    BY <1>3
  <1>6. /\ Top'.runner = r /\ Len(stack') = Len(stack)
        /\ Top'.at = "step" \/ \A f \in 1..Len(stack) : stack[f].at # "input"
    BY DEF StaysOnTop, Top
  <1>7. ASSUME NEW f \in 1..Len(stack'), stack'[f].at \in {"input", "built next"}
        PROVE  /\ f \in 1..Len(stack) /\ f # Len(stack) /\ stack'[f] = stack[f]
               /\ stack[f].at \in OfList => stack[f].runner # r
    <2>1. f # Len(stack)
      BY <1>7 DEF StaysOnTop
    <2>2. f \in 1..(Len(stack) - 1)
      BY <1>4, <1>6, <2>1
    <2>3. stack'[f] = stack[f]
      BY <1>7, <2>2 DEF StaysOnTop, Alike
    <2> QED BY <1>2, <1>5, <2>2, <2>3 DEF OnBelow
  <1>8. InputsOK'
    <2> SUFFICES ASSUME NEW f \in 1..Len(stack'), stack'[f].at = "input"
                 PROVE  /\ input'.runner = NoRunner /\ Top'.at = "step"
                        /\ run'[Top'.runner].may \subseteq After["input"]
                        /\ stack'[f].runner # NoRunner =>
                             HookReady(run'[stack'[f].runner])
      BY DEF InputsOK
    <2>1. /\ f \in 1..Len(stack) /\ f # Len(stack) /\ stack'[f] = stack[f] /\ stack[f].at = "input"
          /\ stack[f].runner # r
      BY <1>7 DEF OfList
    <2>2. /\ input.runner = NoRunner /\ run[Top.runner].may \subseteq After["input"]
          /\ stack[f].runner # NoRunner => HookReady(run[stack[f].runner])
      BY <2>1 DEF InputsOK
    <2>3. stack[f].runner # NoRunner => run'[stack[f].runner] = run[stack[f].runner]
      <3>1. FrameOK(stack[f])
        BY <2>1 DEF StackOK, FramesOK
      <3> QED BY <2>1, <3>1, RunnersAreStarted DEF FrameOK, OwnChange
    <2>4. run'[r].may \subseteq After["input"]
      BY <2>2 DEF OwnMay, OnTopIs
    <2> QED BY <1>6, <2>1, <2>2, <2>3, <2>4
  <1>9. LoopsOK'
    <2> SUFFICES ASSUME NEW f \in 1..Len(stack'), stack'[f].at = "built next"
                 PROVE  InLoop(stack[f], Top.runner)'
      BY DEF LoopsOK
    <2>1. /\ f \in 1..Len(stack) /\ f # Len(stack) /\ stack'[f] = stack[f] /\ stack[f].at = "built next"
      BY <1>7
    <2>2. InLoop(stack[f], r)
      BY <2>1 DEF LoopsOK, OnTopIs
    <2>3. PICK fr : fr = stack[f]
      OBVIOUS
    <2>4. Running(r)
      BY DEF OnTopIs
    <2>5. InLoop(fr, r)'
      BY <1>1, <2>2, <2>3, <2>4 DEF InLoop, OwnMay
    <2>6. stack'[f] = fr /\ Top'.runner = r
      BY <1>6, <2>1, <2>3
    <2> QED BY <2>5, <2>6 DEF InLoop
  <1>10. \A x : OnS(x)' <=> OnS(x)
    <2> SUFFICES ASSUME NEW x PROVE OnS(x)' <=> OnS(x)
      OBVIOUS
    <2>1. OnS(x)' <=> OnBelow(Len(stack) - 1, x) \/ x = r
      <3>1. ASSUME OnS(x)', x # r PROVE OnBelow(Len(stack) - 1, x)
        <4>1. PICK f \in 1..Len(stack') : stack'[f].at \in OfList /\ stack'[f].runner = x
          BY <3>1 DEF OnS
        <4>2. f \in 1..(Len(stack) - 1)
          BY <1>4, <1>6, <3>1, <4>1 DEF StaysOnTop
        <4>3. stack'[f] = stack[f]
          BY <4>1, <4>2 DEF StaysOnTop, Alike, OfList
        <4> QED BY <4>1, <4>2, <4>3 DEF OnBelow
      <3>2. ASSUME OnBelow(Len(stack) - 1, x) PROVE OnS(x)'
        <4>1. PICK f \in 1..(Len(stack) - 1) : stack[f].at \in OfList /\ stack[f].runner = x
          BY <3>2 DEF OnBelow
        <4>2. stack'[f] = stack[f] /\ f \in 1..Len(stack')
          BY <1>5, <1>6, <4>1 DEF StaysOnTop, Alike, OfList
        <4> QED BY <4>1, <4>2 DEF OnS
      <3>3. OnS(r)'
        BY <1>3, <1>6 DEF OnS, StaysOnTop, OfList
      <3> QED BY <3>1, <3>2, <3>3
    <2> QED BY <1>2, <2>1
  <1>11. AllRest
    <2> SUFFICES ASSUME NEW x \in Serials, Running(x), Typed(x)' <=> Typed(x)
                 PROVE  RestsNow(x)'
      BY DEF AllRest
    <2>1. CASE x # r
      <3>1. Still(x)
        BY <1>10, <2>1 DEF Still, OwnChange
      <3> QED BY <3>1, StillRests
    <2>2. CASE x = r
      <3>1. OnS(x)' /\ ~Typed(x)' /\ ~(input'.runner = x)
        BY <1>2, <1>10, <2>2
      <3> QED BY <1>2, <2>2, <3>1 DEF RestsNow, Rests, OwnMay
    <2> QED BY <2>1, <2>2
  <1> QED BY <1>8, <1>9, <1>11

LEMMA DidFacts ==
  ASSUME NEW l \in Lists, l.left > 0
  PROVE  /\ Did(l) \in Lists /\ Did(l).id = l.id /\ Did(l).may = l.may /\ Did(l).redo = l.redo
         /\ Did(l).slot = l.slot /\ Did(l).macro = l.macro /\ Did(l).waiting = l.waiting
  <1>1. ListLen + HookLen \in Nat
    BY HotkeyAssumption DEF HotkeyAssumption
  <1>2. l.left - 1 \in 0..(ListLen + HookLen)
    BY <1>1 DEF Lists
  <1> QED BY <1>2 DEF Did, Lists

LEMMA ListFacts ==
  ASSUME NEW l \in Lists
  PROVE  /\ \A s \in SUBSET {"timer", "proc", "c"} : \A m \in Macros \cup {NoMacro} :
              LET w == [l EXCEPT !.waiting = TRUE, !.slot = s, !.macro = m] IN
              /\ w \in Lists /\ w.id = l.id /\ w.may = l.may /\ w.redo = l.redo /\ w.left = l.left
              /\ w.waiting /\ w.slot = s /\ w.macro = m
         /\ LET w == [l EXCEPT !.waiting = TRUE] IN
              /\ w \in Lists /\ w.id = l.id /\ w.may = l.may /\ w.redo = l.redo /\ w.left = l.left
              /\ w.waiting /\ w.slot = l.slot /\ w.macro = l.macro
         /\ LET w == [l EXCEPT !.waiting = FALSE] IN
              /\ w \in Lists /\ w.id = l.id /\ w.may = l.may /\ w.redo = l.redo /\ w.left = l.left
              /\ w.slot = l.slot /\ w.macro = l.macro
         /\ LET w == Woken(l) IN
              /\ w \in Lists /\ w.id = l.id /\ w.may = l.may /\ w.redo = l.redo /\ w.left = l.left
              /\ w.slot = {} /\ w.macro = NoMacro
         /\ \A s \in SUBSET Kinds :
              LET w == [l EXCEPT !.redo = NoKey, !.may = @ \cap s] IN
              /\ w \in Lists /\ w.id = l.id /\ w.may = l.may \cap s /\ w.redo = NoKey
              /\ w.slot = l.slot /\ w.macro = l.macro
         /\ \A s \in SUBSET Kinds :
              LET w == [l EXCEPT !.waiting = TRUE, !.may = @ \cap s] IN
              /\ w \in Lists /\ w.id = l.id /\ w.may = l.may \cap s /\ w.redo = l.redo
              /\ w.slot = l.slot /\ w.macro = l.macro /\ w.waiting
         /\ \A k \in Keys :
              LET w == [l EXCEPT !.waiting = TRUE, !.slot = {"c"}, !.redo = k] IN
              /\ w \in Lists /\ w.id = l.id /\ w.may = l.may /\ w.redo = k /\ w.left = l.left
              /\ w.waiting /\ w.slot = {"c"} /\ w.macro = l.macro
  <1>1. {} \subseteq {"timer", "proc", "c"} /\ {"c"} \subseteq {"timer", "proc", "c"}
    OBVIOUS
  <1> QED BY <1>1 DEF Lists, Woken

LEMMA TakesFacts ==
  ASSUME IInv, NEW r \in Serials, NEW kind, Takes(r, kind)
  PROVE  /\ OnTopIs(r) /\ Top = Step(r) /\ Top.at = "step"
         /\ run \in [Serials -> Lists] /\ run[r] \in Lists /\ run[r].left > 0
         /\ run[r].redo = NoKey /\ kind \in run[r].may
  <1>1. DataOK
    BY DEF IInv
  <1>2. stack # <<>> /\ Top = Step(r)
    BY <1>1, TopIs DEF Takes
  <1>3. r \in Nat
    BY HotkeyAssumption DEF HotkeyAssumption, Serials
  <1>4. Step(r).at = "step" /\ Step(r).runner = r
    BY <1>3, FramesAre
  <1>5. Running(r)
    BY <1>1, LiveIs DEF Takes
  <1> QED BY <1>1, <1>2, <1>4, <1>5 DEF OnTopIs, Takes, DataOK

\* Who points at lists, when only the list on top changes.
LEMMA OwnPointers ==
  ASSUME DataOK, ListsOK, CountsAgree, StackOK, RestsOK, PointersOK, NEW r, OnTopIs(r), OwnChange(r),
         UNCHANGED input
  PROVE  HookOK' /\ (UNCHANGED plays => TypingOK')
         /\ (UNCHANGED macros /\ run'[r].macro = NoMacro => MacrosOK')
  <1>1. \A x : Running(x)' <=> Running(x)
    BY RunStepFacts DEF OwnChange
  <1>2. run[r].macro = NoMacro /\ input.runner # r
    BY OnTopFacts
  <1>3. HookOK'
    <2>1. input.runner # NoRunner =>
            /\ Running(input.runner) /\ input.active /\ run[input.runner].may \subseteq After["input"]
            /\ input.runner \in Serials
      BY RunnersAreStarted DEF PointersOK, HookOK
    <2>2. input.runner # NoRunner => run'[input.runner] = run[input.runner]
      BY <1>2, <2>1 DEF OwnChange
    <2>3. PICK x : x = input.runner /\ input'.runner = x /\ input'.active = input.active
      OBVIOUS
    <2> QED BY <1>1, <2>1, <2>2, <2>3 DEF HookOK
  <1>4. ASSUME UNCHANGED plays PROVE TypingOK'
    <2>1. \A p \in 1..Len(plays) : plays[p].runner # NoRunner => Running(plays[p].runner)'
      <3>1. \A p \in 1..Len(plays) : \A x : x = plays[p].runner /\ x # NoRunner => Running(x)'
        BY <1>1 DEF PointersOK, TypingOK
      <3> QED BY <1>4, <3>1
    <2> QED BY <1>4, <2>1 DEF TypingOK, PointersOK
  <1>5. ASSUME UNCHANGED macros, run'[r].macro = NoMacro PROVE MacrosOK'
    <2>1. \A x \in Serials : run'[x].macro = run[x].macro
      BY <1>2, <1>5 DEF OwnChange
    <2> QED BY <1>5, <2>1 DEF MacrosOK, PointersOK
  <1> QED BY <1>3, <1>4, <1>5

LEMMA OwnOff ==
  ASSUME OffOK, NEW r, OwnChange(r), UNCHANGED <<fires, enabled>>,
         run'[r].may \subseteq run[r].may, run'[r].macro = NoMacro \/ enabled
  PROVE  OffOK'
  BY DEF OffOK, OwnChange

LEMMA LoopsKeptByLists ==
  ASSUME IInv, NEW r, OnTopIs(r), NEW n \in {Len(stack), Len(stack) - 1}, NEW t \in Seq(Frames), Piled(n, t),
         UNCHANGED <<fireVars, playing, playTimer>>, plays' # <<>> => plays # <<>>
  PROVE  QueuesOK'
  <1>1. DataOK /\ QueuesOK
    BY DEF IInv
  <1>2. Top \notin {FireLoop, PlayLoop}
    BY FramesAre DEF OnTopIs
  <1> QED BY <1>1, <1>2, QueuesKept

\* A list comes to a wait: it leaves the stack.
LEMMA WaitStep ==
  ASSUME IInv, NEW r, OnTopIs(r), stack' = Becomes(<<>>), OwnChange(r), UNCHANGED input,
         Rests(run'[r], FALSE, FALSE, Typed(r)'), \A x \in Serials : x # r => (Typed(x)' <=> Typed(x)),
         ToldKept(Len(stack) - 1), RestTypes', TypingOK', MacrosOK', BuildsOK', OffOK',
         building \subseteq building',
         WaitsForBuild(r)' => run'[r].redo \in building',
         Piled(Len(stack) - 1, <<>>) => QueuesOK'
  PROVE  IInv'
  <1>1. /\ DataOK /\ ListsOK /\ CountsAgree /\ StackOK /\ InputsOK /\ LoopsOK /\ RestsOK
        /\ PointersOK /\ BuiltsOK
    BY DEF IInv
  <1>2. /\ Piled(Len(stack) - 1, <<>>) /\ StackOK' /\ InputsOK' /\ LoopsOK' /\ ~OnS(r)'
        /\ OthersRest(r)
    BY <1>1, OwnPop
  <1>3. (\A x : Running(x)' <=> Running(x)) /\ ListsOK' /\ CountsAgree' /\ runners' = runners
    BY <1>1, RunStepFacts DEF OwnChange
  <1>4. HookOK'
    BY <1>1, OwnPointers
  <1>5. DataOK'
    BY <1>1, <1>2, DataStep DEF OwnChange, Piled
  <1>6. RestsOK'
    <2> SUFFICES ASSUME NEW x \in Serials, Running(x)' PROVE RestsNow(x)'
      BY DEF RestsOK
    <2>1. CASE x # r
      BY <1>2, <1>3, <2>1 DEF OthersRest
    <2>2. CASE x = r
      <3>1. ~(input'.runner = r)
        BY <1>1, OnTopFacts
      <3>2. PICK a \in BOOLEAN, b \in BOOLEAN, c \in BOOLEAN :
              (a <=> OnS(r)') /\ (b <=> input'.runner = r) /\ (c <=> Typed(r)')
        OBVIOUS
      <3>3. Rests(run'[r], a, b, c)
        BY <1>2, <3>1, <3>2 DEF Rests
      <3> QED BY <2>2, <3>2, <3>3 DEF RestsNow, Rests
    <2> QED BY <2>1, <2>2
  <1>7. BuiltsOK'
    <2>0. PICK n : n = Len(stack) - 1
      OBVIOUS
    <2>1. BuiltsStay(n)
      <3>1. Top.at \notin {"built", "built next"}
        BY DEF OnTopIs
      <3>2. \A f \in 1..Len(stack) : stack[f].at \in {"built", "built next"} => f \in 1..n
        <4>1. \A f \in 1..Len(stack) : f \in 1..n \/ (f = Len(stack) /\ stack # <<>>)
          BY <1>1, <2>0, PlacesOf
        <4> QED BY <3>1, <4>1 DEF Top
      <3>3. \A x \in Serials : x # r => (WaitsForBuild(x)' => WaitsForBuild(x) /\ run'[x].redo = run[x].redo)
        BY DEF WaitsForBuild, OwnChange
      <3> QED BY <3>2, <3>3 DEF BuiltsStay, RestTypes
    <2>2. Piled(n, <<>>) /\ <<>> \in Seq(Frames)
      BY <1>2, <2>0
    <2> QED BY <1>1, <1>3, <2>0, <2>1, <2>2, BuiltsStep
  <1> QED BY <1>2, <1>3, <1>4, <1>5, <1>6, <1>7 DEF IInv, PointersOK

\* A list goes on: it stays on the stack.
LEMMA StayStep ==
  ASSUME IInv, NEW r, OnTopIs(r), OwnChange(r), StaysOnTop(r), OwnMay(r), UNCHANGED <<input, plays, macros>>,
         NEW n \in {Len(stack), Len(stack) - 1}, NEW t \in Seq(Frames), Piled(n, t), StackOK',
         RestTypes', BuildsOK', UNCHANGED building, UNCHANGED <<fireVars, playing, playTimer, enabled>>
  PROVE  IInv'
  <1>1. /\ DataOK /\ ListsOK /\ CountsAgree /\ StackOK /\ InputsOK /\ LoopsOK /\ RestsOK
        /\ PointersOK /\ BuiltsOK /\ OffOK
    BY DEF IInv
  <1>2. InputsOK' /\ LoopsOK' /\ AllRest
    BY <1>1, OwnStay
  <1>3. (\A x : Running(x)' <=> Running(x)) /\ ListsOK' /\ CountsAgree' /\ runners' = runners
    BY <1>1, RunStepFacts DEF OwnChange
  <1>4. run'[r].macro = NoMacro /\ run'[r].slot = {} /\ run'[r].may \subseteq run[r].may
    BY <1>1, OnTopFacts DEF OwnMay
  <1>5. PointersOK'
    BY <1>1, <1>4, OwnPointers DEF PointersOK
  <1>6. DataOK'
    BY <1>1, DataStep DEF OwnChange, Piled
  <1>7. RestsOK'
    <2>1. \A x : Typed(x)' <=> Typed(x)
      BY DEF Typed
    <2> QED BY <1>2, <1>3, <2>1 DEF RestsOK, AllRest
  <1>8. BuiltsOK'
    <2>1. BuiltsStay(n)
      <3>1. Top.at \notin {"built", "built next"}
        BY DEF OnTopIs
      <3>2. \A f \in 1..Len(stack) : stack[f].at \in {"built", "built next"} => f \in 1..n
        <4>1. \A f \in 1..Len(stack) : f \in 1..n \/ (f = Len(stack) /\ stack # <<>>)
          BY <1>1, PlacesOf
        <4> QED BY <3>1, <4>1 DEF Top
      <3>3. \A x \in Serials : x # r => (WaitsForBuild(x)' => WaitsForBuild(x) /\ run'[x].redo = run[x].redo)
        BY DEF WaitsForBuild, OwnChange
      <3>4. ~WaitsForBuild(r)'
        BY <1>4 DEF WaitsForBuild
      <3> QED BY <3>2, <3>3, <3>4 DEF BuiltsStay, RestTypes
    <2> QED BY <1>1, <1>3, <2>1, BuiltsStep
  <1>9. OffOK'
    BY <1>1, <1>4, OwnOff DEF fireVars
  <1>10. QueuesOK'
    BY LoopsKeptByLists
  <1> QED BY <1>2, <1>3, <1>5, <1>6, <1>7, <1>8, <1>9, <1>10 DEF IInv

LEMMA PlacesUnder ==
  ASSUME DataOK, stack # <<>>
  PROVE  /\ Len(stack) \in Nat \ {0}
         /\ \A f \in 1..(Len(stack) - 1) : f \in 1..Len(stack) /\ f # Len(stack)
  BY StackFacts

LEMMA GoesOnStep ==
  ASSUME IInv, NEW r, OnTopIs(r), Top.at = "step", OwnChange(r), OwnMay(r), UNCHANGED <<input, plays, macros>>,
         stack' = stack \/ stack' = Freed(stack, "enter"),
         RestTypes', BuildsOK', UNCHANGED building, UNCHANGED <<fireVars, playing, playTimer, enabled>>
  PROVE  IInv'
  <1>1. DataOK /\ StackOK /\ ListsOK /\ CountsAgree
    BY DEF IInv
  <1>2. PICK n : n = Len(stack)
    OBVIOUS
  <1>3. <<>> \in Seq(Frames) /\ n \in {Len(stack), Len(stack) - 1}
    BY <1>2
  <1>4. Piled(n, <<>>)
    <2>1. CASE stack' = stack
      BY <1>1, <1>2, <2>1, Stays
    <2>2. CASE stack' = Freed(stack, "enter")
      <3>1. stack \in Seq(Frames)
        BY <1>1 DEF DataOK
      <3>2. /\ Freed(stack, "enter") \in Seq(Frames) /\ Len(Freed(stack, "enter")) = Len(stack)
            /\ \A f \in 1..Len(stack) : Alike(Freed(stack, "enter")[f], stack[f])
        BY <3>1, FreedFacts
      <3>3. Freed(stack, "enter") \o <<>> = Freed(stack, "enter")
        BY <3>2, ConcatEmptySeq
      <3>4. stack' = Freed(stack, "enter") \o <<>> /\ Kept(stack, stack, Len(stack))
        BY <2>2, <3>1, <3>3, KeptSelf
      <3> QED BY <1>2, <1>3, <3>1, <3>4, JoinFreed
    <2> QED BY <2>1, <2>2
  <1>5. /\ Len(stack') = Len(stack)
        /\ \A f \in 1..Len(stack) : Alike(stack'[f], stack[f])
    <2>1. Len(<<>>) = 0 /\ n \in Nat
      BY <1>1, <1>2, StackFacts
    <2>2. Len(stack') = n + Len(<<>>)
      BY <1>4 DEF Piled
    <2>3. \A f \in 1..n : Alike(stack'[f], stack[f])
      BY <1>4 DEF Piled, Kept
    <2> QED BY <1>2, <2>1, <2>2, <2>3
  <1>6. StaysOnTop(r)
    <2>1. stack # <<>> /\ Top.at = "step" /\ Top.runner = r
      BY DEF OnTopIs
    <2>2. stack'[Len(stack)] = stack[Len(stack)]
      BY <1>1, <1>5, <2>1, TopIsFrame DEF Alike, Top
    <2>3. \A f \in 1..(Len(stack) - 1) : Alike(stack'[f], stack[f])
      BY <1>1, <1>5, <2>1, PlacesUnder
    <2> QED BY <1>5, <2>1, <2>2, <2>3 DEF StaysOnTop, Top
  <1>7. StackOK'
    <2>1. ToldKept(n) /\ Fits(n, <<>>) /\ Fresh(n, <<>>) /\ RunStep
      BY <1>1, <1>3, ToldSame, NoFrames DEF OwnChange
    <2>2. \A j \in 1..Len(<<>>) : FrameOK(<<>>[j])'
      <3>1. Len(<<>>) = 0
        OBVIOUS
      <3> QED BY <3>1, NoPlaces
    <2> QED BY <1>1, <1>3, <1>4, <2>1, <2>2, TurnStep
  <1> QED BY <1>3, <1>4, <1>6, <1>7, StayStep

LEMMA OwnDid ==
  ASSUME IInv, NEW r \in Serials, run[r] \in Lists, NEW l \in Lists,
         run' = [run EXCEPT ![r] = l], UNCHANGED tableVars,
         l.id = run[r].id, l.redo # NoKey => l.left > 0, Running(r)
  PROVE  OwnChange(r) /\ run'[r] = l
  <1>1. run \in [Serials -> Lists] /\ ListsOK
    BY DEF IInv, DataOK
  <1>2. run' \in [Serials -> Lists] /\ run'[r] = l /\ \A x \in Serials : x # r => run'[x] = run[x]
    BY <1>1
  <1> QED BY <1>1, <1>2 DEF OwnChange, RunStep, ListsOK

\* GoesOn(r): the list is one action shorter.
LEMMA GoesOnInv ==
  ASSUME IInv, NEW r \in Serials, NEW kind, Takes(r, kind), GoesOn(r), UNCHANGED tableVars,
         UNCHANGED <<fireVars, playVars, input, macros, otherVars>>
  PROVE  IInv'
  <1>1. /\ OnTopIs(r) /\ Top.at = "step" /\ run[r] \in Lists /\ run[r].left > 0 /\ run[r].redo = NoKey
    BY TakesFacts
  <1>2. /\ Did(run[r]) \in Lists /\ Did(run[r]).id = run[r].id /\ Did(run[r]).may = run[r].may
        /\ Did(run[r]).redo = run[r].redo
        /\ Did(run[r]).slot = run[r].slot /\ Did(run[r]).macro = run[r].macro
    BY <1>1, DidFacts
  <1>3. OwnChange(r) /\ run'[r] = Did(run[r])
    <2>1. run' = [run EXCEPT ![r] = Did(run[r])] /\ Running(r)
      BY <1>1 DEF GoesOn, OnTopIs
    <2> QED BY <1>1, <1>2, <2>1, OwnDid
  <1>4. OwnMay(r)
    BY <1>2, <1>3 DEF OwnMay
  <1>5. RestTypes' /\ BuildsOK'
    BY RestTypesNow, BuildsKept DEF IInv, RestTypes, fireVars, playVars, otherVars, codeVars, modeVars
  <1>6. stack' = stack /\ UNCHANGED <<input, plays, macros>> /\ UNCHANGED building
        /\ UNCHANGED <<fireVars, playing, playTimer, enabled>>
    BY DEF GoesOn, playVars, otherVars, codeVars
  <1> QED BY <1>1, <1>3, <1>4, <1>5, <1>6, GoesOnStep

Waits(l, s, m) == [l EXCEPT !.waiting = TRUE, !.slot = s, !.macro = m]
LEMMA WaitFacts ==
  ASSUME NEW l \in Lists, NEW s \in SUBSET {"timer", "proc", "c"}, NEW m \in Macros \cup {NoMacro}
  PROVE  /\ Waits(l, s, m) \in Lists /\ Waits(l, s, m).id = l.id /\ Waits(l, s, m).may = l.may
         /\ Waits(l, s, m).redo = l.redo /\ Waits(l, s, m).waiting = TRUE
         /\ Waits(l, s, m).slot = s /\ Waits(l, s, m).macro = m
  BY DEF Lists, Waits

\* WaitsFor(r, s, m)
LEMMA WaitsFacts ==
  ASSUME IInv, NEW r \in Serials, NEW kind, Takes(r, kind), NEW s \in SUBSET {"timer", "proc", "c"},
         NEW m \in Macros \cup {NoMacro}, WaitsFor(r, s, m), UNCHANGED tableVars
  PROVE  /\ OnTopIs(r) /\ Top.at = "step" /\ stack' = Becomes(<<>>) /\ OwnChange(r)
         /\ run'[r].slot = s /\ run'[r].macro = m /\ run'[r].waiting
         /\ run'[r].may = run[r].may /\ run'[r].redo = NoKey
         /\ ~Typed(r) /\ kind \in run[r].may
  <1>1. /\ OnTopIs(r) /\ Top.at = "step" /\ run[r] \in Lists /\ run[r].left > 0 /\ run[r].redo = NoKey
        /\ kind \in run[r].may
    BY TakesFacts
  <1>2. PICK d \in Lists : d = Did(run[r]) /\ d.id = run[r].id /\ d.may = run[r].may /\ d.redo = NoKey
    BY <1>1, DidFacts
  <1>3. PICK w : w = Waits(d, s, m)
    OBVIOUS
  <1>c. /\ w \in Lists /\ w.id = d.id /\ w.may = d.may /\ w.redo = d.redo
        /\ w.waiting = TRUE /\ w.slot = s /\ w.macro = m
    <2>1. Waits(d, s, m) \in Lists
      BY WaitFacts
    <2>2. Waits(d, s, m).id = d.id /\ Waits(d, s, m).may = d.may /\ Waits(d, s, m).redo = d.redo
      BY WaitFacts
    <2>3. Waits(d, s, m).waiting = TRUE
      BY DEF Waits, Lists
    <2>4. Waits(d, s, m).slot = s /\ Waits(d, s, m).macro = m
      BY WaitFacts
    <2> QED BY <1>3, <2>1, <2>2, <2>3, <2>4
  <1>4. run' = [run EXCEPT ![r] = w] /\ stack' = Becomes(<<>>)
    BY <1>2, <1>3 DEF WaitsFor, Waits
  <1>5. OwnChange(r) /\ run'[r] = w
    <2>1. w.id = run[r].id /\ (w.redo # NoKey => w.left > 0) /\ Running(r)
      BY <1>1, <1>2, <1>c DEF OnTopIs
    <2> QED BY <1>1, <1>c, <1>4, <2>1, OwnDid
  <1>6. ~Typed(r)
    BY <1>1, OnTopFacts DEF IInv
  <1> QED BY <1>1, <1>2, <1>c, <1>4, <1>5, <1>6

LEMMA PlainWait ==
  ASSUME IInv, NEW r \in Serials, NEW kind, Takes(r, kind), NEW s \in {{"timer"}, {"proc"}},
         WaitsFor(r, s, NoMacro),
         UNCHANGED <<tableVars, fireVars, playVars, input, macros, otherVars>>
  PROVE  IInv'
  <1>1. s \in SUBSET {"timer", "proc", "c"} /\ NoMacro \in Macros \cup {NoMacro} /\ UNCHANGED tableVars
    OBVIOUS
  <1>2. /\ OnTopIs(r) /\ stack' = Becomes(<<>>) /\ OwnChange(r)
        /\ run'[r].slot = s /\ run'[r].macro = NoMacro /\ run'[r].waiting
        /\ run'[r].may = run[r].may /\ run'[r].redo = NoKey /\ ~Typed(r)
    BY <1>1, WaitsFacts
  <1>3. /\ DataOK /\ ListsOK /\ CountsAgree /\ StackOK /\ RestsOK /\ PointersOK /\ BuildsOK /\ OffOK
    BY DEF IInv
  <1>4. UNCHANGED <<input, plays, macros, fires, enabled, building, compiler, posted>>
        /\ UNCHANGED <<fireVars, playing, playTimer>>
    BY DEF playVars, fireVars, otherVars, codeVars
  <1>5. RestTypes'
    BY <1>3, RestTypesNow DEF RestTypes, fireVars, playVars, otherVars, codeVars, modeVars
  <1>6. TypingOK' /\ MacrosOK'
    BY <1>2, <1>3, <1>4, OwnPointers
  <1>7. BuildsOK' /\ OffOK'
    BY <1>2, <1>3, <1>4, BuildsKept, OwnOff
  <1>8. \A x : Typed(x)' <=> Typed(x)
    BY <1>4 DEF Typed
  <1>9. Rests(run'[r], FALSE, FALSE, Typed(r)')
    <2>1. ~Typed(r)' /\ s \in {{"timer"}, {"proc"}, {"c"}}
      BY <1>2, <1>8
    <2>2. Rests(run'[r], FALSE, FALSE, FALSE)
      BY <1>2, <2>1 DEF Rests
    <2>3. PICK c : c = Typed(r)' /\ c = FALSE
      BY <2>1 DEF Typed
    <2> QED BY <2>2, <2>3
  <1>10. ToldKept(Len(stack) - 1)
    BY <1>3, <1>4, ToldSame
  <1>11. ASSUME Piled(Len(stack) - 1, <<>>) PROVE QueuesOK'
    <2>1. PICK n : n = Len(stack) - 1
      OBVIOUS
    <2>2. PICK t \in Seq(Frames) : t = <<>>
      <3>1. <<>> \in Seq(Frames)
        OBVIOUS
      <3> QED BY <3>1
    <2>3. Piled(n, t) /\ n \in {Len(stack), Len(stack) - 1}
      BY <1>11, <2>1, <2>2
    <2>4. plays' # <<>> => plays # <<>>
      BY <1>4
    <2> QED BY <1>2, <1>4, <2>3, <2>4, LoopsKeptByLists
  <1>12. ~WaitsForBuild(r)'
    BY <1>2 DEF WaitsForBuild
  <1>13. building \subseteq building' /\ UNCHANGED input
    BY <1>4
  <1> QED BY <1>2, <1>5, <1>6, <1>7, <1>8, <1>9, <1>10, <1>11, <1>12, <1>13, WaitStep

LEMMA SleepInv == ASSUME IInv, NEW r \in Serials, Sleep(r) PROVE IInv'
  BY PlainWait DEF Sleep
LEMMA SpawnActionInv == ASSUME IInv, NEW r \in Serials, SpawnAction(r) PROVE IInv'
  <1>1. CASE WaitsFor(r, {"proc"}, NoMacro)
    BY <1>1, PlainWait DEF SpawnAction
  <1>2. CASE GoesOn(r)
    BY <1>2, GoesOnInv DEF SpawnAction
  <1> QED BY <1>1, <1>2 DEF SpawnAction

LEMMA ServedUnder ==
  ASSUME IInv, NEW r, OnTopIs(r), Piled(Len(stack) - 1, <<>>),
         UNCHANGED plays, UNCHANGED <<fireVars, playing, playTimer>>
  PROVE  QueuesOK'
  <1>1. PICK n : n = Len(stack) - 1
    OBVIOUS
  <1>2. PICK t \in Seq(Frames) : t = <<>>
    <2>1. <<>> \in Seq(Frames)
      OBVIOUS
    <2> QED BY <2>1
  <1>3. Piled(n, t) /\ n \in {Len(stack), Len(stack) - 1}
    BY <1>1, <1>2
  <1>4. plays' # <<>> => plays # <<>>
    OBVIOUS
  <1> QED BY <1>3, <1>4, LoopsKeptByLists

LEMMA OneMacro ==
  ASSUME DataOK, MacrosOK, StackOK, NEW r \in Serials, NEW m \in Macros, macros[m] = "off",
         macros' = [macros EXCEPT ![m] = "on"], run'[r].macro = m,
         \A x \in Serials : x # r => run'[x].macro = run[x].macro, stack # <<>>
  PROVE  MacrosOK' /\ macros' \in [Macros -> {"off", "on", "over"}] /\ ToldKept(Len(stack) - 1)
  <1>1. macros \in [Macros -> {"off", "on", "over"}] /\ \A x \in Serials : run[x].macro \in Macros \cup {NoMacro}
    BY DEF DataOK, Lists
  <1>2. /\ macros' \in [Macros -> {"off", "on", "over"}] /\ macros'[m] = "on"
        /\ \A x \in Macros : x # m => macros'[x] = macros[x]
    BY <1>1
  <1>3. \A x \in Serials : run[x].macro # NoMacro => run[x].macro # m /\ macros[run[x].macro] = "on"
    BY DEF MacrosOK
  <1>4. m # NoMacro
    BY HotkeyAssumption DEF HotkeyAssumption
  <1>5. \A x \in Serials : run'[x].macro # NoMacro => macros'[run'[x].macro] = "on"
    BY <1>1, <1>2, <1>3
  <1>6. \A x, y \in Serials : run'[x].macro = run'[y].macro /\ run'[x].macro # NoMacro => x = y
    BY <1>3, <1>4 DEF MacrosOK
  <1>7. MacrosOK'
    BY <1>5, <1>6 DEF MacrosOK
  <1>8. ASSUME NEW f \in 1..(Len(stack) - 1), stack[f].at = "told" PROVE macros'[stack[f].macro] = "over"
    <2>1. f \in 1..Len(stack)
      BY PlacesUnder
    <2>2. FrameOK(stack[f]) /\ stack[f] \in Frames
      BY <2>1, StackFacts DEF StackOK, FramesOK
    <2>3. stack[f].macro \in Macros /\ macros[stack[f].macro] = "over"
      BY <1>8, <2>2, FramesHave DEF FrameOK
    <2> QED BY <1>2, <2>3
  <1> QED BY <1>2, <1>7, <1>8 DEF ToldKept

LEMMA MacroActionInv == ASSUME IInv, NEW r \in Serials, NEW m \in Macros, MacroAction(r, m) PROVE IInv'
  <1>1. CASE UNCHANGED macros /\ GoesOn(r)
    <2>1. Takes(r, "macro") /\ UNCHANGED tableVars /\ UNCHANGED <<fireVars, playVars, input, macros, otherVars>>
      BY <1>1 DEF MacroAction
    <2> QED BY <1>1, <2>1, GoesOnInv
  <1>2. CASE macros[m] = "off" /\ macros' = [macros EXCEPT ![m] = "on"] /\ WaitsFor(r, {}, m)
    <2>1. {} \in SUBSET {"timer", "proc", "c"} /\ m \in Macros \cup {NoMacro} /\ UNCHANGED tableVars
          /\ Takes(r, "macro")
      BY DEF MacroAction
    <2>2. /\ OnTopIs(r) /\ stack' = Becomes(<<>>) /\ OwnChange(r)
          /\ run'[r].slot = {} /\ run'[r].macro = m /\ run'[r].waiting
          /\ run'[r].may = run[r].may /\ run'[r].redo = NoKey /\ ~Typed(r) /\ "macro" \in run[r].may
      BY <1>2, <2>1, WaitsFacts
    <2>3. /\ DataOK /\ ListsOK /\ CountsAgree /\ StackOK /\ RestsOK /\ PointersOK /\ BuildsOK /\ OffOK
          /\ MacrosOK
      BY DEF IInv, PointersOK
    <2>4. UNCHANGED <<input, plays, fires, enabled, building, compiler, posted>>
          /\ UNCHANGED <<fireVars, playing, playTimer>>
      BY DEF MacroAction, playVars, fireVars, otherVars, codeVars
    <2>5. \A x \in Serials : x # r => run'[x].macro = run[x].macro
      BY <2>2 DEF OwnChange
    <2>6. stack # <<>>
      BY <2>2 DEF OnTopIs
    <2>7. MacrosOK' /\ macros' \in [Macros -> {"off", "on", "over"}] /\ ToldKept(Len(stack) - 1)
      BY <1>2, <2>2, <2>3, <2>5, <2>6, OneMacro
    <2>8. RestTypes'
      BY <2>3, <2>7, RestTypesNow DEF RestTypes, fireVars, playVars, otherVars, codeVars, modeVars, MacroAction
    <2>9. TypingOK'
      BY <2>2, <2>3, <2>4, OwnPointers
    <2>10. BuildsOK' /\ OffOK'
      <3>1. enabled
        BY <2>2, <2>3 DEF OffOK
      <3> QED BY <2>2, <2>3, <2>4, <3>1, BuildsKept, OwnOff
    <2>11. \A x : Typed(x)' <=> Typed(x)
      BY <2>4 DEF Typed
    <2>12. Rests(run'[r], FALSE, FALSE, Typed(r)')
      <3>1. ~Typed(r)' /\ m # NoMacro
        BY <2>2, <2>11, HotkeyAssumption DEF HotkeyAssumption
      <3>2. Rests(run'[r], FALSE, FALSE, FALSE)
        BY <2>2, <3>1 DEF Rests
      <3>3. PICK c : c = Typed(r)' /\ c = FALSE
        BY <3>1 DEF Typed
      <3> QED BY <3>2, <3>3
    <2>13. ASSUME Piled(Len(stack) - 1, <<>>) PROVE QueuesOK'
      BY <2>2, <2>4, <2>13, ServedUnder
    <2>14. ~WaitsForBuild(r)'
      BY <2>2 DEF WaitsForBuild
    <2>15. building \subseteq building' /\ UNCHANGED input
      BY <2>4
    <2> QED BY <2>2, <2>7, <2>8, <2>9, <2>10, <2>11, <2>12, <2>13, <2>14, <2>15, WaitStep
  <1> QED BY <1>1, <1>2 DEF MacroAction

LEMMA OneMorePlay ==
  ASSUME IInv, NEW r, OnTopIs(r), OwnChange(r), NEW d \in 0..1,
         plays' = Append(plays, [runner |-> r, delays |-> d])
  PROVE  /\ plays' \in Seq([runner : Nat, delays : 0..1]) /\ TypingOK'
         /\ Typed(r)' /\ \A x \in Serials : x # r => (Typed(x)' <=> Typed(x))
  <1>1. /\ DataOK /\ ListsOK /\ CountsAgree /\ StackOK /\ RestsOK /\ TypingOK
    BY DEF IInv, PointersOK
  <1>2. ~Typed(r) /\ r \in Nat /\ Running(r)
    BY <1>1, OnTopFacts DEF OnTopIs
  <1>3. \A x : Running(x)' <=> Running(x)
    BY <1>1, RunStepFacts DEF OwnChange
  <1> DEFINE T == [runner : Nat, delays : 0..1]
  <1>4. PICK p \in T : p = [runner |-> r, delays |-> d] /\ p.runner = r
    <2>1. [runner |-> r, delays |-> d] \in T /\ [runner |-> r, delays |-> d].runner = r
      BY <1>2
    <2> QED BY <2>1
  <1>5. plays \in Seq(T) /\ plays' = Append(plays, p)
    BY <1>1, <1>4 DEF DataOK
  <1> HIDE DEF T
  <1>6. /\ plays' \in Seq(T) /\ Len(plays') = Len(plays) + 1
        /\ plays'[Len(plays) + 1] = p
        /\ \A f \in 1..Len(plays) : plays'[f] = plays[f]
    BY <1>5, AppendFacts
  <1>7. Len(plays) \in Nat /\ \A f \in 1..Len(plays') : f \in 1..Len(plays) \/ f = Len(plays) + 1
    BY <1>5, <1>6
  <1>8. (\A f \in 1..Len(plays) : f \in 1..Len(plays')) /\ Len(plays) + 1 \in 1..Len(plays')
    BY <1>6, <1>7
  <1>9. \A f \in 1..Len(plays) : plays[f].runner # r
    BY <1>2 DEF Typed
  <1>10. \A f \in 1..Len(plays') : plays'[f].runner # NoRunner => Running(plays[f].runner)'
    <2>1. \A f \in 1..Len(plays') : \A x : x = plays'[f].runner /\ x # NoRunner => Running(x)
      BY <1>1, <1>2, <1>4, <1>6, <1>7 DEF TypingOK
    <2>2. ASSUME NEW f \in 1..Len(plays'), plays'[f].runner # NoRunner PROVE Running(plays[f].runner)'
      <3>1. PICK x : x = plays'[f].runner
        OBVIOUS
      <3>2. Running(x)'
        BY <1>3, <2>1, <2>2, <3>1
      <3> QED BY <3>1, <3>2 DEF Running
    <2> QED BY <2>2
  <1>11. \A f, g \in 1..Len(plays') :
           plays'[f].runner = plays'[g].runner /\ plays'[f].runner # NoRunner => f = g
    BY <1>1, <1>4, <1>6, <1>7, <1>9 DEF TypingOK
  <1>12. TypingOK'
    BY <1>10, <1>11 DEF TypingOK
  <1>13. Typed(r)'
    BY <1>4, <1>6, <1>8 DEF Typed
  <1>14. ASSUME NEW x \in Serials, x # r PROVE Typed(x)' <=> Typed(x)
    BY <1>4, <1>6, <1>7, <1>8, <1>14 DEF Typed
  <1> QED BY <1>6, <1>12, <1>13, <1>14 DEF T

LEMMA SendActionInv == ASSUME IInv, NEW r \in Serials, SendAction(r) PROVE IInv'
  <1>1. CASE UNCHANGED playVars /\ GoesOn(r)
    <2>1. Takes(r, "send") /\ UNCHANGED tableVars /\ UNCHANGED <<fireVars, playVars, input, macros, otherVars>>
      BY <1>1 DEF SendAction
    <2> QED BY <1>1, <2>1, GoesOnInv
  <1>2. ASSUME NEW d \in 0..1, plays' = Append(plays, [runner |-> r, delays |-> d]),
               playing' = TRUE, playTimer' = (playTimer \/ ~playing), WaitsFor(r, {}, NoMacro)
        PROVE  IInv'
    <2>1. {} \in SUBSET {"timer", "proc", "c"} /\ NoMacro \in Macros \cup {NoMacro} /\ UNCHANGED tableVars
          /\ Takes(r, "send")
      BY DEF SendAction
    <2>2. /\ OnTopIs(r) /\ stack' = Becomes(<<>>) /\ OwnChange(r)
          /\ run'[r].slot = {} /\ run'[r].macro = NoMacro /\ run'[r].waiting
          /\ run'[r].may = run[r].may /\ run'[r].redo = NoKey
      BY <1>2, <2>1, WaitsFacts
    <2>3. /\ DataOK /\ ListsOK /\ CountsAgree /\ StackOK /\ RestsOK /\ PointersOK /\ BuildsOK /\ OffOK
          /\ QueuesOK
      BY DEF IInv
    <2>4. UNCHANGED <<input, macros, fires, fireIdle, enabled, building, compiler, posted>>
      BY DEF SendAction, fireVars, otherVars, codeVars
    <2>5. /\ plays' \in Seq([runner : Nat, delays : 0..1]) /\ TypingOK'
          /\ Typed(r)' /\ \A x \in Serials : x # r => (Typed(x)' <=> Typed(x))
      BY <1>2, <2>2, OneMorePlay
    <2>6. RestTypes'
      BY <1>2, <2>3, <2>5, RestTypesNow DEF RestTypes, fireVars, otherVars, codeVars, modeVars, SendAction
    <2>7. MacrosOK'
      BY <2>2, <2>3, <2>4, OwnPointers
    <2>8. BuildsOK' /\ OffOK'
      BY <2>2, <2>3, <2>4, BuildsKept, OwnOff
    <2>9. Rests(run'[r], FALSE, FALSE, Typed(r)')
      <3>1. Rests(run'[r], FALSE, FALSE, TRUE)
        BY <2>2 DEF Rests
      <3>2. PICK c : c = Typed(r)' /\ c = TRUE
        BY <2>5 DEF Typed
      <3> QED BY <3>1, <3>2
    <2>10. ToldKept(Len(stack) - 1)
      BY <2>3, <2>4, ToldSame
    <2>11. ASSUME Piled(Len(stack) - 1, <<>>) PROVE QueuesOK'
      <3>1. Top.at # "fires" /\ Top.at # "plays" /\ stack # <<>>
        BY <2>2 DEF OnTopIs
      <3>2. /\ Awaited(FireLoop) => Awaited(FireLoop)'
            /\ Awaited(PlayLoop) => Awaited(PlayLoop)'
        BY <2>3, <2>11, <3>1, AwaitedLoops
      <3> QED BY <1>2, <2>3, <2>4, <3>2, QueuesFacts, QueuesFactsNext
    <2>12. ~WaitsForBuild(r)'
      BY <2>2 DEF WaitsForBuild
    <2>13. building \subseteq building' /\ UNCHANGED input
      BY <2>4
    <2> QED BY <2>2, <2>5, <2>6, <2>7, <2>8, <2>9, <2>10, <2>11, <2>12, <2>13, WaitStep
  <1> QED BY <1>1, <1>2 DEF SendAction

\* c_action()
Redoes(l, k) == [l EXCEPT !.waiting = TRUE, !.slot = {"c"}, !.redo = k]
LEMMA CFacts ==
  ASSUME NEW l \in Lists, l.left > 0, NEW k \in Keys
  PROVE  /\ Called(l) \in Lists /\ Called(l).id = l.id /\ Called(l).may = l.may \cap After["c"]
         /\ Called(l).redo = NoKey /\ Called(l).slot = l.slot /\ Called(l).macro = l.macro
         /\ Redoes(l, k) \in Lists /\ Redoes(l, k).id = l.id /\ Redoes(l, k).may = l.may
         /\ Redoes(l, k).redo = k /\ Redoes(l, k).slot = {"c"} /\ Redoes(l, k).macro = l.macro
         /\ Redoes(l, k).waiting = TRUE /\ Redoes(l, k).left = l.left
  <1>1. ListLen + HookLen \in Nat
    BY HotkeyAssumption DEF HotkeyAssumption
  <1>2. l.left - 1 \in 0..(ListLen + HookLen)
    BY <1>1 DEF Lists
  <1>3. {"c"} \subseteq {"timer", "proc", "c"}
    OBVIOUS
  <1> QED BY <1>2, <1>3 DEF Lists, Did, Called, Redoes

LEMMA CTakes ==
  ASSUME IInv, NEW r \in Serials, NEW k \in Keys, CAction(r, k)
  PROVE  OnTopIs(r) /\ Top.at = "step" /\ run \in [Serials -> Lists] /\ run[r] \in Lists /\ run[r].left > 0
  <1>1. CASE Takes(r, "c")
    BY <1>1, TakesFacts
  <1>2. CASE At(Step(r)) /\ r \in Live /\ run[r].redo = k
    <2>1. DataOK /\ ListsOK
      BY DEF IInv
    <2>2. stack # <<>> /\ Top = Step(r)
      BY <1>2, <2>1, TopIs
    <2>3. r \in Nat
      BY HotkeyAssumption DEF HotkeyAssumption, Serials
    <2>4. Step(r).at = "step" /\ Step(r).runner = r
      BY <2>3, FramesAre
    <2>5. Running(r)
      BY <1>2, <2>1, LiveIs
    <2>6. run[r].left > 0
      BY <1>2, <2>1, HotkeyAssumption DEF ListsOK, HotkeyAssumption
    <2> QED BY <2>1, <2>2, <2>4, <2>5, <2>6 DEF OnTopIs, DataOK
  <1> QED BY <1>1, <1>2 DEF CAction

LEMMA CallsInv ==
  ASSUME IInv, NEW r \in Serials, NEW k \in Keys, CAction(r, k), CallsFunc(r, k) \/ HeldBack(r, k)
  PROVE  IInv'
  <1>1. OnTopIs(r) /\ Top.at = "step" /\ run \in [Serials -> Lists] /\ run[r] \in Lists /\ run[r].left > 0
    BY CTakes
  <1>2. PICK w \in Lists : /\ w = Called(run[r]) /\ w.id = run[r].id /\ w.may = run[r].may \cap After["c"]
                           /\ w.redo = NoKey /\ w.slot = run[r].slot /\ w.macro = run[r].macro
    BY <1>1, CFacts
  <1>3. run' = [run EXCEPT ![r] = w] /\ UNCHANGED tableVars /\ stack' = stack
    BY <1>2 DEF CallsFunc, HeldBack, CAction
  <1>4. OwnChange(r) /\ run'[r] = w
    <2>1. Running(r) /\ (w.redo # NoKey => w.left > 0)
      BY <1>1, <1>2 DEF OnTopIs
    <2> QED BY <1>1, <1>2, <1>3, <2>1, OwnDid
  <1>5. OwnMay(r)
    BY <1>2, <1>4 DEF OwnMay
  <1>6. /\ UNCHANGED <<input, plays, macros>> /\ UNCHANGED building /\ UNCHANGED <<compiler, posted>>
        /\ UNCHANGED <<fireVars, playing, playTimer, enabled>>
    BY DEF CAction, CallsFunc, HeldBack, playVars
  <1>7. BuildsOK' /\ RestTypes'
    <2>1. DataOK /\ BuildsOK
      BY DEF IInv
    <2>2. faulted' \subseteq Keys
      BY <2>1 DEF DataOK, CallsFunc, HeldBack
    <2>3. BuildsOK'
      BY <1>6, <2>1, BuildsKept
    <2> QED BY <1>6, <2>1, <2>2, <2>3, RestTypesNow DEF RestTypes, CAction, fireVars, playVars, modeVars
  <1> QED BY <1>1, <1>3, <1>4, <1>5, <1>6, <1>7, GoesOnStep

LEMMA BuildBegins ==
  ASSUME BuildsOK, DataOK, NEW k \in Keys, building' = building \cup {k}, posted' = posted,
         compiler' = IF k \in building THEN compiler ELSE [compiler EXCEPT ![k] = "new"]
  PROVE  BuildsOK' /\ building' \subseteq Keys /\ compiler' \in [Keys -> Builds \cup {NoBuild}]
  <1>1. /\ compiler \in [Keys -> Builds \cup {NoBuild}] /\ building \subseteq Keys
        /\ "new" \in Builds /\ "new" # NoBuild
    BY DEF DataOK, Builds, NoBuild
  <1>2. \A x : Posted(x)' <=> Posted(x)
    BY DEF Posted
  <1>3. CASE k \in building
    <2>1. building' = building /\ compiler' = compiler
      BY <1>3
    <2> QED BY <1>1, <2>1, BuildsKept
  <1>4. CASE k \notin building
    <2>1. /\ compiler' \in [Keys -> Builds \cup {NoBuild}] /\ compiler'[k] = "new"
          /\ \A x \in Keys : x # k => compiler'[x] = compiler[x]
      BY <1>1, <1>4
    <2>2. ~Posted(k)
      BY <1>4 DEF BuildsOK
    <2>3. \A x \in Keys : x \in building' <=> compiler'[x] # NoBuild \/ Posted(x)'
      BY <1>1, <1>2, <2>1 DEF BuildsOK
    <2>4. \A x \in Keys : Posted(x)' => compiler'[x] = NoBuild
      BY <1>2, <2>1, <2>2 DEF BuildsOK
    <2> QED BY <1>1, <2>1, <2>3, <2>4 DEF BuildsOK
  <1> QED BY <1>3, <1>4

LEMMA NeedsBuildInv ==
  ASSUME IInv, NEW r \in Serials, NEW k \in Keys, CAction(r, k), NeedsBuild(r, k)
  PROVE  IInv'
  <1>1. OnTopIs(r) /\ Top.at = "step" /\ run \in [Serials -> Lists] /\ run[r] \in Lists /\ run[r].left > 0
    BY CTakes
  <1>2. PICK w \in Lists : /\ w = Redoes(run[r], k) /\ w.id = run[r].id /\ w.may = run[r].may
                           /\ w.redo = k /\ w.slot = {"c"} /\ w.macro = run[r].macro
                           /\ w.left = run[r].left
    <2>1. /\ Redoes(run[r], k) \in Lists /\ Redoes(run[r], k).id = run[r].id
          /\ Redoes(run[r], k).may = run[r].may
          /\ Redoes(run[r], k).redo = k /\ Redoes(run[r], k).slot = {"c"}
          /\ Redoes(run[r], k).macro = run[r].macro /\ Redoes(run[r], k).left = run[r].left
      BY <1>1, CFacts
    <2> QED BY <2>1
  <1>w. w.waiting
    BY <1>1, <1>2 DEF Redoes, Lists
  <1>3. run' = [run EXCEPT ![r] = w] /\ UNCHANGED tableVars /\ stack' = Becomes(<<>>)
    BY <1>2 DEF NeedsBuild, Redoes, CAction
  <1>4. OwnChange(r) /\ run'[r] = w
    <2>1. Running(r) /\ (w.redo # NoKey => w.left > 0)
      BY <1>1, <1>2 DEF OnTopIs
    <2> QED BY <1>1, <1>2, <1>3, <2>1, OwnDid
  <1>5. /\ DataOK /\ ListsOK /\ CountsAgree /\ StackOK /\ RestsOK /\ PointersOK /\ BuildsOK /\ OffOK
    BY DEF IInv
  <1>6. /\ UNCHANGED <<input, plays, macros, fires, enabled>> /\ UNCHANGED <<fireVars, playing, playTimer>>
    BY DEF CAction, playVars, fireVars
  <1>7. BuildsOK' /\ building' \subseteq Keys /\ compiler' \in [Keys -> Builds \cup {NoBuild}]
        /\ building \subseteq building' /\ k \in building'
    <2>1. BuildsOK' /\ building' \subseteq Keys /\ compiler' \in [Keys -> Builds \cup {NoBuild}]
      BY <1>5, BuildBegins DEF NeedsBuild, CAction
    <2> QED BY <2>1 DEF NeedsBuild
  <1>8. RestTypes'
    BY <1>5, <1>6, <1>7, RestTypesNow DEF RestTypes, CAction, NeedsBuild, fireVars, playVars, modeVars
  <1>9. run[r].macro = NoMacro /\ ~Typed(r)
    BY <1>1, <1>5, OnTopFacts
  <1>10. TypingOK' /\ MacrosOK'
    BY <1>1, <1>2, <1>4, <1>5, <1>6, <1>9, OwnPointers
  <1>11. OffOK'
    BY <1>2, <1>4, <1>5, <1>6, <1>9, OwnOff
  <1>12. \A x : Typed(x)' <=> Typed(x)
    BY <1>6 DEF Typed
  <1>13. Rests(run'[r], FALSE, FALSE, Typed(r)')
    <2>1. Rests(run'[r], FALSE, FALSE, FALSE)
      BY <1>2, <1>w, <1>4, <1>9 DEF Rests
    <2>2. PICK c : c = Typed(r)' /\ c = FALSE
      BY <1>9, <1>12 DEF Typed
    <2> QED BY <2>1, <2>2
  <1>14. ToldKept(Len(stack) - 1)
    BY <1>5, <1>6, ToldSame
  <1>15. ASSUME Piled(Len(stack) - 1, <<>>) PROVE QueuesOK'
    BY <1>1, <1>6, <1>15, ServedUnder
  <1>16. run'[r].redo \in building'
    BY <1>2, <1>4, <1>7
  <1> QED BY <1>1, <1>3, <1>4, <1>6, <1>7, <1>8, <1>10, <1>11, <1>12, <1>13, <1>14, <1>15, <1>16, WaitStep

LEMMA CActionInv == ASSUME IInv, NEW r \in Serials, NEW k \in Keys, CAction(r, k) PROVE IInv'
  BY CallsInv, NeedsBuildInv DEF CAction

LEMMA ReloadActionInv == ASSUME IInv, NEW r \in Serials, ReloadAction(r) PROVE IInv'
  <1>1. Takes(r, "reload") /\ Reload /\ UNCHANGED tableVars /\ stack' = Freed(stack, "enter")
    BY DEF ReloadAction
  <1>2. /\ OnTopIs(r) /\ Top.at = "step" /\ run[r] \in Lists /\ run[r].left > 0 /\ run[r].redo = NoKey
    BY <1>1, TakesFacts
  <1>3. PICK d \in Lists : /\ d = Did(run[r]) /\ d.id = run[r].id /\ d.may = run[r].may
                           /\ d.redo = run[r].redo /\ d.slot = run[r].slot /\ d.macro = run[r].macro
    BY <1>2, DidFacts
  <1>4. OwnChange(r) /\ run'[r] = d
    <2>1. run' = [run EXCEPT ![r] = d] /\ Running(r)
      BY <1>2, <1>3 DEF ReloadAction, OnTopIs
    <2> QED BY <1>1, <1>2, <1>3, <2>1, OwnDid
  <1>5. OwnMay(r)
    BY <1>3, <1>4 DEF OwnMay
  <1>6. BuildTypes' /\ BuildsOK' /\ building' = building
    BY <1>1, ReloadBuilds DEF IInv
  <1>7. /\ UNCHANGED <<input, plays, macros>> /\ UNCHANGED building
        /\ UNCHANGED <<fireVars, playing, playTimer, enabled>>
    BY <1>6 DEF ReloadAction, playVars
  <1>8. RestTypes'
    BY <1>6, RestTypesNow DEF IInv, RestTypes, BuildTypes, ReloadAction, fireVars, playVars, modeVars
  <1> QED BY <1>1, <1>2, <1>4, <1>5, <1>6, <1>7, <1>8, GoesOnStep

LEMMA OneOnTop ==
  ASSUME DataOK, stack # <<>>, NEW f \in Frames, stack' = Becomes(<<f>>)
  PROVE  /\ <<f>> \in Seq(Frames) /\ Len(<<f>>) = 1 /\ <<f>>[1] = f
         /\ Piled(Len(stack) - 1, <<f>>) /\ Len(stack') = Len(stack) /\ stack'[Len(stack)] = f
         /\ \A g \in 1..(Len(stack) - 1) : Alike(stack'[g], stack[g])
         /\ Len(stack) \in Nat \ {0}
  <1>1. <<f>> \in Seq(Frames) /\ Len(<<f>>) = 1 /\ <<f>>[1] = f
    BY OneFrame
  <1>2. PICK n : n = Len(stack) - 1
    OBVIOUS
  <1>3. Piled(n, <<f>>) /\ Len(stack) \in Nat \ {0}
    BY <1>1, <1>2, Popped
  <1>4. Len(stack') = n + Len(<<f>>) /\ \A j \in 1..Len(<<f>>) : stack'[n + j] = <<f>>[j]
    BY <1>3 DEF Piled
  <1>5. n + 1 = Len(stack) /\ 1 \in 1..1
    BY <1>2, <1>3
  <1>6. Len(stack') = Len(stack) /\ stack'[Len(stack)] = f
    BY <1>1, <1>4, <1>5
  <1> QED BY <1>1, <1>2, <1>3, <1>6 DEF Piled, Kept

\* r stays on top as a frame of its own.
LEMMA OwnFrame ==
  ASSUME IInv, NEW r, OnTopIs(r), OwnChange(r), OwnMay(r), UNCHANGED <<input, plays, macros>>,
         NEW f \in {Step(r), Acted(r)}, stack' = Becomes(<<f>>),
         f = Step(r) \/ \A g \in 1..Len(stack) : stack[g].at # "input",
         RestTypes', BuildsOK', UNCHANGED building, UNCHANGED <<fireVars, playing, playTimer, enabled>>
  PROVE  IInv'
  <1>1. /\ DataOK /\ ListsOK /\ CountsAgree /\ StackOK /\ RestsOK
    BY DEF IInv
  <1>2. /\ OnS(r) /\ ~OnBelow(Len(stack) - 1, r) /\ r \in Nat /\ Running(r) /\ stack # <<>>
    BY <1>1, OnTopFacts DEF OnTopIs
  <1>3. f \in Frames /\ f.at \in {"step", "acted"} /\ f.runner = r /\ (f = Step(r) => f.at = "step")
    <2>1. CASE f = Step(r)
      BY <1>2, <2>1, FramesAre
    <2>2. CASE f = Acted(r) /\ f # Step(r)
      BY <1>2, <2>2, FramesAre
    <2> QED BY <2>1, <2>2
  <1>4. PICK n : n = Len(stack) - 1
    OBVIOUS
  <1>5. /\ <<f>> \in Seq(Frames) /\ Len(<<f>>) = 1 /\ <<f>>[1] = f
        /\ Piled(Len(stack) - 1, <<f>>) /\ Len(stack') = Len(stack) /\ stack'[Len(stack)] = f
        /\ \A g \in 1..(Len(stack) - 1) : Alike(stack'[g], stack[g])
    BY <1>1, <1>2, <1>3, OneOnTop
  <1>6. StaysOnTop(r)
    BY <1>3, <1>5 DEF StaysOnTop
  <1>7. PICK t \in Seq(Frames) : t = <<f>> /\ Len(t) = 1 /\ t[1] = f /\ Piled(n, t)
    BY <1>4, <1>5
  <1>8. (\A x : Running(x)' <=> Running(x)) /\ started' = started
    BY <1>1, RunStepFacts DEF OwnChange
  <1>9. StackOK'
    <2>1. Shaped(t) /\ \A j \in 1..Len(t) : j = 1
      <3>1. Shaped(t)
        BY <1>3, <1>7, ShapedFacts
      <3>2. \A j \in 1..1 : j = 1
        OBVIOUS
      <3> QED BY <1>7, <3>1, <3>2
    <2>2. n # Len(stack)
      BY <1>2, <1>4, StackFacts, <1>1
    <2>3. Fits(n, t)
      BY <1>3, <1>7, <2>1, <2>2 DEF Fits
    <2>4. Fresh(n, t)
      BY <1>2, <1>3, <1>4, <1>7, <2>1 DEF Fresh
    <2>5. FrameOK(f)'
      <3>1. r <= started
        BY <1>1, <1>2, RunnersAreStarted
      <3> QED BY <1>2, <1>3, <1>8, <3>1 DEF FrameOK
    <2>6. \A j \in 1..Len(t) : FrameOK(t[j])'
      BY <1>7, <2>1, <2>5
    <2>7. ToldKept(n) /\ n \in {Len(stack), Len(stack) - 1} /\ RunStep
      BY <1>1, <1>4, ToldSame DEF OwnChange
    <2> QED BY <1>1, <1>7, <2>3, <2>4, <2>6, <2>7, TurnStep
  <1> QED BY <1>4, <1>6, <1>7, <1>9, StayStep

LEMMA NotWaiting ==
  ASSUME NEW l \in Lists, NEW w, w = [l EXCEPT !.waiting = FALSE]
  PROVE  /\ w \in Lists /\ w.id = l.id /\ w.may = l.may /\ w.redo = l.redo /\ w.left = l.left
         /\ w.slot = l.slot /\ w.macro = l.macro
  BY DEF Lists

LEMMA ActedOn ==
  ASSUME IInv, NEW r \in Serials, AfterAction(r), Running(r)
  PROVE  IInv'
  <1>1. DataOK /\ ListsOK /\ BuildsOK
    BY DEF IInv
  <1>2. r \in Nat
    BY HotkeyAssumption DEF HotkeyAssumption, Serials
  <1>3. stack # <<>> /\ Top = Acted(r) /\ Acted(r).at = "acted" /\ Acted(r).runner = r
    BY <1>1, <1>2, TopIs, FramesAre DEF AfterAction
  <1>4. OnTopIs(r)
    BY <1>3 DEF OnTopIs
  <1>5. run' = [run EXCEPT ![r].waiting = FALSE] /\ stack' = Becomes(<<Step(r)>>) /\ UNCHANGED tableVars
    BY <1>1, LiveIs DEF AfterAction
  <1>6. run[r] \in Lists /\ run \in [Serials -> Lists]
    BY <1>1 DEF DataOK
  <1>7. PICK w : w = [run[r] EXCEPT !.waiting = FALSE]
    OBVIOUS
  <1>8. /\ w \in Lists /\ w.id = run[r].id /\ w.may = run[r].may /\ w.redo = run[r].redo /\ w.left = run[r].left
        /\ w.slot = run[r].slot /\ w.macro = run[r].macro
    BY <1>6, <1>7, NotWaiting
  <1>9. OwnChange(r) /\ run'[r] = w
    <2>1. run' = [run EXCEPT ![r] = w]
      BY <1>5, <1>7
    <2>2. w.redo # NoKey => w.left > 0
      BY <1>1, <1>8 DEF ListsOK
    <2> QED BY <1>5, <1>6, <1>8, <2>1, <2>2, OwnDid
  <1>10. OwnMay(r)
    BY <1>8, <1>9 DEF OwnMay
  <1>11. UNCHANGED <<input, plays, macros>> /\ UNCHANGED building
         /\ UNCHANGED <<fireVars, playing, playTimer, enabled>> /\ UNCHANGED <<compiler, posted>>
    BY DEF AfterAction, playVars, otherVars, codeVars
  <1>12. RestTypes' /\ BuildsOK'
    BY <1>1, <1>11, RestTypesNow, BuildsKept
       DEF RestTypes, AfterAction, fireVars, playVars, otherVars, codeVars, modeVars
  <1>13. Step(r) \in {Step(r), Acted(r)}
    OBVIOUS
  <1> QED BY <1>4, <1>5, <1>9, <1>10, <1>11, <1>12, <1>13, OwnFrame

\* What is below the frame on top has nothing special on top of it but `input' and the
\* loop of c_built().
LEMMA UnderTop ==
  ASSUME DataOK, StackOK, NEW f \in 1..(Len(stack) - 1), stack # <<>>
  PROVE  /\ f \in 1..Len(stack) /\ f # Len(stack)
         /\ stack[f].at \notin {"step", "built"}
         /\ stack[f].at \in {"input", "built next"} => f = Len(stack) - 1
  <1>1. f \in 1..Len(stack) /\ f # Len(stack)
    BY PlacesUnder
  <1> QED BY <1>1 DEF StackOK, Shaped

\* A frame of a list that ended returns.
LEMMA ActedGone ==
  ASSUME IInv, NEW r \in Serials, AfterAction(r), ~Running(r)
  PROVE  IInv'
  <1>1. /\ DataOK /\ ListsOK /\ CountsAgree /\ StackOK /\ InputsOK /\ RestsOK /\ PointersOK
        /\ BuiltsOK /\ BuildsOK /\ OffOK /\ QueuesOK
    BY DEF IInv
  <1>2. r \in Nat
    BY HotkeyAssumption DEF HotkeyAssumption, Serials
  <1>3. stack # <<>> /\ Top = Acted(r) /\ Acted(r).at = "acted" /\ Acted(r).runner = r
    BY <1>1, <1>2, TopIs, FramesAre DEF AfterAction
  <1>4. stack' = Becomes(<<>>) /\ UNCHANGED run
    BY <1>1, LiveIs DEF AfterAction
  <1>5. /\ UNCHANGED <<tableVars, fireVars, playVars, input, macros, otherVars>>
        /\ UNCHANGED <<started, runners, run, plays, input, macros, fires, enabled, building, compiler, posted>>
        /\ UNCHANGED <<fireVars, playing, playTimer>>
    BY <1>4 DEF AfterAction, tableVars, fireVars, playVars, otherVars, codeVars
  <1>6. PICK n : n = Len(stack) - 1
    OBVIOUS
  <1>7. PICK t \in Seq(Frames) : t = <<>> /\ Len(t) = 0
    <2>1. <<>> \in Seq(Frames) /\ Len(<<>>) = 0
      OBVIOUS
    <2> QED BY <2>1
  <1>8. Piled(n, t) /\ Len(stack) \in Nat \ {0} /\ n \in {Len(stack), Len(stack) - 1}
    BY <1>1, <1>3, <1>4, <1>6, <1>7, Popped
  <1>9. RunStep
    BY <1>1, <1>5 DEF RunStep, DataOK, ListsOK
  <1>10. (\A x : Running(x)' <=> Running(x)) /\ ListsOK' /\ CountsAgree'
    BY <1>1, <1>9, RunStepFacts
  <1>11. Fits(n, t) /\ Fresh(n, t) /\ ToldKept(n) /\ \A j \in 1..Len(t) : FrameOK(t[j])'
    <2>1. \A j \in 1..Len(t) : FrameOK(t[j])'
      BY <1>7, NoPlaces
    <2> QED BY <1>1, <1>5, <1>7, <1>8, <2>1, NoFrames, ToldSame
  <1>12. StackOK'
    BY <1>1, <1>8, <1>9, <1>11, TurnStep
  <1>13. DataOK' /\ BuildsOK' /\ PointersOK' /\ OffOK' /\ QueuesOK'
    <2>1. RestTypes'
      BY <1>1, <1>5, RestTypesNow DEF RestTypes, fireVars, playVars, otherVars, codeVars, modeVars
    <2>2. DataOK'
      BY <1>1, <1>8, <1>9, <2>1, DataStep DEF Piled
    <2>3. n = Len(stack) \/ Top \notin {FireLoop, PlayLoop}
      BY <1>3, FramesAre
    <2>4. QueuesOK'
      BY <1>1, <1>5, <1>8, <2>3, QueuesKept
    <2> QED BY <1>1, <1>5, <2>2, <2>4, BuildsKept, PointersKept, OffKept
  <1>14. \A x \in Serials : Running(x) => (OnS(x)' <=> OnS(x))
    <2>1. \A x : x # r => (OnBelow(n, x) <=> OnS(x))
      BY <1>1, <1>3, <1>6, ListsBelow DEF OfList
    <2>2. \A x : OnS(x)' <=> OnBelow(n, x) \/ OnNew(t, x)
      BY <1>1, <1>8, TurnOnS
    <2>3. \A x : ~OnNew(t, x)
      BY <1>7, NoPlaces DEF OnNew
    <2> QED BY <2>1, <2>2, <2>3
  <1>15. RestsOK'
    <2> SUFFICES ASSUME NEW x \in Serials, Running(x)' PROVE RestsNow(x)'
      BY DEF RestsOK
    <2>1. Running(x) /\ (OnS(x)' <=> OnS(x))
      BY <1>10, <1>14
    <2>2. Typed(x)' <=> Typed(x)
      BY <1>5 DEF Typed
    <2>3. Still(x)
      BY <1>5, <2>1, <2>2 DEF Still
    <2> QED BY <1>1, <2>1, <2>3, StillRests
  <1>16. ASSUME NEW f \in 1..Len(stack') PROVE f \in 1..n /\ stack'[f].at = stack[f].at /\ Len(stack') = n
    <2>1. Len(stack') = n + Len(t) /\ n \in Nat
      BY <1>1, <1>8, PiledFacts
    <2>2. f \in 1..n
      BY <1>7, <2>1
    <2>3. \A g \in 1..n : g \in 1..Len(stack) /\ g \in 1..Len(stack') /\ Alike(stack'[g], stack[g])
      BY <1>1, <1>8, PiledFacts
    <2> QED BY <1>7, <2>1, <2>2, <2>3 DEF Alike
  <1>17. InputsOK'
    <2>1. ASSUME NEW f \in 1..Len(stack'), stack'[f].at = "input" PROVE FALSE
      <3>1. f \in 1..Len(stack) /\ f # Len(stack) /\ stack[f].at = "input"
        BY <1>1, <1>3, <1>6, <1>16, <2>1, UnderTop
      <3> QED BY <1>1, <1>3, <3>1 DEF InputsOK
    <2> QED BY <2>1 DEF InputsOK
  <1>18. LoopsOK'
    <2>1. ASSUME NEW f \in 1..Len(stack'), stack'[f].at = "built next" PROVE f = Len(stack')
      BY <1>1, <1>3, <1>6, <1>16, <2>1, UnderTop
    <2> QED BY <2>1 DEF LoopsOK
  <1>19. BuiltsOK'
    <2>1. \A f \in 1..Len(stack) : stack[f].at \in {"built", "built next"} => f \in 1..n
      <3>1. \A f \in 1..Len(stack) : f \in 1..n \/ (f = Len(stack) /\ stack # <<>>)
        BY <1>1, <1>8, PlacesOf
      <3> QED BY <1>3, <3>1 DEF Top
    <2>2. BuiltsStay(n)
      BY <1>1, <1>5, <2>1 DEF BuiltsStay, WaitsForBuild, DataOK
    <2> QED BY <1>1, <1>5, <1>8, <2>2, BuiltsStep
  <1> QED BY <1>10, <1>12, <1>13, <1>15, <1>17, <1>18, <1>19 DEF IInv

LEMMA AfterActionInv == ASSUME IInv, NEW r \in Serials, AfterAction(r) PROVE IInv'
  BY ActedOn, ActedGone

-----------------------------------------------------------------------------
(* A list ends: runner_end().                                              *)

\* The place i of the table is closed.
Closed(i) ==
  /\ Len(runners') = Len(runners) - 1
  /\ \A j \in 1..(Len(runners) - 1) : runners'[j] = IF j < i THEN runners[j] ELSE runners[j + 1]

LEMMA TableShrinks ==
  ASSUME DataOK, ListsOK, CountsAgree, NEW r \in Serials, Running(r), EndList(r), UNCHANGED started
  PROVE  /\ \E i \in 1..Len(runners) : runners[i] = r /\ Closed(i)
         /\ \A x : Running(x)' <=> Running(x) /\ x # r
         /\ \A x \in Serials : x # r => run'[x] = run[x]
         /\ run'[r] = Gone
         /\ runners' \in Seq(1..started') /\ run' \in [Serials -> Lists] /\ running' \in [Ids -> Int]
         /\ ListsOK' /\ CountsAgree'
  <1>1. /\ runners \in Seq(1..started) /\ run \in [Serials -> Lists] /\ running \in [Ids -> Int]
        /\ DOMAIN runners = 1..Len(runners) /\ Len(runners) \in Nat
    BY DEF DataOK
  <1>2. PICK i : i = CHOOSE p \in DOMAIN runners : runners[p] = r
    OBVIOUS
  <1>3. i \in 1..Len(runners) /\ runners[i] = r
    <2>1. \E p \in DOMAIN runners : runners[p] = r
      BY <1>1 DEF Running
    <2> QED BY <1>1, <1>2, <2>1
  <1>4. runners' = RemoveAt(runners, i) /\ run' = [run EXCEPT ![r] = Gone]
    BY <1>2 DEF EndList
  <1>5. runners' \in Seq(1..started') /\ Closed(i)
    BY <1>1, <1>3, <1>4, RemoveFacts DEF Closed
  <1>6. /\ \A j \in 1..Len(runners') : j < i => j \in 1..Len(runners) /\ runners'[j] = runners[j]
        /\ \A j \in 1..Len(runners') : ~(j < i) => j + 1 \in 1..Len(runners) /\ runners'[j] = runners[j + 1]
    BY <1>1, <1>3, <1>5 DEF Closed
  <1>7. /\ \A j \in 1..Len(runners) : j < i => j \in 1..Len(runners') /\ runners'[j] = runners[j]
        /\ \A j \in 1..Len(runners) : j > i =>
             j - 1 \in 1..Len(runners') /\ runners'[j - 1] = runners[j]
    <2>1. ASSUME NEW j \in 1..Len(runners), j > i
          PROVE  j - 1 \in 1..Len(runners') /\ runners'[j - 1] = runners[j]
      <3>1. j - 1 \in 1..(Len(runners) - 1) /\ ~(j - 1 < i) /\ j - 1 + 1 = j
        BY <1>1, <1>3, <2>1
      <3> QED BY <1>5, <3>1 DEF Closed
    <2>2. ASSUME NEW j \in 1..Len(runners), j < i
          PROVE  j \in 1..Len(runners') /\ runners'[j] = runners[j]
      <3>1. j \in 1..(Len(runners) - 1)
        BY <1>1, <1>3, <2>2
      <3> QED BY <1>5, <2>2, <3>1 DEF Closed
    <2> QED BY <2>1, <2>2
  <1>8. \A p, q \in 1..Len(runners) : runners[p] = runners[q] => p = q
    BY DEF ListsOK
  <1>9. \A x : Running(x)' <=> Running(x) /\ x # r
    <2> SUFFICES ASSUME NEW x PROVE Running(x)' <=> Running(x) /\ x # r
      OBVIOUS
    <2>1. ASSUME Running(x)' PROVE Running(x) /\ x # r
      <3>1. PICK j \in 1..Len(runners') : runners'[j] = x
        BY <2>1 DEF Running
      <3>2. CASE j < i
        BY <1>3, <1>6, <1>8, <3>1, <3>2 DEF Running
      <3>3. CASE ~(j < i)
        <4>1. j + 1 \in 1..Len(runners) /\ runners[j + 1] = x /\ j + 1 # i
          BY <1>6, <3>1, <3>3
        <4> QED BY <1>3, <1>8, <4>1 DEF Running
      <3> QED BY <3>2, <3>3
    <2>2. ASSUME Running(x), x # r PROVE Running(x)'
      <3>1. PICK j \in 1..Len(runners) : runners[j] = x
        BY <2>2 DEF Running
      <3>2. j < i \/ j > i
        BY <1>3, <2>2, <3>1
      <3> QED BY <1>7, <3>1, <3>2 DEF Running
    <2> QED BY <2>1, <2>2
  <1>10. /\ run' \in [Serials -> Lists] /\ run'[r] = Gone
         /\ \A x \in Serials : x # r => run'[x] = run[x]
    BY <1>1, <1>4, GoneIsList
  <1>11. ListsOK'
    <2>1. ASSUME NEW p \in 1..Len(runners'), NEW q \in 1..Len(runners'), runners'[p] = runners'[q]
          PROVE  p = q
      <3>1. CASE p < i /\ q < i
        BY <1>6, <1>8, <2>1, <3>1
      <3>2. CASE p < i /\ ~(q < i)
        <4>1. p = q + 1
          BY <1>6, <1>8, <2>1, <3>2
        <4> QED BY <3>2, <4>1, <1>3
      <3>3. CASE ~(p < i) /\ q < i
        <4>1. p + 1 = q
          BY <1>6, <1>8, <2>1, <3>3
        <4> QED BY <3>3, <4>1, <1>3
      <3>4. CASE ~(p < i) /\ ~(q < i)
        <4>1. p + 1 = q + 1
          BY <1>6, <1>8, <2>1, <3>4
        <4> QED BY <4>1
      <3> QED BY <3>1, <3>2, <3>3, <3>4
    <2>2. \A x \in Serials : ~Running(x)' => run'[x] = Gone
      BY <1>9, <1>10 DEF ListsOK
    <2>3. \A x \in Serials : run'[x].redo # NoKey => run'[x].left > 0
      BY <1>10, GoneIsList DEF ListsOK
    <2> QED BY <2>1, <2>2, <2>3 DEF ListsOK
  <1>12. \A x : x \in Live' <=> x \in Live /\ x # r
    <2>1. DOMAIN runners' = 1..Len(runners')
      BY <1>5
    <2>2. \A x : x \in Live' <=> Running(x)'
      BY <2>1 DEF Live, Running, ToSet
    <2> QED BY <1>9, <2>2, LiveIs
  <1>13. /\ running' \in [Ids -> Int]
         /\ \A i0 \in Ids : running'[i0] = running[i0] - IF run[r].id = i0 THEN 1 ELSE 0
    BY <1>1 DEF EndList
  <1>14. ASSUME NEW i0 \in Ids PROVE running'[i0] = Cardinality({x \in Live' : run'[x].id = i0})
    <2> DEFINE A == {x \in Live : run[x].id = i0}
    <2>1. IsFiniteSet(A) /\ Cardinality(A) \in Nat /\ running[i0] = Cardinality(A)
      BY LiveFinite DEF CountsAgree
    <2>2. \A x \in Live : x \in Serials
      BY LiveIs, RunnersAreStarted
    <2>3. CASE run[r].id = i0
      <3>1. {x \in Live' : run'[x].id = i0} = A \ {r} /\ r \in A
        BY <1>10, <1>12, <2>2, <2>3, LiveIs
      <3>2. Cardinality(A \ {r}) = Cardinality(A) - 1
        BY <2>1, <3>1, FS_RemoveElement
      <3> QED BY <1>13, <2>1, <2>3, <3>1, <3>2
    <2>4. CASE run[r].id # i0
      <3>1. {x \in Live' : run'[x].id = i0} = A
        BY <1>10, <1>12, <2>2, <2>4
      <3>2. running[i0] \in Int /\ running'[i0] = running[i0] - 0
        BY <1>1, <1>13, <2>4
      <3>3. running'[i0] = running[i0]
        BY <3>2
      <3> QED BY <2>1, <3>1, <3>3
    <2> QED BY <2>3, <2>4
  <1>15. CountsAgree'
    BY <1>14 DEF CountsAgree
  <1> QED BY <1>3, <1>5, <1>9, <1>10, <1>11, <1>13, <1>15

\* The loop of c_built(), when the list that it carried on ended: the next has its place.
LEMMA ComesSooner ==
  ASSUME DataOK, ListsOK, StackOK, LoopsOK, BuiltsOK, NEW r, OnTopIs(r), stack' = Becomes(<<>>),
         NEW i \in 1..Len(runners), runners[i] = r, Closed(i),
         \A x : Running(x)' <=> Running(x) /\ x # r,
         \A x \in Serials : x # r => run'[x] = run[x], UNCHANGED building, runners' \in Seq(1..started),
         NEW n, n = Len(stack) - 1, NEW t \in Seq(Frames), Piled(n, t)
  PROVE  BuiltsOK'
  <1> SUFFICES ASSUME NEW j \in 1..Len(runners'), NEW x, x = runners'[j], WaitsForBuild(x)'
               PROVE  run'[x].redo \in Keys /\ Comes(j)'
    BY DEF BuiltsOK, WaitsForBuild
  <1>1. Len(runners) \in Nat /\ Len(stack) \in Nat \ {0} /\ stack # <<>>
    BY RunnersAreStarted, StackFacts DEF OnTopIs
  <1>2. Running(x)' /\ Running(x) /\ x # r /\ x \in Serials
    BY RunnersAreStarted DEF Running
  <1>3. run'[x] = run[x] /\ WaitsForBuild(x)
    BY <1>2 DEF WaitsForBuild
  <1>4. PICK h \in 1..Len(runners) : runners[h] = x /\ (h < i => j = h) /\ (h > i => j = h - 1) /\ h # i
    <2>1. CASE j < i
      <3>1. j \in 1..Len(runners) /\ runners[j] = x
        BY <1>1, <2>1 DEF Closed
      <3> QED BY <2>1, <3>1
    <2>2. CASE ~(j < i)
      <3>1. j + 1 \in 1..Len(runners) /\ runners[j + 1] = x /\ j + 1 > i /\ j + 1 - 1 = j
        BY <1>1, <2>2 DEF Closed
      <3>2. ~(j + 1 < i) /\ j + 1 # i
        BY <1>1, <3>1
      <3> QED BY <3>1, <3>2
    <2> QED BY <2>1, <2>2
  <1>5. run[x].redo \in Keys /\ Comes(h)
    BY <1>3, <1>4 DEF BuiltsOK
  <1>6. CASE run[x].redo \in building
    BY <1>3, <1>5, <1>6 DEF Comes
  <1>7. ASSUME NEW f \in 1..Len(stack), stack[f].at \in {"built", "built next"},
               stack[f].key = run[x].redo, Reached(f, h)
        PROVE  Comes(j)'
    <2>1. f # Len(stack)
      BY <1>7 DEF OnTopIs, Top
    <2>2. f \in 1..n
      BY <1>1, <2>1
    <2>3. stack[f].at = "built next"
      BY <1>1, <1>7, <2>2, UnderTop
    <2>4. InLoop(stack[f], r)
      BY <2>1, <2>3 DEF LoopsOK, OnTopIs
    <2>5. Len(runners) = stack[f].before /\ runners[stack[f].i] = r /\ stack[f].i <= Len(runners)
          /\ stack[f].i \in Nat \ {0}
      BY <1>7, <2>3, <2>4, StackFacts, FramesHave DEF InLoop, OnTopIs
    <2>6. stack[f].i = i
      BY <1>1, <2>5 DEF ListsOK
    <2>7. i < h
      <3>1. PICK g : g = stack[f]
        OBVIOUS
      <3>2. g.at = "built next" /\ g.i = i /\ g.before = Len(runners)
        BY <2>3, <2>5, <2>6, <3>1
      <3>3. ComesTo(g, Len(runners), h)
        BY <1>7, <3>1 DEF Reached
      <3>4. ComesTo(g, Len(runners), h) => IF Len(runners) < g.before THEN g.i <= h ELSE g.i < h
        BY <3>2 DEF ComesTo
      <3>5. ~(Len(runners) < g.before)
        <4>1. \A z \in Nat : ~(z < z)
          OBVIOUS
        <4>2. ~(Len(runners) < Len(runners))
          BY <1>1, <4>1, Zenon
        <4> QED BY <3>2, <4>2, Zenon
      <3> QED BY <3>2, <3>3, <3>4, <3>5
    <2>8. i <= j /\ Len(runners') < stack[f].before
      BY <1>1, <1>4, <2>5, <2>7 DEF Closed
    <2>9. f \in 1..Len(stack') /\ stack'[f] = stack[f]
      <3>1. \A g \in 1..n : g \in 1..Len(stack) /\ g \in 1..Len(stack') /\ Alike(stack'[g], stack[g])
        BY PiledFacts
      <3> QED BY <2>2, <2>3, <3>1 DEF Alike
    <2>10. Reached(f, j)'
      BY <2>3, <2>6, <2>8, <2>9 DEF Reached, ComesTo
    <2> QED BY <1>3, <1>7, <2>3, <2>9, <2>10 DEF Comes
  <1> QED BY <1>3, <1>4, <1>5, <1>6, <1>7 DEF Comes

\* r is the one list that is no longer there.
ListLeft(r) ==
  /\ \A x : Running(x)' <=> Running(x) /\ x # r
  /\ \A x \in Serials : x # r => run'[x] = run[x]
  /\ run'[r] = Gone

\* Nobody points at a list that runs.
LEMMA EndAlone ==
  ASSUME IInv, NEW r \in Serials, RunnerEnds(r)
  PROVE  /\ OnTopIs(r) /\ Top.at = "step" /\ EndList(r)
         /\ UNCHANGED <<started, fireVars, playVars, input, macros, otherVars>>
  <1>1. DataOK /\ StackOK /\ RestsOK
    BY DEF IInv
  <1>2. stack # <<>> /\ Top = Step(r) /\ Running(r)
    BY <1>1, TopIs, LiveIs DEF RunnerEnds
  <1>3. r \in Nat
    BY HotkeyAssumption DEF HotkeyAssumption, Serials
  <1>4. OnTopIs(r) /\ Top.at = "step"
    BY <1>2, <1>3, FramesAre DEF OnTopIs
  <1>5. input.runner # r /\ ~Typed(r)
    BY <1>1, <1>4, OnTopFacts
  <1>6. input' = input
    <2>1. input \in [active : BOOLEAN, runner : Nat, timer : BOOLEAN]
      BY <1>1 DEF DataOK
    <2>2. input' = [input EXCEPT !.runner = IF @ \in {r} THEN NoRunner ELSE @]
      BY DEF RunnerEnds, InputWithout
    <2> QED BY <1>5, <2>1, <2>2
  <1>7. plays' = plays
    <2>1. plays \in Seq([runner : Nat, delays : 0..1])
      BY <1>1 DEF DataOK
    <2>2. plays' = [p \in DOMAIN plays |-> [plays[p] EXCEPT !.runner = IF @ = r THEN NoRunner ELSE @]]
      BY DEF RunnerEnds, Unowned
    <2>3. \A p \in DOMAIN plays : plays[p] \in [runner : Nat, delays : 0..1] /\ plays[p].runner # r
      <3>1. DOMAIN plays = 1..Len(plays)
        BY <2>1
      <3>2. \A S : \A s \in Seq(S) : \A p \in 1..Len(s) : s[p] \in S
        OBVIOUS
      <3>3. \A p \in 1..Len(plays) : plays[p].runner # r
        BY <1>5 DEF Typed
      <3>4. \A p \in 1..Len(plays) : plays[p] \in [runner : Nat, delays : 0..1]
        BY <2>1, <3>2, Zenon
      <3> QED BY <3>1, <3>3, <3>4
    <2>4. \A l \in [runner : Nat, delays : 0..1] :
            l.runner # r => [l EXCEPT !.runner = IF @ = r THEN NoRunner ELSE @] = l
      OBVIOUS
    <2>5. plays' = [p \in DOMAIN plays |-> plays[p]]
      BY <2>2, <2>3, <2>4
    <2> QED BY <2>1, <2>5
  <1> QED BY <1>4, <1>6, <1>7 DEF RunnerEnds, playVars

\* Who points at lists, when one that nobody points at is no longer there.
LEMMA LeftPointers ==
  ASSUME DataOK, PointersOK, NEW r \in Serials, ListLeft(r), ~Typed(r), input.runner # r,
         UNCHANGED <<plays, input, macros>>
  PROVE  PointersOK'
  <1>1. HookOK'
    <2>1. input.runner # NoRunner =>
            /\ Running(input.runner) /\ input.active /\ run[input.runner].may \subseteq After["input"]
            /\ input.runner \in Serials
      BY RunnersAreStarted DEF PointersOK, HookOK
    <2>2. input.runner # NoRunner => run'[input.runner] = run[input.runner] /\ Running(input.runner)'
      BY <2>1 DEF ListLeft
    <2>3. PICK x : x = input.runner /\ input'.runner = x /\ input'.active = input.active
      OBVIOUS
    <2> QED BY <2>1, <2>2, <2>3 DEF HookOK
  <1>2. TypingOK'
    <2>1. \A p \in 1..Len(plays) : \A x : x = plays[p].runner /\ x # NoRunner => Running(x)'
      BY DEF PointersOK, TypingOK, ListLeft, Typed
    <2> QED BY <2>1 DEF TypingOK, PointersOK
  <1>3. MacrosOK'
    <2>1. \A x \in Serials : run'[x].macro # NoMacro => run'[x].macro = run[x].macro
      BY GoneIsList DEF ListLeft
    <2> QED BY <2>1 DEF MacrosOK, PointersOK
  <1> QED BY <1>1, <1>2, <1>3 DEF PointersOK

LEMMA RunnerEndsInv ==
  ASSUME IInv, NEW r \in Serials, RunnerEnds(r)
  PROVE  IInv'
  <1>1. /\ DataOK /\ ListsOK /\ CountsAgree /\ StackOK /\ InputsOK /\ LoopsOK /\ RestsOK /\ PointersOK
        /\ BuiltsOK /\ BuildsOK /\ OffOK /\ QueuesOK
    BY DEF IInv
  <1>2. OnTopIs(r) /\ Top.at = "step" /\ EndList(r) /\ stack' = Becomes(<<>>)
    BY EndAlone DEF RunnerEnds
  <1>3. /\ UNCHANGED <<started, fireVars, playVars, input, macros, otherVars>>
        /\ UNCHANGED <<plays, input, macros, fires, enabled, building, compiler, posted>>
        /\ UNCHANGED <<fireVars, playing, playTimer>>
    BY EndAlone DEF fireVars, playVars, otherVars, codeVars
  <1>4. PICK n : n = Len(stack) - 1
    OBVIOUS
  <1>5. PICK t \in Seq(Frames) : t = <<>> /\ Len(t) = 0
    <2>1. <<>> \in Seq(Frames) /\ Len(<<>>) = 0
      OBVIOUS
    <2> QED BY <2>1
  <1>6. stack # <<>> /\ Running(r)
    BY <1>2 DEF OnTopIs
  <1>7. Piled(n, t) /\ Len(stack) \in Nat \ {0} /\ n \in {Len(stack), Len(stack) - 1}
    BY <1>1, <1>2, <1>4, <1>5, <1>6, Popped
  <1>8. /\ ListLeft(r)
        /\ runners' \in Seq(1..started') /\ run' \in [Serials -> Lists] /\ running' \in [Ids -> Int]
        /\ ListsOK' /\ CountsAgree'
    BY <1>1, <1>2, <1>3, <1>6, TableShrinks DEF ListLeft
  <1>9. /\ ~OnBelow(n, r) /\ ~Typed(r) /\ input.runner # r
        /\ \A x : x # r => (OnBelow(n, x) <=> OnS(x))
    BY <1>1, <1>2, <1>4, OnTopFacts
  <1>10. DataOK'
    BY <1>1, <1>3, <1>7, <1>8
       DEF DataOK, Piled, fireVars, playVars, otherVars, codeVars, modeVars
  <1>11. /\ \A f \in 1..n : f \in 1..Len(stack) /\ f \in 1..Len(stack') /\ Alike(stack'[f], stack[f])
         /\ Len(stack') = n /\ n \in Nat
    <2>1. /\ n \in Nat /\ Len(stack') = n + Len(t)
          /\ \A f \in 1..n : f \in 1..Len(stack) /\ f \in 1..Len(stack') /\ Alike(stack'[f], stack[f])
      BY <1>1, <1>7, PiledFacts
    <2>2. Len(stack') = n
      BY <1>5, <2>1
    <2> QED BY <2>1, <2>2
  <1>12. StackOK'
    <2>1. Fits(n, t) /\ Fresh(n, t) /\ \A j \in 1..Len(t) : FrameOK(t[j])'
      BY <1>5, NoFrames, NoPlaces
    <2>2. Shaped(stack')
      BY <1>1, <1>7, <2>1, TurnShape
    <2>3. ListsOnce' /\ ToldsOnce'
      BY <1>1, <1>7, <1>8, <2>1, TurnOnce DEF ListLeft
    <2>4. \A f \in 1..n : \A x \in Nat :
            stack[f].at \in {"step", "input"} /\ stack[f].runner = x /\ x # NoRunner => Running(x)'
      <3> SUFFICES ASSUME NEW f \in 1..n, NEW x \in Nat, stack[f].at \in {"step", "input"},
                          stack[f].runner = x, x # NoRunner
                   PROVE  Running(x)'
        OBVIOUS
      <3>1. x # r
        BY <1>9 DEF OnBelow, OfList
      <3>2. FrameOK(stack[f])
        BY <1>1, <1>11 DEF StackOK, FramesOK
      <3> QED BY <1>8, <3>1, <3>2 DEF FrameOK, ListLeft
    <2>5. \A f \in 1..n : stack[f].at = "told" => macros'[stack[f].macro] = "over"
      BY <1>1, <1>3, <1>11 DEF StackOK, FramesOK, FrameOK
    <2>6. started' \in Nat /\ started <= started'
      BY <1>1, <1>3, RunnersAreStarted, NotLess
    <2>7. FramesOK'
      BY <1>1, <1>7, <2>1, <2>4, <2>5, <2>6, TurnFrames
    <2> QED BY <2>2, <2>3, <2>7 DEF StackOK
  <1>13. PointersOK' /\ BuildsOK'
    BY <1>1, <1>3, <1>8, <1>9, LeftPointers, BuildsKept
  <1>14. OffOK'
    <2>1. Gone.macro = NoMacro /\ "macro" \notin Gone.may
      BY GoneIsList
    <2> QED BY <1>1, <1>3, <1>8, <2>1 DEF OffOK, ListLeft
  <1>15. QueuesOK'
    <2>1. Piled(Len(stack) - 1, <<>>)
      BY <1>4, <1>5, <1>7
    <2> QED BY <1>2, <1>3, <2>1, ServedUnder
  <1>16. RestsOK'
    <2> SUFFICES ASSUME NEW x \in Serials, Running(x)' PROVE RestsNow(x)'
      BY DEF RestsOK
    <2>1. Running(x) /\ x # r /\ run'[x] = run[x]
      BY <1>8 DEF ListLeft
    <2>2. OnS(x)' <=> OnBelow(n, x) \/ OnNew(t, x)
      BY <1>1, <1>7, TurnOnS
    <2>3. ~OnNew(t, x)
      BY <1>5, NoPlaces DEF OnNew
    <2>4. Typed(x)' <=> Typed(x)
      BY <1>3 DEF Typed
    <2>5. Still(x)
      BY <1>3, <1>9, <2>1, <2>2, <2>3, <2>4 DEF Still
    <2> QED BY <1>1, <2>1, <2>5, StillRests
  <1>17. InputsOK'
    <2> SUFFICES ASSUME NEW f \in 1..Len(stack'), stack'[f].at = "input"
                 PROVE  /\ input'.runner = NoRunner
                        /\ stack'[f].runner # NoRunner => HookReady(run'[stack'[f].runner])
                        /\ f = Len(stack')
      BY DEF InputsOK
    <2>1. f \in 1..n /\ f \in 1..Len(stack) /\ stack'[f] = stack[f]
      BY <1>11 DEF Alike
    <2>2. f = Len(stack')
      BY <1>1, <1>4, <1>6, <1>11, <2>1, UnderTop
    <2>3. input'.runner = NoRunner
      BY <1>1, <1>3, <2>1 DEF InputsOK
    <2>4. PICK x : x = stack[f].runner
      OBVIOUS
    <2>5. x # NoRunner => HookReady(run[x]) /\ x # r /\ x \in Serials
      <3>1. FrameOK(stack[f]) /\ x # r
        BY <1>1, <1>9, <2>1, <2>4 DEF StackOK, FramesOK, OnBelow, OfList
      <3>2. x # NoRunner => x \in Serials
        BY <1>1, <2>1, <2>4, <3>1, RunnersAreStarted DEF FrameOK
      <3> QED BY <1>1, <2>1, <2>4, <3>1, <3>2 DEF InputsOK
    <2> QED BY <1>8, <2>1, <2>2, <2>3, <2>4, <2>5 DEF ListLeft
  <1>18. LoopsOK'
    <2>1. ASSUME NEW f \in 1..Len(stack'), stack'[f].at = "built next" PROVE f = Len(stack')
      <3>1. f \in 1..n /\ f \in 1..Len(stack) /\ stack'[f] = stack[f]
        BY <1>11, <2>1 DEF Alike
      <3> QED BY <1>1, <1>4, <1>6, <1>11, <2>1, <3>1, UnderTop
    <2> QED BY <2>1 DEF LoopsOK
  <1>19. BuiltsOK'
    <2>1. PICK i \in 1..Len(runners) : runners[i] = r /\ Closed(i)
      BY <1>1, <1>2, <1>3, <1>6, TableShrinks
    <2>2. /\ \A x : Running(x)' <=> Running(x) /\ x # r
          /\ \A x \in Serials : x # r => run'[x] = run[x]
      BY <1>8 DEF ListLeft
    <2>3. runners' \in Seq(1..started)
      BY <1>3, <1>8
    <2> QED BY <1>1, <1>2, <1>3, <1>4, <1>7, <2>1, <2>2, <2>3, ComesSooner
  <1> QED BY <1>8, <1>10, <1>12, <1>13, <1>14, <1>15, <1>16, <1>17, <1>18, <1>19 DEF IInv

-----------------------------------------------------------------------------
(* What a list does not do in the middle of another's wait.                *)

\* A list on top, when it does what no list does inside another's `input'.
LEMMA NoInput ==
  ASSUME IInv, Tame, NEW r \in Serials,
         NEW kind \in {"input", "input-stop", "cancel", "mode", "macro-stop"}, Takes(r, kind)
  PROVE  \A f \in 1..Len(stack) : stack[f].at # "input"
  <1>1. OnTopIs(r) /\ Top.at = "step" /\ Top.runner = r /\ kind \in run[r].may
    BY TakesFacts DEF OnTopIs
  <1> SUFFICES ASSUME NEW f \in 1..Len(stack), stack[f].at = "input" PROVE FALSE
    OBVIOUS
  <1>2. f # Len(stack)
    BY <1>1 DEF Top
  <1>3. run[r].may \subseteq After["input"]
    BY <1>1, <1>2 DEF IInv, InputsOK
  <1> QED BY <1>1, <1>3 DEF Tame

\* ... or inside the loop of c_built().
LEMMA NoLoop ==
  ASSUME IInv, Tame, NEW r \in Serials,
         NEW kind \in {"input", "input-stop", "mode", "macro-stop"}, Takes(r, kind)
  PROVE  Ordinary(Len(stack) - 1)
  <1>1. OnTopIs(r) /\ Top.at = "step" /\ Top.runner = r /\ kind \in run[r].may /\ run[r].redo = NoKey
        /\ Running(r)
    BY TakesFacts DEF OnTopIs
  <1>2. DataOK /\ StackOK /\ LoopsOK /\ stack # <<>>
    BY <1>1 DEF IInv, OnTopIs
  <1> SUFFICES ASSUME NEW f \in 1..(Len(stack) - 1) PROVE stack[f].at \notin Special
    BY DEF Ordinary
  <1>3. f \in 1..Len(stack) /\ f # Len(stack) /\ stack[f].at \notin {"step", "built"}
    BY <1>2, UnderTop
  <1>4. stack[f].at # "input"
    BY <1>3, NoInput
  <1>5. ASSUME stack[f].at = "built next" PROVE FALSE
    <2>1. InLoop(stack[f], r)
      BY <1>1, <1>2, <1>3, <1>5 DEF LoopsOK
    <2>2. run[r].may \subseteq After["c"]
      BY <1>1, <2>1 DEF InLoop
    <2> QED BY <1>1, <2>2 DEF Tame
  <1> QED BY <1>3, <1>4, <1>5 DEF Special

\* What of the own list is shorter by an action.
LEMMA OwnShorter ==
  ASSUME IInv, NEW r \in Serials, NEW kind, Takes(r, kind), UNCHANGED tableVars,
         run' = [run EXCEPT ![r] = Did(@)]
  PROVE  OwnChange(r) /\ OwnMay(r)
  <1>1. /\ OnTopIs(r) /\ Top.at = "step" /\ run[r] \in Lists /\ run[r].left > 0 /\ run[r].redo = NoKey
    BY TakesFacts
  <1>2. /\ Did(run[r]) \in Lists /\ Did(run[r]).id = run[r].id /\ Did(run[r]).may = run[r].may
        /\ Did(run[r]).redo = run[r].redo
        /\ Did(run[r]).slot = run[r].slot /\ Did(run[r]).macro = run[r].macro
    BY <1>1, DidFacts
  <1>3. OwnChange(r) /\ run'[r] = Did(run[r])
    <2>1. run' = [run EXCEPT ![r] = Did(run[r])] /\ Running(r)
      BY <1>1 DEF OnTopIs
    <2> QED BY <1>1, <1>2, <2>1, OwnDid
  <1> QED BY <1>2, <1>3 DEF OwnMay

\* `hotkey-cancel' of a list, which nobody knows while the module is switched off.
LEMMA CancelRefused ==
  ASSUME IInv, Tame, NEW r \in Serials, CancelAction(r), ~enabled
  PROVE  IInv'
  <1>1. OnTopIs(r) /\ Takes(r, "cancel")
    BY TakesFacts DEF CancelAction
  <1>2. run' = [run EXCEPT ![r] = Did(@)] /\ UNCHANGED tableVars /\ stack' = Becomes(<<Acted(r)>>)
    BY DEF CancelAction, tableVars
  <1>3. OwnChange(r) /\ OwnMay(r)
    BY <1>1, <1>2, OwnShorter
  <1>4. UNCHANGED <<input, plays, macros>> /\ UNCHANGED building
        /\ UNCHANGED <<fireVars, playing, playTimer, enabled>> /\ UNCHANGED <<compiler, posted>>
    BY DEF CancelAction, playVars, otherVars, codeVars
  <1>5. RestTypes' /\ BuildsOK'
    BY <1>4, RestTypesNow, BuildsKept
       DEF IInv, RestTypes, CancelAction, fireVars, playVars, otherVars, codeVars, modeVars
  <1>6. Acted(r) \in {Step(r), Acted(r)} /\ \A g \in 1..Len(stack) : stack[g].at # "input"
    BY <1>1, NoInput
  <1> QED BY <1>1, <1>2, <1>3, <1>4, <1>5, <1>6, OwnFrame

\* `hotkey-cancel': every list ends, the one that gave it too.
LEMMA CancelTakes ==
  ASSUME IInv, Tame, NEW r \in Serials, CancelAction(r), enabled
  PROVE  IInv'
  <1>1. /\ DataOK /\ CountsAgree /\ PointersOK /\ BuildsOK /\ OffOK /\ StackOK /\ RestsOK
        /\ Takes(r, "cancel")
    BY DEF IInv, CancelAction
  <1>2. OnTopIs(r) /\ stack # <<>> /\ r \in Nat /\ r <= started
    BY <1>1, TakesFacts, OnTopFacts, RunnersAreStarted DEF OnTopIs
  <1>3. /\ CancelAll /\ UNCHANGED <<started, macros>> /\ input' \in {InputWithout(Live), NoHook}
        /\ stack' = Becomes(<<Acted(r)>>) /\ UNCHANGED otherVars
        /\ UNCHANGED <<building, compiler, posted>>
    BY DEF CancelAction, otherVars, codeVars
  <1>4. /\ runners' = <<>> /\ (\A x : ~Running(x)') /\ input'.runner = NoRunner
        /\ \A x \in Serials : run'[x] = Gone
        /\ runners' \in Seq(1..started') /\ run' \in [Serials -> Lists] /\ running' \in [Ids -> Int]
        /\ fires' = <<>> /\ fireIdle' = FALSE /\ plays' = <<>> /\ playing' = FALSE /\ playTimer' = FALSE
        /\ input' \in [active : BOOLEAN, runner : Nat, timer : BOOLEAN]
        /\ ListsOK' /\ CountsAgree' /\ PointersOK' /\ RestsOK' /\ BuiltsOK' /\ QueuesOK'
    BY <1>1, <1>3, Cancelled
  <1>5. PICK f : f = Acted(r) /\ f \in Frames /\ f.at = "acted" /\ f.runner = r
    <2>1. Acted(r) \in Frames /\ Acted(r).at = "acted" /\ Acted(r).runner = r
      BY <1>2, FramesAre
    <2> QED BY <2>1
  <1>6. PICK n : n = Len(stack) - 1
    OBVIOUS
  <1>7. /\ <<f>> \in Seq(Frames) /\ Len(<<f>>) = 1 /\ <<f>>[1] = f
        /\ Piled(n, <<f>>) /\ Len(stack') = Len(stack) /\ stack'[Len(stack)] = f
        /\ \A g \in 1..(Len(stack) - 1) : Alike(stack'[g], stack[g])
        /\ Len(stack) \in Nat \ {0}
    BY <1>1, <1>2, <1>3, <1>5, <1>6, OneOnTop
  <1>8. PICK t \in Seq(Frames) : t = <<f>> /\ Len(t) = 1 /\ t[1] = f /\ Piled(n, t)
    BY <1>7
  <1>9. n \in {Len(stack), Len(stack) - 1} /\ n # Len(stack)
    BY <1>6, <1>7
  <1>10. Shaped(t) /\ \A j \in 1..Len(t) : j = 1
    <2>1. Shaped(t)
      BY <1>5, <1>8, ShapedFacts
    <2>2. \A j \in 1..1 : j = 1
      OBVIOUS
    <2> QED BY <1>8, <2>1, <2>2
  <1>11. \A g \in 1..n : /\ g \in 1..Len(stack) /\ g # Len(stack)
                         /\ stack[g].at \notin {"step", "input"}
    <2>1. \A g \in 1..Len(stack) : stack[g].at # "input"
      BY <1>1, NoInput
    <2> QED BY <1>1, <1>2, <1>6, <2>1, UnderTop
  <1>12. StackOK'
    <2>1. Fits(n, t) /\ Fresh(n, t)
      <3>1. Fits(n, t)
        BY <1>5, <1>8, <1>9, <1>10 DEF Fits
      <3>2. \A j \in 1..Len(t) : t[j] = f
        BY <1>8, <1>10
      <3>3. f.at # "told" /\ ~Running(f.runner)'
        BY <1>4, <1>5
      <3>4. ASSUME NEW j \in 1..Len(t) PROVE ~Running(t[j].runner)' /\ t[j].at # "told"
        BY <3>2, <3>3
      <3>5. \A i, j \in 1..Len(t) : i = j
        BY <1>10
      <3> QED BY <3>1, <3>4, <3>5 DEF Fresh
    <2>2. Shaped(stack')
      BY <1>1, <1>8, <1>9, <2>1, TurnShape
    <2>3. ListsOnce' /\ ToldsOnce'
      BY <1>1, <1>4, <1>8, <1>9, <2>1, TurnOnce
    <2>4. \A g \in 1..n : stack[g].at = "told" => macros'[stack[g].macro] = "over"
      BY <1>1, <1>3, <1>11 DEF StackOK, FramesOK, FrameOK
    <2>5. \A j \in 1..Len(t) : FrameOK(t[j])'
      <3>1. FrameOK(f)'
        BY <1>2, <1>3, <1>5 DEF FrameOK
      <3> QED BY <1>8, <1>10, <3>1
    <2>6. started' \in Nat /\ started <= started'
      BY <1>1, <1>3, RunnersAreStarted, NotLess
    <2>7. \A g \in 1..n : \A x \in Nat :
            stack[g].at \in {"step", "input"} /\ stack[g].runner = x /\ x # NoRunner => Running(x)'
      BY <1>11
    <2>8. FramesOK'
      BY <1>1, <1>8, <1>9, <2>4, <2>5, <2>6, <2>7, TurnFrames
    <2> QED BY <2>2, <2>3, <2>8 DEF StackOK
  <1>13. \A g \in 1..Len(stack') : g # Len(stack') => g \in 1..n
    BY <1>6, <1>7
  <1>14. InputsOK'
    <2>1. ASSUME NEW g \in 1..Len(stack') PROVE stack'[g].at # "input"
      <3>1. CASE g = Len(stack')
        BY <1>5, <1>7, <3>1
      <3>2. CASE g # Len(stack')
        BY <1>6, <1>7, <1>11, <1>13, <3>2 DEF Alike
      <3> QED BY <3>1, <3>2
    <2> QED BY <2>1 DEF InputsOK
  <1>15. LoopsOK'
    <2>1. \A g, x : InLoop(g, x)'
      BY <1>4 DEF InLoop
    <2> QED BY <2>1 DEF LoopsOK
  <1>16. DataOK'
    <2>1. fires' \in Seq(Ids) /\ plays' \in Seq([runner : Nat, delays : 0..1])
      BY <1>4
    <2>2. stack' \in Seq(Frames)
      BY <1>8 DEF Piled
    <2>3. UNCHANGED <<building, compiler, posted, funcs, faulted, keyMode, mode, modeTimer, enabled>>
      BY <1>3 DEF otherVars, codeVars, modeVars
    <2> QED BY <1>1, <1>3, <1>4, <2>1, <2>2, <2>3 DEF DataOK
  <1>17. BuildsOK' /\ OffOK'
    BY <1>1, <1>3, <1>4, BuildsKept, CancelledOff
  <1> QED BY <1>4, <1>12, <1>14, <1>15, <1>16, <1>17 DEF IInv

LEMMA CancelActionInv == ASSUME IInv, Tame, NEW r \in Serials, CancelAction(r) PROVE IInv'
  <1>1. enabled \in BOOLEAN
    BY DEF IInv, DataOK
  <1> QED BY <1>1, CancelRefused, CancelTakes

-----------------------------------------------------------------------------
(* Lists carry on: runner_resume().                                        *)

\* A list, and what is left of its wait.
Loosens(l, q) ==
  /\ q.id = l.id /\ q.redo = l.redo /\ q.may \subseteq l.may
  /\ q.redo # NoKey => q.left > 0
  /\ q.slot = {} \/ q.slot = l.slot
  /\ q.macro = NoMacro \/ q.macro = l.macro

\* Those of W run on; the others are as they were.
WokenRun(W) ==
  /\ UNCHANGED tableVars /\ run' \in [Serials -> Lists]
  /\ \A x \in Serials : Loosens(run[x], run'[x]) /\ (x \notin W => run'[x] = run[x])
  /\ \A x \in W : Running(x) /\ run'[x].slot = {} /\ run'[x].macro = NoMacro
Stacked(W, n, t) ==
  \A x \in Serials : /\ x \notin W => (OnBelow(n, x) <=> OnS(x))
                     /\ OnNew(t, x) <=> x \in W
Untold(W) ==
  \A x \in Serials :
    /\ x \in W => input'.runner # x /\ ~Typed(x)'
    /\ x \notin W => (input'.runner = x <=> input.runner = x) /\ (Typed(x)' <=> Typed(x))
HookKept == input'.runner # NoRunner => input'.runner = input.runner /\ input'.active
MacrosKept == \A x \in Serials : run'[x].macro # NoMacro => macros'[run'[x].macro] = "on"

LEMMA WokenRunFacts ==
  ASSUME IInv, NEW W \in SUBSET Serials, WokenRun(W)
  PROVE  RunStep
  <1>1. DataOK /\ ListsOK
    BY DEF IInv
  <1>2. UNCHANGED tableVars /\ run' \in [Serials -> Lists]
    BY DEF WokenRun
  <1> SUFFICES ASSUME NEW x \in Serials
               PROVE  /\ run'[x].id = run[x].id
                      /\ ~Running(x) => run'[x] = run[x]
                      /\ run'[x].redo # NoKey => run'[x].left > 0
    BY <1>2 DEF RunStep
  <1> QED BY DEF WokenRun, Loosens

LEMMA WokenPointers ==
  ASSUME IInv, NEW W \in SUBSET Serials, WokenRun(W), HookKept, TypingOK', MacrosKept
  PROVE  PointersOK'
  <1>1. /\ DataOK /\ ListsOK /\ CountsAgree /\ PointersOK /\ RunStep
    BY WokenRunFacts DEF IInv
  <1>2. \A x : Running(x)' <=> Running(x)
    BY <1>1, RunStepFacts
  <1>3. \A x \in Serials : run'[x].may \subseteq run[x].may
    BY DEF WokenRun, Loosens
  <1>4. HookOK'
    <2>1. PICK x : x = input'.runner
      OBVIOUS
    <2>2. ASSUME x # NoRunner
          PROVE  x = input.runner /\ input'.active /\ Running(x) /\ x \in Serials
                 /\ run[x].may \subseteq After["input"]
      <3>1. x = input.runner /\ input'.active
        BY <2>1, <2>2 DEF HookKept
      <3>2. Running(x) /\ run[x].may \subseteq After["input"]
        BY <1>1, <2>2, <3>1 DEF PointersOK, HookOK
      <3> QED BY <1>1, <3>1, <3>2, RunnersAreStarted
    <2>3. x # NoRunner => Running(x)' /\ input'.active /\ run'[x].may \subseteq After["input"]
      BY <1>2, <1>3, <2>2
    <2> QED BY <2>1, <2>3 DEF HookOK
  <1>5. MacrosOK'
    <2>1. \A x \in Serials : run'[x].macro # NoMacro => run'[x].macro = run[x].macro
      BY DEF WokenRun, Loosens
    <2>2. \A x, y \in Serials : run[x].macro = run[y].macro /\ run[x].macro # NoMacro => x = y
      BY <1>1 DEF PointersOK, MacrosOK
    <2>3. \A x, y \in Serials : run'[x].macro = run'[y].macro /\ run'[x].macro # NoMacro => x = y
      BY <2>1, <2>2
    <2> QED BY <2>3 DEF MacrosOK, MacrosKept
  <1> QED BY <1>4, <1>5 DEF PointersOK

LEMMA WokenRests ==
  ASSUME IInv, NEW W \in SUBSET Serials, WokenRun(W), Untold(W),
         NEW n \in {Len(stack), Len(stack) - 1}, NEW t \in Seq(Frames), Piled(n, t), Stacked(W, n, t)
  PROVE  RestsOK'
  <1>1. /\ DataOK /\ ListsOK /\ CountsAgree /\ RestsOK /\ RunStep
    BY WokenRunFacts DEF IInv
  <1>2. \A x : Running(x)' <=> Running(x)
    BY <1>1, RunStepFacts
  <1> SUFFICES ASSUME NEW x \in Serials, Running(x)' PROVE RestsNow(x)'
    BY DEF RestsOK
  <1>3. OnS(x)' <=> OnBelow(n, x) \/ OnNew(t, x)
    BY <1>1, TurnOnS
  <1>4. CASE x \in W
    <2>1. OnS(x)' /\ run'[x].slot = {} /\ run'[x].macro = NoMacro
      BY <1>3, <1>4 DEF Stacked, WokenRun
    <2>2. input'.runner # x /\ ~Typed(x)'
      BY <1>4 DEF Untold
    <2>3. Rests(run'[x], TRUE, FALSE, FALSE)
      BY <2>1 DEF Rests
    <2>4. PICK a : a = OnS(x)' /\ a = TRUE
      BY <2>1 DEF OnS
    <2>5. PICK c : c = Typed(x)' /\ c = FALSE
      BY <2>2 DEF Typed
    <2>6. (input'.runner = x) = FALSE
      BY <2>2
    <2>7. Rests(run'[x], a, input'.runner = x, c)
      BY <2>3, <2>4, <2>5, <2>6
    <2> QED BY <2>4, <2>5, <2>7 DEF RestsNow
  <1>5. CASE x \notin W
    <2>1. run'[x] = run[x] /\ Running(x)
      BY <1>2, <1>5 DEF WokenRun
    <2>2. OnS(x)' <=> OnS(x)
      BY <1>3, <1>5 DEF Stacked
    <2>3. (input'.runner = x <=> input.runner = x) /\ (Typed(x)' <=> Typed(x))
      BY <1>5 DEF Untold
    <2>4. Still(x)
      BY <2>1, <2>2, <2>3 DEF Still
    <2> QED BY <1>1, <2>1, <2>4, StillRests
  <1> QED BY <1>4, <1>5

NoBuiltOnTop == stack = <<>> \/ Top.at \notin {"built", "built next"}
LEMMA NoLoops ==
  ASSUME IInv, NEW n \in {Len(stack), Len(stack) - 1}, Ordinary(n), NoBuiltOnTop
  PROVE  \A f \in 1..Len(stack) : stack[f].at \notin {"built", "built next"}
  <1>1. DataOK
    BY DEF IInv
  <1>2. \A f \in 1..Len(stack) : f \in 1..n \/ (f = Len(stack) /\ stack # <<>>)
    BY <1>1, PlacesOf
  <1> QED BY <1>2 DEF Ordinary, NoBuiltOnTop, Special, Top

LEMMA WokenBuilds ==
  ASSUME IInv, NEW W \in SUBSET Serials, WokenRun(W), DataOK', UNCHANGED building,
         NEW n \in {Len(stack), Len(stack) - 1}, Ordinary(n), NoBuiltOnTop
  PROVE  BuiltsOK'
  <1>1. DataOK /\ ListsOK /\ CountsAgree /\ BuiltsOK /\ RunStep
    BY WokenRunFacts DEF IInv
  <1>2. ByBuilding
    BY <1>1, NoLoops, PlainBuilds
  <1>3. \A x : Running(x)' <=> Running(x)
    BY <1>1, RunStepFacts
  <1>4. \A x \in Serials : WaitsForBuild(x)' => WaitsForBuild(x) /\ run'[x].redo = run[x].redo
    BY DEF WokenRun, Loosens, WaitsForBuild
  <1>5. ByBuilding'
    BY <1>2, <1>3, <1>4 DEF ByBuilding
  <1> QED BY <1>5, ByBuildingNext

LEMMA NoLoopsNext ==
  ASSUME IInv, NEW n \in {Len(stack), Len(stack) - 1}, Ordinary(n), NEW t \in Seq(Frames), Piled(n, t),
         \A j \in 1..Len(t) : t[j].at # "built next"
  PROVE  LoopsOK'
  <1>1. DataOK
    BY DEF IInv
  <1>2. ASSUME NEW f \in 1..Len(stack'), stack'[f].at = "built next" PROVE FALSE
    <2>1. CASE f \in 1..n
      BY <1>1, <1>2, <2>1, PiledFacts DEF Ordinary, Special, Alike
    <2>2. CASE f \notin 1..n
      <3>1. \A g \in 1..Len(stack') : g \notin 1..n =>
              g - n \in 1..Len(t) /\ g = n + (g - n) /\ stack'[g] = t[g - n]
        BY <1>1, PiledFacts
      <3> QED BY <1>2, <2>2, <3>1
    <2> QED BY <2>1, <2>2
  <1> QED BY <1>2 DEF LoopsOK

\* Lists carry on, on top of frames of which none is an `input' or a loop of c_built().
LEMMA WakeStep ==
  ASSUME IInv, NEW W \in SUBSET Serials, WokenRun(W), Untold(W), HookKept, TypingOK', MacrosKept,
         NEW n \in {Len(stack), Len(stack) - 1}, NEW t \in Seq(Frames), Piled(n, t), Stacked(W, n, t),
         Ordinary(n), NoBuiltOnTop, Fits(n, t), Fresh(n, t), ToldKept(n),
         \A j \in 1..Len(t) : t[j].at \notin {"built", "built next"} /\ FrameOK(t[j])',
         RestTypes', UNCHANGED <<building, compiler, posted, enabled, fires>>, QueuesOK', InputsOK'
  PROVE  IInv'
  <1>1. DataOK /\ ListsOK /\ CountsAgree /\ StackOK /\ BuildsOK /\ OffOK /\ RunStep
    BY WokenRunFacts DEF IInv
  <1>2. ListsOK' /\ CountsAgree'
    BY <1>1, RunStepFacts
  <1>3. DataOK'
    BY <1>1, DataStep DEF Piled
  <1>4. StackOK'
    BY <1>1, TurnStep
  <1>5. LoopsOK'
    BY NoLoopsNext
  <1>6. BuiltsOK'
    BY <1>3, WokenBuilds
  <1>7. PointersOK' /\ RestsOK'
    BY WokenPointers, WokenRests
  <1>8. BuildsOK'
    BY <1>1, BuildsKept
  <1>9. OffOK'
    <2>1. \A x \in Serials : run'[x].may \subseteq run[x].may
                             /\ (run'[x].macro = NoMacro \/ run'[x].macro = run[x].macro)
      BY DEF WokenRun, Loosens
    <2> QED BY <1>1, <2>1 DEF OffOK
  <1> QED BY <1>2, <1>3, <1>4, <1>5, <1>6, <1>7, <1>8, <1>9 DEF IInv

\* What a list waits for: one thing, and the thread is not in the middle of it.
LEMMA Waiter ==
  ASSUME IInv, NEW r \in Serials
  PROVE  /\ run[r].slot # {} \/ run[r].macro # NoMacro \/ input.runner = r \/ Typed(r) =>
              Running(r) /\ ~OnS(r)
         /\ run[r].slot # {} => run[r].macro = NoMacro /\ input.runner # r /\ ~Typed(r)
         /\ run[r].macro # NoMacro => run[r].slot = {} /\ input.runner # r /\ ~Typed(r)
         /\ input.runner = r => run[r].slot = {} /\ run[r].macro = NoMacro /\ ~Typed(r)
         /\ Typed(r) => run[r].slot = {} /\ run[r].macro = NoMacro /\ input.runner # r
  <1>1. DataOK /\ ListsOK /\ PointersOK /\ RestsOK
    BY DEF IInv
  <1>2. r # NoRunner
    BY HotkeyAssumption DEF HotkeyAssumption, Serials, NoRunner
  <1>3. ~Running(r) => run[r].slot = {} /\ run[r].macro = NoMacro
    BY <1>1 DEF ListsOK, Gone
  <1>4. input.runner = r => Running(r)
    BY <1>1, <1>2 DEF PointersOK, HookOK
  <1>5. Typed(r) => Running(r)
    BY <1>1, <1>2 DEF PointersOK, TypingOK, Typed
  <1>6. ASSUME Running(r)
        PROVE  Rests(run[r], OnS(r), input.runner = r, Typed(r))
    BY <1>1, <1>6 DEF RestsOK, RestsNow
  <1> DEFINE a == OnS(r)
             c == Typed(r)
             h == input.runner = r
  <1>7. Running(r) => Rests(run[r], a, h, c)
    BY <1>6
  <1>8. /\ run[r].slot # {} \/ run[r].macro # NoMacro \/ h \/ c => Running(r)
    BY <1>3, <1>4, <1>5
  <1> HIDE DEF a, c, h
  <1>9. /\ run[r].slot # {} \/ run[r].macro # NoMacro \/ h \/ c => Running(r) /\ ~a
        /\ run[r].slot # {} => run[r].macro = NoMacro /\ ~h /\ ~c
        /\ run[r].macro # NoMacro => run[r].slot = {} /\ ~h /\ ~c
        /\ h => run[r].slot = {} /\ run[r].macro = NoMacro /\ ~c
        /\ c => run[r].slot = {} /\ run[r].macro = NoMacro /\ ~h
    BY <1>7, <1>8 DEF Rests
  <1> QED BY <1>9 DEF a, c, h

LEMMA WokenFacts ==
  ASSUME NEW l \in Lists
  PROVE  /\ Woken(l) \in Lists /\ Woken(l).id = l.id /\ Woken(l).may = l.may
         /\ Woken(l).redo = l.redo /\ Woken(l).left = l.left
         /\ Woken(l).slot = {} /\ Woken(l).macro = NoMacro
  BY DEF Woken, Lists

LEMMA WokenLoosens ==
  ASSUME IInv, NEW r \in Serials
  PROVE  /\ run[r] \in Lists /\ Woken(run[r]) \in Lists /\ Loosens(run[r], Woken(run[r]))
         /\ Woken(run[r]).slot = {} /\ Woken(run[r]).macro = NoMacro /\ Loosens(run[r], run[r])
  <1>1. run[r] \in Lists /\ (run[r].redo # NoKey => run[r].left > 0)
    BY DEF IInv, DataOK, ListsOK
  <1> QED BY <1>1, WokenFacts DEF Loosens

\* One list carries on.
LEMMA OneWoken ==
  ASSUME IInv, NEW r \in Serials, Running(r), run' = [run EXCEPT ![r] = Woken(@)], UNCHANGED tableVars
  PROVE  WokenRun({r})
  <1>1. run \in [Serials -> Lists]
    BY DEF IInv, DataOK
  <1>2. run' \in [Serials -> Lists]
    BY <1>1, WokenLoosens
  <1>3. run'[r] = Woken(run[r]) /\ \A x \in Serials : x # r => run'[x] = run[x]
    BY <1>1
  <1>4. \A x \in Serials : Loosens(run[x], run'[x])
    BY <1>3, WokenLoosens
  <1> QED BY <1>2, <1>3, <1>4, WokenLoosens DEF WokenRun

\* No list carries on.
LEMMA NoneWoken ==
  ASSUME IInv, UNCHANGED listVars
  PROVE  WokenRun({})
  <1>1. run \in [Serials -> Lists] /\ UNCHANGED <<run, tableVars>>
    BY DEF IInv, DataOK, listVars
  <1> QED BY <1>1, WokenLoosens DEF WokenRun

\* The callback comes from the loop.
LEMMA LoopPlace ==
  ASSUME DataOK, stack = <<>>, NEW t \in Seq(Frames), stack' = t, Shaped(t)
  PROVE  /\ Piled(0, t) /\ Ordinary(0) /\ NoBuiltOnTop /\ Fits(0, t) /\ ToldKept(0)
         /\ 0 \in {Len(stack), Len(stack) - 1}
         /\ \A x : ~OnBelow(0, x) /\ ~OnS(x)
  <1>1. Len(stack) = 0
    BY StackFacts
  <1>2. Piled(0, t)
    BY FromLoop
  <1>3. Ordinary(0) /\ ToldKept(0) /\ \A x : ~OnBelow(0, x) /\ ~OnS(x)
    BY <1>1, NoPlaces DEF Ordinary, ToldKept, OnBelow, OnS
  <1> QED BY <1>1, <1>2, <1>3 DEF Fits, NoBuiltOnTop

\* A frame of r alone.
LEMMA StepAlone ==
  ASSUME NEW r \in Serials
  PROVE  /\ <<Step(r)>> \in Seq(Frames) /\ Shaped(<<Step(r)>>) /\ Len(<<Step(r)>>) = 1
         /\ \A j \in 1..Len(<<Step(r)>>) : <<Step(r)>>[j] = Step(r)
         /\ \A x : OnNew(<<Step(r)>>, x) <=> x = r
         /\ Step(r).at = "step" /\ Step(r).runner = r
         /\ \A n : ~OnBelow(n, r) => Fresh(n, <<Step(r)>>)
  <1>1. r \in Nat
    BY HotkeyAssumption DEF HotkeyAssumption, Serials
  <1>2. Step(r) \in Frames /\ Step(r).at = "step" /\ Step(r).runner = r
    BY <1>1, FramesAre
  <1>3. PICK t : t = <<Step(r)>> /\ t \in Seq(Frames) /\ Len(t) = 1 /\ t[1] = Step(r) /\ Shaped(t)
    BY <1>2, OneFrame, ShapedFacts
  <1>4. \A j \in 1..Len(t) : j = 1
    <2>1. \A j \in 1..1 : j = 1
      OBVIOUS
    <2> QED BY <1>3, <2>1
  <1>5. 1 \in 1..Len(t) /\ \A j \in 1..Len(t) : t[j] = Step(r)
    BY <1>3, <1>4
  <1>6. \A x : OnNew(t, x) <=> x = r
    BY <1>2, <1>5 DEF OnNew, OfList
  <1>7. ASSUME NEW n, ~OnBelow(n, r) PROVE Fresh(n, t)
    <2>1. \A j \in 1..Len(t) : t[j].runner = r /\ t[j].at # "told"
      BY <1>2, <1>5
    <2> QED BY <1>4, <1>7, <2>1 DEF Fresh
  <1> QED BY <1>2, <1>3, <1>5, <1>6, <1>7

LEMMA StepFrame ==
  ASSUME IInv, NEW r \in Serials, Running(r)', UNCHANGED started, Running(r)
  PROVE  FrameOK(Step(r))'
  <1>1. r \in Nat /\ r <= started
    BY RunnersAreStarted DEF IInv
  <1>2. Step(r).at = "step" /\ Step(r).runner = r
    BY <1>1, FramesAre
  <1> QED BY <1>1, <1>2 DEF FrameOK

\* Nothing of what is no list changes, and no typing.
LEMMA UnchangedTypes ==
  ASSUME IInv, UNCHANGED <<fireVars, playVars, macros, otherVars>>
  PROVE  /\ input' \in [active : BOOLEAN, runner : Nat, timer : BOOLEAN] => RestTypes'
         /\ UNCHANGED <<building, compiler, posted, enabled, fires>>
  BY RestTypesNow DEF IInv, RestTypes, fireVars, playVars, otherVars, codeVars, modeVars

LEMMA WokenRunning ==
  ASSUME IInv, NEW W \in SUBSET Serials, WokenRun(W)
  PROVE  /\ \A x : Running(x)' <=> Running(x)
         /\ started' = started /\ runners' = runners
         /\ UNCHANGED plays => TypingOK'
  <1>1. DataOK /\ ListsOK /\ CountsAgree /\ PointersOK /\ RunStep
    BY WokenRunFacts DEF IInv
  <1>2. (\A x : Running(x)' <=> Running(x)) /\ started' = started /\ runners' = runners
    BY <1>1, RunStepFacts
  <1>3. ASSUME UNCHANGED plays PROVE TypingOK'
    <2>1. \A p \in 1..Len(plays) : \A x : x = plays[p].runner /\ x # NoRunner => Running(x)'
      BY <1>1, <1>2 DEF PointersOK, TypingOK
    <2> QED BY <1>1, <1>3, <2>1 DEF TypingOK, PointersOK
  <1> QED BY <1>2, <1>3

\* What waits for nothing else is a macro that runs.
LEMMA MacrosAsBefore ==
  ASSUME IInv, NEW W \in SUBSET Serials, WokenRun(W), UNCHANGED macros
  PROVE  MacrosKept
  <1>1. \A x \in Serials : run'[x].macro # NoMacro => run'[x].macro = run[x].macro
    BY DEF WokenRun, Loosens
  <1>2. MacrosOK
    BY DEF IInv, PointersOK
  <1> QED BY <1>1, <1>2 DEF MacrosKept, MacrosOK

\* The loop resumes a list.
LEMMA LoopResumes ==
  ASSUME IInv, stack = <<>>, NEW r \in Serials, Running(r), UNCHANGED tableVars,
         run' = [run EXCEPT ![r] = Woken(@)], stack' = <<Step(r)>>, Untold({r}), HookKept,
         input' \in [active : BOOLEAN, runner : Nat, timer : BOOLEAN],
         UNCHANGED <<fireVars, playVars, macros, otherVars>>
  PROVE  IInv'
  <1>1. DataOK /\ QueuesOK
    BY DEF IInv
  <1>2. PICK t : t = <<Step(r)>>
    OBVIOUS
  <1>3. /\ t \in Seq(Frames) /\ Shaped(t) /\ (\A j \in 1..Len(t) : t[j] = Step(r))
        /\ (\A x : OnNew(t, x) <=> x = r) /\ Step(r).at = "step"
        /\ \A n : ~OnBelow(n, r) => Fresh(n, t)
    BY <1>2, StepAlone
  <1>4. /\ Piled(0, t) /\ Ordinary(0) /\ NoBuiltOnTop /\ Fits(0, t) /\ ToldKept(0)
        /\ 0 \in {Len(stack), Len(stack) - 1}
        /\ \A x : ~OnBelow(0, x) /\ ~OnS(x)
    BY <1>1, <1>2, <1>3, LoopPlace
  <1>5. WokenRun({r}) /\ {r} \in SUBSET Serials
    BY OneWoken
  <1>6. UNCHANGED plays /\ UNCHANGED <<fireVars, playing, playTimer>>
    BY DEF playVars
  <1>7. (\A x : Running(x)' <=> Running(x)) /\ started' = started /\ TypingOK' /\ MacrosKept
    BY <1>5, <1>6, WokenRunning, MacrosAsBefore
  <1>8. Stacked({r}, 0, t) /\ Fresh(0, t)
    BY <1>3, <1>4 DEF Stacked
  <1>9. FrameOK(Step(r))'
    BY <1>7, StepFrame
  <1>10. \A j \in 1..Len(t) : t[j].at \notin {"built", "built next"} /\ FrameOK(t[j])'
    BY <1>3, <1>9
  <1>11. RestTypes' /\ UNCHANGED <<building, compiler, posted, enabled, fires>>
    BY UnchangedTypes
  <1>12. QueuesOK'
    <2>1. 0 = Len(stack) \/ Top \notin {FireLoop, PlayLoop}
      BY <1>1, StackFacts
    <2> QED BY <1>1, <1>4, <1>6, <1>3, <2>1, QueuesKept
  <1>13. InputsOK'
    <2>1. \A j \in 1..Len(t) : t[j].at \notin {"input", "built", "built next"}
      BY <1>3
    <2> QED BY <1>1, <1>3, <1>4, <2>1, TurnPlain, PlainIsOKNext
  <1> QED BY <1>3, <1>4, <1>5, <1>7, <1>8, <1>10, <1>11, <1>12, <1>13, WakeStep

LEMMA LoopWait ==
  ASSUME IInv, AtLoop, NEW r \in Serials, run[r].slot # {}, Resume(r, <<>>),
         UNCHANGED <<tableVars, fireVars, playVars, input, macros, otherVars>>
  PROVE  IInv'
  <1>1. Running(r) /\ input.runner # r /\ ~Typed(r)
    BY Waiter
  <1>2. stack' = <<Step(r)>>
    <2>1. \A f \in Frames : <<>> \o <<f>> = <<f>>
      OBVIOUS
    <2>2. r \in Nat
      BY HotkeyAssumption DEF HotkeyAssumption, Serials
    <2>3. Step(r) \in Frames
      BY <2>2, FramesAre
    <2> QED BY <2>1, <2>3 DEF Resume
  <1>3. UNCHANGED plays
    BY DEF playVars
  <1>4. Untold({r})
    <2>1. \A x : Typed(x)' <=> Typed(x)
      BY <1>3 DEF Typed
    <2> QED BY <1>1, <2>1 DEF Untold
  <1>5. HookKept /\ input' \in [active : BOOLEAN, runner : Nat, timer : BOOLEAN]
    BY DEF HookKept, IInv, PointersOK, HookOK, DataOK
  <1> QED BY <1>1, <1>2, <1>4, <1>5, LoopResumes DEF Resume, AtLoop

LEMMA SleepDoneInv == ASSUME IInv, NEW r \in Serials, SleepDone(r) PROVE IInv'
  BY LoopWait DEF SleepDone
LEMMA ProcDoneInv == ASSUME IInv, NEW r \in Serials, ProcDone(r) PROVE IInv'
  BY LoopWait DEF ProcDone

\* The loop changes what nobody waits for.
LEMMA LoopIdle ==
  ASSUME IInv, stack = <<>>, stack' = <<>>, UNCHANGED listVars,
         input.runner = NoRunner, input'.runner = NoRunner,
         input' \in [active : BOOLEAN, runner : Nat, timer : BOOLEAN],
         UNCHANGED <<fireVars, playVars, macros, otherVars>>
  PROVE  IInv'
  <1>1. DataOK /\ QueuesOK
    BY DEF IInv
  <1>2. PICK t \in Seq(Frames) : t = <<>> /\ Len(t) = 0
    <2>1. <<>> \in Seq(Frames) /\ Len(<<>>) = 0
      OBVIOUS
    <2> QED BY <2>1
  <1>3. Shaped(t) /\ Fresh(0, t)
    BY <1>2, NoFrames, ShapedFacts
  <1>4. /\ Piled(0, t) /\ Ordinary(0) /\ NoBuiltOnTop /\ Fits(0, t) /\ ToldKept(0)
        /\ 0 \in {Len(stack), Len(stack) - 1}
        /\ \A x : ~OnBelow(0, x) /\ ~OnS(x)
    BY <1>1, <1>2, <1>3, LoopPlace
  <1>5. WokenRun({}) /\ {} \in SUBSET Serials
    BY NoneWoken
  <1>6. UNCHANGED plays /\ UNCHANGED <<fireVars, playing, playTimer>>
    BY DEF playVars
  <1>7. TypingOK' /\ MacrosKept
    BY <1>5, <1>6, WokenRunning, MacrosAsBefore
  <1>8. Stacked({}, 0, t)
    <2>1. \A x : ~OnNew(t, x)
      BY <1>2, NoPlaces DEF OnNew
    <2> QED BY <1>4, <2>1 DEF Stacked
  <1>9. Untold({})
    <2>1. \A x : Typed(x)' <=> Typed(x)
      BY <1>6 DEF Typed
    <2> QED BY <2>1 DEF Untold
  <1>10. HookKept
    BY DEF HookKept
  <1>11. \A j \in 1..Len(t) : t[j].at \notin {"built", "built next"} /\ FrameOK(t[j])'
    BY <1>2, NoPlaces
  <1>12. RestTypes' /\ UNCHANGED <<building, compiler, posted, enabled, fires>>
    BY UnchangedTypes
  <1>13. QueuesOK'
    <2>1. 0 = Len(stack) \/ Top \notin {FireLoop, PlayLoop}
      BY <1>1, StackFacts
    <2> QED BY <1>1, <1>4, <1>6, <2>1, QueuesKept
  <1>14. InputsOK'
    BY EmptyStack
  <1> QED BY <1>3, <1>4, <1>5, <1>7, <1>8, <1>9, <1>10, <1>11, <1>12, <1>13, <1>14, WakeStep

\* The hook is gone, whoever waited for it.
LEMMA NoHookFacts ==
  ASSUME IInv, input' = NoHook
  PROVE  /\ input'.runner = NoRunner /\ HookKept
         /\ input' \in [active : BOOLEAN, runner : Nat, timer : BOOLEAN]
         /\ input.runner = NoRunner \/ (input.runner \in Serials /\ Running(input.runner))
         /\ ~input.active => input.runner = NoRunner
  <1>1. DataOK /\ HookOK
    BY DEF IInv, PointersOK
  <1>2. input.runner # NoRunner => input.runner \in Serials /\ Running(input.runner) /\ input.active
    BY <1>1, RunnersAreStarted DEF HookOK
  <1> QED BY <1>2 DEF NoHook, HookKept, NoRunner

\* hk_input_stop() from the loop.
LEMMA LoopStopsInput ==
  ASSUME IInv, stack = <<>>, StopInput(<<>>), run' = WokenByInput(run), UNCHANGED tableVars,
         UNCHANGED <<fireVars, playVars, macros, otherVars>>
  PROVE  IInv'
  <1>1. input' = NoHook /\ DataOK
    BY DEF StopInput, IInv
  <1>2. /\ input'.runner = NoRunner /\ HookKept
        /\ input' \in [active : BOOLEAN, runner : Nat, timer : BOOLEAN]
        /\ input.runner = NoRunner \/ (input.runner \in Serials /\ Running(input.runner))
    BY <1>1, NoHookFacts
  <1>3. run \in [Serials -> Lists]
        /\ run' = [r \in Serials |-> IF r = input.runner THEN Woken(run[r]) ELSE run[r]]
    BY <1>1 DEF DataOK, WokenByInput
  <1>4. NoRunner \notin Serials
    BY HotkeyAssumption DEF HotkeyAssumption, Serials, NoRunner
  <1>5. CASE input.runner = NoRunner
    <2>1. stack' = <<>> \o <<>>
      BY <1>5 DEF StopInput
    <2>2. stack' = <<>>
      BY <2>1
    <2>3. run' = run
      BY <1>3, <1>4, <1>5
    <2>4. UNCHANGED listVars
      BY <2>3 DEF listVars
    <2> QED BY <1>2, <1>5, <2>2, <2>4, LoopIdle
  <1>6. CASE input.runner \in Serials /\ Running(input.runner)
    <2>1. PICK r \in Serials : r = input.runner /\ r # NoRunner /\ Running(r)
      BY <1>4, <1>6
    <2>2. stack' = <<>> \o <<Step(r)>>
      BY <2>1 DEF StopInput
    <2>3. stack' = <<Step(r)>>
      <3>1. \A f \in Frames : <<>> \o <<f>> = <<f>>
        OBVIOUS
      <3>2. r \in Nat
        BY HotkeyAssumption DEF HotkeyAssumption, Serials
      <3>3. Step(r) \in Frames
        BY <3>2, FramesAre
      <3> QED BY <2>2, <3>1, <3>3
    <2>4. run' = [run EXCEPT ![r] = Woken(run[r])]
      BY <1>3, <2>1
    <2>5. ~Typed(r)
      BY <2>1, Waiter
    <2>6. Untold({r})
      <3>1. \A x : Typed(x)' <=> Typed(x)
        BY DEF Typed, playVars
      <3>2. \A x \in Serials : input'.runner # x /\ (x # r => input.runner # x)
        BY <1>2, <1>4, <2>1
      <3> QED BY <2>5, <3>1, <3>2 DEF Untold
    <2> QED BY <1>2, <2>1, <2>3, <2>4, <2>6, LoopResumes
  <1> QED BY <1>2, <1>5, <1>6

LEMMA InputEndsInv == ASSUME IInv, InputEnds PROVE IInv'
  BY LoopStopsInput DEF InputEnds, AtLoop

LEMMA InputTimeoutInv == ASSUME IInv, InputTimeout PROVE IInv'
  <1>1. CASE input.active
    BY <1>1, LoopStopsInput DEF InputTimeout, AtLoop
  <1>2. CASE ~input.active
    <2>1. input \in [active : BOOLEAN, runner : Nat, timer : BOOLEAN] /\ input.runner = NoRunner
      BY <1>2 DEF IInv, DataOK, PointersOK, HookOK
    <2>2. input' = [input EXCEPT !.timer = FALSE] /\ UNCHANGED <<stack, run>>
      BY <1>2 DEF InputTimeout
    <2>3. /\ input' \in [active : BOOLEAN, runner : Nat, timer : BOOLEAN]
          /\ input'.runner = NoRunner
      BY <2>1, <2>2
    <2>4. stack = <<>> /\ stack' = <<>>
      BY <2>2 DEF InputTimeout, AtLoop
    <2> QED BY <2>1, <2>2, <2>3, <2>4, LoopIdle DEF InputTimeout, listVars
  <1> QED BY <1>1, <1>2

-----------------------------------------------------------------------------
(* Typing: play_kick().                                                    *)

LEMMA HeadChanged ==
  ASSUME NEW S, NEW s \in Seq(S), s # <<>>, NEW e \in S, NEW q, q = <<e>> \o Tail(s)
  PROVE  /\ q \in Seq(S) /\ Len(q) = Len(s) /\ q[1] = e /\ q # <<>>
         /\ \A f \in 1..Len(s) : f # 1 => q[f] = s[f]
  <1>1. PICK a : a = Tail(s)
    OBVIOUS
  <1>2. /\ a \in Seq(S) /\ Len(s) \in Nat \ {0} /\ Len(a) = Len(s) - 1
        /\ \A f \in 1..(Len(s) - 1) : a[f] = s[f + 1]
    BY <1>1, TailFacts
  <1>3. PICK b \in Seq(S) : b = <<e>> /\ Len(b) = 1 /\ b[1] = e
    <2>1. <<e>> \in Seq(S) /\ Len(<<e>>) = 1 /\ <<e>>[1] = e
      OBVIOUS
    <2> QED BY <2>1
  <1>4. /\ q = b \o a /\ q \in Seq(S) /\ Len(q) = 1 + (Len(s) - 1)
        /\ \A f \in 1..(1 + (Len(s) - 1)) : q[f] = IF f <= 1 THEN b[f] ELSE a[f - 1]
    <2>1. q = b \o a
      BY <1>1, <1>3
    <2>2. /\ b \o a \in Seq(S) /\ Len(b \o a) = Len(b) + Len(a)
          /\ \A f \in 1..(Len(b) + Len(a)) : (b \o a)[f] = IF f <= Len(b) THEN b[f] ELSE a[f - Len(b)]
      BY <1>2, <1>3, ConcatProperties
    <2> QED BY <1>2, <1>3, <2>1, <2>2
  <1>5. 1 + (Len(s) - 1) = Len(s) /\ 1 \in 1..Len(s)
    BY <1>2
  <1>6. ASSUME NEW f \in 1..Len(s), f # 1 PROVE q[f] = s[f]
    <2>1. f - 1 \in 1..(Len(s) - 1) /\ ~(f <= 1) /\ f - 1 + 1 = f
      BY <1>2, <1>6
    <2>2. q[f] = a[f - 1] /\ a[f - 1] = s[f - 1 + 1]
      BY <1>2, <1>4, <1>5, <2>1
    <2> QED BY <2>1, <2>2
  <1> QED BY <1>2, <1>3, <1>4, <1>5, <1>6

Plays == [runner : Nat, delays : 0..1]

\* The typing of the first of the queue goes on.
LEMMA PlayStays ==
  ASSUME IInv, NEW e \in Plays, plays # <<>>, plays' = <<e>> \o Tail(plays),
         e.runner = Head(plays).runner, \A x : Running(x)' <=> Running(x)
  PROVE  plays' \in Seq(Plays) /\ TypingOK' /\ \A x : Typed(x)' <=> Typed(x)
  <1>1. plays \in Seq(Plays) /\ TypingOK
    BY DEF IInv, DataOK, PointersOK, Plays
  <1>2. /\ plays' \in Seq(Plays) /\ Len(plays') = Len(plays) /\ plays'[1] = e
        /\ \A f \in 1..Len(plays) : f # 1 => plays'[f] = plays[f]
    BY <1>1, HeadChanged
  <1>3. Head(plays) = plays[1]
    BY <1>1, TailFacts
  <1>4. \A f \in 1..Len(plays) : plays'[f].runner = plays[f].runner
    BY <1>2, <1>3
  <1>5. TypingOK'
    <2>1. \A f \in 1..Len(plays) : \A x : x = plays[f].runner /\ x # NoRunner => Running(x)'
      BY <1>1 DEF TypingOK
    <2> QED BY <1>1, <1>2, <1>4, <2>1 DEF TypingOK
  <1>6. \A x : Typed(x)' <=> Typed(x)
    BY <1>2, <1>4 DEF Typed
  <1> QED BY <1>2, <1>5, <1>6

\* It is over: whoever waited for it no longer does.
LEMMA PlayOver ==
  ASSUME IInv, plays # <<>>, plays' = Tail(plays), NEW r, r = Head(plays).runner,
         \A x : Running(x)' <=> Running(x)
  PROVE  /\ plays' \in Seq(Plays) /\ TypingOK' /\ r \in Nat
         /\ \A x \in Serials : x # r => (Typed(x)' <=> Typed(x))
         /\ r # NoRunner => ~Typed(r)' /\ Typed(r) /\ Running(r) /\ r \in Serials
  <1>1. plays \in Seq(Plays) /\ TypingOK /\ DataOK
    BY DEF IInv, DataOK, PointersOK, Plays
  <1>2. /\ plays' \in Seq(Plays) /\ Len(plays) \in Nat \ {0} /\ Len(plays') = Len(plays) - 1
        /\ \A f \in 1..(Len(plays) - 1) : plays'[f] = plays[f + 1]
        /\ Head(plays) = plays[1] /\ plays[1] \in Plays
    BY <1>1, TailFacts
  <1>3. /\ \A f \in 1..Len(plays') : f + 1 \in 1..Len(plays) /\ plays'[f] = plays[f + 1] /\ f + 1 # 1
        /\ \A f \in 1..Len(plays) : f # 1 =>
             f - 1 \in 1..Len(plays') /\ plays'[f - 1] = plays[f]
        /\ 1 \in 1..Len(plays)
    <2>1. ASSUME NEW f \in 1..Len(plays), f # 1
          PROVE  f - 1 \in 1..Len(plays') /\ plays'[f - 1] = plays[f]
      <3>1. f - 1 \in 1..(Len(plays) - 1) /\ f - 1 + 1 = f
        BY <1>2, <2>1
      <3> QED BY <1>2, <3>1
    <2>2. ASSUME NEW f \in 1..Len(plays')
          PROVE  f + 1 \in 1..Len(plays) /\ plays'[f] = plays[f + 1] /\ f + 1 # 1
      BY <1>2
    <2> QED BY <1>2, <2>1, <2>2
  <1>4. plays[1].runner = r /\ r \in Nat
    BY <1>2 DEF Plays
  <1>5. \A p, q \in 1..Len(plays) : plays[p].runner = plays[q].runner /\ plays[p].runner # NoRunner => p = q
    BY <1>1 DEF TypingOK
  <1>6. \A f \in 1..Len(plays) : \A x : x = plays[f].runner /\ x # NoRunner => Running(x)
    BY <1>1 DEF TypingOK
  <1>7. TypingOK'
    <2>1. ASSUME NEW f \in 1..Len(plays'), plays'[f].runner # NoRunner
          PROVE  Running(plays[f].runner)'
      <3>1. PICK x : x = plays'[f].runner /\ x = plays[f + 1].runner
        BY <1>3
      <3>2. Running(x)'
        BY <1>3, <1>6, <2>1, <3>1
      <3> QED BY <3>1, <3>2
    <2>2. ASSUME NEW p \in 1..Len(plays'), NEW q \in 1..Len(plays'),
                 plays'[p].runner = plays'[q].runner, plays'[p].runner # NoRunner
          PROVE  p = q
      <3>1. p + 1 = q + 1
        BY <1>3, <1>5, <2>2
      <3>2. p \in Int /\ q \in Int
        OBVIOUS
      <3> QED BY <3>1, <3>2
    <2> QED BY <2>1, <2>2 DEF TypingOK
  <1>8. ASSUME NEW x \in Serials, x # r PROVE Typed(x)' <=> Typed(x)
    <2>1. ASSUME Typed(x)' PROVE Typed(x)
      BY <1>3, <2>1 DEF Typed
    <2>2. ASSUME Typed(x) PROVE Typed(x)'
      BY <1>3, <1>4, <1>8, <2>2 DEF Typed
    <2> QED BY <2>1, <2>2
  <1>9. ASSUME r # NoRunner PROVE ~Typed(r)' /\ Typed(r) /\ Running(r) /\ r \in Serials
    <2>1. Typed(r) /\ Running(r)
      BY <1>3, <1>4, <1>6, <1>9 DEF Typed
    <2>2. ~Typed(r)'
      <3>1. \A f \in 1..Len(plays') : plays'[f].runner # r
        BY <1>3, <1>4, <1>5, <1>9
      <3> QED BY <3>1 DEF Typed
    <2> QED BY <1>1, <2>1, <2>2, RunnersAreStarted
  <1> QED BY <1>2, <1>4, <1>7, <1>8, <1>9

\* A step of the play timer's callback.
LEMMA PlayStep ==
  ASSUME IInv, At(PlayLoop), NEW W \in SUBSET Serials, WokenRun(W), Untold(W), TypingOK',
         plays' \in Seq(Plays), playTimer' \in BOOLEAN,
         NEW n \in {Len(stack), Len(stack) - 1}, NEW t \in Seq(Frames), Piled(n, t), Shaped(t),
         \A x \in Serials : OnNew(t, x) <=> x \in W,
         Fresh(n, t), \A j \in 1..Len(t) : t[j].at = "step" /\ FrameOK(t[j])',
         UNCHANGED <<fireVars, playing, input, macros, otherVars>>, QueuesOK'
  PROVE  IInv'
  <1>1. DataOK /\ StackOK
    BY DEF IInv
  <1>2. stack # <<>> /\ Top = PlayLoop /\ Top.at = "plays"
    <2>1. stack # <<>> /\ Top = PlayLoop
      BY <1>1, TopIs
    <2>2. PlayLoop.at = "plays"
      BY FramesAre
    <2> QED BY <2>1, <2>2
  <1>3. Calm(n)
    BY <1>2 DEF Calm, Special
  <1>4. /\ Ordinary(n) /\ \A x : OnBelow(n, x) <=> OnS(x)
        /\ Fits(n, t)
    BY <1>1, <1>2, <1>3, CalmFacts DEF OfList
  <1>5. Stacked(W, n, t)
    BY <1>4 DEF Stacked
  <1>6. NoBuiltOnTop
    BY <1>2 DEF NoBuiltOnTop
  <1>7. ToldKept(n) /\ MacrosKept
    BY <1>1, ToldSame, MacrosAsBefore
  <1>8. HookKept
    BY DEF HookKept, IInv, PointersOK, HookOK
  <1>9. RestTypes' /\ UNCHANGED <<building, compiler, posted, enabled, fires>>
    BY RestTypesNow DEF IInv, RestTypes, fireVars, otherVars, codeVars, modeVars, Plays
  <1>10. InputsOK'
    <2>1. \A j \in 1..Len(t) : t[j].at \notin {"input", "built", "built next"}
      OBVIOUS
    <2> QED BY <1>1, <1>4, <2>1, TurnPlain, PlainIsOKNext
  <1>11. \A j \in 1..Len(t) : t[j].at \notin {"built", "built next"} /\ FrameOK(t[j])'
    OBVIOUS
  <1> QED BY <1>4, <1>5, <1>6, <1>7, <1>8, <1>9, <1>10, <1>11, WakeStep

LEMMA NoNewFrame ==
  \E t \in Seq(Frames) : /\ t = <<>> /\ Len(t) = 0 /\ Shaped(t) /\ (\A n : Fresh(n, t))
                         /\ (\A x : ~OnNew(t, x)) /\ \A j \in 1..Len(t) : FALSE
  <1>1. <<>> \in Seq(Frames) /\ Len(<<>>) = 0
    OBVIOUS
  <1>2. \A x : ~OnNew(<<>>, x)
    BY <1>1, NoPlaces DEF OnNew
  <1> QED BY <1>1, <1>2, NoFrames, NoPlaces, ShapedFacts

LEMMA PlayDelayed ==
  ASSUME IInv, PlayHead, Head(plays).delays > 0
  PROVE  IInv'
  <1>1. DataOK /\ QueuesOK /\ At(PlayLoop) /\ plays # <<>> /\ plays \in Seq(Plays)
    BY DEF IInv, PlayHead, DataOK, Plays
  <1>2. stack # <<>> /\ Top = PlayLoop /\ Top.at = "plays"
    <2>1. stack # <<>> /\ Top = PlayLoop
      BY <1>1, TopIs
    <2>2. PlayLoop.at = "plays"
      BY FramesAre
    <2> QED BY <2>1, <2>2
  <1>3. Head(plays) \in Plays
    BY <1>1, TailFacts
  <1>4. PICK e : e = [Head(plays) EXCEPT !.delays = @ - 1]
    OBVIOUS
  <1>5. e \in Plays /\ e.runner = Head(plays).runner
    BY <1>3, <1>4 DEF Plays
  <1>6. /\ plays' = <<e>> \o Tail(plays) /\ playTimer' = TRUE /\ stack' = Becomes(<<>>) /\ UNCHANGED run
        /\ UNCHANGED <<tableVars, fireVars, playing, input, macros, otherVars>>
    BY <1>4 DEF PlayHead
  <1>7. WokenRun({}) /\ {} \in SUBSET Serials
    BY <1>6, NoneWoken DEF listVars
  <1>8. \A x : Running(x)' <=> Running(x)
    BY <1>7, WokenRunning
  <1>9. plays' \in Seq(Plays) /\ TypingOK' /\ \A x : Typed(x)' <=> Typed(x)
    BY <1>1, <1>5, <1>6, <1>8, PlayStays
  <1>10. Untold({})
    BY <1>6, <1>9 DEF Untold
  <1>11. PICK t \in Seq(Frames) :
           /\ t = <<>> /\ Len(t) = 0 /\ Shaped(t) /\ (\A n : Fresh(n, t))
           /\ (\A x : ~OnNew(t, x)) /\ \A j \in 1..Len(t) : FALSE
    BY NoNewFrame
  <1>12. PICK n : n = Len(stack) - 1
    OBVIOUS
  <1>13. Piled(n, t) /\ n \in {Len(stack), Len(stack) - 1} /\ Piled(Len(stack) - 1, <<>>)
    BY <1>1, <1>2, <1>6, <1>11, <1>12, Popped
  <1>14. QueuesOK'
    <2>1. Awaited(FireLoop) => Awaited(FireLoop)'
      BY <1>1, <1>2, <1>13, AwaitedLoops
    <2>2. UNCHANGED <<fires, fireIdle, playing>>
      BY <1>6 DEF fireVars
    <2> QED BY <1>1, <1>6, <2>1, <2>2, QueuesFacts, QueuesFactsNext
  <1> QED BY <1>1, <1>6, <1>7, <1>9, <1>10, <1>11, <1>13, <1>14, PlayStep

\* The first of the queue has been typed: who waited for it carries on.
LEMMA PlayFinished ==
  ASSUME IInv, PlayHead, ~(Head(plays).delays > 0)
  PROVE  IInv'
  <1>1. DataOK /\ QueuesOK /\ At(PlayLoop) /\ plays # <<>>
    BY DEF IInv, PlayHead
  <1>2. stack # <<>> /\ Top = PlayLoop
    BY <1>1, TopIs
  <1>3. PICK r : r = Head(plays).runner
    OBVIOUS
  <1>4. /\ plays' = Tail(plays) /\ UNCHANGED playTimer
        /\ UNCHANGED <<tableVars, fireVars, playing, input, macros, otherVars>>
        /\ r = NoRunner => UNCHANGED <<stack, run>>
        /\ r # NoRunner => Resume(r, stack)
    BY <1>3 DEF PlayHead
  <1>5. playTimer' \in BOOLEAN /\ UNCHANGED <<fireVars, playing, playTimer>>
    BY <1>1, <1>4 DEF DataOK
  <1>6. plays' # <<>> => plays # <<>>
    BY <1>1
  <1>7. NoRunner \notin Serials /\ Len(stack) \in {Len(stack), Len(stack) - 1}
    BY HotkeyAssumption DEF HotkeyAssumption, Serials, NoRunner
  <1>8. CASE r = NoRunner
    <2>1. WokenRun({}) /\ {} \in SUBSET Serials
      BY <1>4, <1>8, NoneWoken DEF listVars
    <2>2. \A x : Running(x)' <=> Running(x)
      BY <2>1, WokenRunning
    <2>3. plays' \in Seq(Plays) /\ TypingOK' /\ \A x \in Serials : x # r => (Typed(x)' <=> Typed(x))
      BY <1>1, <1>3, <1>4, <2>2, PlayOver
    <2>4. Untold({})
      BY <1>4, <1>7, <1>8, <2>3 DEF Untold
    <2>5. PICK t \in Seq(Frames) :
            /\ t = <<>> /\ Len(t) = 0 /\ Shaped(t) /\ (\A n : Fresh(n, t))
            /\ (\A x : ~OnNew(t, x)) /\ \A j \in 1..Len(t) : FALSE
      BY NoNewFrame
    <2>6. Piled(Len(stack), t)
      BY <1>1, <1>4, <1>8, <2>5, Stays
    <2>7. QueuesOK'
      BY <1>1, <1>5, <1>6, <1>7, <2>6, QueuesKept
    <2> QED BY <1>1, <1>4, <1>5, <1>7, <2>1, <2>3, <2>4, <2>5, <2>6, <2>7, PlayStep
  <1>9. CASE r # NoRunner
    <2>1. Running(r) /\ Typed(r) /\ r \in Serials
      <3>1. plays \in Seq(Plays) /\ TypingOK
        BY DEF IInv, DataOK, PointersOK, Plays
      <3>2. Head(plays) = plays[1] /\ 1 \in 1..Len(plays)
        BY <1>1, <3>1, TailFacts
      <3> QED BY <1>1, <1>3, <1>9, <3>1, <3>2, RunnersAreStarted DEF TypingOK, Typed
    <2>2. ~OnS(r) /\ input.runner # r
      BY <2>1, Waiter
    <2>3. run' = [run EXCEPT ![r] = Woken(@)] /\ stack' = stack \o <<Step(r)>>
      BY <1>4, <1>9 DEF Resume
    <2>4. WokenRun({r}) /\ {r} \in SUBSET Serials
      BY <1>4, <2>1, <2>3, OneWoken
    <2>5. (\A x : Running(x)' <=> Running(x)) /\ started' = started
      BY <2>4, WokenRunning
    <2>6. /\ plays' \in Seq(Plays) /\ TypingOK' /\ ~Typed(r)'
          /\ \A x \in Serials : x # r => (Typed(x)' <=> Typed(x))
      BY <1>1, <1>3, <1>4, <1>9, <2>5, PlayOver
    <2>7. Untold({r})
      BY <1>4, <2>2, <2>6 DEF Untold
    <2>8. PICK t : t = <<Step(r)>>
      OBVIOUS
    <2>9. /\ t \in Seq(Frames) /\ Shaped(t) /\ (\A j \in 1..Len(t) : t[j] = Step(r))
          /\ (\A x : OnNew(t, x) <=> x = r) /\ Step(r).at = "step"
          /\ \A n : ~OnBelow(n, r) => Fresh(n, t)
      BY <2>1, <2>8, StepAlone
    <2>10. Piled(Len(stack), t)
      BY <1>1, <2>3, <2>8, <2>9, Raised
    <2>11. Fresh(Len(stack), t)
      BY <2>2, <2>9 DEF OnS, OnBelow
    <2>12. FrameOK(Step(r))'
      BY <2>1, <2>5, StepFrame
    <2>13. \A j \in 1..Len(t) : t[j].at = "step" /\ FrameOK(t[j])'
      BY <2>9, <2>12
    <2>14. QueuesOK'
      BY <1>1, <1>5, <1>6, <1>7, <2>9, <2>10, QueuesKept
    <2>15. \A x \in Serials : OnNew(t, x) <=> x \in {r}
      BY <2>9
    <2> QED BY <1>1, <1>4, <1>5, <1>7, <2>4, <2>6, <2>7, <2>9, <2>10, <2>11, <2>13, <2>14, <2>15, PlayStep
  <1> QED BY <1>8, <1>9

LEMMA PlayHeadInv == ASSUME IInv, PlayHead PROVE IInv'
  BY PlayDelayed, PlayFinished

-----------------------------------------------------------------------------
(* What a callback that wakes a list puts on the stack, frame by frame.    *)

\* The frames t fit on n frames; W are the lists they are of.
Ready(n, t, W) ==
  /\ t \in Seq(Frames) /\ Shaped(t) /\ Fresh(n, t)
  /\ \A x \in Serials : OnNew(t, x) <=> x \in W
  /\ \A j \in 1..Len(t) : t[j].at \notin {"built", "built next"} /\ FrameOK(t[j])'
Told(t) == \E j \in 1..Len(t) : t[j].at = "told"
Asks(t) == \E j \in 1..Len(t) : t[j].at = "input"
Open(t) == \A j \in 1..Len(t) : t[j].at \notin Special
OnlyAsks(t) == Len(t) = 1 /\ t[1].at = "input"
Adds(t, f) == t \o <<f>>

IsAdds(q, t, f) ==
  /\ q \in Seq(Frames) /\ Len(q) = Len(t) + 1 /\ q[Len(q)] = f /\ Len(t) \in Nat
  /\ Len(q) \in 1..Len(q) /\ Len(q) \notin 1..Len(t)
  /\ \A j \in 1..Len(t) : j \in 1..Len(q) /\ q[j] = t[j] /\ j # Len(q)
  /\ \A j \in 1..Len(q) : j # Len(q) => j \in 1..Len(t)

LEMMA AddsFacts ==
  ASSUME NEW t \in Seq(Frames), NEW f \in Frames, NEW q, q = Adds(t, f)
  PROVE  IsAdds(q, t, f)
  <1>1. <<f>> \in Seq(Frames) /\ Len(<<f>>) = 1 /\ <<f>>[1] = f /\ Len(t) \in Nat
    BY OneFrame
  <1>2. PICK s : s = <<f>> /\ s \in Seq(Frames) /\ Len(s) = 1 /\ s[1] = f
    BY <1>1
  <1>3. /\ t \o s \in Seq(Frames) /\ Len(t \o s) = Len(t) + Len(s)
        /\ \A j \in 1..(Len(t) + Len(s)) : (t \o s)[j] = IF j <= Len(t) THEN t[j] ELSE s[j - Len(t)]
    BY <1>2, ConcatProperties
  <1>4. q = t \o s
    BY <1>2 DEF Adds
  <1>5. /\ q \in Seq(Frames) /\ Len(q) = Len(t) + 1
        /\ \A j \in 1..(Len(t) + 1) : q[j] = IF j <= Len(t) THEN t[j] ELSE s[j - Len(t)]
    BY <1>2, <1>3, <1>4
  <1>6. /\ Len(t) + 1 \in 1..(Len(t) + 1) /\ ~(Len(t) + 1 <= Len(t)) /\ Len(t) + 1 - Len(t) = 1
        /\ Len(t) + 1 \notin 1..Len(t)
        /\ \A j \in 1..Len(t) : j \in 1..(Len(t) + 1) /\ j <= Len(t) /\ j # Len(t) + 1
        /\ \A j \in 1..(Len(t) + 1) : j # Len(t) + 1 => j \in 1..Len(t)
    BY <1>1
  <1>7. q[Len(t) + 1] = f
    BY <1>2, <1>5, <1>6
  <1>8. \A j \in 1..Len(t) : q[j] = t[j]
    BY <1>5, <1>6
  <1> QED BY <1>1, <1>5, <1>6, <1>7, <1>8 DEF IsAdds

LEMMA AddsOnNew ==
  ASSUME NEW t \in Seq(Frames), NEW f \in Frames, NEW x
  PROVE  OnNew(Adds(t, f), x) <=> OnNew(t, x) \/ (f.at \in OfList /\ f.runner = x)
  <1>1. PICK q : q = Adds(t, f)
    OBVIOUS
  <1>2. /\ q[Len(q)] = f /\ Len(q) \in 1..Len(q)
        /\ \A j \in 1..Len(t) : j \in 1..Len(q) /\ q[j] = t[j]
        /\ \A j \in 1..Len(q) : j # Len(q) => j \in 1..Len(t)
    <2>1. IsAdds(q, t, f)
      BY <1>1, AddsFacts
    <2> QED BY <2>1 DEF IsAdds
  <1>3. OnNew(q, x) <=> OnNew(t, x) \/ (f.at \in OfList /\ f.runner = x)
    <2>1. OnNew(q, x) => OnNew(t, x) \/ (f.at \in OfList /\ f.runner = x)
      BY <1>2 DEF OnNew
    <2>2. OnNew(t, x) => OnNew(q, x)
      BY <1>2 DEF OnNew
    <2>3. f.at \in OfList /\ f.runner = x => OnNew(q, x)
      BY <1>2 DEF OnNew
    <2> QED BY <2>1, <2>2, <2>3
  <1> QED BY <1>1, <1>3

CanAdd(n, t, W, f, V) ==
  /\ W \in SUBSET Serials /\ Ready(n, t, W) /\ f \in Frames
  /\ f.at \notin {"built", "built next"} /\ FrameOK(f)'
  /\ f.at \in OfList => ~OnNew(t, f.runner) /\ (Running(f.runner)' => ~OnBelow(n, f.runner))
  /\ f.at = "told" => macros[f.macro] # "over" /\ ~Told(t)
  /\ Open(t) \/ (OnlyAsks(t) /\ f.at = "step")
  /\ \A x \in Serials : x \in V <=> x \in W \/ (f.at \in OfList /\ f.runner = x)
IsMore(n, t, f, V) ==
  /\ Ready(n, Adds(t, f), V)
  /\ Open(t) /\ f.at \notin Special => Open(Adds(t, f))
  /\ Told(Adds(t, f)) <=> Told(t) \/ f.at = "told"
  /\ Asks(Adds(t, f)) <=> Asks(t) \/ f.at = "input"

LEMMA AddOne ==
  ASSUME NEW n, NEW t, NEW W, NEW f, NEW V, CanAdd(n, t, W, f, V)
  PROVE  IsMore(n, t, f, V)
  <1> W \in SUBSET Serials /\ Ready(n, t, W) /\ f \in Frames
    BY DEF CanAdd
  <1> f.at \notin {"built", "built next"} /\ FrameOK(f)'
    BY DEF CanAdd
  <1> f.at \in OfList => ~OnNew(t, f.runner) /\ (Running(f.runner)' => ~OnBelow(n, f.runner))
    BY DEF CanAdd
  <1> f.at = "told" => macros[f.macro] # "over" /\ ~Told(t)
    BY DEF CanAdd
  <1> Open(t) \/ (OnlyAsks(t) /\ f.at = "step")
    BY DEF CanAdd
  <1> \A x \in Serials : x \in V <=> x \in W \/ (f.at \in OfList /\ f.runner = x)
    BY DEF CanAdd
  <1>1. PICK q : q = Adds(t, f)
    OBVIOUS
  <1>2. t \in Seq(Frames)
    BY DEF Ready
  <1>3. /\ q \in Seq(Frames) /\ Len(q) = Len(t) + 1 /\ q[Len(q)] = f /\ Len(t) \in Nat
        /\ Len(q) \in 1..Len(q) /\ Len(q) \notin 1..Len(t)
        /\ \A j \in 1..Len(t) : j \in 1..Len(q) /\ q[j] = t[j] /\ j # Len(q)
        /\ \A j \in 1..Len(q) : j # Len(q) => j \in 1..Len(t)
    <2>1. IsAdds(q, t, f)
      BY <1>1, <1>2, AddsFacts
    <2> QED BY <2>1 DEF IsAdds
  <1>4. \A x : OnNew(q, x) <=> OnNew(t, x) \/ (f.at \in OfList /\ f.runner = x)
    BY <1>1, <1>2, AddsOnNew
  <1>5. Shaped(q)
    <2> SUFFICES ASSUME NEW j \in 1..Len(q), j # Len(q)
                 PROVE  /\ q[j].at \notin {"step", "built"}
                        /\ q[j].at \in {"input", "built next"} =>
                             j = Len(q) - 1 /\ q[Len(q)].at \in {"step", "acted"}
      BY DEF Shaped
    <2>1. j \in 1..Len(t) /\ q[j] = t[j]
      BY <1>3
    <2>2. CASE Open(t)
      BY <2>1, <2>2 DEF Open, Special
    <2>3. CASE OnlyAsks(t) /\ f.at = "step"
      <3>1. j = 1 /\ Len(q) = 2
        BY <1>3, <2>1, <2>3 DEF OnlyAsks
      <3>2. q[j].at = "input" /\ q[Len(q)].at = "step" /\ j = Len(q) - 1
        BY <1>3, <2>1, <2>3, <3>1 DEF OnlyAsks
      <3> QED BY <3>2
    <2> QED BY <2>2, <2>3
  <1>6. Fresh(n, q)
    <2>1. /\ \A j \in 1..Len(t) :
               /\ t[j].at \in OfList /\ Running(t[j].runner)' => ~OnBelow(n, t[j].runner)
               /\ t[j].at = "told" => macros[t[j].macro] # "over"
          /\ \A i, j \in 1..Len(t) :
               /\ t[i].at \in OfList /\ t[j].at \in OfList /\ t[i].runner = t[j].runner => i = j
               /\ t[i].at = "told" /\ t[j].at = "told" => i = j
      BY DEF Ready, Fresh
    <2>2. ASSUME NEW j \in 1..Len(q)
          PROVE  /\ q[j].at \in OfList /\ Running(q[j].runner)' => ~OnBelow(n, q[j].runner)
                 /\ q[j].at = "told" => macros[q[j].macro] # "over"
      <3>1. CASE j = Len(q)
        BY <1>3, <3>1
      <3>2. CASE j # Len(q)
        <4>1. j \in 1..Len(t) /\ q[j] = t[j]
          BY <1>3, <3>2
        <4> QED BY <2>1, <4>1
      <3> QED BY <3>1, <3>2
    <2>3. ASSUME NEW j \in 1..Len(q), j # Len(q)
          PROVE  /\ ~(q[j].at \in OfList /\ f.at \in OfList /\ q[j].runner = f.runner)
                 /\ ~(q[j].at = "told" /\ f.at = "told")
      BY <1>3, <2>3 DEF OnNew, Told
    <2>4. ASSUME NEW i \in 1..Len(q), NEW j \in 1..Len(q)
          PROVE  /\ q[i].at \in OfList /\ q[j].at \in OfList /\ q[i].runner = q[j].runner => i = j
                 /\ q[i].at = "told" /\ q[j].at = "told" => i = j
      <3>1. CASE i # Len(q) /\ j # Len(q)
        <4>1. i \in 1..Len(t) /\ q[i] = t[i] /\ j \in 1..Len(t) /\ q[j] = t[j]
          BY <1>3, <3>1
        <4> QED BY <2>1, <4>1
      <3>2. CASE i = Len(q) /\ j # Len(q)
        BY <1>3, <2>3, <3>2
      <3>3. CASE i # Len(q) /\ j = Len(q)
        BY <1>3, <2>3, <3>3
      <3> QED BY <3>1, <3>2, <3>3
    <2> QED BY <2>2, <2>4 DEF Fresh
  <1>7. \A x \in Serials : OnNew(q, x) <=> x \in V
    BY <1>4 DEF Ready
  <1>8. ASSUME NEW j \in 1..Len(q)
        PROVE  q[j].at \notin {"built", "built next"} /\ FrameOK(q[j])'
    <2>1. CASE j = Len(q)
      BY <1>3, <2>1
    <2>2. CASE j # Len(q)
      BY <1>3, <2>2 DEF Ready
    <2> QED BY <2>1, <2>2
  <1>9. /\ Open(t) /\ f.at \notin Special => Open(q)
        /\ Told(q) <=> Told(t) \/ f.at = "told"
        /\ Asks(q) <=> Asks(t) \/ f.at = "input"
    <2>1. ASSUME Open(t), f.at \notin Special PROVE Open(q)
      <3>1. ASSUME NEW j \in 1..Len(q) PROVE q[j].at \notin Special
        <4>1. CASE j = Len(q)
          BY <1>3, <2>1, <4>1
        <4>2. CASE j # Len(q)
          BY <1>3, <2>1, <4>2 DEF Open
        <4> QED BY <4>1, <4>2
      <3> QED BY <3>1 DEF Open
    <2>2. /\ Told(q) => Told(t) \/ f.at = "told"
          /\ Asks(q) => Asks(t) \/ f.at = "input"
      <3>1. \A j \in 1..Len(q) : (j \in 1..Len(t) /\ q[j] = t[j]) \/ q[j].at = f.at
        BY <1>3
      <3>2. Told(q) => Told(t) \/ f.at = "told"
        BY <3>1 DEF Told
      <3>3. Asks(q) => Asks(t) \/ f.at = "input"
        BY <3>1 DEF Asks
      <3> QED BY <3>2, <3>3
    <2>3. (Told(t) => Told(q)) /\ (Asks(t) => Asks(q))
      <3>1. \A j \in 1..Len(t) : j \in 1..Len(q) /\ q[j] = t[j]
        BY <1>3
      <3>2. Told(t) => Told(q)
        BY <3>1 DEF Told
      <3>3. Asks(t) => Asks(q)
        BY <3>1 DEF Asks
      <3> QED BY <3>2, <3>3
    <2>4. (f.at = "told" => Told(q)) /\ (f.at = "input" => Asks(q))
      <3>1. Len(q) \in 1..Len(q) /\ q[Len(q)].at = f.at
        BY <1>3
      <3>2. f.at = "told" => Told(q)
        BY <3>1 DEF Told
      <3>3. f.at = "input" => Asks(q)
        BY <3>1 DEF Asks
      <3> QED BY <3>2, <3>3
    <2> QED BY <2>1, <2>2, <2>3, <2>4
  <1> QED BY <1>1, <1>3, <1>5, <1>6, <1>7, <1>8, <1>9 DEF Ready, IsMore

LEMMA ReadyNone ==
  \A n : /\ Ready(n, <<>>, {}) /\ Open(<<>>) /\ ~Told(<<>>) /\ ~Asks(<<>>) /\ <<>> \in Seq(Frames)
  <1>1. PICK t \in Seq(Frames) : /\ t = <<>> /\ Len(t) = 0 /\ Shaped(t) /\ (\A n : Fresh(n, t))
                                 /\ (\A x : ~OnNew(t, x)) /\ \A j \in 1..Len(t) : FALSE
    BY NoNewFrame
  <1>2. \A n : Ready(n, t, {}) /\ Open(t) /\ ~Told(t) /\ ~Asks(t)
    BY <1>1 DEF Ready, Open, Told, Asks
  <1> QED BY <1>1, <1>2

\* Where the n frames are that are kept, for the lists W.
Place(n, W) ==
  /\ n \in {Len(stack), Len(stack) - 1} /\ Ordinary(n) /\ NoBuiltOnTop
  /\ \A t \in Seq(Frames) : Shaped(t) => Fits(n, t)
  /\ \A x \in Serials : x \notin W => (OnBelow(n, x) <=> OnS(x))

LEMMA WakeOn ==
  ASSUME IInv, NEW W \in SUBSET Serials, WokenRun(W), Untold(W), HookKept, MacrosKept,
         NEW n, Place(n, W), ToldKept(n), NEW t, Piled(n, t), Ready(n, t, W),
         UNCHANGED <<fireVars, playVars>>, n = Len(stack) \/ Top \notin {FireLoop, PlayLoop},
         RestTypes', UNCHANGED <<building, compiler, posted, enabled>>, ~Asks(t) \/ InputsOK'
  PROVE  IInv'
  <1>1. DataOK /\ StackOK /\ QueuesOK
    BY DEF IInv
  <1>2. /\ n \in {Len(stack), Len(stack) - 1} /\ Ordinary(n) /\ NoBuiltOnTop
        /\ t \in Seq(Frames) /\ Shaped(t) /\ Fresh(n, t)
    BY DEF Place, Ready
  <1>3. Fits(n, t) /\ Stacked(W, n, t)
    BY <1>2 DEF Place, Ready, Stacked
  <1>4. /\ UNCHANGED plays /\ UNCHANGED fires /\ UNCHANGED <<fireVars, playing, playTimer>>
    BY DEF playVars, fireVars
  <1>5. TypingOK'
    BY <1>4, WokenRunning
  <1>6. \A j \in 1..Len(t) : t[j].at \notin {"built", "built next"} /\ FrameOK(t[j])'
    BY DEF Ready
  <1>7. QueuesOK'
    <2>1. plays' # <<>> => plays # <<>>
      BY <1>4
    <2> QED BY <1>1, <1>2, <1>4, <2>1, QueuesKept
  <1>8. ~Asks(t) => InputsOK'
    <2>1. ASSUME ~Asks(t) PROVE InputsOK'
      <3>1. \A j \in 1..Len(t) : t[j].at \notin {"input", "built", "built next"}
        BY <1>6, <2>1 DEF Asks
      <3> QED BY <1>1, <1>2, <3>1, TurnPlain, PlainIsOKNext
    <2> QED BY <2>1
  <1> QED BY <1>2, <1>3, <1>4, <1>5, <1>6, <1>7, <1>8, WakeStep

LEMMA LoopIsPlace ==
  ASSUME DataOK, stack = <<>>, NEW W, NEW t \in Seq(Frames), stack' = t
  PROVE  Place(0, W) /\ ToldKept(0) /\ Piled(0, t) /\ Len(stack) = 0 /\ \A x : ~OnBelow(0, x)
  <1>1. Len(stack) = 0
    BY StackFacts
  <1>2. Ordinary(0) /\ ToldKept(0) /\ \A x : ~OnBelow(0, x) /\ ~OnS(x)
    BY <1>1, NoPlaces DEF Ordinary, ToldKept, OnBelow, OnS
  <1>3. NoBuiltOnTop /\ \A u \in Seq(Frames) : Shaped(u) => Fits(0, u)
    BY <1>1 DEF Fits, NoBuiltOnTop
  <1>4. Piled(0, t)
    BY FromLoop
  <1> QED BY <1>1, <1>2, <1>3, <1>4 DEF Place

\* Below a list on top, when it is not in the middle of another's wait.
LEMMA OwnIsPlace ==
  ASSUME IInv, NEW r, OnTopIs(r), Ordinary(Len(stack) - 1), NEW W, r \in W
  PROVE  /\ Place(Len(stack) - 1, W) /\ ~OnBelow(Len(stack) - 1, r)
         /\ Top \notin {FireLoop, PlayLoop}
  <1>1. DataOK /\ StackOK /\ RestsOK
    BY DEF IInv
  <1>2. /\ ~OnBelow(Len(stack) - 1, r) /\ \A x : x # r => (OnBelow(Len(stack) - 1, x) <=> OnS(x))
    BY <1>1, OnTopFacts
  <1>3. NoBuiltOnTop /\ Top \notin {FireLoop, PlayLoop}
    BY FramesAre DEF NoBuiltOnTop, OnTopIs
  <1>4. PICK n : n = Len(stack) - 1 /\ n \in Nat /\ n # Len(stack)
    BY <1>1, PlacesUnder DEF OnTopIs
  <1>5. ASSUME NEW t \in Seq(Frames), Shaped(t) PROVE Fits(n, t)
    <2>1. n > 0 => stack[n].at \notin Special
      BY <1>4 DEF Ordinary
    <2> QED BY <1>4, <1>5, <2>1 DEF Fits, Special
  <1> QED BY <1>2, <1>3, <1>4, <1>5 DEF Place

\* A frame of no list returns.
LEMMA EndIsPlace ==
  ASSUME IInv, stack # <<>>, Ends(Top.at), NEW W
  PROVE  Place(Len(stack) - 1, W)
  <1>1. DataOK /\ StackOK
    BY DEF IInv
  <1>2. PICK n : n = Len(stack) - 1
    OBVIOUS
  <1>3. Calm(n) /\ NoBuiltOnTop /\ Top.at \notin OfList
    BY <1>2 DEF Calm, Ends, NoBuiltOnTop, OfList
  <1>4. /\ n \in {Len(stack), Len(stack) - 1} /\ n \in Nat /\ Ordinary(n)
        /\ \A x : OnBelow(n, x) <=> OnS(x)
        /\ \A t \in Seq(Frames) : Shaped(t) => Fits(n, t)
    BY <1>1, <1>3, CalmFacts
  <1> QED BY <1>2, <1>3, <1>4 DEF Place

LEMMA AddStepOf ==
  ASSUME IInv, UNCHANGED tableVars, NEW n, NEW t, NEW W \in SUBSET Serials, Ready(n, t, W),
         Open(t) \/ OnlyAsks(t), NEW w \in Serials, Running(w), w \notin W, ~OnBelow(n, w)
  PROVE  /\ Ready(n, Adds(t, Step(w)), W \cup {w}) /\ W \cup {w} \in SUBSET Serials
         /\ Told(Adds(t, Step(w))) <=> Told(t)
         /\ Asks(Adds(t, Step(w))) <=> Asks(t)
  <1>1. w \in Nat
    BY HotkeyAssumption DEF HotkeyAssumption, Serials
  <1>2. PICK f \in Frames : f = Step(w) /\ f.at = "step" /\ f.runner = w
    BY <1>1, FramesAre
  <1>3. FrameOK(f)'
    <2>1. Running(w)' /\ UNCHANGED started
      BY DEF Running, tableVars
    <2> QED BY <1>2, <2>1, StepFrame
  <1>4. ~OnNew(t, w)
    BY DEF Ready
  <1>5. \A x \in Serials : x \in W \cup {w} <=> x \in W \/ (f.at \in OfList /\ f.runner = x)
    BY <1>2 DEF OfList
  <1>6. PICK V : V = W \cup {w}
    OBVIOUS
  <1>7. /\ Ready(n, Adds(t, f), V)
        /\ Told(Adds(t, f)) <=> Told(t) \/ f.at = "told"
        /\ Asks(Adds(t, f)) <=> Asks(t) \/ f.at = "input"
    <2>1. f.at \notin {"built", "built next"} /\ (f.at = "told" => macros[f.macro] # "over" /\ ~Told(t))
      BY <1>2
    <2>2. f.at \in OfList => ~OnNew(t, f.runner) /\ (Running(f.runner)' => ~OnBelow(n, f.runner))
      BY <1>2, <1>4
    <2>3. Open(t) \/ (OnlyAsks(t) /\ f.at = "step")
      BY <1>2
    <2>4. \A x \in Serials : x \in V <=> x \in W \/ (f.at \in OfList /\ f.runner = x)
      BY <1>5, <1>6
    <2>5. CanAdd(n, t, W, f, V)
      BY <1>2, <1>3, <2>1, <2>2, <2>3, <2>4 DEF CanAdd
    <2> QED BY <2>3, <2>5, AddOne DEF IsMore
  <1> QED BY <1>2, <1>6, <1>7

LEMMA AddTold ==
  ASSUME NEW n, NEW t, NEW W \in SUBSET Serials, Ready(n, t, W), Open(t), ~Told(t),
         NEW m \in Macros, macros[m] # "over", macros'[m] = "over"
  PROVE  /\ Ready(n, Adds(t, MacroTold(m)), W) /\ Open(Adds(t, MacroTold(m)))
         /\ Asks(Adds(t, MacroTold(m))) <=> Asks(t)
  <1>1. PICK f \in Frames : f = MacroTold(m) /\ f.at = "told" /\ f.macro = m
    BY FramesAre
  <1>2. FrameOK(f)'
    BY <1>1 DEF FrameOK, OfList
  <1>3. \A x \in Serials : x \in W <=> x \in W \/ (f.at \in OfList /\ f.runner = x)
    BY <1>1 DEF OfList
  <1>4. f.at \notin {"built", "built next"} /\ f.at \notin Special /\ f.at \notin OfList
    BY <1>1 DEF Special, OfList
  <1>5. f.at = "told" => macros[f.macro] # "over" /\ ~Told(t)
    BY <1>1
  <1>6. /\ Ready(n, Adds(t, f), W)
        /\ Open(t) /\ f.at \notin Special => Open(Adds(t, f))
        /\ Asks(Adds(t, f)) <=> Asks(t) \/ f.at = "input"
    <2>1. CanAdd(n, t, W, f, W)
      BY <1>2, <1>3, <1>4, <1>5 DEF CanAdd
    <2> QED BY <2>1, AddOne DEF IsMore
  <1> QED BY <1>1, <1>4, <1>6

\* r comes back from what it called.
LEMMA AddActed ==
  ASSUME IInv, UNCHANGED tableVars, NEW n, NEW r \in Serials, Running(r), ~OnBelow(n, r),
         NEW t, t = Adds(<<>>, Acted(r))
  PROVE  Ready(n, t, {r}) /\ Open(t) /\ ~Told(t) /\ ~Asks(t) /\ t = <<Acted(r)>> /\ t \in Seq(Frames)
  <1>1. r \in Nat
    BY HotkeyAssumption DEF HotkeyAssumption, Serials
  <1>2. PICK f \in Frames : f = Acted(r) /\ f.at = "acted" /\ f.runner = r
    BY <1>1, FramesAre
  <1>3. PICK s : s = <<>> /\ Ready(n, s, {}) /\ Open(s) /\ ~Told(s) /\ ~Asks(s)
    BY ReadyNone
  <1>4. FrameOK(f)'
    <2>1. started' = started /\ DataOK
      BY DEF tableVars, IInv
    <2>2. r <= started
      BY <2>1, RunnersAreStarted
    <2> QED BY <1>2, <2>1, <2>2 DEF FrameOK
  <1>5. ~OnNew(s, r)
    BY <1>3 DEF Ready
  <1>6. \A x \in Serials : x \in {r} <=> x \in {} \/ (f.at \in OfList /\ f.runner = x)
    BY <1>2 DEF OfList
  <1>7. f.at \notin {"built", "built next"} /\ f.at \notin Special /\ f.at # "told" /\ f.at # "input"
    BY <1>2 DEF Special
  <1>8. f.at \in OfList => ~OnNew(s, f.runner) /\ (Running(f.runner)' => ~OnBelow(n, f.runner))
    BY <1>2, <1>5
  <1>9. PICK V : V = {r}
    OBVIOUS
  <1>10. /\ Ready(n, Adds(s, f), V)
         /\ Open(s) /\ f.at \notin Special => Open(Adds(s, f))
         /\ Told(Adds(s, f)) <=> Told(s) \/ f.at = "told"
         /\ Asks(Adds(s, f)) <=> Asks(s) \/ f.at = "input"
    <2>1. \A x \in Serials : x \in V <=> x \in {} \/ (f.at \in OfList /\ f.runner = x)
      BY <1>6, <1>9
    <2>2. CanAdd(n, s, {}, f, V)
      BY <1>2, <1>3, <1>4, <1>7, <1>8, <2>1 DEF CanAdd
    <2> QED BY <2>2, AddOne DEF IsMore
  <1>11. t = <<Acted(r)>>
    <2>1. \A g \in Frames : <<>> \o <<g>> = <<g>>
      OBVIOUS
    <2>2. <<>> \o <<f>> = <<f>>
      BY <2>1
    <2> QED BY <1>2, <2>2 DEF Adds
  <1> QED BY <1>2, <1>3, <1>7, <1>9, <1>10, <1>11 DEF Ready

\* r, or nobody, is about to start a hook.
LEMMA AddAsks ==
  ASSUME IInv, UNCHANGED tableVars, NEW n, NEW r \in Serials \cup {NoRunner},
         r # NoRunner => Running(r) /\ ~OnBelow(n, r),
         NEW t, t = Adds(<<>>, StartsInput(r)), NEW V \in SUBSET Serials, \A x \in Serials : x \in V <=> x = r
  PROVE  Ready(n, t, V) /\ OnlyAsks(t) /\ ~Told(t) /\ t = <<StartsInput(r)>> /\ t \in Seq(Frames)
  <1>1. r \in Nat /\ DataOK
    BY HotkeyAssumption DEF HotkeyAssumption, Serials, NoRunner, IInv
  <1>2. PICK f \in Frames : f = StartsInput(r) /\ f.at = "input" /\ f.runner = r
    BY <1>1, FramesAre
  <1>3. PICK s : s = <<>> /\ Ready(n, s, {}) /\ Open(s) /\ ~Told(s) /\ ~Asks(s)
    BY ReadyNone
  <1>4. started' = started /\ (Running(r)' <=> Running(r)) /\ ~Running(NoRunner)
    <2>1. ~Running(NoRunner)
      BY <1>1, RunnersAreStarted DEF NoRunner
    <2> QED BY <2>1 DEF tableVars, Running
  <1>5. FrameOK(f)'
    <2>1. r <= started
      BY <1>1, RunnersAreStarted DEF NoRunner
    <2> QED BY <1>2, <1>4, <2>1 DEF FrameOK
  <1>6. ~OnNew(s, r)
    <2>1. Len(s) = 0
      BY <1>3
    <2> QED BY <2>1, NoPlaces DEF OnNew
  <1>7. \A x \in Serials : x \in V <=> x \in {} \/ (f.at \in OfList /\ f.runner = x)
    BY <1>2 DEF OfList
  <1>8. f.at \notin {"built", "built next"} /\ f.at # "told"
    BY <1>2
  <1>9. f.at \in OfList => ~OnNew(s, f.runner) /\ (Running(f.runner)' => ~OnBelow(n, f.runner))
    BY <1>2, <1>4, <1>6
  <1>10. /\ Ready(n, Adds(s, f), V)
         /\ Told(Adds(s, f)) <=> Told(s) \/ f.at = "told"
    <2>1. CanAdd(n, s, {}, f, V)
      BY <1>2, <1>3, <1>5, <1>7, <1>8, <1>9 DEF CanAdd
    <2> QED BY <2>1, AddOne DEF IsMore
  <1>11. Adds(s, f) = t /\ t = <<f>>
    <2>1. \A g \in Frames : <<>> \o <<g>> = <<g>>
      OBVIOUS
    <2>2. <<>> \o <<f>> = <<f>>
      BY <2>1
    <2> QED BY <1>2, <1>3, <2>2 DEF Adds
  <1>12. OnlyAsks(t)
    <2>1. Len(<<f>>) = 1 /\ <<f>>[1] = f
      BY OneFrame
    <2> QED BY <1>2, <1>11, <2>1 DEF OnlyAsks
  <1> QED BY <1>2, <1>3, <1>8, <1>10, <1>11, <1>12 DEF Ready

LEMMA OnTopAdds ==
  ASSUME NEW s \in Seq(Frames), NEW t \in Seq(Frames), NEW f \in Frames, NEW below, OnTop(below, s, t)
  PROVE  OnTop(below \o <<f>>, s, Adds(t, f))
  <1>1. <<f>> \in Seq(Frames)
    BY OneFrame
  <1>2. (s \o t) \o <<f>> = s \o (t \o <<f>>)
    BY <1>1, ConcatAssociative
  <1> QED BY <1>2 DEF OnTop, Adds

-----------------------------------------------------------------------------
(* The end of a macro.                                                     *)

\* The lists l: those of W run on, the others are as they were.
Carries(l, W) ==
  /\ l \in [Serials -> Lists]
  /\ \A x \in Serials : Loosens(run[x], l[x]) /\ (x \notin W => l[x] = run[x])
  /\ \A x \in W : Running(x) /\ l[x].slot = {} /\ l[x].macro = NoMacro
Idle(W) == \A x \in W : run[x].macro = NoMacro /\ input.runner # x /\ ~Typed(x)

LEMMA CarriesSame ==
  ASSUME NEW l, NEW W, Carries(l, W), run' = l, UNCHANGED tableVars
  PROVE  WokenRun(W)
  BY DEF Carries, WokenRun

LEMMA CarriesOne ==
  ASSUME NEW l, NEW W \in SUBSET Serials, Carries(l, W), NEW w \in Serials, Running(w), w \notin W,
         run' = [l EXCEPT ![w] = Woken(@)], UNCHANGED tableVars
  PROVE  WokenRun(W \cup {w})
  <1>1. l \in [Serials -> Lists] /\ l[w] \in Lists /\ l[w] = run[w] /\ Loosens(run[w], l[w])
    BY DEF Carries
  <1>2. /\ Woken(l[w]) \in Lists /\ Woken(l[w]).id = l[w].id /\ Woken(l[w]).may = l[w].may
        /\ Woken(l[w]).redo = l[w].redo /\ Woken(l[w]).left = l[w].left
        /\ Woken(l[w]).slot = {} /\ Woken(l[w]).macro = NoMacro
    BY <1>1, WokenFacts
  <1>3. /\ run' \in [Serials -> Lists] /\ run'[w] = Woken(l[w])
        /\ \A x \in Serials : x # w => run'[x] = l[x]
    BY <1>1, <1>2
  <1>4. Loosens(run[w], run'[w])
    BY <1>1, <1>2, <1>3 DEF Loosens
  <1>5. ASSUME NEW x \in Serials
        PROVE  Loosens(run[x], run'[x]) /\ (x \notin W \cup {w} => run'[x] = run[x])
    BY <1>3, <1>4 DEF Carries
  <1>6. ASSUME NEW x \in W \cup {w}
        PROVE  Running(x) /\ run'[x].slot = {} /\ run'[x].macro = NoMacro
    BY <1>2, <1>3 DEF Carries
  <1> QED BY <1>3, <1>5, <1>6 DEF WokenRun

LEMMA CarriesNow == ASSUME IInv PROVE Carries(run, {}) /\ Idle({})
  <1>1. run \in [Serials -> Lists]
    BY DEF IInv, DataOK
  <1>2. \A x \in Serials : Loosens(run[x], run[x])
    BY WokenLoosens
  <1> QED BY <1>1, <1>2 DEF Carries, Idle

LEMMA CarriesOwn ==
  ASSUME IInv, NEW r \in Serials, OnTopIs(r), NEW q \in Lists, Loosens(run[r], q), q.slot = {},
         q.macro = NoMacro, NEW l, l = [run EXCEPT ![r] = q]
  PROVE  Carries(l, {r}) /\ Idle({r})
  <1>1. run \in [Serials -> Lists] /\ DataOK /\ StackOK /\ RestsOK
    BY DEF IInv, DataOK
  <1>2. run[r].macro = NoMacro /\ input.runner # r /\ ~Typed(r)
    BY <1>1, OnTopFacts
  <1>3. l \in [Serials -> Lists] /\ l[r] = q /\ \A x \in Serials : x # r => l[x] = run[x]
    BY <1>1
  <1>4. \A x \in Serials : Loosens(run[x], run[x])
    BY WokenLoosens
  <1>5. Running(r)
    BY DEF OnTopIs
  <1>6. ASSUME NEW x \in Serials PROVE Loosens(run[x], l[x]) /\ (x \notin {r} => l[x] = run[x])
    BY <1>3, <1>4
  <1> QED BY <1>2, <1>3, <1>5, <1>6 DEF Carries, Idle

\* Who carries on with the end of a macro.
LEMMA EndMacroFacts ==
  ASSUME IInv, NEW m \in Macros, NEW lists, NEW below, EndMacro(m, lists, below)
  PROVE  /\ macros' = [macros EXCEPT ![m] = "over"]
         /\ \/ /\ \A x \in Serials : run[x].macro # m
               /\ stack' = below \o <<MacroTold(m)>> /\ run' = lists
            \/ \E w \in Serials :
                 /\ Running(w) /\ run[w].macro = m /\ \A x \in Serials : run[x].macro = m => x = w
                 /\ stack' = (below \o <<MacroTold(m)>>) \o <<Step(w)>>
                 /\ run' = [lists EXCEPT ![w] = Woken(@)]
  <1> DEFINE waiters == {r \in Live : enabled /\ run[r].macro = m}
             first == CHOOSE r \in waiters : \A s \in waiters : r <= s
  <1>1. DataOK /\ ListsOK /\ MacrosOK /\ OffOK /\ m # NoMacro
    BY HotkeyAssumption DEF IInv, PointersOK, HotkeyAssumption
  <1>2. \A r : r \in Live <=> Running(r)
    BY <1>1, LiveIs
  <1>3. \A r \in waiters : r \in Serials /\ r \in Nat /\ Running(r) /\ run[r].macro = m
    BY <1>1, <1>2, RunnersAreStarted
  <1>4. \A r, s \in Serials : run[r].macro = m /\ run[s].macro = m => r = s
    BY <1>1 DEF MacrosOK
  <1>5. \A x \in Serials : run[x].macro = m => x \in waiters
    <2>1. \A x \in Serials : run[x].macro = m => Running(x)
      BY <1>1, GoneIsList DEF ListsOK
    <2>2. \A x \in Serials : run[x].macro = m => enabled
      BY <1>1 DEF OffOK
    <2> QED BY <1>2, <2>1, <2>2
  <1>6. macros' = [macros EXCEPT ![m] = "over"]
    BY DEF EndMacro
  <1>7. waiters = {} => stack' = below \o <<MacroTold(m)>> /\ run' = lists
    BY DEF EndMacro
  <1>8. waiters # {} => /\ stack' = (below \o <<MacroTold(m)>>) \o <<Step(first)>>
                        /\ run' = [lists EXCEPT ![first] = Woken(@)]
    BY DEF EndMacro
  <1>9. waiters # {} => first \in waiters
    <2>1. ASSUME NEW w \in waiters PROVE first \in waiters
      <3>1. \A s \in waiters : s = w /\ w <= s
        BY <1>3, <1>4
      <3> QED BY <3>1
    <2> QED BY <2>1
  <1> HIDE DEF waiters, first
  <1>10. CASE waiters = {}
    BY <1>5, <1>6, <1>7, <1>10
  <1>11. CASE waiters # {}
    <2>1. PICK w \in Serials : w = first /\ Running(w) /\ run[w].macro = m
      BY <1>3, <1>9, <1>11
    <2>2. \A x \in Serials : run[x].macro = m => x = w
      BY <1>4, <2>1
    <2>3. /\ stack' = (below \o <<MacroTold(m)>>) \o <<Step(w)>>
          /\ run' = [lists EXCEPT ![w] = Woken(@)]
      BY <1>8, <1>11, <2>1
    <2> QED BY <1>6, <2>1, <2>2, <2>3
  <1> QED BY <1>10, <1>11

\* Where the frames t are put: below is s with t on top, and s is of the stack.
Based(s, t, below) ==
  s \in Seq(Frames) /\ t \in Seq(Frames) /\ Kept(stack, s, Len(s)) /\ OnTop(below, s, t)

LEMMA BasedAdds ==
  ASSUME NEW s, NEW t, NEW below, Based(s, t, below), NEW f \in Frames
  PROVE  Based(s, Adds(t, f), below \o <<f>>)
  <1>1. OnTop(below \o <<f>>, s, Adds(t, f))
    BY OnTopAdds DEF Based
  <1>2. Adds(t, f) \in Seq(Frames)
    <2>1. PICK q : q = Adds(t, f)
      OBVIOUS
    <2>2. IsAdds(q, t, f)
      BY <2>1, AddsFacts DEF Based
    <2> QED BY <2>1, <2>2 DEF IsAdds
  <1> QED BY <1>1, <1>2 DEF Based

LEMMA BasedPiled ==
  ASSUME NEW s, NEW t, Based(s, t, stack')
  PROVE  Piled(Len(s), t) /\ t \in Seq(Frames)
  BY Join DEF Based, OnTop

LEMMA EndedMacro ==
  ASSUME IInv, NEW m \in Macros, macros[m] = "on", macros' = [macros EXCEPT ![m] = "over"],
         NEW W \in SUBSET Serials, WokenRun(W), \A x \in Serials : run[x].macro = m => x \in W,
         NEW n \in {Len(stack), Len(stack) - 1}
  PROVE  /\ MacrosKept /\ ToldKept(n) /\ macros'[m] = "over"
         /\ macros' \in [Macros -> {"off", "on", "over"}]
  <1>1. DataOK /\ StackOK /\ MacrosOK /\ macros \in [Macros -> {"off", "on", "over"}]
    BY DEF IInv, PointersOK, DataOK
  <1>2. /\ macros' \in [Macros -> {"off", "on", "over"}] /\ macros'[m] = "over"
        /\ \A k \in Macros : k # m => macros'[k] = macros[k]
    BY <1>1
  <1>3. ASSUME NEW x \in Serials, run'[x].macro # NoMacro
        PROVE  macros'[run'[x].macro] = "on"
    <2>1. x \notin W /\ run'[x].macro = run[x].macro
      BY <1>3 DEF WokenRun
    <2>2. run[x].macro # m /\ run[x].macro \in Macros \cup {NoMacro}
      BY <1>1, <2>1 DEF DataOK, Lists
    <2>3. macros[run[x].macro] = "on"
      BY <1>1, <1>3, <2>1 DEF MacrosOK
    <2> QED BY <1>2, <1>3, <2>1, <2>2, <2>3
  <1>4. ASSUME NEW f \in 1..n, stack[f].at = "told" PROVE macros'[stack[f].macro] = "over"
    <2>1. f \in 1..Len(stack) /\ stack[f] \in Frames
      BY <1>1, PlacesOf, StackFacts
    <2>2. macros[stack[f].macro] = "over" /\ stack[f].macro \in Macros
      BY <1>1, <1>4, <2>1, FramesHave DEF StackOK, FramesOK, FrameOK
    <2> QED BY <1>2, <2>2
  <1> QED BY <1>2, <1>3, <1>4 DEF MacrosKept, ToldKept

\* macro_finished(), on top of the frames t.
LEMMA MacroEndStep ==
  ASSUME IInv, NEW m \in Macros, macros[m] = "on", NEW s, NEW t, NEW below, Based(s, t, below),
         NEW W \in SUBSET Serials, Place(Len(s), W), Ready(Len(s), t, W),
         Open(t), ~Told(t), ~Asks(t), Len(s) = Len(stack) \/ Top \notin {FireLoop, PlayLoop},
         NEW l, Carries(l, W), Idle(W), EndMacro(m, l, below),
         UNCHANGED <<tableVars, fireVars, playVars, input, otherVars>>
  PROVE  IInv'
  <1>1. DataOK /\ m # NoMacro
    BY HotkeyAssumption DEF IInv, HotkeyAssumption
  <1>2. PICK n : n = Len(s) /\ n \in {Len(stack), Len(stack) - 1} /\ Place(n, W) /\ Ready(n, t, W)
    BY DEF Place
  <1>3. macros' = [macros EXCEPT ![m] = "over"]
    BY EndMacroFacts
  <1>4. macros'[m] = "over" /\ macros[m] # "over"
    <2>1. macros \in [Macros -> {"off", "on", "over"}]
      BY <1>1 DEF DataOK
    <2> QED BY <1>3, <2>1
  <1>5. PICK f \in Frames : f = MacroTold(m)
    BY FramesAre
  <1>6. PICK u : u = Adds(t, f) /\ Based(s, u, below \o <<f>>)
    BY BasedAdds
  <1>7. Ready(n, u, W) /\ Open(u) /\ ~Asks(u)
    BY <1>2, <1>4, <1>5, <1>6, AddTold
  <1>8. UNCHANGED <<tableVars, fireVars, playVars, input>> /\ UNCHANGED <<building, compiler, posted, enabled>>
    BY DEF otherVars, codeVars
  <1>9. macros' \in [Macros -> {"off", "on", "over"}] => RestTypes'
    BY <1>1 DEF RestTypes, DataOK, otherVars, codeVars, modeVars, fireVars, playVars
  <1>10. HookKept /\ UNCHANGED plays /\ UNCHANGED input
    <2>1. HookOK
      BY DEF IInv, PointersOK
    <2> QED BY <1>8, <2>1 DEF HookKept, HookOK, playVars
  <1>11. ASSUME NEW V \in SUBSET Serials, \A x \in V : input.runner # x /\ ~Typed(x)
         PROVE  Untold(V)
    BY <1>10, <1>11 DEF Untold, Typed
  <1>12. CASE /\ \A x \in Serials : run[x].macro # m
              /\ stack' = below \o <<MacroTold(m)>> /\ run' = l
    <2>1. WokenRun(W)
      BY <1>8, <1>12, CarriesSame
    <2>2. Untold(W)
      BY <1>11 DEF Idle
    <2>3. Piled(n, u)
      BY <1>2, <1>5, <1>6, <1>12, BasedPiled
    <2>4. MacrosKept /\ ToldKept(n) /\ RestTypes'
      BY <1>2, <1>3, <1>9, <1>12, <2>1, EndedMacro
    <2> QED BY <1>2, <1>7, <1>8, <1>10, <2>1, <2>2, <2>3, <2>4, WakeOn
  <1>13. ASSUME NEW w \in Serials, Running(w), run[w].macro = m,
                \A x \in Serials : run[x].macro = m => x = w,
                stack' = (below \o <<MacroTold(m)>>) \o <<Step(w)>>, run' = [l EXCEPT ![w] = Woken(@)]
         PROVE  IInv'
    <2>1. w \notin W /\ ~OnS(w) /\ input.runner # w /\ ~Typed(w)
      BY <1>1, <1>13, Waiter DEF Idle
    <2>2. ~OnBelow(n, w)
      BY <1>2, <2>1 DEF Place
    <2>3. PICK V : V = W \cup {w} /\ V \in SUBSET Serials
      OBVIOUS
    <2>4. WokenRun(V)
      BY <1>8, <1>13, <2>1, <2>3, CarriesOne
    <2>5. Untold(V)
      BY <1>11, <2>1, <2>3 DEF Idle
    <2>6. PICK g \in Frames : g = Step(w)
      <3>1. w \in Nat
        BY HotkeyAssumption DEF HotkeyAssumption, Serials
      <3> QED BY <3>1, FramesAre
    <2>7. PICK v : v = Adds(u, g) /\ Based(s, v, (below \o <<f>>) \o <<g>>)
      BY <1>6, BasedAdds
    <2>8. Piled(n, v)
      BY <1>2, <1>5, <1>13, <2>6, <2>7, BasedPiled
    <2>9. Ready(n, v, V) /\ ~Asks(v)
      BY <1>7, <1>8, <1>13, <2>1, <2>2, <2>3, <2>6, <2>7, AddStepOf
    <2>10. Place(n, V)
      BY <1>2, <2>3 DEF Place
    <2>11. MacrosKept /\ ToldKept(n) /\ RestTypes'
      <3>1. \A x \in Serials : run[x].macro = m => x \in V
        BY <1>13, <2>3
      <3> QED BY <1>2, <1>3, <1>9, <2>3, <2>4, <3>1, EndedMacro
    <2> QED BY <1>2, <1>8, <1>10, <2>3, <2>4, <2>5, <2>8, <2>9, <2>10, <2>11, WakeOn
  <1> QED BY <1>12, <1>13, EndMacroFacts

LEMMA LoopBased ==
  ASSUME DataOK, stack = <<>>
  PROVE  /\ Based(<<>>, <<>>, <<>>) /\ Len(<<>>) = Len(stack) /\ \A W : Place(Len(<<>>), W)
         /\ \A x : ~OnBelow(Len(<<>>), x)
  <1>1. PICK n \in Nat : n = Len(<<>>) /\ n = Len(stack) /\ n = 0
    BY StackFacts
  <1>2. Ordinary(n) /\ \A x : ~OnBelow(n, x) /\ ~OnS(x)
    BY <1>1, NoPlaces DEF Ordinary, OnBelow, OnS
  <1>3. NoBuiltOnTop /\ \A u \in Seq(Frames) : Shaped(u) => Fits(n, u)
    BY <1>1 DEF Fits, NoBuiltOnTop
  <1>4. Based(<<>>, <<>>, <<>>)
    <2>1. PICK s \in Seq(Frames) : s = <<>> /\ s = stack /\ Len(s) = n
      BY <1>1, ReadyNone
    <2>2. s \o s = s
      BY <2>1, ConcatEmptySeq
    <2>3. Kept(stack, s, Len(s))
      BY <2>1, KeptSelf
    <2> QED BY <2>1, <2>2, <2>3 DEF Based, OnTop
  <1> QED BY <1>1, <1>2, <1>3, <1>4 DEF Place

LEMMA MacroEndsInv ==
  ASSUME IInv, NEW m \in Macros, MacroEnds(m)
  PROVE  IInv'
  <1>1. DataOK /\ stack = <<>>
    BY DEF IInv, MacroEnds, AtLoop
  <1>2. PICK s : s = <<>> /\ Based(s, s, s) /\ Len(s) = Len(stack) /\ Place(Len(s), {})
    BY <1>1, LoopBased
  <1>3. Ready(Len(s), s, {}) /\ Open(s) /\ ~Told(s) /\ ~Asks(s)
    BY <1>2, ReadyNone
  <1>4. PICK l : l = run /\ Carries(l, {}) /\ Idle({})
    BY CarriesNow
  <1>5. macros[m] = "on" /\ EndMacro(m, l, s)
    BY <1>2, <1>4 DEF MacroEnds
  <1>6. UNCHANGED <<tableVars, fireVars, playVars, input, otherVars>>
    BY DEF MacroEnds
  <1> QED BY <1>2, <1>3, <1>4, <1>5, <1>6, MacroEndStep

\* A list's frame turns into another, with more to come.
LEMMA OwnBased ==
  ASSUME DataOK, stack # <<>>, NEW f \in Frames
  PROVE  /\ Based(Front(stack), Adds(<<>>, f), Becomes(<<f>>))
         /\ Len(Front(stack)) = Len(stack) - 1
  <1>1. stack \in Seq(Frames)
    BY DEF DataOK
  <1>2. PICK s : /\ s = Front(stack) /\ s \in Seq(Frames) /\ Kept(stack, s, Len(s))
                 /\ Len(s) = Len(stack) - 1
    BY <1>1, KeptFront
  <1>3. PICK t : t = <<f>> /\ t \in Seq(Frames)
    BY OneFrame
  <1>4. Adds(<<>>, f) = t
    BY <1>3, ConcatEmptySeq DEF Adds
  <1>5. OnTop(Becomes(<<f>>), s, t)
    BY <1>2, <1>3 DEF OnTop, Becomes
  <1> QED BY <1>2, <1>3, <1>4, <1>5 DEF Based

DidWait(l) == [Did(l) EXCEPT !.waiting = TRUE]
LEMMA DidWaitFacts ==
  ASSUME NEW l \in Lists, l.left > 0, l.slot = {}, l.macro = NoMacro, l.redo = NoKey
  PROVE  /\ DidWait(l) \in Lists /\ DidWait(l).id = l.id /\ DidWait(l).may = l.may
         /\ DidWait(l).redo = NoKey /\ DidWait(l).slot = {} /\ DidWait(l).macro = NoMacro
         /\ Loosens(l, DidWait(l))
  <1>1. /\ Did(l) \in Lists /\ Did(l).id = l.id /\ Did(l).may = l.may /\ Did(l).redo = l.redo
        /\ Did(l).slot = l.slot /\ Did(l).macro = l.macro
    BY DidFacts
  <1>2. PICK w \in Lists : w = Did(l)
    BY <1>1
  <1>3. /\ DidWait(l) \in Lists /\ DidWait(l).id = w.id /\ DidWait(l).may = w.may
        /\ DidWait(l).redo = w.redo /\ DidWait(l).slot = w.slot /\ DidWait(l).macro = w.macro
    BY <1>2 DEF DidWait, Lists
  <1> QED BY <1>1, <1>2, <1>3 DEF Loosens

\* A list that waits, but is not taken down from the stack.
LEMMA OwnWaits ==
  ASSUME IInv, NEW r \in Serials, NEW kind, Takes(r, kind), NEW l,
         l = [run EXCEPT ![r] = [Did(@) EXCEPT !.waiting = TRUE]]
  PROVE  /\ Carries(l, {r}) /\ Idle({r})
         /\ UNCHANGED tableVars /\ run' = l => OwnChange(r) /\ OwnMay(r)
  <1>1. /\ OnTopIs(r) /\ run \in [Serials -> Lists] /\ run[r] \in Lists /\ run[r].left > 0
        /\ run[r].redo = NoKey /\ DataOK /\ StackOK /\ RestsOK
    BY TakesFacts DEF IInv
  <1>2. run[r].slot = {} /\ run[r].macro = NoMacro
    BY <1>1, OnTopFacts
  <1>3. PICK q : q = DidWait(run[r])
    OBVIOUS
  <1>4. /\ q \in Lists /\ q.id = run[r].id /\ q.may = run[r].may
        /\ q.redo = NoKey /\ q.slot = {} /\ q.macro = NoMacro /\ Loosens(run[r], q)
    BY <1>1, <1>2, <1>3, DidWaitFacts
  <1>5. l = [run EXCEPT ![r] = q]
    BY <1>1, <1>3 DEF DidWait
  <1>6. Carries(l, {r}) /\ Idle({r})
    BY <1>1, <1>4, <1>5, CarriesOwn
  <1>7. ASSUME UNCHANGED tableVars, run' = l PROVE OwnChange(r) /\ OwnMay(r)
    <2>1. OwnChange(r) /\ run'[r] = q
      BY <1>1, <1>4, <1>5, <1>7, OwnDid DEF OnTopIs
    <2> QED BY <1>1, <1>2, <1>4, <2>1 DEF OwnMay
  <1> QED BY <1>6, <1>7

\* A list that gave a command which came to nothing.
LEMMA CommandIgnored ==
  ASSUME IInv, Tame, NEW r \in Serials,
         NEW kind \in {"input", "input-stop", "cancel", "mode", "macro-stop"}, Takes(r, kind),
         run' = [run EXCEPT ![r] = [Did(@) EXCEPT !.waiting = TRUE]], stack' = Becomes(<<Acted(r)>>),
         UNCHANGED <<tableVars, fireVars, playVars, input, macros, otherVars>>
  PROVE  IInv'
  <1>1. OwnChange(r) /\ OwnMay(r) /\ OnTopIs(r)
    <2>1. PICK l : l = [run EXCEPT ![r] = [Did(@) EXCEPT !.waiting = TRUE]]
      OBVIOUS
    <2>2. UNCHANGED tableVars /\ run' = l
      BY <2>1
    <2> QED BY <2>1, <2>2, OwnWaits, TakesFacts
  <1>2. \A f \in 1..Len(stack) : stack[f].at # "input"
    BY NoInput
  <1>3. BuildsOK' /\ UNCHANGED building
    <2>1. BuildsOK
      BY DEF IInv
    <2> QED BY <2>1, BuildsKept DEF otherVars, codeVars
  <1>4. RestTypes' /\ UNCHANGED <<input, plays, macros>>
    BY UnchangedTypes DEF playVars, IInv, DataOK
  <1>5. UNCHANGED <<fireVars, playing, playTimer, enabled>>
    BY DEF playVars, otherVars
  <1>6. PICK f \in {Step(r), Acted(r)} : f = Acted(r)
    OBVIOUS
  <1>7. stack' = Becomes(<<f>>)
    BY <1>6
  <1> QED BY <1>1, <1>2, <1>3, <1>4, <1>5, <1>7, OwnFrame

\* A list on top that is not in the middle of another's wait comes back from what it called.
LEMMA OwnActedReady ==
  ASSUME IInv, Tame, NEW r \in Serials,
         NEW kind \in {"input", "input-stop", "mode", "macro-stop"}, Takes(r, kind), UNCHANGED tableVars,
         NEW s, s = Front(stack), NEW t, t = Adds(<<>>, Acted(r))
  PROVE  /\ Based(s, t, Becomes(<<Acted(r)>>)) /\ Place(Len(s), {r}) /\ Ready(Len(s), t, {r})
         /\ Open(t) /\ ~Told(t) /\ ~Asks(t) /\ Top \notin {FireLoop, PlayLoop}
         /\ t = <<Acted(r)>> /\ t \in Seq(Frames)
  <1>1. OnTopIs(r) /\ DataOK /\ stack # <<>> /\ Running(r)
    BY TakesFacts DEF IInv, OnTopIs
  <1>2. Ordinary(Len(stack) - 1)
    BY NoLoop
  <1>3. Place(Len(stack) - 1, {r}) /\ ~OnBelow(Len(stack) - 1, r) /\ Top \notin {FireLoop, PlayLoop}
    BY <1>1, <1>2, OwnIsPlace
  <1>4. PICK f \in Frames : f = Acted(r)
    <2>1. r \in Nat
      BY HotkeyAssumption DEF HotkeyAssumption, Serials
    <2> QED BY <2>1, FramesAre
  <1>5. Based(s, Adds(<<>>, f), Becomes(<<f>>)) /\ Len(s) = Len(stack) - 1
    BY <1>1, OwnBased
  <1>6. /\ Ready(Len(s), t, {r}) /\ Open(t) /\ ~Told(t) /\ ~Asks(t)
        /\ t = <<Acted(r)>> /\ t \in Seq(Frames)
    BY <1>1, <1>3, <1>5, AddActed
  <1> QED BY <1>3, <1>4, <1>5, <1>6

LEMMA MacroStopActionInv ==
  ASSUME IInv, Tame, NEW r \in Serials, NEW m \in Macros, MacroStopAction(r, m)
  PROVE  IInv'
  <1>1. Takes(r, "macro-stop") /\ UNCHANGED <<tableVars, fireVars, playVars, input, otherVars>>
    BY DEF MacroStopAction
  <1>2. PICK l : l = [run EXCEPT ![r] = [Did(@) EXCEPT !.waiting = TRUE]]
    OBVIOUS
  <1>3. CASE run' = l /\ stack' = Becomes(<<Acted(r)>>) /\ UNCHANGED macros
    BY <1>1, <1>2, <1>3, CommandIgnored
  <1>4. CASE macros[m] = "on" /\ EndMacro(m, l, Becomes(<<Acted(r)>>))
    <2>1. Carries(l, {r}) /\ Idle({r})
      BY <1>1, <1>2, OwnWaits
    <2>2. PICK b : b = Becomes(<<Acted(r)>>)
      OBVIOUS
    <2>3. PICK s, t : /\ s = Front(stack) /\ t = Adds(<<>>, Acted(r))
      OBVIOUS
    <2>4. UNCHANGED tableVars
      BY <1>1
    <2>5. /\ Based(s, t, b) /\ Place(Len(s), {r}) /\ Ready(Len(s), t, {r})
          /\ Open(t) /\ ~Told(t) /\ ~Asks(t) /\ Top \notin {FireLoop, PlayLoop}
      BY <1>1, <2>2, <2>3, <2>4, OwnActedReady
    <2> QED BY <1>1, <1>4, <2>1, <2>2, <2>5, MacroEndStep
  <1> QED BY <1>2, <1>3, <1>4 DEF MacroStopAction

LEMMA MacroGoneInv ==
  ASSUME IInv, NEW m \in Macros, MacroGone(m)
  PROVE  IInv'
  <1>1. DataOK /\ StackOK /\ MacrosOK /\ HookOK /\ macros \in [Macros -> {"off", "on", "over"}]
    BY DEF IInv, PointersOK, DataOK
  <1>2. stack # <<>> /\ Top = MacroTold(m)
    BY <1>1, TopIs DEF MacroGone
  <1>3. Top.at = "told" /\ Top.macro = m
    BY <1>2, FramesAre
  <1>4. Ends(Top.at) /\ Top \notin {FireLoop, PlayLoop}
    BY <1>3, FramesAre DEF Ends
  <1>5. PICK n : n = Len(stack) - 1 /\ Place(n, {}) /\ n \in {Len(stack), Len(stack) - 1}
    BY <1>2, <1>4, EndIsPlace
  <1>6. PICK t : t = <<>> /\ Ready(n, t, {}) /\ ~Asks(t) /\ t \in Seq(Frames)
    BY ReadyNone
  <1>7. UNCHANGED <<listVars, fireVars, playVars, input, otherVars>> /\ stack' = Becomes(t)
    BY <1>6 DEF MacroGone
  <1>8. Piled(n, t)
    BY <1>1, <1>2, <1>5, <1>6, <1>7, Popped
  <1>9. WokenRun({})
    BY <1>7, NoneWoken
  <1>10. UNCHANGED plays /\ UNCHANGED input /\ UNCHANGED run
    BY <1>7 DEF playVars, listVars
  <1>11. Untold({}) /\ HookKept
    BY <1>1, <1>10 DEF Untold, Typed, HookKept, HookOK
  <1>12. /\ macros' \in [Macros -> {"off", "on", "over"}]
         /\ \A k \in Macros : k # m => macros'[k] = macros[k]
    BY <1>1 DEF MacroGone
  <1>13. macros[m] = "over"
    <2>1. Len(stack) \in 1..Len(stack) /\ stack[Len(stack)] = Top
      BY <1>1, <1>2, TopIsFrame DEF Top
    <2> QED BY <1>1, <1>3, <2>1 DEF StackOK, FramesOK, FrameOK
  <1>14. MacrosKept
    <2> SUFFICES ASSUME NEW x \in Serials, run'[x].macro # NoMacro
                 PROVE  macros'[run'[x].macro] = "on"
      BY DEF MacrosKept
    <2>1. run'[x].macro = run[x].macro /\ run[x].macro \in Macros \cup {NoMacro}
      BY <1>1, <1>10 DEF DataOK, Lists
    <2>2. macros[run[x].macro] = "on"
      BY <1>1, <2>1 DEF MacrosOK
    <2> QED BY <1>12, <1>13, <2>1, <2>2
  <1>15. ToldKept(n)
    <2> SUFFICES ASSUME NEW f \in 1..n, stack[f].at = "told"
                 PROVE  macros'[stack[f].macro] = "over"
      BY DEF ToldKept
    <2>1. f \in 1..Len(stack) /\ f # Len(stack)
      BY <1>1, <1>2, <1>5, PlacesUnder
    <2>2. stack[f].macro \in Macros /\ macros[stack[f].macro] = "over"
      <3>1. stack[f] \in Frames
        BY <1>1, <2>1, StackFacts
      <3> QED BY <1>1, <2>1, <3>1, FramesHave DEF StackOK, FramesOK, FrameOK
    <2>3. stack[f].macro # m
      <3>1. Len(stack) \in 1..Len(stack) /\ stack[Len(stack)] = Top
        BY <1>1, <1>2, TopIsFrame DEF Top
      <3> QED BY <1>1, <1>3, <2>1, <3>1 DEF StackOK, ToldsOnce
    <2> QED BY <1>12, <2>2, <2>3
  <1>16. RestTypes' /\ UNCHANGED <<building, compiler, posted, enabled>>
    BY <1>1, <1>7, <1>12 DEF RestTypes, DataOK, otherVars, codeVars, modeVars, fireVars, playVars
  <1>17. UNCHANGED <<fireVars, playVars>>
    BY <1>7
  <1> QED BY <1>4, <1>5, <1>6, <1>8, <1>9, <1>11, <1>14, <1>15, <1>16, <1>17, WakeOn

-----------------------------------------------------------------------------
(* Input hooks.                                                            *)

\* Somebody who asked for a hook starts it next.
Asked(t, l) ==
  /\ OnlyAsks(t)
  /\ t[1].runner # NoRunner => t[1].runner \in Serials /\ HookReady(l[t[1].runner])

LEMMA InputsFit ==
  ASSUME DataOK, NEW n \in {Len(stack), Len(stack) - 1}, Ordinary(n), NEW v \in Seq(Frames), Piled(n, v),
         input'.runner = NoRunner, Len(v) \in {1, 2}, v[1].at = "input",
         v[1].runner # NoRunner => HookReady(run'[v[1].runner]),
         Len(v) = 2 => v[2].at = "step" /\ run'[v[2].runner].may \subseteq After["input"]
  PROVE  InputsOK'
  <1>1. /\ n \in Nat /\ Len(v) \in Nat /\ Len(stack') = n + Len(v)
        /\ \A f \in 1..n : f \in 1..Len(stack) /\ f \in 1..Len(stack') /\ Alike(stack'[f], stack[f])
        /\ \A j \in 1..Len(v) : n + j \in 1..Len(stack') /\ stack'[n + j] = v[j] /\ n + j \notin 1..n
        /\ \A f \in 1..Len(stack') : f \notin 1..n =>
             f - n \in 1..Len(v) /\ f = n + (f - n) /\ stack'[f] = v[f - n]
    BY PiledFacts
  <1>2. \A f \in 1..n : stack'[f].at # "input"
    BY <1>1 DEF Ordinary, Special, Alike
  <1>3. Len(v) = 2 => stack'[Len(stack')] = v[2]
    <2>1. Len(v) = 2 => 2 \in 1..Len(v) /\ n + 2 = Len(stack')
      BY <1>1
    <2> QED BY <1>1, <2>1
  <1>4. ASSUME NEW f \in 1..Len(stack'), stack'[f].at = "input"
        PROVE  /\ stack'[f].runner # NoRunner => HookReady(run'[stack'[f].runner])
               /\ f # Len(stack') => Top'.at = "step" /\ run'[Top'.runner].may \subseteq After["input"]
    <2>1. f \notin 1..n
      BY <1>2, <1>4
    <2>2. PICK j \in 1..Len(v) : j = f - n /\ f = n + j /\ stack'[f] = v[j]
      BY <1>1, <2>1
    <2>3. j = 1
      BY <1>1, <1>4, <2>2
    <2>4. f # Len(stack') => Len(v) = 2
      BY <1>1, <2>2, <2>3
    <2>5. Top' = stack'[Len(stack')]
      BY DEF Top
    <2> QED BY <1>3, <2>2, <2>3, <2>4, <2>5
  <1> QED BY <1>4 DEF InputsOK

\* The hook changes hands, and nobody waits for one.
HookPasses(below, l) ==
  \/ input.runner = NoRunner /\ stack' = below /\ run' = l
  \/ \E w \in Serials : /\ input.runner = w /\ stack' = below \o <<Step(w)>>
                        /\ run' = [l EXCEPT ![w] = Woken(@)]

LEMMA HookStep ==
  ASSUME IInv, NEW s, NEW t, NEW below, Based(s, t, below),
         NEW W \in SUBSET Serials, Place(Len(s), W), Ready(Len(s), t, W), Len(s) = Len(stack) \/ Top \notin {FireLoop, PlayLoop},
         NEW l, Carries(l, W), Idle(W), (Open(t) /\ ~Asks(t)) \/ Asked(t, l), HookPasses(below, l),
         input'.runner = NoRunner, input' \in [active : BOOLEAN, runner : Nat, timer : BOOLEAN],
         UNCHANGED <<tableVars, fireVars, playVars, macros, otherVars>>
  PROVE  IInv'
  <1>1. DataOK /\ StackOK /\ HookOK /\ NoRunner \notin Serials
    BY DEF IInv, PointersOK, NoRunner, Serials
  <1>2. PICK n : /\ n = Len(s) /\ n \in {Len(stack), Len(stack) - 1} /\ Place(n, W) /\ Ready(n, t, W)
                 /\ Ordinary(n)
    BY DEF Place
  <1>3. UNCHANGED tableVars /\ UNCHANGED plays /\ UNCHANGED macros /\ UNCHANGED <<fireVars, playVars>>
    BY DEF playVars
  <1>4. RestTypes' /\ UNCHANGED <<building, compiler, posted, enabled>>
    <2>1. UNCHANGED <<fireVars, playVars, macros, otherVars>>
      OBVIOUS
    <2> QED BY <2>1, UnchangedTypes
  <1>5. HookKept /\ ToldKept(n)
    BY <1>1, <1>2, <1>3, ToldSame DEF HookKept
  <1>6. Open(t) \/ OnlyAsks(t)
    BY DEF Asked
  <1>7. t \in Seq(Frames)
    BY <1>2 DEF Ready
  <1>8. CASE input.runner = NoRunner /\ stack' = below /\ run' = l
    <2>1. WokenRun(W)
      BY <1>3, <1>8, CarriesSame
    <2>2. MacrosKept
      BY <1>3, <2>1, MacrosAsBefore
    <2>3. Untold(W)
      BY <1>1, <1>3, <1>8 DEF Untold, Typed, Idle
    <2>4. Piled(n, t)
      BY <1>2, <1>8, BasedPiled
    <2>5. ~Asks(t) \/ InputsOK'
      <3>1. ASSUME Asked(t, l) PROVE InputsOK'
        <4>1. /\ Len(t) \in {1, 2} /\ t[1].at = "input" /\ Len(t) # 2
              /\ t[1].runner # NoRunner => HookReady(run'[t[1].runner])
          BY <1>8, <3>1 DEF Asked, OnlyAsks
        <4> QED BY <1>1, <1>2, <1>7, <2>4, <4>1, InputsFit
      <3> QED BY <3>1
    <2> QED BY <1>2, <1>3, <1>4, <1>5, <2>1, <2>2, <2>3, <2>4, <2>5, WakeOn
  <1>9. ASSUME NEW w \in Serials, input.runner = w, stack' = below \o <<Step(w)>>,
               run' = [l EXCEPT ![w] = Woken(@)]
        PROVE  IInv'
    <2>1. w \notin W /\ Running(w) /\ ~OnS(w) /\ ~Typed(w)
      BY <1>9, Waiter DEF Idle
    <2>2. ~OnBelow(n, w)
      BY <1>2, <2>1 DEF Place
    <2>3. PICK V : V = W \cup {w} /\ V \in SUBSET Serials
      <3>1. W \cup {w} \in SUBSET Serials
        OBVIOUS
      <3> QED BY <3>1, Zenon
    <2>4. WokenRun(V)
      BY <1>3, <1>9, <2>1, <2>3, CarriesOne
    <2>5. Untold(V)
      BY <1>1, <1>3, <1>9, <2>1, <2>3 DEF Untold, Typed, Idle
    <2>6. PICK g \in Frames : g = Step(w) /\ g.at = "step" /\ g.runner = w
      <3>1. w \in Nat
        BY HotkeyAssumption DEF HotkeyAssumption, Serials
      <3>2. Step(w) \in Frames /\ Step(w).at = "step" /\ Step(w).runner = w
        BY <3>1, FramesAre
      <3> QED BY <3>2, Zenon
    <2>7. PICK v : v = Adds(t, g) /\ Based(s, v, below \o <<g>>)
      BY BasedAdds
    <2>8. Piled(n, v)
      BY <1>2, <1>9, <2>6, <2>7, BasedPiled
    <2>9. Ready(n, v, V) /\ (Asks(v) <=> Asks(t))
      BY <1>2, <1>3, <1>6, <2>1, <2>2, <2>3, <2>6, <2>7, AddStepOf
    <2>10. Place(n, V)
      BY <1>2, <2>3 DEF Place
    <2>11. MacrosKept
      BY <1>3, <2>3, <2>4, MacrosAsBefore
    <2>12. ~Asks(v) \/ InputsOK'
      <3>1. ASSUME Asked(t, l) PROVE InputsOK'
        <4>1. IsAdds(v, t, g) /\ v \in Seq(Frames)
          <5>1. IsAdds(v, t, g)
            BY <1>7, <2>7, AddsFacts
          <5> QED BY <5>1 DEF IsAdds
        <4>2. Len(v) = 2 /\ v[2] = g /\ v[1] = t[1] /\ t[1].at = "input"
          <5>1. Len(t) = 1 /\ t[1].at = "input"
            BY <3>1 DEF Asked, OnlyAsks
          <5>2. 1 \in 1..Len(t)
            BY <5>1
          <5> QED BY <4>1, <5>1, <5>2 DEF IsAdds
        <4>3. /\ l \in [Serials -> Lists] /\ l[w] = run[w] /\ l[w] \in Lists
              /\ run[w].may \subseteq After["input"]
          BY <1>1, <1>9, <2>1 DEF Carries, HookOK
        <4>4. run'[w].may \subseteq After["input"]
          BY <1>9, <4>3, WokenFacts
        <4>5. t[1].runner # NoRunner => HookReady(run'[t[1].runner])
          <5>1. PICK x : x = t[1].runner
            OBVIOUS
          <5>2. x # NoRunner => x \in Serials /\ HookReady(l[x])
            BY <3>1, <5>1 DEF Asked
          <5>3. x # NoRunner => x \in W
            <6>1. 1 \in 1..Len(t) /\ t[1].at \in OfList
              BY <3>1 DEF Asked, OnlyAsks, OfList
            <6>2. OnNew(t, x)
              BY <5>1, <6>1 DEF OnNew
            <6> QED BY <5>2, <6>2 DEF Ready
          <5>4. x # NoRunner => run'[x] = l[x]
            BY <1>9, <2>1, <4>3, <5>2, <5>3
          <5> QED BY <5>1, <5>2, <5>4
        <4>6. /\ Len(v) \in {1, 2} /\ v[1].at = "input"
              /\ v[1].runner # NoRunner => HookReady(run'[v[1].runner])
              /\ Len(v) = 2 => v[2].at = "step" /\ run'[v[2].runner].may \subseteq After["input"]
          BY <2>6, <4>2, <4>4, <4>5
        <4> QED BY <1>1, <1>2, <2>8, <4>1, <4>6, InputsFit
      <3> QED BY <2>9, <3>1
    <2> QED BY <1>2, <1>3, <1>4, <1>5, <2>3, <2>4, <2>5, <2>8, <2>9, <2>10, <2>11, <2>12, WakeOn
  <1> QED BY <1>8, <1>9 DEF HookPasses

\* hk_input_stop(), or nothing to stop.
LEMMA HookStops ==
  ASSUME IInv, NEW s, NEW t, NEW below, Based(s, t, below), NEW W \in SUBSET Serials, NEW l, Carries(l, W),
         \/ StopInput(below) /\ run' = WokenByInput(l)
         \/ ~input.active /\ stack' = below /\ run' = l /\ UNCHANGED input
  PROVE  /\ HookPasses(below, l) /\ input'.runner = NoRunner
         /\ input' \in [active : BOOLEAN, runner : Nat, timer : BOOLEAN]
  <1>1. /\ HookOK /\ input \in [active : BOOLEAN, runner : Nat, timer : BOOLEAN]
        /\ input.runner = NoRunner \/ input.runner \in Serials
    <2>1. HookOK /\ DataOK
      BY DEF IInv, PointersOK
    <2> QED BY <2>1, RunnersAreStarted DEF HookOK, DataOK, NoRunner, Serials
  <1>2. l \in [Serials -> Lists] /\ NoRunner \notin Serials
    BY DEF Carries, NoRunner, Serials
  <1>3. CASE ~input.active /\ stack' = below /\ run' = l /\ UNCHANGED input
    BY <1>1, <1>3 DEF HookOK, HookPasses
  <1>4. CASE StopInput(below) /\ run' = WokenByInput(l)
    <2>1. /\ input'.runner = NoRunner
          /\ input' \in [active : BOOLEAN, runner : Nat, timer : BOOLEAN]
      BY <1>4 DEF StopInput, NoHook, NoRunner
    <2>2. CASE input.runner = NoRunner
      <3>1. stack' = below \o <<>>
        BY <1>4, <2>2 DEF StopInput
      <3>2. below \o <<>> = below
        <4>1. s \o t \in Seq(Frames) /\ below = s \o t
          BY ConcatProperties DEF Based, OnTop
        <4> QED BY <4>1, ConcatEmptySeq
      <3>3. run' = l
        <4>1. \A r \in Serials : r # input.runner
          BY <1>2, <2>2
        <4>2. run' = [r \in Serials |-> l[r]]
          BY <1>4, <4>1 DEF WokenByInput
        <4> QED BY <1>2, <4>2
      <3> QED BY <2>1, <2>2, <3>1, <3>2, <3>3 DEF HookPasses
    <2>3. CASE input.runner # NoRunner
      <3>1. PICK w \in Serials : w = input.runner
        BY <1>1, <2>3
      <3>2. stack' = below \o <<Step(w)>>
        BY <1>4, <2>3, <3>1 DEF StopInput
      <3>3. run' = [l EXCEPT ![w] = Woken(@)]
        <4>1. run' = [r \in Serials |-> IF r = w THEN Woken(l[r]) ELSE l[r]]
          BY <1>4, <3>1 DEF WokenByInput
        <4> QED BY <1>2, <4>1
      <3> QED BY <2>1, <3>1, <3>2, <3>3 DEF HookPasses
    <2> QED BY <2>2, <2>3
  <1> QED BY <1>3, <1>4

LEMMA InputCommandInv ==
  ASSUME IInv, InputCommand
  PROVE  IInv'
  <1>1. DataOK /\ stack = <<>> /\ UNCHANGED <<tableVars, fireVars, playVars, macros, otherVars>>
    BY DEF IInv, InputCommand, AtLoop
  <1>2. PICK s : s = <<>> /\ Based(s, s, s) /\ Len(s) = Len(stack) /\ Place(Len(s), {})
    BY <1>1, LoopBased
  <1>3. PICK r : r = NoRunner /\ r \in Nat /\ r \in Serials \cup {NoRunner} /\ r \notin Serials
    BY DEF NoRunner, Serials
  <1>4. PICK f \in Frames : f = StartsInput(r) /\ f.runner = r
    <2>1. StartsInput(r) \in Frames /\ StartsInput(r).runner = r
      BY <1>3, FramesAre
    <2> QED BY <2>1, Zenon
  <1>5. PICK t : t = Adds(<<>>, f)
    OBVIOUS
  <1>6. PICK V : V = {} /\ V \in SUBSET Serials
    <2>1. {} \in SUBSET Serials
      OBVIOUS
    <2> QED BY <2>1, Zenon
  <1>7. Ready(Len(s), t, V) /\ OnlyAsks(t) /\ t = <<f>>
    <2>1. \A x \in Serials : x \in V <=> x = r
      BY <1>3, <1>6
    <2>2. r # NoRunner => Running(r) /\ ~OnBelow(Len(s), r)
      BY <1>3
    <2>3. UNCHANGED tableVars /\ t = Adds(<<>>, StartsInput(r))
      BY <1>1, <1>4, <1>5
    <2>4. Ready(Len(s), t, V) /\ OnlyAsks(t) /\ t = <<StartsInput(r)>>
      BY <1>3, <1>6, <2>1, <2>2, <2>3, AddAsks
    <2> QED BY <1>4, <2>4
  <1>8. PICK b : b = <<f>> /\ Based(s, t, b)
    <2>1. Based(s, Adds(s, f), s \o <<f>>)
      BY <1>2, BasedAdds
    <2>2. s \o <<f>> = <<f>>
      BY <1>2, <1>5, <1>7 DEF Adds
    <2> QED BY <1>2, <1>5, <2>1, <2>2
  <1>9. PICK l : l = run /\ Carries(l, V) /\ Idle(V)
    BY <1>6, CarriesNow
  <1>10. \/ StopInput(b) /\ run' = WokenByInput(l)
         \/ ~input.active /\ stack' = b /\ run' = l /\ UNCHANGED input
    BY <1>3, <1>4, <1>8, <1>9 DEF InputCommand
  <1>11. /\ HookPasses(b, l) /\ input'.runner = NoRunner
         /\ input' \in [active : BOOLEAN, runner : Nat, timer : BOOLEAN]
    BY <1>6, <1>8, <1>9, <1>10, HookStops
  <1>12. Asked(t, l)
    <2>1. <<f>>[1] = f
      BY OneFrame
    <2> QED BY <1>3, <1>4, <1>7, <2>1 DEF Asked
  <1>13. Place(Len(s), V) /\ Len(s) = Len(stack)
    BY <1>2, <1>6
  <1> QED BY <1>1, <1>6, <1>7, <1>8, <1>9, <1>11, <1>12, <1>13, HookStep

LEMMA AsksFacts ==
  ASSUME NEW l \in Lists, l.left > 0, l.slot = {}, l.macro = NoMacro, l.redo = NoKey
  PROVE  /\ AsksInput(l) \in Lists /\ AsksInput(l).id = l.id /\ AsksInput(l).may = l.may \cap After["input"]
         /\ AsksInput(l).redo = NoKey /\ AsksInput(l).slot = {} /\ AsksInput(l).macro = NoMacro
         /\ AsksInput(l).waiting
         /\ Loosens(l, AsksInput(l))
  <1>1. PICK k : k = l.left - 1 /\ k \in 0..(ListLen + HookLen)
    <2>1. l.left \in 0..(ListLen + HookLen) /\ ListLen + HookLen \in Nat
      BY HotkeyAssumption DEF HotkeyAssumption, Lists
    <2> QED BY <2>1
  <1>2. PICK s : s = l.may \cap After["input"] /\ s \in SUBSET Kinds
    <2>1. l.may \in SUBSET Kinds
      BY DEF Lists
    <2>2. l.may \cap After["input"] \in SUBSET Kinds
      BY <2>1
    <2> QED BY <2>2, Zenon
  <1>3. PICK w : w = AsksInput(l) /\ w = [l EXCEPT !.left = k, !.waiting = TRUE, !.may = s]
    BY <1>1, <1>2 DEF AsksInput
  <1>4. /\ w \in Lists /\ w.id = l.id /\ w.may = s /\ w.redo = l.redo /\ w.slot = l.slot
        /\ w.macro = l.macro /\ w.waiting
    BY <1>1, <1>2, <1>3 DEF Lists
  <1> QED BY <1>2, <1>3, <1>4 DEF Loosens

LEMMA InputActionInv ==
  ASSUME IInv, Tame, NEW r \in Serials, InputAction(r)
  PROVE  IInv'
  <1>1. Takes(r, "input") /\ UNCHANGED <<tableVars, fireVars, playVars, macros, otherVars>>
    BY DEF InputAction
  <1>2. /\ OnTopIs(r) /\ run \in [Serials -> Lists] /\ run[r] \in Lists /\ run[r].left > 0
        /\ run[r].redo = NoKey /\ DataOK /\ StackOK /\ RestsOK /\ stack # <<>> /\ Running(r)
    BY <1>1, TakesFacts DEF IInv, OnTopIs
  <1>3. run[r].slot = {} /\ run[r].macro = NoMacro
    BY <1>2, OnTopFacts
  <1>4. PICK q : q = AsksInput(run[r])
    OBVIOUS
  <1>5. /\ q \in Lists /\ q.may = run[r].may \cap After["input"] /\ q.waiting
        /\ q.slot = {} /\ q.macro = NoMacro /\ Loosens(run[r], q)
    BY <1>2, <1>3, <1>4, AsksFacts
  <1>6. PICK l : l = [run EXCEPT ![r] = q]
    OBVIOUS
  <1>7. Carries(l, {r}) /\ Idle({r})
    BY <1>2, <1>5, <1>6, CarriesOwn
  <1>8. Ordinary(Len(stack) - 1)
    BY <1>1, NoLoop
  <1>9. Place(Len(stack) - 1, {r}) /\ ~OnBelow(Len(stack) - 1, r) /\ Top \notin {FireLoop, PlayLoop}
    BY <1>2, <1>8, OwnIsPlace
  <1>10. PICK f \in Frames : f = StartsInput(r) /\ f.runner = r
    <2>1. r \in Nat
      BY HotkeyAssumption DEF HotkeyAssumption, Serials
    <2>2. StartsInput(r) \in Frames /\ StartsInput(r).runner = r
      BY <2>1, FramesAre
    <2> QED BY <2>2, Zenon
  <1>11. PICK s, b, t : /\ s = Front(stack) /\ b = Becomes(<<f>>) /\ t = Adds(<<>>, f)
    OBVIOUS
  <1>12. Based(s, t, b) /\ Len(s) = Len(stack) - 1
    BY <1>2, <1>11, OwnBased
  <1>13. Ready(Len(s), t, {r}) /\ OnlyAsks(t) /\ t = <<f>>
    <2>1. {r} \in SUBSET Serials /\ (\A x \in Serials : x \in {r} <=> x = r) /\ r \in Serials \cup {NoRunner}
      OBVIOUS
    <2>2. r # NoRunner => Running(r) /\ ~OnBelow(Len(s), r)
      BY <1>2, <1>9, <1>12
    <2>3. UNCHANGED tableVars /\ t = Adds(<<>>, StartsInput(r))
      BY <1>1, <1>10, <1>11
    <2>4. Ready(Len(s), t, {r}) /\ OnlyAsks(t) /\ t = <<StartsInput(r)>>
      BY <2>1, <2>2, <2>3, AddAsks
    <2> QED BY <1>10, <2>4
  <1>14. \/ StopInput(b) /\ run' = WokenByInput(l)
         \/ ~input.active /\ stack' = b /\ run' = l /\ UNCHANGED input
    BY <1>2, <1>4, <1>6, <1>10, <1>11 DEF InputAction
  <1>15. {r} \in SUBSET Serials
    OBVIOUS
  <1>16. /\ HookPasses(b, l) /\ input'.runner = NoRunner
         /\ input' \in [active : BOOLEAN, runner : Nat, timer : BOOLEAN]
    BY <1>7, <1>12, <1>14, <1>15, HookStops
  <1>17. Asked(t, l)
    <2>1. <<f>>[1] = f
      BY OneFrame
    <2>2. l[r] = q
      BY <1>2, <1>6
    <2> QED BY <1>5, <1>10, <1>13, <2>1, <2>2 DEF Asked, HookReady
  <1>18. Place(Len(s), {r})
    BY <1>9, <1>12
  <1> QED BY <1>1, <1>7, <1>9, <1>12, <1>13, <1>15, <1>16, <1>17, <1>18, HookStep

LEMMA InputStopActionInv ==
  ASSUME IInv, Tame, NEW r \in Serials, InputStopAction(r)
  PROVE  IInv'
  <1>1. Takes(r, "input-stop") /\ UNCHANGED <<tableVars, fireVars, playVars, macros, otherVars>>
    BY DEF InputStopAction
  <1>2. PICK l : l = [run EXCEPT ![r] = [Did(@) EXCEPT !.waiting = TRUE]]
    OBVIOUS
  <1>3. PICK b : b = Becomes(<<Acted(r)>>)
    OBVIOUS
  <1>4. CASE stack' = b /\ run' = l /\ UNCHANGED input
    BY <1>1, <1>2, <1>3, <1>4, CommandIgnored
  <1>5. CASE StopInput(b) /\ run' = WokenByInput(l)
    <2>1. Carries(l, {r}) /\ Idle({r}) /\ {r} \in SUBSET Serials
      BY <1>1, <1>2, OwnWaits
    <2>2. PICK s, t : s = Front(stack) /\ t = Adds(<<>>, Acted(r))
      OBVIOUS
    <2>3. UNCHANGED tableVars
      BY <1>1
    <2>4. /\ Based(s, t, b) /\ Place(Len(s), {r}) /\ Ready(Len(s), t, {r})
          /\ Open(t) /\ ~Told(t) /\ ~Asks(t) /\ Top \notin {FireLoop, PlayLoop}
      BY <1>1, <1>3, <2>2, <2>3, OwnActedReady
    <2>5. /\ HookPasses(b, l) /\ input'.runner = NoRunner
          /\ input' \in [active : BOOLEAN, runner : Nat, timer : BOOLEAN]
      BY <1>5, <2>1, <2>4, HookStops
    <2> QED BY <1>1, <2>1, <2>4, <2>5, HookStep
  <1> QED BY <1>2, <1>3, <1>4, <1>5 DEF InputStopAction

LEMMA InputStartInv ==
  ASSUME IInv, NEW r \in Serials \cup {NoRunner}, InputStart(r)
  PROVE  IInv'
  <1>1. /\ DataOK /\ StackOK /\ ListsOK /\ CountsAgree /\ InputsOK /\ PointersOK /\ RestsOK /\ QueuesOK
        /\ BuildsOK /\ OffOK
    BY DEF IInv
  <1>2. stack # <<>> /\ Top = StartsInput(r)
    BY <1>1, TopIs DEF InputStart
  <1>3. r \in Nat /\ NoRunner \notin Serials
    BY HotkeyAssumption DEF HotkeyAssumption, Serials, NoRunner
  <1>4. Top.at = "input" /\ Top.runner = r /\ Top \notin {FireLoop, PlayLoop}
    <2>1. StartsInput(r).at = "input" /\ StartsInput(r).runner = r
      BY <1>3, FramesAre
    <2>2. FireLoop.at # "input" /\ PlayLoop.at # "input"
      BY FramesAre
    <2> QED BY <1>2, <2>1, <2>2
  <1>5. PICK n : n = Len(stack) - 1 /\ n \in {Len(stack), Len(stack) - 1}
    OBVIOUS
  <1>6. Ordinary(n) /\ NoBuiltOnTop /\ Calm(n)
    <2>1. Calm(n) /\ NoBuiltOnTop
      BY <1>2, <1>4, <1>5 DEF Calm, NoBuiltOnTop
    <2> QED BY <1>1, <2>1, CalmFacts
  <1>7. /\ \A x : x # r => (OnBelow(n, x) <=> OnS(x))
        /\ Running(r) => ~OnBelow(n, r)
        /\ OnS(r)
    BY <1>1, <1>2, <1>4, <1>5, ListsBelow DEF OfList
  <1>8. PICK t \in Seq(Frames) : /\ t = <<>> /\ Len(t) = 0 /\ (\A x : ~OnNew(t, x)) /\ \A j \in 1..Len(t) : FALSE
    BY NoNewFrame
  <1>9. UNCHANGED <<listVars, fireVars, playVars, macros, otherVars>> /\ stack' = Becomes(t)
    BY <1>8 DEF InputStart
  <1>10. Piled(n, t)
    BY <1>1, <1>2, <1>5, <1>9, Popped
  <1>11. WokenRun({}) /\ RunStep
    <2>1. WokenRun({})
      BY <1>9, NoneWoken
    <2>2. {} \in SUBSET Serials
      OBVIOUS
    <2> QED BY <2>1, <2>2, WokenRunFacts
  <1>12. UNCHANGED listVars /\ UNCHANGED plays /\ UNCHANGED macros /\ UNCHANGED run
         /\ UNCHANGED <<fireVars, playVars>>
    BY <1>9 DEF playVars, listVars
  <1>13. /\ input'.runner = r /\ input'.active
         /\ input' \in [active : BOOLEAN, runner : Nat, timer : BOOLEAN]
    <2>1. PICK timed \in BOOLEAN : input' = [active |-> TRUE, runner |-> r, timer |-> input.timer \/ timed]
      BY DEF InputStart
    <2>2. (input.timer \/ timed) \in BOOLEAN
      BY <1>1 DEF DataOK
    <2> QED BY <1>3, <2>1, <2>2
  <1>14. RestTypes' /\ UNCHANGED <<building, compiler, posted, enabled, fires>>
    <2>1. UNCHANGED <<fireVars, playVars, macros, otherVars>>
      BY <1>9
    <2> QED BY <1>13, <2>1, UnchangedTypes
  <1>15. /\ ListsOK' /\ CountsAgree' /\ \A x : Running(x)' <=> Running(x)
    BY <1>1, <1>11, RunStepFacts
  <1>16. DataOK'
    BY <1>1, <1>10, <1>11, <1>14, DataStep DEF Piled
  <1>17. StackOK'
    <2>1. ToldKept(n)
      BY <1>1, <1>5, <1>12, ToldSame
    <2>2. Fits(n, t) /\ Fresh(n, t)
      BY <1>8, NoFrames
    <2>3. \A j \in 1..Len(t) : FrameOK(t[j])'
      BY <1>8
    <2> QED BY <1>1, <1>5, <1>10, <1>11, <2>1, <2>2, <2>3, TurnStep
  <1>18. InputsOK' /\ LoopsOK'
    <2>1. Plain'
      BY <1>1, <1>5, <1>6, <1>8, <1>10, TurnPlain
    <2> QED BY <2>1, PlainIsOKNext
  <1>19. /\ input.runner = NoRunner
         /\ r # NoRunner => HookReady(run[r]) /\ Running(r) /\ r \in Serials
    <2>1. Len(stack) \in 1..Len(stack) /\ stack[Len(stack)] = Top
      BY <1>1, <1>2, TopIsFrame DEF Top
    <2>2. FrameOK(Top)
      BY <1>1, <2>1 DEF StackOK, FramesOK
    <2> QED BY <1>1, <1>4, <2>1, <2>2 DEF InputsOK, FrameOK
  <1>20. PointersOK'
    <2>1. HookOK'
      BY <1>12, <1>13, <1>15, <1>19 DEF HookOK, HookReady
    <2>2. TypingOK'
      BY <1>1, <1>12, <1>15 DEF PointersOK, TypingOK
    <2>3. MacrosOK'
      BY <1>1, <1>12 DEF PointersOK, MacrosOK
    <2> QED BY <2>1, <2>2, <2>3 DEF PointersOK
  <1>21. RestsOK'
    <2>1. \A x : OnS(x)' <=> OnBelow(n, x)
      BY <1>1, <1>5, <1>8, <1>10, TurnOnS
    <2>2. ASSUME NEW x \in Serials, Running(x), x # r PROVE RestsNow(x)'
      <3>1. Still(x)
        BY <1>3, <1>7, <1>12, <1>13, <1>19, <2>1, <2>2 DEF Still, Typed
      <3> QED BY <1>1, <2>2, <3>1, StillRests
    <2>3. ASSUME NEW x \in Serials, Running(x), x = r PROVE RestsNow(x)'
      <3>1. run[x].slot = {} /\ run[x].macro = NoMacro /\ ~Typed(x) /\ run[x].waiting
        BY <1>1, <1>3, <1>7, <1>19, <2>3 DEF RestsOK, RestsNow, Rests, HookReady
      <3>2. ~OnS(x)' /\ input'.runner = x /\ ~Typed(x)' /\ run'[x] = run[x]
        BY <1>7, <1>12, <1>13, <2>1, <2>3, <3>1 DEF Typed
      <3>3. Rests(run'[x], FALSE, TRUE, FALSE)
        BY <3>1, <3>2 DEF Rests
      <3>4. PICK a : a = OnS(x)' /\ a = FALSE
        BY <3>2 DEF OnS
      <3>5. PICK b : b = (input'.runner = x) /\ b = TRUE
        BY <3>2
      <3>6. PICK c : c = Typed(x)' /\ c = FALSE
        BY <3>2 DEF Typed
      <3> QED BY <3>3, <3>4, <3>5, <3>6 DEF RestsNow
    <2> QED BY <1>15, <2>2, <2>3 DEF RestsOK
  <1>22. BuiltsOK'
    <2>1. {} \in SUBSET Serials /\ UNCHANGED building
      BY <1>14
    <2> QED BY <1>5, <1>6, <1>11, <1>16, <2>1, WokenBuilds
  <1>23. QueuesOK'
    <2>1. UNCHANGED <<fireVars, playing, playTimer>> /\ (plays' # <<>> => plays # <<>>)
      BY <1>12 DEF playVars
    <2> QED BY <1>1, <1>4, <1>5, <1>10, <2>1, QueuesKept
  <1>24. OffOK'
    BY <1>1, <1>12, <1>14, OffKept
  <1>25. BuildsOK'
    BY <1>1, <1>14, BuildsKept
  <1> QED BY <1>15, <1>16, <1>17, <1>18, <1>20, <1>21, <1>22, <1>23, <1>24, <1>25 DEF IInv

-----------------------------------------------------------------------------
(* A list changes the mode.                                                *)

LEMMA FreedPiled ==
  ASSUME DataOK, stack # <<>>, NEW a \in Frames, a.at = "acted", NEW e \in Frames,
         stack' = Freed(Becomes(<<a>>), "oneshot") \o <<e>>, NEW u, u = <<a>>, u \in Seq(Frames),
         NEW t, t = Adds(u, e)
  PROVE  Piled(Len(stack) - 1, t)
  <1>1. stack \in Seq(Frames)
    BY DEF DataOK
  <1>2. PICK s : /\ s = Front(stack) /\ s \in Seq(Frames) /\ Kept(stack, s, Len(s))
                 /\ Len(s) = Len(stack) - 1 /\ Len(stack) \in Nat \ {0}
    BY <1>1, KeptFront
  <1>3. PICK n \in Nat : n = Len(s) /\ n = Len(stack) - 1
    BY <1>2
  <1>4. PICK b : b = Becomes(<<a>>) /\ IsAdds(b, s, a)
    <2>1. PICK b : b = Adds(s, a)
      OBVIOUS
    <2>2. IsAdds(b, s, a)
      BY <1>2, <2>1, AddsFacts
    <2> QED BY <1>2, <2>1, <2>2 DEF Becomes, Adds
  <1>5. /\ b \in Seq(Frames) /\ Len(b) = n + 1 /\ b[n + 1] = a /\ \A f \in 1..n : b[f] = s[f] /\ f \in 1..(n + 1)
    BY <1>3, <1>4 DEF IsAdds
  <1>6. PICK c : /\ c = Freed(b, "oneshot") /\ c \in Seq(Frames) /\ Len(c) = Len(b)
                 /\ \A f \in 1..Len(b) : Alike(c[f], b[f])
    BY <1>5, FreedFacts
  <1>7. PICK q : q = stack' /\ IsAdds(q, c, e)
    <2>1. PICK q : q = Adds(c, e)
      OBVIOUS
    <2>2. IsAdds(q, c, e)
      BY <1>6, <2>1, AddsFacts
    <2> QED BY <1>4, <1>6, <2>1, <2>2 DEF Adds
  <1>8. /\ q \in Seq(Frames) /\ Len(q) = n + 2 /\ q[n + 2] = e
        /\ \A f \in 1..(n + 1) : q[f] = c[f]
    <2>1. Len(c) = n + 1 /\ n + 1 + 1 = n + 2
      BY <1>5, <1>6
    <2> QED BY <1>7, <2>1 DEF IsAdds
  <1>9. c[n + 1] = a /\ \A f \in 1..n : Alike(c[f], s[f])
    <2>1. n + 1 \in 1..Len(b)
      BY <1>5
    <2> QED BY <1>5, <1>6, <2>1 DEF Alike
  <1>10. Kept(stack, q, n)
    <2>1. n <= Len(stack) /\ n <= Len(q)
      BY <1>2, <1>3, <1>8
    <2>2. \A f \in 1..n : f \in 1..(n + 1)
      BY <1>3
    <2>3. \A f \in 1..n : Alike(s[f], stack[f])
      BY <1>2, <1>3 DEF Kept
    <2>4. ASSUME NEW f \in 1..n PROVE Alike(q[f], stack[f])
      BY <1>8, <1>9, <2>2, <2>3 DEF Alike
    <2> QED BY <2>1, <2>4 DEF Kept
  <1>11. /\ Len(t) = 2 /\ t[1] = a /\ t[2] = e
    <2>1. IsAdds(t, u, e)
      BY AddsFacts
    <2>2. Len(u) = 1 /\ u[1] = a
      BY OneFrame
    <2>3. 1 \in 1..Len(u)
      BY <2>2
    <2>4. Len(t) = Len(u) + 1 /\ t[Len(t)] = e /\ \A j \in 1..Len(u) : t[j] = u[j]
      BY <2>1 DEF IsAdds
    <2>5. Len(t) = 2
      BY <2>2, <2>4
    <2> QED BY <2>2, <2>3, <2>4, <2>5
  <1>12. ASSUME NEW j \in 1..Len(t) PROVE q[n + j] = t[j]
    <2>1. j = 1 \/ j = 2
      <3>1. j \in 1..2
        BY <1>11
      <3> QED BY <3>1
    <2>2. n + 1 \in 1..(n + 1)
      BY <1>3
    <2> QED BY <1>8, <1>9, <1>11, <2>1, <2>2
  <1> QED BY <1>3, <1>7, <1>8, <1>10, <1>11, <1>12 DEF Piled

LEMMA ModeChanges ==
  ASSUME IInv, Tame, NEW r \in Serials, Takes(r, "mode"), NEW m \in AllModes,
         run' = [run EXCEPT ![r] = [Did(@) EXCEPT !.waiting = TRUE]], keyMode' = m,
         stack' = Freed(Becomes(<<Acted(r)>>), "oneshot") \o <<[at |-> "exit", mode |-> m]>>,
         UNCHANGED <<tableVars, fireVars, playVars, input, macros, codeVars, mode, modeTimer, enabled>>
  PROVE  IInv'
  <1>1. DataOK /\ StackOK /\ stack # <<>> /\ OnTopIs(r) /\ HookOK
    BY TakesFacts DEF IInv, OnTopIs, PointersOK
  <1>2. PICK l : l = [run EXCEPT ![r] = [Did(@) EXCEPT !.waiting = TRUE]] /\ run' = l
    OBVIOUS
  <1>3. Carries(l, {r}) /\ Idle({r}) /\ {r} \in SUBSET Serials
    BY <1>2, OwnWaits
  <1>4. UNCHANGED tableVars /\ UNCHANGED input /\ UNCHANGED plays /\ UNCHANGED macros
        /\ UNCHANGED <<fireVars, playVars>> /\ UNCHANGED <<building, compiler, posted, enabled>>
    BY DEF playVars, codeVars
  <1>5. WokenRun({r})
    BY <1>2, <1>3, <1>4, CarriesSame
  <1>6. PICK s, u, n : s = Front(stack) /\ u = Adds(<<>>, Acted(r)) /\ n = Len(s)
    OBVIOUS
  <1>7. /\ Based(s, u, Becomes(<<Acted(r)>>)) /\ Place(n, {r}) /\ Ready(n, u, {r})
        /\ Open(u) /\ ~Told(u) /\ ~Asks(u) /\ Top \notin {FireLoop, PlayLoop}
        /\ u = <<Acted(r)>> /\ u \in Seq(Frames)
    BY <1>4, <1>6, OwnActedReady
  <1>8. PICK a \in Frames : a = Acted(r) /\ a.at = "acted"
    <2>1. r \in Nat
      BY HotkeyAssumption DEF HotkeyAssumption, Serials
    <2>2. Acted(r) \in Frames /\ Acted(r).at = "acted"
      BY <2>1, FramesAre
    <2> QED BY <2>2, Zenon
  <1>9. PICK e \in Frames : e = [at |-> "exit", mode |-> m] /\ e.at = "exit"
    BY FramesAre
  <1>10. PICK t : t = Adds(u, e)
    OBVIOUS
  <1>11. n = Len(stack) - 1
    <2>1. stack \in Seq(Frames)
      BY <1>1 DEF DataOK
    <2> QED BY <1>1, <1>6, <2>1, KeptFront
  <1>12. Piled(n, t)
    <2>1. stack' = Freed(Becomes(<<a>>), "oneshot") \o <<e>> /\ u = <<a>>
      BY <1>7, <1>8, <1>9
    <2> QED BY <1>1, <1>7, <1>8, <1>10, <1>11, <2>1, FreedPiled
  <1>13. Ready(n, t, {r}) /\ ~Asks(t)
    <2>1. FrameOK(e)'
      BY <1>9 DEF FrameOK, OfList
    <2>2. \A x \in Serials : x \in {r} <=> x \in {r} \/ (e.at \in OfList /\ e.runner = x)
      BY <1>9 DEF OfList
    <2>3. CanAdd(n, u, {r}, e, {r})
      BY <1>3, <1>7, <1>9, <2>1, <2>2 DEF CanAdd, OfList
    <2>4. IsMore(n, u, e, {r})
      BY <2>3, AddOne
    <2> QED BY <1>7, <1>9, <1>10, <2>4 DEF IsMore
  <1>14. n \in {Len(stack), Len(stack) - 1}
    BY <1>11
  <1>15. HookKept /\ MacrosKept /\ ToldKept(n)
    <2>1. HookKept
      BY <1>1, <1>4 DEF HookKept, HookOK
    <2>2. MacrosKept
      BY <1>3, <1>4, <1>5, MacrosAsBefore
    <2> QED BY <1>1, <1>4, <1>14, <2>1, <2>2, ToldSame
  <1>16. Untold({r})
    BY <1>3, <1>4 DEF Untold, Typed, Idle
  <1>17. RestTypes'
    BY <1>1 DEF RestTypes, DataOK, codeVars, fireVars, playVars
  <1> QED BY <1>3, <1>4, <1>5, <1>7, <1>12, <1>13, <1>15, <1>16, <1>17, WakeOn

LEMMA ModeActionInv ==
  ASSUME IInv, Tame, NEW r \in Serials, ModeAction(r)
  PROVE  IInv'
  <1>1. /\ Takes(r, "mode") /\ run' = [run EXCEPT ![r] = [Did(@) EXCEPT !.waiting = TRUE]]
        /\ UNCHANGED <<tableVars, fireVars, playVars, input, macros, codeVars, mode, modeTimer, enabled>>
    BY DEF ModeAction
  <1>2. PICK m \in AllModes : SetKeyMode(m, Becomes(<<Acted(r)>>))
    BY DEF ModeAction, AllModes
  <1>3. CASE m = keyMode
    <2>1. stack' = Becomes(<<Acted(r)>>) /\ UNCHANGED keyMode
      BY <1>2, <1>3 DEF SetKeyMode
    <2>2. UNCHANGED <<tableVars, fireVars, playVars, input, macros, otherVars>>
      BY <1>1, <2>1 DEF otherVars, modeVars
    <2> QED BY <1>1, <2>1, <2>2, CommandIgnored
  <1>4. CASE m # keyMode
    <2>1. /\ keyMode' = m
          /\ stack' = Freed(Becomes(<<Acted(r)>>), "oneshot") \o <<[at |-> "exit", mode |-> m]>>
      BY <1>2, <1>4 DEF SetKeyMode
    <2> QED BY <1>1, <2>1, ModeChanges
  <1> QED BY <1>3, <1>4

-----------------------------------------------------------------------------
(* The loop of c_built().                                                  *)

InLoops == stack # <<>> /\ Top.at \in {"posts", "built", "built next"}

LEMMA InLoopsFacts ==
  ASSUME IInv, InLoops, NEW n, n = Len(stack) - 1
  PROVE  /\ n \in {Len(stack), Len(stack) - 1} /\ Ordinary(n)
         /\ \A x : OnBelow(n, x) <=> OnS(x)
         /\ \A t \in Seq(Frames) : Shaped(t) => Fits(n, t)
         /\ Top \notin {FireLoop, PlayLoop}
  <1>1. DataOK /\ StackOK
    BY DEF IInv
  <1>2. Calm(n) /\ Top.at \notin OfList
    BY DEF InLoops, Calm, OfList
  <1>3. /\ n \in {Len(stack), Len(stack) - 1} /\ Ordinary(n)
        /\ \A x : OnBelow(n, x) <=> OnS(x)
        /\ \A t \in Seq(Frames) : Shaped(t) => Fits(n, t)
    BY <1>1, <1>2, CalmFacts
  <1>4. Top \notin {FireLoop, PlayLoop}
    BY FramesAre DEF InLoops
  <1> QED BY <1>3, <1>4

LEMMA LoopStep ==
  ASSUME IInv, InLoops, NEW W \in SUBSET Serials, WokenRun(W), Untold(W),
         NEW n, n = Len(stack) - 1, NEW t \in Seq(Frames), Piled(n, t), Shaped(t), Fresh(n, t),
         \A x \in Serials : OnNew(t, x) <=> x \in W,
         \A j \in 1..Len(t) : t[j].at # "input" /\ FrameOK(t[j])',
         RestTypes', UNCHANGED <<fireVars, playVars, input, macros, enabled>>,
         BuildsOK', BuiltsOK', LoopsOK'
  PROVE  IInv'
  <1>1. DataOK /\ StackOK /\ ListsOK /\ CountsAgree /\ OffOK /\ QueuesOK /\ HookOK
    BY DEF IInv, PointersOK
  <1>2. /\ n \in {Len(stack), Len(stack) - 1} /\ Ordinary(n) /\ Fits(n, t)
        /\ (\A x : OnBelow(n, x) <=> OnS(x)) /\ Top \notin {FireLoop, PlayLoop}
    BY InLoopsFacts
  <1>3. RunStep
    BY WokenRunFacts
  <1>4. ListsOK' /\ CountsAgree'
    BY <1>1, <1>3, RunStepFacts
  <1>5. DataOK'
    BY <1>1, <1>3, DataStep DEF Piled
  <1>6. UNCHANGED <<fireVars, playing, playTimer>> /\ UNCHANGED plays /\ UNCHANGED fires /\ UNCHANGED macros
    BY DEF playVars, fireVars
  <1>7. StackOK'
    <2>1. ToldKept(n)
      BY <1>1, <1>2, <1>6, ToldSame
    <2> QED BY <1>1, <1>2, <1>3, <2>1, TurnStep
  <1>8. RestsOK'
    <2>1. Stacked(W, n, t)
      BY <1>2 DEF Stacked
    <2> QED BY <1>2, <2>1, WokenRests
  <1>9. PointersOK'
    <2>1. HookKept
      BY <1>1 DEF HookKept, HookOK
    <2>2. TypingOK'
      BY <1>6, WokenRunning
    <2>3. MacrosKept
      BY <1>6, MacrosAsBefore
    <2> QED BY <2>1, <2>2, <2>3, WokenPointers
  <1>10. QueuesOK'
    <2>1. plays' # <<>> => plays # <<>>
      BY <1>6
    <2> QED BY <1>1, <1>2, <1>6, <2>1, QueuesKept
  <1>11. InputsOK'
    <2>1. ASSUME NEW f \in 1..Len(stack') PROVE stack'[f].at # "input"
      <3>1. CASE f \in 1..n
        <4>1. Alike(stack'[f], stack[f])
          BY <1>1, <1>2, <3>1, PiledFacts
        <4> QED BY <1>2, <3>1, <4>1 DEF Ordinary, Special, Alike
      <3>2. CASE f \notin 1..n
        <4>1. f - n \in 1..Len(t) /\ stack'[f] = t[f - n]
          BY <1>1, <1>2, <3>2, PiledFacts
        <4> QED BY <4>1
      <3> QED BY <3>1, <3>2
    <2> QED BY <2>1 DEF InputsOK
  <1>12. OffOK'
    <2>1. ASSUME NEW x \in Serials
          PROVE  /\ run'[x].may \subseteq run[x].may
                 /\ run'[x].macro = NoMacro \/ run'[x].macro = run[x].macro
      BY DEF WokenRun, Loosens
    <2> QED BY <1>1, <1>6, <2>1 DEF OffOK
  <1> QED BY <1>4, <1>5, <1>7, <1>8, <1>9, <1>10, <1>11, <1>12 DEF IInv

LEMMA LoopComes ==
  ASSUME IInv, InLoops, NEW j \in 1..Len(runners), WaitsForBuild(runners[j]),
         NEW k, k = run[runners[j]].redo
  PROVE  /\ k \in Keys
         /\ \/ k \in building
            \/ Top.at \in {"built", "built next"} /\ Top.key = k /\ ComesTo(Top, Len(runners), j)
  <1>1. DataOK /\ BuiltsOK
    BY DEF IInv
  <1>2. k \in Keys /\ Comes(j)
    BY <1>1 DEF BuiltsOK
  <1>3. PICK n : n = Len(stack) - 1 /\ Ordinary(n) /\ n \in {Len(stack), Len(stack) - 1}
    BY InLoopsFacts
  <1>4. CASE k \in building
    BY <1>2, <1>4
  <1>5. ASSUME NEW f \in 1..Len(stack), stack[f].at \in {"built", "built next"}, stack[f].key = k, Reached(f, j)
        PROVE  Top.at \in {"built", "built next"} /\ Top.key = k /\ ComesTo(Top, Len(runners), j)
    <2>1. f \notin 1..n
      BY <1>3, <1>5 DEF Ordinary, Special
    <2>2. f = Len(stack)
      BY <1>1, <1>3, <2>1, PlacesOf
    <2> QED BY <1>5, <2>2 DEF Top, Reached
  <1> QED BY <1>2, <1>4, <1>5 DEF Comes

LEMMA LoopCame ==
  ASSUME DataOK, NEW n \in {Len(stack), Len(stack) - 1}, NEW t \in Seq(Frames), Piled(n, t),
         NEW p \in 1..Len(t), t[p].at \in {"built", "built next"}, runners' = runners,
         NEW j \in 1..Len(runners), t[p].key = run'[runners[j]].redo, ComesTo(t[p], Len(runners), j)
  PROVE  Comes(j)'
  <1>1. n + p \in 1..Len(stack') /\ stack'[n + p] = t[p]
    <2>1. \A q \in 1..Len(t) : n + q \in 1..Len(stack') /\ stack'[n + q] = t[q] /\ n + q \notin 1..n
      BY PiledFacts
    <2> QED BY <2>1
  <1>2. PICK f \in 1..Len(stack') : stack'[f] = t[p]
    BY <1>1
  <1>3. Reached(f, j)'
    BY <1>2 DEF Reached
  <1> QED BY <1>2, <1>3 DEF Comes

LEMMA NoneUntold ==
  ASSUME UNCHANGED <<input, playVars>>
  PROVE  Untold({})
  BY DEF Untold, Typed, playVars

\* What is put on the loop, when no list carries on.
LEMMA LoopFrame ==
  ASSUME NEW f \in Frames, f.at \in {"posts", "built"}, NEW t, t = <<f>>
  PROVE  /\ t \in Seq(Frames) /\ Len(t) = 1 /\ t[1] = f /\ Shaped(t) /\ (\A n : Fresh(n, t))
         /\ (\A x : ~OnNew(t, x))
         /\ \A j \in 1..Len(t) : t[j].at \notin {"input", "built next"} /\ FrameOK(t[j])'
  <1>1. t \in Seq(Frames) /\ Len(t) = 1 /\ t[1] = f /\ Shaped(t)
    BY OneFrame, ShapedFacts
  <1>2. \A j \in 1..Len(t) : j = 1 /\ t[j] = f
    BY <1>1
  <1>3. FrameOK(f)' /\ f.at \notin OfList /\ f.at # "told"
    BY DEF FrameOK, OfList
  <1>4. \A n : Fresh(n, t)
    BY <1>2, <1>3 DEF Fresh
  <1>5. \A x : ~OnNew(t, x)
    BY <1>2, <1>3 DEF OnNew
  <1> QED BY <1>1, <1>2, <1>3, <1>4, <1>5

\* The loop goes on, and no list carries on.
LEMMA LoopGoes ==
  ASSUME IInv, InLoops, NEW t, t = <<>> \/ \E f \in Frames : f.at \in {"posts", "built"} /\ t = <<f>>,
         stack' = Becomes(t), UNCHANGED <<listVars, fireVars, playVars, input, macros, otherVars>>,
         \A j \in 1..Len(runners) : WaitsForBuild(runners[j]) =>
           \/ run[runners[j]].redo \in building
           \/ \E p \in 1..Len(t) : /\ t[p].at = "built" /\ t[p].key = run[runners[j]].redo
                                   /\ ComesTo(t[p], Len(runners), j)
  PROVE  IInv'
  <1>1. DataOK /\ BuildsOK /\ BuiltsOK /\ stack # <<>>
    BY DEF IInv, InLoops
  <1>2. PICK n : n = Len(stack) - 1 /\ n \in {Len(stack), Len(stack) - 1} /\ Ordinary(n)
    BY InLoopsFacts
  <1>3. /\ t \in Seq(Frames) /\ Shaped(t) /\ Fresh(n, t) /\ (\A x : ~OnNew(t, x))
        /\ \A j \in 1..Len(t) : t[j].at \notin {"input", "built next"} /\ FrameOK(t[j])'
    <2>1. CASE t = <<>>
      <3>1. PICK u \in Seq(Frames) : /\ u = <<>> /\ Len(u) = 0 /\ Shaped(u) /\ (\A m : Fresh(m, u))
                                     /\ (\A x : ~OnNew(u, x)) /\ \A j \in 1..Len(u) : FALSE
        BY NoNewFrame
      <3> QED BY <2>1, <3>1
    <2>2. ASSUME NEW f \in Frames, f.at \in {"posts", "built"}, t = <<f>>
          PROVE  /\ t \in Seq(Frames) /\ Shaped(t) /\ Fresh(n, t) /\ (\A x : ~OnNew(t, x))
                 /\ \A j \in 1..Len(t) : t[j].at \notin {"input", "built next"} /\ FrameOK(t[j])'
      BY <2>2, LoopFrame
    <2> QED BY <2>1, <2>2
  <1>4. Piled(n, t)
    BY <1>1, <1>2, <1>3, Popped
  <1>5. PICK W : W = {} /\ W \in SUBSET Serials /\ WokenRun(W) /\ Untold(W)
    <2>1. UNCHANGED listVars /\ UNCHANGED <<input, playVars>>
      OBVIOUS
    <2>2. WokenRun({}) /\ Untold({}) /\ {} \in SUBSET Serials
      BY <2>1, NoneWoken, NoneUntold
    <2> QED BY <2>2, Zenon
  <1>6. RestTypes' /\ UNCHANGED <<building, compiler, posted>> /\ UNCHANGED enabled
    <2>1. UNCHANGED <<fireVars, playVars, macros, otherVars>> /\ UNCHANGED input
      OBVIOUS
    <2>2. input' \in [active : BOOLEAN, runner : Nat, timer : BOOLEAN]
      BY <1>1, <2>1 DEF DataOK
    <2> QED BY <2>1, <2>2, UnchangedTypes
  <1>7. BuildsOK' /\ UNCHANGED building
    BY <1>1, <1>6, BuildsKept
  <1>8. LoopsOK'
    BY <1>2, <1>3, <1>4, NoLoopsNext
  <1>9. BuiltsOK'
    <2>1. UNCHANGED runners /\ UNCHANGED run
      BY DEF listVars, tableVars
    <2>2. ASSUME NEW j \in 1..Len(runners), WaitsForBuild(runners[j])'
          PROVE  run'[runners[j]].redo \in Keys /\ Comes(j)'
      <3>1. j \in 1..Len(runners) /\ WaitsForBuild(runners[j])
        BY <2>1, <2>2 DEF WaitsForBuild
      <3>2. run[runners[j]].redo \in Keys
        BY <1>1, <3>1 DEF BuiltsOK
      <3>3. CASE run[runners[j]].redo \in building
        BY <1>7, <2>1, <3>2, <3>3 DEF Comes
      <3>4. ASSUME NEW p \in 1..Len(t), t[p].at = "built", t[p].key = run[runners[j]].redo,
                   ComesTo(t[p], Len(runners), j)
            PROVE  Comes(j)'
        <4>1. t[p].key = run'[runners[j]].redo /\ runners' = runners
          BY <2>1, <3>4
        <4>2. t[p].at \in {"built", "built next"}
          BY <3>4
        <4> QED BY <1>1, <1>2, <1>3, <1>4, <3>1, <3>4, <4>1, <4>2, LoopCame
      <3> QED BY <2>1, <3>1, <3>2, <3>3, <3>4
    <2> QED BY <2>1, <2>2 DEF BuiltsOK, WaitsForBuild
  <1>10. UNCHANGED <<fireVars, playVars, input, macros, enabled>>
    BY <1>6
  <1>11. /\ \A x \in Serials : OnNew(t, x) <=> x \in W
         /\ \A j \in 1..Len(t) : t[j].at # "input" /\ FrameOK(t[j])'
    BY <1>3, <1>5
  <1> QED BY <1>2, <1>3, <1>4, <1>5, <1>6, <1>7, <1>8, <1>9, <1>10, <1>11, LoopStep

\* Where the loop is, on top of the stack.
LEMMA BuiltOnTop ==
  ASSUME IInv, NEW k \in Keys, NEW i \in Nat \ {0}, NEW n \in Nat, At(Built(k, i)) \/ At(BuiltNext(k, i, n))
  PROVE  /\ InLoops /\ Top.key = k /\ Top.i = i
         /\ At(Built(k, i)) => Top.at = "built"
         /\ At(BuiltNext(k, i, n)) => Top.at = "built next" /\ Top.before = n
  <1>1. DataOK
    BY DEF IInv
  <1>2. ASSUME At(Built(k, i))
        PROVE  stack # <<>> /\ Top.at = "built" /\ Top.key = k /\ Top.i = i
    <2>1. stack # <<>> /\ Top = Built(k, i)
      BY <1>1, <1>2, TopIs
    <2> QED BY <2>1, FramesAre
  <1>3. ASSUME At(BuiltNext(k, i, n))
        PROVE  stack # <<>> /\ Top.at = "built next" /\ Top.key = k /\ Top.i = i /\ Top.before = n
    <2>1. stack # <<>> /\ Top = BuiltNext(k, i, n)
      BY <1>1, <1>3, TopIs
    <2>2. /\ BuiltNext(k, i, n).at = "built next" /\ BuiltNext(k, i, n).key = k
          /\ BuiltNext(k, i, n).i = i /\ BuiltNext(k, i, n).before = n
      BY DEF BuiltNext
    <2> QED BY <2>1, <2>2
  <1> QED BY <1>2, <1>3 DEF InLoops

LEMMA PlaceOf ==
  ASSUME DataOK, NEW j \in 1..Len(runners)
  PROVE  j \in Nat /\ Len(runners) \in Nat /\ j <= Len(runners)
  BY DEF DataOK

LEMMA WakeBuiltNextInv ==
  ASSUME IInv, NEW k \in Keys, NEW i \in 1..(MaxStarts + 1), NEW n \in Serials, WakeBuiltNext(k, i, n)
  PROVE  IInv'
  <1>1. DataOK /\ i \in Nat \ {0} /\ n \in Nat
    BY HotkeyAssumption DEF IInv, HotkeyAssumption, Serials
  <1>2. InLoops /\ Top.key = k /\ Top.i = i /\ Top.at = "built next" /\ Top.before = n
    BY <1>1, BuiltOnTop DEF WakeBuiltNext
  <1>3. PICK h \in Nat \ {0} : h = IF Len(runners) < n THEN i ELSE i + 1
    <2>1. (IF Len(runners) < n THEN i ELSE i + 1) \in Nat \ {0}
      BY <1>1
    <2> QED BY <2>1, Zenon
  <1>4. PICK f \in Frames : f = Built(k, h) /\ f.at = "built" /\ f.key = k /\ f.i = h
    <2>1. Built(k, h) \in Frames /\ Built(k, h).at = "built" /\ Built(k, h).key = k /\ Built(k, h).i = h
      BY FramesAre
    <2> QED BY <2>1, Zenon
  <1>5. PICK t : t = <<f>> /\ Len(t) = 1 /\ t[1] = f
    <2>1. Len(<<f>>) = 1 /\ <<f>>[1] = f
      BY OneFrame
    <2> QED BY <2>1, Zenon
  <1>6. stack' = Becomes(t) /\ UNCHANGED <<listVars, fireVars, playVars, input, macros, otherVars>>
    BY <1>3, <1>4, <1>5 DEF WakeBuiltNext
  <1>7. ASSUME NEW j \in 1..Len(runners), WaitsForBuild(runners[j])
        PROVE  \/ run[runners[j]].redo \in building
               \/ \E p \in 1..Len(t) : /\ t[p].at = "built" /\ t[p].key = run[runners[j]].redo
                                       /\ ComesTo(t[p], Len(runners), j)
    <2>1. CASE run[runners[j]].redo \in building
      BY <2>1
    <2>2. CASE Top.key = run[runners[j]].redo /\ ComesTo(Top, Len(runners), j)
      <3>1. IF Len(runners) < n THEN i <= j ELSE i < j
        BY <1>2, <2>2 DEF ComesTo
      <3>2. h <= j
        BY <1>1, <1>3, <3>1, PlaceOf
      <3>3. 1 \in 1..Len(t) /\ ComesTo(t[1], Len(runners), j)
        <4>1. 1 \in 1..Len(t)
          BY <1>5
        <4>2. ComesTo(f, Len(runners), j)
          BY <1>4, <3>2 DEF ComesTo
        <4> QED BY <1>5, <4>1, <4>2
      <3> QED BY <1>2, <1>4, <1>5, <2>2, <3>3
    <2> QED BY <1>2, <1>7, <2>1, <2>2, LoopComes
  <1>8. \E g \in Frames : g.at \in {"posts", "built"} /\ t = <<g>>
    BY <1>4, <1>5
  <1> QED BY <1>2, <1>6, <1>7, <1>8, LoopGoes

LEMMA WakeBuiltPasses ==
  ASSUME IInv, NEW k \in Keys, NEW i \in 1..(MaxStarts + 1), WakeBuilt(k, i),
         i > Len(runners) \/ ~(WaitsForBuild(runners[i]) /\ run[runners[i]].redo = k)
  PROVE  IInv'
  <1>1. DataOK /\ i \in Nat \ {0} /\ 0 \in Nat
    BY HotkeyAssumption DEF IInv, HotkeyAssumption
  <1>2. InLoops /\ Top.key = k /\ Top.i = i /\ Top.at = "built"
    BY <1>1, BuiltOnTop DEF WakeBuilt
  <1>3. UNCHANGED <<tableVars, fireVars, playVars, input, macros, otherVars>>
    BY DEF WakeBuilt
  <1>4. ASSUME NEW j \in 1..Len(runners), WaitsForBuild(runners[j])
        PROVE  run[runners[j]].redo \in building \/ (k = run[runners[j]].redo /\ i <= j)
    <2>1. ComesTo(Top, Len(runners), j) => i <= j
      BY <1>2 DEF ComesTo
    <2> QED BY <1>2, <1>4, <2>1, LoopComes
  <1>5. CASE i > Len(runners)
    <2>1. stack' = Becomes(<<>>) /\ UNCHANGED run
      BY <1>5 DEF WakeBuilt
    <2>2. UNCHANGED <<listVars, fireVars, playVars, input, macros, otherVars>>
      BY <1>3, <2>1 DEF listVars
    <2>3. \A j \in 1..Len(runners) : WaitsForBuild(runners[j]) => run[runners[j]].redo \in building
      <3>1. \A j \in 1..Len(runners) : ~(i <= j)
        BY <1>1, <1>5, PlaceOf
      <3> QED BY <1>4, <3>1
    <2> QED BY <1>2, <2>1, <2>2, <2>3, LoopGoes
  <1>6. CASE ~(i > Len(runners))
    <2>1. PICK h \in Nat \ {0} : h = i + 1
      <3>1. i + 1 \in Nat \ {0}
        BY <1>1
      <3> QED BY <3>1, Zenon
    <2>2. PICK f \in Frames : f = Built(k, h) /\ f.at = "built" /\ f.key = k /\ f.i = h
      <3>1. Built(k, h) \in Frames /\ Built(k, h).at = "built" /\ Built(k, h).key = k /\ Built(k, h).i = h
        BY FramesAre
      <3> QED BY <3>1, Zenon
    <2>3. PICK t : t = <<f>> /\ Len(t) = 1 /\ t[1] = f
      <3>1. Len(<<f>>) = 1 /\ <<f>>[1] = f
        BY OneFrame
      <3> QED BY <3>1, Zenon
    <2>4. ~(WaitsForBuild(runners[i]) /\ run[runners[i]].redo = k)
      BY <1>6
    <2>5. stack' = Becomes(t) /\ UNCHANGED run
      BY <1>6, <2>1, <2>2, <2>3, <2>4 DEF WakeBuilt, WaitsForBuild
    <2>6. UNCHANGED <<listVars, fireVars, playVars, input, macros, otherVars>>
      BY <1>3, <2>5 DEF listVars
    <2>7. ASSUME NEW j \in 1..Len(runners), WaitsForBuild(runners[j])
          PROVE  \/ run[runners[j]].redo \in building
                 \/ \E p \in 1..Len(t) : /\ t[p].at = "built" /\ t[p].key = run[runners[j]].redo
                                         /\ ComesTo(t[p], Len(runners), j)
      <3>1. CASE k = run[runners[j]].redo /\ i <= j
        <4>1. j # i
          BY <2>4, <2>7, <3>1
        <4>2. h <= j
          BY <1>1, <2>1, <3>1, <4>1, PlaceOf
        <4>3. 1 \in 1..Len(t) /\ ComesTo(t[1], Len(runners), j)
          <5>1. 1 \in 1..Len(t)
            BY <2>3
          <5>2. ComesTo(f, Len(runners), j)
            BY <2>2, <4>2 DEF ComesTo
          <5> QED BY <2>3, <5>1, <5>2
        <4> QED BY <2>2, <2>3, <3>1, <4>3
      <3> QED BY <1>4, <2>7, <3>1
    <2>8. \E g \in Frames : g.at \in {"posts", "built"} /\ t = <<g>>
      BY <2>2, <2>3
    <2> QED BY <1>2, <2>5, <2>6, <2>7, <2>8, LoopGoes
  <1> QED BY <1>5, <1>6

\* The loop of c_built() with a list on top of it.
IsPair(t, f, g) ==
  /\ t \in Seq(Frames) /\ Len(t) = 2 /\ t[1] = f /\ t[2] = g
  /\ 1 \in 1..Len(t) /\ 2 \in 1..Len(t) /\ \A j \in 1..Len(t) : j = 1 \/ j = 2

LEMMA PairFacts ==
  ASSUME NEW f \in Frames, NEW g \in Frames
  PROVE  IsPair(<<f, g>>, f, g)
  <1>1. PICK t : t = <<f, g>> /\ t \in Seq(Frames) /\ Len(t) = 2 /\ t[1] = f /\ t[2] = g
    <2>1. <<f, g>> \in Seq(Frames) /\ Len(<<f, g>>) = 2 /\ <<f, g>>[1] = f /\ <<f, g>>[2] = g
      BY TwoFrames
    <2> QED BY <2>1, Zenon
  <1>2. 1 \in 1..Len(t) /\ 2 \in 1..Len(t) /\ \A j \in 1..Len(t) : j = 1 \/ j = 2
    <2>1. 1 \in 1..2 /\ 2 \in 1..2 /\ \A j \in 1..2 : j = 1 \/ j = 2
      OBVIOUS
    <2> QED BY <1>1, <2>1
  <1> QED BY <1>1, <1>2 DEF IsPair

ListOnLoop(n, r, t) ==
  /\ Fresh(n, t)
  /\ \A x \in Serials : OnNew(t, x) <=> x \in {r}
  /\ \A j \in 1..Len(t) : t[j].at # "input" /\ FrameOK(t[j])'

LEMMA LoopAndList ==
  ASSUME IInv, InLoops, NEW r \in Serials, ~OnS(r), UNCHANGED started, Running(r)', Running(r),
         NEW n, n = Len(stack) - 1, NEW f \in Frames, f.at = "built next",
         NEW g \in Frames, g = Step(r), NEW t, IsPair(t, f, g)
  PROVE  ListOnLoop(n, r, t)
  <1>1. f.at = "built next"
    OBVIOUS
  <1>2. g.at = "step" /\ g.runner = r
    BY DEF Step
  <1>3. /\ t \in Seq(Frames) /\ Len(t) = 2 /\ t[1] = f /\ t[2] = g
        /\ 1 \in 1..Len(t) /\ 2 \in 1..Len(t) /\ \A j \in 1..Len(t) : j = 1 \/ j = 2
    BY DEF IsPair
  <1>5. ~OnBelow(n, r)
    BY InLoopsFacts
  <1>6. Fresh(n, t)
    BY <1>1, <1>2, <1>3, <1>5 DEF Fresh, OfList
  <1>7. \A x \in Serials : OnNew(t, x) <=> x \in {r}
    BY <1>1, <1>2, <1>3 DEF OnNew, OfList
  <1>8. FrameOK(f)' /\ FrameOK(g)'
    <2>1. FrameOK(f)'
      BY <1>1 DEF FrameOK, OfList
    <2>2. FrameOK(g)'
      BY StepFrame
    <2> QED BY <2>1, <2>2
  <1>9. ASSUME NEW j \in 1..Len(t) PROVE t[j].at # "input" /\ FrameOK(t[j])'
    <2>1. CASE j = 1
      BY <1>1, <1>3, <1>8, <2>1
    <2>2. CASE j = 2
      BY <1>2, <1>3, <1>8, <2>2
    <2> QED BY <1>3, <2>1, <2>2
  <1> QED BY <1>6, <1>7, <1>9 DEF ListOnLoop

\* The loop of c_built() comes to a list that waits for the build.
LEMMA WakeBuiltWakes ==
  ASSUME IInv, NEW k \in Keys, NEW i \in 1..(MaxStarts + 1), WakeBuilt(k, i),
         ~(i > Len(runners)), WaitsForBuild(runners[i]), run[runners[i]].redo = k
  PROVE  IInv'
  <1>1. DataOK /\ StackOK /\ BuildsOK /\ BuiltsOK /\ i \in Nat \ {0} /\ 0 \in Nat /\ k # NoKey
    BY HotkeyAssumption DEF IInv, HotkeyAssumption
  <1>2. InLoops /\ Top.key = k /\ Top.i = i /\ Top.at = "built"
    BY <1>1, BuiltOnTop DEF WakeBuilt
  <1>3. i \in 1..Len(runners) /\ Len(runners) \in Nat
    BY <1>1, RunnersAreStarted
  <1>4. PICK r \in Serials : r = runners[i] /\ Running(r) /\ r \in Nat
    <2>1. runners[i] \in Serials /\ Running(runners[i]) /\ runners[i] \in Nat
      BY <1>1, <1>3, RunnersAreStarted DEF Running
    <2> QED BY <2>1, Zenon
  <1>5. WaitsForBuild(r) /\ run[r].redo = k /\ ~OnS(r) /\ input.runner # r /\ ~Typed(r)
    BY <1>4, Waiter DEF WaitsForBuild
  <1>6. PICK f \in Frames : f = BuiltNext(k, i, Len(runners))
    <2>1. BuiltNext(k, i, Len(runners)) \in Frames
      BY <1>1, <1>3, FramesAre
    <2> QED BY <2>1, Zenon
  <1>7. PICK g \in Frames : g = Step(r)
    <2>1. Step(r) \in Frames
      BY <1>4, FramesAre
    <2> QED BY <2>1, Zenon
  <1>8. PICK t : t = <<f, g>> /\ IsPair(t, f, g) /\ t \in Seq(Frames)
    <2>1. IsPair(<<f, g>>, f, g)
      BY PairFacts
    <2> QED BY <2>1 DEF IsPair
  <1>9. /\ Resume(r, Becomes(<<f>>))
        /\ UNCHANGED <<tableVars, fireVars, playVars, input, macros, otherVars>>
    BY <1>4, <1>6 DEF WakeBuilt, WaitsForBuild
  <1>10. /\ run' = [run EXCEPT ![r] = Woken(@)]
         /\ UNCHANGED tableVars /\ UNCHANGED input /\ UNCHANGED plays /\ UNCHANGED runners
         /\ UNCHANGED <<building, compiler, posted>> /\ UNCHANGED started
         /\ UNCHANGED <<fireVars, playVars, input, macros, enabled>>
    BY <1>9 DEF Resume, tableVars, playVars, otherVars, codeVars
  <1>11. stack' = Becomes(t)
    <2>1. Front(stack) \in Seq(Frames)
      <3>1. stack \in Seq(Frames) /\ stack # <<>>
        BY <1>1, <1>2 DEF DataOK, InLoops
      <3> QED BY <3>1, KeptFront
    <2>2. stack' = (Front(stack) \o <<f>>) \o <<g>>
      BY <1>7, <1>9 DEF Resume, Becomes
    <2>3. (Front(stack) \o <<f>>) \o <<g>> = Front(stack) \o <<f, g>>
      BY <2>1, AddFrames
    <2> QED BY <1>8, <2>2, <2>3 DEF Becomes
  <1>12. PICK n : n = Len(stack) - 1 /\ n \in {Len(stack), Len(stack) - 1} /\ Ordinary(n)
    BY <1>2, InLoopsFacts
  <1>13. Piled(n, t)
    BY <1>1, <1>2, <1>8, <1>11, <1>12, Popped DEF InLoops
  <1>14. WokenRun({r}) /\ {r} \in SUBSET Serials
    BY <1>4, <1>10, OneWoken
  <1>15. Untold({r})
    BY <1>5, <1>10 DEF Untold, Typed
  <1>16. Running(r)'
    BY <1>4, <1>10 DEF Running
  <1>17. /\ Shaped(t) /\ Fresh(n, t)
         /\ \A x \in Serials : OnNew(t, x) <=> x \in {r}
         /\ \A j \in 1..Len(t) : t[j].at # "input" /\ FrameOK(t[j])'
    <2>1. f.at = "built next" /\ g.at = "step"
      BY <1>6, <1>7 DEF BuiltNext, Step
    <2>2. Shaped(t)
      BY <1>8, <2>1, ShapedFacts
    <2>3. UNCHANGED started
      BY <1>10
    <2>4. ListOnLoop(n, r, t)
      BY <1>2, <1>4, <1>5, <1>7, <1>8, <1>12, <1>16, <2>1, <2>3, LoopAndList
    <2> QED BY <2>2, <2>4 DEF ListOnLoop
  <1>18. RestTypes'
    <2>1. UNCHANGED <<fireVars, playVars, macros, otherVars>>
      BY <1>9
    <2>2. input' \in [active : BOOLEAN, runner : Nat, timer : BOOLEAN]
      BY <1>1, <1>10 DEF DataOK
    <2> QED BY <2>1, <2>2, UnchangedTypes
  <1>19. BuildsOK'
    BY <1>1, <1>10, BuildsKept
  <1>20. /\ run[r] \in Lists /\ run'[r] = Woken(run[r]) /\ \A x \in Serials : x # r => run'[x] = run[x]
    BY <1>1, <1>10 DEF DataOK
  <1>21. run'[r].redo = k /\ run'[r].slot = {}
    BY <1>5, <1>20, WokenFacts
  <1>22. /\ t[1] = f /\ t[2] = g /\ Len(t) = 2 /\ 1 \in 1..Len(t) /\ \A j \in 1..Len(t) : j = 1 \/ j = 2
    BY <1>8 DEF IsPair
  <1>23. f.at = "built next" /\ f.key = k /\ f.i = i /\ f.before = Len(runners) /\ g.runner = r /\ g.at = "step"
    BY <1>6, <1>7 DEF BuiltNext, Step
  <1>24. LoopsOK'
    <2>1. InLoop(f, r)'
      <3>1. runners' = runners /\ run'[r].redo # NoKey
        BY <1>1, <1>10, <1>21
      <3>2. Len(runners') = f.before /\ f.i <= Len(runners') /\ runners'[f.i] = r
        <4>1. i <= Len(runners) /\ runners[i] = r
          BY <1>3, <1>4
        <4>2. Len(runners') = Len(runners) /\ runners'[i] = runners[i]
          BY <3>1
        <4> QED BY <1>23, <4>1, <4>2
      <3> QED BY <1>16, <3>1, <3>2 DEF InLoop
    <2>2. stack'[Len(stack')] = g
      <3>1. Len(stack') = n + Len(t) /\ \A j \in 1..Len(t) : stack'[n + j] = t[j]
        BY <1>13 DEF Piled
      <3>2. 2 \in 1..Len(t)
        BY <1>8 DEF IsPair
      <3> QED BY <1>22, <3>1, <3>2
    <2>3. ASSUME NEW h \in 1..Len(stack'), stack'[h].at = "built next" PROVE stack'[h] = f
      <3>1. CASE h \in 1..n
        <4>1. Alike(stack'[h], stack[h])
          BY <1>1, <1>8, <1>12, <1>13, <3>1, PiledFacts
        <4> QED BY <1>12, <2>3, <3>1, <4>1 DEF Ordinary, Special, Alike
      <3>2. CASE h \notin 1..n
        <4>1. h - n \in 1..Len(t) /\ stack'[h] = t[h - n]
          BY <1>1, <1>8, <1>12, <1>13, <3>2, PiledFacts
        <4>2. PICK j \in 1..Len(t) : stack'[h] = t[j]
          BY <4>1
        <4> QED BY <1>22, <1>23, <2>3, <4>2
      <3> QED BY <3>1, <3>2
    <2>4. Top' = g
      BY <2>2 DEF Top
    <2> QED BY <1>23, <2>1, <2>3, <2>4 DEF LoopsOK
  <1>25. BuiltsOK'
    <2>1. ASSUME NEW j \in 1..Len(runners), WaitsForBuild(runners[j])'
          PROVE  run'[runners[j]].redo \in Keys /\ Comes(j)'
      <3>1. PICK x \in Serials : x = runners[j]
        BY <1>1, RunnersAreStarted
      <3>a. runners' = runners
        BY <1>10
      <3>b. "c" \in run'[x].slot
        BY <2>1, <3>1, <3>a DEF WaitsForBuild
      <3>2. x # r
        BY <1>21, <3>b
      <3>3. run'[x] = run[x] /\ WaitsForBuild(x)
        BY <1>20, <3>b, <3>2 DEF WaitsForBuild
      <3>4. /\ run[x].redo \in Keys
            /\ \/ run[x].redo \in building
               \/ k = run[x].redo /\ ComesTo(Top, Len(runners), j)
        BY <1>2, <3>1, <3>3, LoopComes
      <3>5. CASE run[x].redo \in building
        <4>1. run'[runners'[j]].redo \in building'
          BY <1>10, <3>1, <3>3, <3>5
        <4> QED BY <1>10, <3>1, <3>3, <3>4, <4>1 DEF Comes
      <3>6. CASE k = run[x].redo /\ ComesTo(Top, Len(runners), j)
        <4>1. i <= j
          BY <1>2, <3>6 DEF ComesTo
        <4>2. i # j
          BY <1>4, <3>1, <3>2
        <4>3. i < j /\ ~(Len(runners) < Len(runners))
          BY <1>1, <1>3, <4>1, <4>2, PlaceOf
        <4>4. ComesTo(f, Len(runners), j)
          BY <1>23, <4>3 DEF ComesTo
        <4>5. t[1].at \in {"built", "built next"} /\ t[1].key = run'[runners[j]].redo /\ ComesTo(t[1], Len(runners), j)
          BY <1>22, <1>23, <3>1, <3>3, <3>6, <4>4
        <4>6. Comes(j)'
          BY <1>1, <1>8, <1>10, <1>12, <1>13, <1>22, <4>5, LoopCame
        <4> QED BY <3>1, <3>3, <3>4, <4>6
      <3> QED BY <3>4, <3>5, <3>6
    <2> QED BY <1>10, <2>1 DEF BuiltsOK, WaitsForBuild
  <1> QED BY <1>2, <1>8, <1>10, <1>12, <1>13, <1>14, <1>15, <1>17, <1>18, <1>19, <1>24, <1>25, LoopStep

LEMMA WakeBuiltInv ==
  ASSUME IInv, NEW k \in Keys, NEW i \in 1..(MaxStarts + 1), WakeBuilt(k, i)
  PROVE  IInv'
  BY WakeBuiltPasses, WakeBuiltWakes

\* What a compiler posted is taken: the build is no longer under way.
LEMMA TakenBuild ==
  ASSUME DataOK, BuildsOK, posted # <<>>, NEW key, key = Head(posted).key,
         posted' = Tail(posted), building' = building \ {key}, UNCHANGED compiler
  PROVE  /\ BuildsOK' /\ key \in Keys /\ building' \subseteq Keys
         /\ Head(posted).build \in Builds \cup {NoBuild}
         /\ posted' \in Seq([key : Keys, build : Builds \cup {NoBuild}])
  <1> DEFINE T == [key : Keys, build : Builds \cup {NoBuild}]
  <1>1. posted \in Seq(T) /\ building \subseteq Keys
    BY DEF DataOK
  <1>2. /\ posted' \in Seq(T) /\ Len(posted) \in Nat \ {0} /\ Len(posted') = Len(posted) - 1
        /\ \A f \in 1..(Len(posted) - 1) : posted'[f] = posted[f + 1]
        /\ Head(posted) = posted[1] /\ posted[1] \in T
    BY <1>1, TailFacts
  <1>3. key \in Keys /\ posted[1].key = key /\ Head(posted).build \in Builds \cup {NoBuild}
    BY <1>2
  <1>4. /\ 1 \in 1..Len(posted)
        /\ \A f \in 1..Len(posted') : f + 1 \in 1..Len(posted) /\ f + 1 # 1 /\ posted'[f] = posted[f + 1]
        /\ \A p \in 1..Len(posted) : p = 1 \/ (p - 1 \in 1..Len(posted') /\ posted'[p - 1] = posted[p])
    <2>1. /\ 1 \in 1..Len(posted)
          /\ \A f \in 1..(Len(posted) - 1) : f + 1 \in 1..Len(posted) /\ f + 1 # 1
      BY <1>2
    <2>2. ASSUME NEW p \in 1..Len(posted), p # 1
          PROVE  p - 1 \in 1..(Len(posted) - 1) /\ p - 1 + 1 = p
      BY <1>2, <2>2
    <2>3. \A p \in 1..Len(posted) : p = 1 \/ (p - 1 \in 1..Len(posted') /\ posted'[p - 1] = posted[p])
      BY <1>2, <2>2
    <2> QED BY <1>2, <2>1, <2>3
  <1>5. \A p, q \in 1..Len(posted) : posted[p].key = posted[q].key => p = q
    BY DEF BuildsOK
  <1>6. ~Posted(key)'
    BY <1>3, <1>4, <1>5 DEF Posted
  <1>7. ASSUME NEW k \in Keys, k # key PROVE Posted(k)' <=> Posted(k)
    <2>1. Posted(k)' => Posted(k)
      BY <1>4 DEF Posted
    <2>2. Posted(k) => Posted(k)'
      BY <1>3, <1>4, <1>7 DEF Posted
    <2> QED BY <2>1, <2>2
  <1>8. Posted(key)
    BY <1>3, <1>4 DEF Posted
  <1>9. compiler[key] = NoBuild
    BY <1>3, <1>8 DEF BuildsOK
  <1>10. ASSUME NEW p \in 1..Len(posted'), NEW q \in 1..Len(posted'), posted'[p].key = posted'[q].key
         PROVE  p = q
    <2>1. p \in Int /\ q \in Int
      BY <1>2
    <2>2. p + 1 = q + 1
      BY <1>4, <1>5, <1>10
    <2> QED BY <2>1, <2>2
  <1>11. ASSUME NEW k \in Keys
         PROVE  /\ k \in building' <=> compiler'[k] # NoBuild \/ Posted(k)'
                /\ Posted(k)' => compiler'[k] = NoBuild
    <2>1. CASE k = key
      BY <1>6, <1>9, <2>1
    <2>2. CASE k # key
      BY <1>7, <2>2 DEF BuildsOK
    <2> QED BY <2>1, <2>2
  <1>12. BuildsOK'
    BY <1>10, <1>11 DEF BuildsOK
  <1> QED BY <1>1, <1>2, <1>3, <1>12

LEMMA TakePostedInv ==
  ASSUME IInv, TakePosted
  PROVE  IInv'
  <1>1. DataOK /\ BuildsOK /\ BuiltsOK /\ 1 \in Nat \ {0}
    BY DEF IInv
  <1>2. /\ At(PostLoop) /\ posted # <<>> /\ posted' = Tail(posted)
        /\ UNCHANGED <<listVars, fireVars, playVars, input, macros, modeVars, enabled>>
        /\ UNCHANGED compiler
    BY DEF TakePosted
  <1>3. PICK key : key = Head(posted).key
    OBVIOUS
  <1>4. PICK build : build = Head(posted).build
    OBVIOUS
  <1>5. building' = building \ {key} /\ stack' = Becomes(<<PostLoop, Built(key, 1)>>)
    BY <1>3 DEF TakePosted
  <1>6. \/ faulted' = faulted \cup {key} /\ funcs' = funcs
        \/ faulted' = faulted /\ funcs' = [funcs EXCEPT ![key] = build]
    BY <1>3, <1>4 DEF TakePosted
  <1>7. /\ BuildsOK' /\ key \in Keys /\ building' \subseteq Keys /\ build \in Builds \cup {NoBuild}
        /\ posted' \in Seq([key : Keys, build : Builds \cup {NoBuild}])
    BY <1>1, <1>2, <1>3, <1>4, <1>5, TakenBuild
  <1>8. InLoops /\ Top.at = "posts"
    <2>1. stack # <<>> /\ Top = PostLoop
      BY <1>1, <1>2, TopIs
    <2>2. PostLoop.at = "posts"
      BY FramesAre
    <2> QED BY <2>1, <2>2 DEF InLoops
  <1>9. PICK f \in Frames : f = PostLoop /\ f.at = "posts"
    BY FramesAre
  <1>10. PICK g \in Frames : g = Built(key, 1) /\ g.at = "built" /\ g.key = key /\ g.i = 1
    <2>1. PICK i \in Nat \ {0} : i = 1
      BY <1>1
    <2>2. Built(key, i) \in Frames /\ Built(key, i).at = "built"
          /\ Built(key, i).key = key /\ Built(key, i).i = i
      BY <1>7, FramesAre
    <2> QED BY <2>1, <2>2, Zenon
  <1>11. PICK t : t = <<f, g>> /\ IsPair(t, f, g)
    BY PairFacts
  <1>12. /\ t \in Seq(Frames) /\ Len(t) = 2 /\ t[1] = f /\ t[2] = g
         /\ 1 \in 1..Len(t) /\ 2 \in 1..Len(t) /\ \A j \in 1..Len(t) : j = 1 \/ j = 2
    BY <1>11 DEF IsPair
  <1>13. PICK n : n = Len(stack) - 1 /\ n \in {Len(stack), Len(stack) - 1} /\ Ordinary(n)
    BY <1>8, InLoopsFacts
  <1>14. Piled(n, t)
    <2>1. stack' = Becomes(t)
      BY <1>5, <1>9, <1>10, <1>11
    <2> QED BY <1>1, <1>8, <1>12, <1>13, <2>1, Popped DEF InLoops
  <1>15. Shaped(t)
    <2>1. f.at \notin Special
      BY <1>9 DEF Special
    <2> QED BY <1>11, <2>1, ShapedFacts
  <1>16. \A j \in 1..Len(t) : t[j].at \in {"posts", "built"}
    BY <1>9, <1>10, <1>12
  <1>17. Fresh(n, t) /\ (\A x : ~OnNew(t, x))
    BY <1>16 DEF Fresh, OnNew, OfList
  <1>18. \A j \in 1..Len(t) : t[j].at # "input" /\ FrameOK(t[j])'
    BY <1>16 DEF FrameOK, OfList
  <1>19. PICK W : W = {} /\ W \in SUBSET Serials /\ WokenRun(W) /\ Untold(W)
    <2>1. UNCHANGED listVars /\ UNCHANGED <<input, playVars>>
      BY <1>2
    <2>2. WokenRun({}) /\ Untold({}) /\ {} \in SUBSET Serials
      BY <2>1, NoneWoken, NoneUntold
    <2> QED BY <2>2, Zenon
  <1>20. RestTypes'
    <2>1. RestTypes
      BY <1>1, RestTypesNow
    <2>2. funcs' \in [Keys -> Builds \cup {NoBuild}] /\ faulted' \subseteq Keys
      <3>1. funcs \in [Keys -> Builds \cup {NoBuild}] /\ faulted \subseteq Keys
        BY <2>1 DEF RestTypes
      <3>2. funcs' \in [Keys -> Builds \cup {NoBuild}]
        BY <1>6, <1>7, <3>1
      <3>3. faulted' \subseteq Keys
        BY <1>6, <1>7, <3>1
      <3> QED BY <3>2, <3>3
    <2> QED BY <1>2, <1>7, <2>1, <2>2 DEF RestTypes, fireVars, playVars, modeVars
  <1>21. LoopsOK'
    <2>1. \A j \in 1..Len(t) : t[j].at # "built next"
      BY <1>16
    <2> QED BY <1>12, <1>13, <1>14, <2>1, NoLoopsNext
  <1>22. UNCHANGED runners /\ UNCHANGED run
    BY <1>2 DEF listVars, tableVars
  <1>23. BuiltsOK'
    <2>1. ASSUME NEW j \in 1..Len(runners), WaitsForBuild(runners[j])
          PROVE  run'[runners[j]].redo \in Keys /\ Comes(j)'
      <3>1. PICK k : k = run[runners[j]].redo
        OBVIOUS
      <3>2. k \in Keys /\ k \in building
        BY <1>8, <2>1, <3>1, LoopComes
      <3>3. run'[runners'[j]].redo = k
        BY <1>22, <3>1
      <3>4. CASE k # key
        <4>1. run'[runners'[j]].redo \in building'
          BY <1>5, <3>2, <3>3, <3>4
        <4> QED BY <1>22, <3>1, <3>2, <4>1 DEF Comes
      <3>5. CASE k = key
        <4>1. 1 <= j
          BY <1>1, PlaceOf
        <4>2. ComesTo(g, Len(runners), j)
          BY <1>10, <4>1 DEF ComesTo
        <4>3. t[2].at \in {"built", "built next"} /\ t[2].key = run'[runners[j]].redo
              /\ ComesTo(t[2], Len(runners), j)
          BY <1>10, <1>12, <1>22, <3>1, <3>5, <4>2
        <4>4. Comes(j)'
          BY <1>1, <1>12, <1>13, <1>14, <1>22, <4>3, LoopCame
        <4> QED BY <1>22, <3>1, <3>2, <4>4
      <3> QED BY <3>4, <3>5
    <2> QED BY <1>22, <2>1 DEF BuiltsOK, WaitsForBuild
  <1>24. UNCHANGED <<fireVars, playVars, input, macros, enabled>>
    BY <1>2
  <1>25. \A x \in Serials : OnNew(t, x) <=> x \in W
    BY <1>17, <1>19
  <1> QED BY <1>7, <1>8, <1>12, <1>13, <1>14, <1>15, <1>17, <1>18, <1>19, <1>20, <1>21, <1>23, <1>24, <1>25,
             LoopStep

-----------------------------------------------------------------------------
(* The inductive invariant holds, and what follows from it.                *)

LEMMA InitInv == Init => IInv
  <1> SUFFICES ASSUME Init PROVE IInv
    OBVIOUS
  <1>1. MaxStarts \in Nat \ {0} /\ ListLen \in Nat /\ HookLen \in Nat
    BY HotkeyAssumption DEF HotkeyAssumption
  <1>2. /\ stack = <<>> /\ runners = <<>> /\ fires = <<>> /\ plays = <<>> /\ posted = <<>>
        /\ Len(stack) = 0 /\ Len(runners) = 0 /\ Len(plays) = 0 /\ Len(posted) = 0
        /\ 1..0 = {} /\ started = 0
    BY DEF Init
  <1>3. \A r \in Serials : run[r] = Gone
    BY DEF Init
  <1>4. DataOK
    <2>1. Gone \in Lists
      <3>1. 0 \in 0..(ListLen + HookLen)
        BY <1>1
      <3> QED BY <3>1 DEF Gone, Lists
    <2>2. run \in [Serials -> Lists]
      BY <2>1 DEF Init
    <2>3. input \in [active : BOOLEAN, runner : Nat, timer : BOOLEAN]
      BY DEF Init, NoHook, NoRunner
    <2>4. running \in [Ids -> Int] /\ started \in 0..MaxStarts
      BY <1>1 DEF Init
    <2>5. /\ stack \in Seq(Frames) /\ runners \in Seq(1..started) /\ fires \in Seq(Ids)
          /\ plays \in Seq([runner : Nat, delays : 0..1])
          /\ posted \in Seq([key : Keys, build : Builds \cup {NoBuild}])
      BY <1>2
    <2>6. /\ building \subseteq Keys /\ faulted \subseteq Keys /\ macros \in [Macros -> {"off", "on", "over"}]
          /\ compiler \in [Keys -> Builds \cup {NoBuild}] /\ funcs \in [Keys -> Builds \cup {NoBuild}]
      BY DEF Init
    <2>7. /\ fireIdle \in BOOLEAN /\ playing \in BOOLEAN /\ playTimer \in BOOLEAN
          /\ keyMode \in AllModes /\ mode \in AllModes /\ modeTimer \in BOOLEAN /\ enabled \in BOOLEAN
      BY DEF Init, AllModes
    <2> QED BY <2>2, <2>3, <2>4, <2>5, <2>6, <2>7 DEF DataOK
  <1>5. ListsOK
    <2>1. \A r \in Serials : run[r].redo = NoKey
      BY <1>3 DEF Gone
    <2>2. \A i \in 1..Len(runners) : FALSE
      BY <1>2
    <2> QED BY <1>3, <2>1, <2>2 DEF ListsOK
  <1>6. CountsAgree
    <2>1. Live = {}
      BY <1>2 DEF Live, ToSet
    <2>2. \A i : {r \in Live : run[r].id = i} = {}
      BY <2>1
    <2>3. \A i \in Ids : running[i] = 0
      BY DEF Init
    <2> QED BY <2>2, <2>3, FS_EmptySet DEF CountsAgree
  <1>7. BuildsOK
    <2>1. building = {} /\ \A k \in Keys : compiler[k] = NoBuild
      BY DEF Init
    <2> QED BY <1>2, <2>1 DEF BuildsOK, Posted
  <1>8. StackOK /\ InputsOK /\ LoopsOK
    BY <1>2 DEF StackOK, Shaped, ListsOnce, ToldsOnce, FramesOK, InputsOK, LoopsOK
  <1>9. PointersOK
    <2>1. input.runner = NoRunner
      BY DEF Init, NoHook
    <2>2. \A r \in Serials : run[r].macro = NoMacro
      BY <1>3 DEF Gone
    <2> QED BY <1>2, <2>1, <2>2 DEF PointersOK, HookOK, TypingOK, MacrosOK
  <1>10. RestsOK /\ BuiltsOK
    BY <1>2 DEF RestsOK, Running, BuiltsOK
  <1>11. QueuesOK /\ OffOK
    BY <1>2 DEF Init, QueuesOK, OffOK
  <1> QED BY <1>4, <1>5, <1>6, <1>7, <1>8, <1>9, <1>10, <1>11 DEF IInv

LEMMA IdleInv == IInv /\ UNCHANGED vars => IInv'
  <1> SUFFICES ASSUME IInv, UNCHANGED vars PROVE IInv'
    OBVIOUS
  <1>1. /\ UNCHANGED <<started, runners, running, run, fires, fireIdle, plays, playing, playTimer>>
        /\ UNCHANGED <<stack, input, macros, building, compiler, posted, funcs, faulted>>
        /\ UNCHANGED <<keyMode, mode, modeTimer, enabled>>
    BY DEF vars, listVars, tableVars, fireVars, playVars, otherVars, codeVars, modeVars
  <1>2. (DataOK /\ ListsOK /\ CountsAgree /\ BuildsOK)'
    BY <1>1 DEF IInv, DataOK, ListsOK, Running, CountsAgree, Live, BuildsOK, Posted
  <1>3. (StackOK /\ InputsOK /\ LoopsOK)'
    <2>1. Shaped(stack)' /\ ListsOnce' /\ ToldsOnce'
      <3>1. stack' = stack /\ \A r : Running(r)' <=> Running(r)
        BY <1>1 DEF Running
      <3>2. Shaped(stack)'
        BY <3>1 DEF IInv, StackOK, Shaped
      <3>3. ListsOnce'
        BY <3>1 DEF IInv, StackOK, ListsOnce
      <3>4. ToldsOnce'
        BY <3>1 DEF IInv, StackOK, ToldsOnce
      <3> QED BY <3>2, <3>3, <3>4
    <2>2. FramesOK'
      BY <1>1 DEF IInv, StackOK, FramesOK, FrameOK, Running
    <2>3. InputsOK'
      BY <1>1 DEF IInv, InputsOK, Top
    <2>4. LoopsOK'
      BY <1>1 DEF IInv, LoopsOK, InLoop, Running, Top
    <2> QED BY <2>1, <2>2, <2>3, <2>4 DEF StackOK
  <1>4. (PointersOK /\ RestsOK)'
    BY <1>1 DEF IInv, PointersOK, HookOK, TypingOK, MacrosOK, RestsOK, RestsNow, Running, OnS, Typed
  <1>5. (BuiltsOK /\ QueuesOK /\ OffOK)'
    BY <1>1 DEF IInv, BuiltsOK, WaitsForBuild, Comes, Reached, QueuesOK, OffOK
  <1> QED BY <1>2, <1>3, <1>4, <1>5 DEF IInv

LEMMA InsideInv == ASSUME IInv, Tame, Inside PROVE IInv'
  <1>1. ASSUME NEW r \in Serials,
               \/ RunnerEnds(r) \/ AfterAction(r) \/ Sleep(r) \/ SpawnAction(r)
               \/ SendAction(r) \/ InputAction(r) \/ InputStopAction(r)
               \/ CancelAction(r) \/ ModeAction(r) \/ ReloadAction(r)
        PROVE  IInv'
    BY <1>1, RunnerEndsInv, AfterActionInv, SleepInv, SpawnActionInv, SendActionInv, InputActionInv,
       InputStopActionInv, CancelActionInv, ModeActionInv, ReloadActionInv, Zenon
  <1>2. ASSUME NEW r \in Serials, NEW k \in Keys, CAction(r, k) PROVE IInv'
    BY <1>2, CActionInv
  <1>3. ASSUME NEW r \in Serials, NEW m \in Macros, MacroAction(r, m) \/ MacroStopAction(r, m) PROVE IInv'
    BY <1>3, MacroActionInv, MacroStopActionInv
  <1>4. ASSUME NEW r \in Serials \cup {NoRunner}, InputStart(r) PROVE IInv'
    BY <1>4, InputStartInv
  <1>5. ASSUME \/ TakeFire \/ FiresEnd \/ OneShotEnds \/ PlayHead \/ PlayEnds \/ TakePosted \/ PostsEnd
               \/ ExitMode \/ EnterMode \/ EnteredMode
        PROVE  IInv'
    BY <1>5, TakeFireInv, FiresEndInv, OneShotEndsInv, PlayHeadInv, PlayEndsInv, TakePostedInv, PostsEndInv,
       ExitModeInv, EnterModeInv, EnteredModeInv, Zenon
  <1>6. ASSUME NEW k \in Keys, NEW i \in 1..(MaxStarts + 1), WakeBuilt(k, i) PROVE IInv'
    BY <1>6, WakeBuiltInv
  <1>7. ASSUME NEW k \in Keys, NEW i \in 1..(MaxStarts + 1), NEW n \in Serials, WakeBuiltNext(k, i, n)
        PROVE  IInv'
    BY <1>7, WakeBuiltNextInv
  <1>8. ASSUME NEW m \in Macros, MacroGone(m) PROVE IInv'
    BY <1>8, MacroGoneInv
  <1> QED BY <1>1, <1>2, <1>3, <1>4, <1>5, <1>6, <1>7, <1>8, Zenon DEF Inside

LEMMA NextInv == ASSUME IInv, Tame, Next PROVE IInv'
  <1>1. ASSUME Wakes PROVE IInv'
    BY <1>1, SleepDoneInv, ProcDoneInv, MacroEndsInv, PlayTickInv, OnPostFdInv, Zenon DEF Wakes
  <1>2. ASSUME Dispatches PROVE IInv'
    BY <1>2, FireIdleInv, InputTimeoutInv, ModeTimeoutInv DEF Dispatches
  <1>3. ASSUME Outside PROVE IInv'
    <2>1. ASSUME NEW id \in Ids, Press(id) \/ TimerFires(id) PROVE IInv'
      BY <2>1, PressInv, TimerFiresInv
    <2>2. ASSUME NEW m \in Modes \cup {Default}, ModeKey(m) PROVE IInv'
      BY <2>2, ModeKeyInv DEF AllModes
    <2>3. ASSUME InputEnds \/ InputCommand \/ CancelCommand \/ ReloadCommand \/ Deactivate \/ Activate
          PROVE  IInv'
      BY <2>3, InputEndsInv, InputCommandInv, CancelCommandInv, ReloadCommandInv, DeactivateInv, ActivateInv
    <2> QED BY <1>3, <2>1, <2>2, <2>3, Zenon DEF Outside
  <1>4. ASSUME Compilers PROVE IInv'
    BY <1>4, CompilerEndsInv, Zenon DEF Compilers
  <1> QED BY <1>1, <1>2, <1>3, <1>4, InsideInv, Zenon DEF Next

LEMMA AlwaysInv == ASSUME Tame PROVE Spec => []IInv
  <1>1. Init => IInv
    BY InitInv
  <1>2. IInv /\ [Next]_vars => IInv'
    BY NextInv, IdleInv, Zenon
  <1> QED BY <1>1, <1>2, PTL DEF Spec

\* A set of one, and of nothing.
LEMMA CountOne ==
  /\ Cardinality({}) = 0
  /\ \A S, x : S = {x} => Cardinality(S) = 1
  BY FS_EmptySet, FS_Singleton

LEMMA NowWaits ==
  ASSUME IInv, NEW r \in Live, r \notin OnStack
  PROVE  r \in Serials /\ Running(r) /\ Rests(run[r], FALSE, input.runner = r, Typed(r))
  <1>1. DataOK /\ RestsOK
    BY DEF IInv
  <1>2. Running(r)
    BY <1>1, LiveIs
  <1>3. r \in Serials
    BY <1>1, <1>2, RunnersAreStarted DEF Running
  <1>4. ~OnS(r)
    BY <1>1 DEF OnS, OnStack, OfList, DataOK
  <1>5. RestsNow(r)
    BY <1>1, <1>2, <1>3 DEF RestsOK
  <1> QED BY <1>2, <1>3, <1>4, <1>5 DEF RestsNow, Rests

\* A list that waits for a build: the build comes, or was made and the loop comes to the list.
LEMMA BuildComes ==
  ASSUME IInv, NEW r \in Serials, Running(r), "c" \in run[r].slot
  PROVE  Building(run[r].redo)
  <1>1. DataOK /\ BuildsOK /\ BuiltsOK
    BY DEF IInv
  <1>2. PICK j \in 1..Len(runners) : runners[j] = r
    BY DEF Running
  <1>3. PICK k : k = run[r].redo
    OBVIOUS
  <1>4. k \in Keys /\ Comes(j)
    BY <1>1, <1>2, <1>3 DEF BuiltsOK, WaitsForBuild
  <1>5. CASE k \in building
    <2>1. compiler[k] # NoBuild \/ Posted(k)
      BY <1>1, <1>4, <1>5 DEF BuildsOK
    <2>2. ASSUME NEW p \in 1..Len(posted), posted[p].key = k PROVE \E b \in ToSet(posted) : b.key = k
      <3>1. posted[p] \in ToSet(posted)
        <4>1. DOMAIN posted = 1..Len(posted)
          BY <1>1 DEF DataOK
        <4> QED BY <4>1 DEF ToSet
      <3> QED BY <2>2, <3>1
    <2> QED BY <1>3, <2>1, <2>2 DEF Posted, Building
  <1>6. ASSUME NEW f \in 1..Len(stack), stack[f].at \in {"built", "built next"}, stack[f].key = k
        PROVE  Building(k)
    <2>1. stack[f] \in ToSet(stack)
      <3>1. DOMAIN stack = 1..Len(stack)
        BY <1>1 DEF DataOK
      <3> QED BY <3>1 DEF ToSet
    <2> QED BY <1>6, <2>1 DEF Building
  <1> QED BY <1>2, <1>3, <1>4, <1>5, <1>6 DEF Comes

\* The typing queued for a list is there once.
LEMMA TypingOnce ==
  ASSUME IInv, NEW r \in Serials
  PROVE  IF Typed(r) THEN \E p : Typing(r) = {p} ELSE Typing(r) = {}
  <1>1. DataOK /\ TypingOK
    BY DEF IInv, PointersOK
  <1>2. DOMAIN plays = 1..Len(plays)
    BY <1>1 DEF DataOK
  <1>3. r # NoRunner
    BY HotkeyAssumption DEF HotkeyAssumption, Serials, NoRunner
  <1>4. CASE ~Typed(r)
    BY <1>2, <1>4 DEF Typed, Typing
  <1>5. ASSUME NEW p \in 1..Len(plays), plays[p].runner = r PROVE Typing(r) = {p}
    BY <1>1, <1>2, <1>3, <1>5 DEF TypingOK, Typing
  <1> QED BY <1>4, <1>5 DEF Typed

\* One thing carries the list on.
LEMMA WakerOrTyping ==
  ASSUME IInv, NEW r \in Live, r \notin OnStack
  PROVE  /\ run[r].waiting
         /\ \/ (\E w : Wakers(r) = {w}) /\ Typing(r) = {}
            \/ Wakers(r) = {} /\ \E p : Typing(r) = {p}
  <1>1. DataOK /\ MacrosOK /\ HookOK
    BY DEF IInv, PointersOK
  <1>2. r \in Serials /\ Running(r) /\ Rests(run[r], FALSE, input.runner = r, Typed(r))
    BY NowWaits
  <1>3. IF Typed(r) THEN \E p : Typing(r) = {p} ELSE Typing(r) = {}
    BY <1>2, TypingOnce
  <1>4. r # NoRunner
    BY <1>2, HotkeyAssumption DEF HotkeyAssumption, Serials, NoRunner
  <1>5. PICK l : l = run[r]
    OBVIOUS
  <1>6. PICK typed \in BOOLEAN : typed <=> Typed(r)
    <2>1. Typed(r) \in BOOLEAN
      BY DEF Typed
    <2> QED BY <2>1
  <1>7. PICK hooked \in BOOLEAN : hooked <=> input.runner = r
    OBVIOUS
  <1>8. /\ l.waiting
        /\ \/ l.slot \in {{"timer"}, {"proc"}, {"c"}} /\ l.macro = NoMacro /\ ~hooked /\ ~typed
           \/ l.slot = {} /\ l.macro # NoMacro /\ ~hooked /\ ~typed
           \/ l.slot = {} /\ l.macro = NoMacro /\ hooked /\ ~typed
           \/ l.slot = {} /\ l.macro = NoMacro /\ ~hooked /\ typed
    BY <1>2, <1>5, <1>6, <1>7 DEF Rests
  <1>9. l.macro # NoMacro => macros[l.macro] = "on"
    BY <1>1, <1>2, <1>5 DEF MacrosOK
  <1>10. hooked => input.active
    BY <1>1, <1>4, <1>7 DEF HookOK
  <1>11. "c" \in l.slot => Building(l.redo)
    BY <1>2, <1>5, BuildComes
  <1>12. /\ "timer" \in Wakers(r) <=> "timer" \in l.slot
         /\ "proc" \in Wakers(r) <=> "proc" \in l.slot
         /\ \A w : w \in Wakers(r) <=>
              \/ w \in l.slot \ {"c"}
              \/ w = "c" /\ "c" \in l.slot
              \/ w = "macro" /\ l.macro # NoMacro
              \/ w = "input" /\ hooked
    BY <1>5, <1>7, <1>9, <1>10, <1>11 DEF Wakers
  <1>13. CASE l.slot \in {{"timer"}, {"proc"}, {"c"}} /\ l.macro = NoMacro /\ ~hooked /\ ~typed
    <2>1. PICK w : l.slot = {w} /\ Wakers(r) = {w}
      BY <1>12, <1>13
    <2> QED BY <1>3, <1>5, <1>6, <1>8, <1>13, <2>1
  <1>14. CASE l.slot = {} /\ l.macro # NoMacro /\ ~hooked /\ ~typed
    <2>1. Wakers(r) = {"macro"}
      BY <1>12, <1>14
    <2> QED BY <1>3, <1>5, <1>6, <1>8, <1>14, <2>1
  <1>15. CASE l.slot = {} /\ l.macro = NoMacro /\ hooked /\ ~typed
    <2>1. Wakers(r) = {"input"}
      BY <1>12, <1>15
    <2> QED BY <1>3, <1>5, <1>6, <1>8, <1>15, <2>1
  <1>16. CASE l.slot = {} /\ l.macro = NoMacro /\ ~hooked /\ typed
    <2>1. Wakers(r) = {}
      BY <1>12, <1>16
    <2> QED BY <1>3, <1>5, <1>6, <1>8, <1>16, <2>1
  <1> QED BY <1>8, <1>13, <1>14, <1>15, <1>16

LEMMA NobodyDangles == IInv => NoDanglingRunner
  <1> SUFFICES ASSUME IInv PROVE NoDanglingRunner
    OBVIOUS
  <1>1. DataOK /\ HookOK /\ TypingOK /\ FramesOK
    BY DEF IInv, PointersOK, StackOK
  <1>2. \A r : r \in Live <=> Running(r)
    BY <1>1, LiveIs
  <1>3. DOMAIN plays = 1..Len(plays) /\ DOMAIN stack = 1..Len(stack)
    BY <1>1 DEF DataOK
  <1>4. input.runner \in Live \cup {NoRunner}
    BY <1>1, <1>2 DEF HookOK
  <1>5. \A p \in DOMAIN plays : plays[p].runner \in Live \cup {NoRunner}
    BY <1>1, <1>2, <1>3 DEF TypingOK
  <1>6. ASSUME NEW f \in ToSet(stack), f.at \in {"step", "input"} PROVE f.runner \in Live \cup {NoRunner}
    <2>1. PICK g \in 1..Len(stack) : stack[g] = f
      BY <1>3 DEF ToSet
    <2>2. FrameOK(f)
      BY <1>1, <2>1 DEF FramesOK
    <2> QED BY <1>2, <1>6, <2>2 DEF FrameOK
  <1> QED BY <1>4, <1>5, <1>6 DEF NoDanglingRunner

LEMMA QueuesServed == IInv => QueuesAreServed
  <1> SUFFICES ASSUME IInv PROVE QueuesAreServed
    OBVIOUS
  <1>1. DataOK /\ QueuesOK
    BY DEF IInv
  <1>2. ASSUME NEW f \in 1..Len(stack) PROVE stack[f] \in ToSet(stack)
    <2>1. DOMAIN stack = 1..Len(stack)
      BY <1>1 DEF DataOK
    <2> QED BY <2>1 DEF ToSet
  <1> QED BY <1>1, <1>2 DEF QueuesOK, QueuesAreServed

\* The module's own state, and what the lists are made of, is of its types.
THEOREM TypeCorrect == ASSUME Tame PROVE Spec => []TypeOK
  <1>1. IInv => TypeOK
    <2> SUFFICES ASSUME IInv PROVE TypeOK
      OBVIOUS
    <2>1. DataOK /\ ListsOK /\ TypingOK /\ HookOK
      BY DEF IInv, PointersOK
    <2>2. \A r : Running(r) => r \in Serials
      BY <2>1, RunnersAreStarted DEF Running
    <2>3. IsInjective(runners)
      <3>1. DOMAIN runners = 1..Len(runners)
        BY <2>1 DEF DataOK
      <3> QED BY <2>1, <3>1 DEF IsInjective, ListsOK
    <2>4. \A r \in Serials \ Live : run[r] = Gone
      BY <2>1, LiveIs DEF ListsOK
    <2>5. plays \in Seq([runner : Serials \cup {NoRunner}, delays : 0..1])
      <3> DEFINE T == [runner : Serials \cup {NoRunner}, delays : 0..1]
      <3>1. plays \in Seq([runner : Nat, delays : 0..1])
        BY <2>1 DEF DataOK
      <3>2. ASSUME NEW p \in 1..Len(plays) PROVE plays[p] \in T
        <4>1. plays[p] \in [runner : Nat, delays : 0..1]
          BY <3>1, ElementOfSeq
        <4>2. plays[p].runner \in Serials \cup {NoRunner}
          BY <2>1, <2>2 DEF TypingOK
        <4> QED BY <4>1, <4>2
      <3>3. Len(plays) \in Nat /\ plays \in [1..Len(plays) -> [runner : Nat, delays : 0..1]]
        BY <3>1, LenProperties
      <3>4. PICK n \in Nat : n = Len(plays)
        BY <3>3
      <3>5. plays \in [1..n -> T]
        BY <3>2, <3>3, <3>4
      <3>6. \A S, m : m \in Nat => \A s \in [1..m -> S] : s \in Seq(S)
        OBVIOUS
      <3> QED BY <3>4, <3>5, <3>6
    <2>6. input \in [active : BOOLEAN, runner : Serials \cup {NoRunner}, timer : BOOLEAN]
      BY <2>1, <2>2 DEF DataOK, HookOK
    <2>7. {keyMode, mode} \subseteq Modes \cup {Default}
      BY <2>1 DEF DataOK, AllModes
    <2>8. run \in [Serials -> [id : Ids \cup {NoId}, left : 0..(ListLen + HookLen),
                               may : SUBSET Kinds, redo : Keys \cup {NoKey},
                               waiting : BOOLEAN, slot : SUBSET {"timer", "proc", "c"},
                               macro : Macros \cup {NoMacro}]]
      BY <2>1 DEF DataOK, Lists
    <2> QED BY <2>1, <2>3, <2>4, <2>5, <2>6, <2>7, <2>8 DEF DataOK, TypeOK
  <1> QED BY <1>1, AlwaysInv, PTL

\* However a list ends, and inside whatever callback - runner_free() in its own turn or
\* in hk_cancel_all() - nothing points at it afterwards, and its hotkey's count is right.
THEOREM NoneIsLeftBehind == ASSUME Tame PROVE Spec => []EndedListsAreForgotten
  <1>1. IInv => EndedListsAreForgotten
    BY NobodyDangles DEF IInv, EndedListsAreForgotten
  <1> QED BY <1>1, AlwaysInv, PTL

\* Each list that the thread is not in the middle of waits for one thing, which is still
\* to come: runner_resume() is called once for every wait, and never for none.
THEOREM EveryWaitEnds == ASSUME Tame PROVE Spec => []WaiterHasAWaker
  <1>1. IInv => WaiterHasAWaker
    <2> SUFFICES ASSUME IInv PROVE WaiterHasAWaker
      OBVIOUS
    <2>1. ASSUME NEW r \in Live \ OnStack
          PROVE  run[r].waiting /\ Cardinality(Wakers(r)) + Cardinality(Typing(r)) = 1
      <3>1. /\ run[r].waiting
            /\ \/ (\E w : Wakers(r) = {w}) /\ Typing(r) = {}
               \/ Wakers(r) = {} /\ \E p : Typing(r) = {p}
        BY <2>1, WakerOrTyping
      <3>2. \/ Cardinality(Wakers(r)) = 1 /\ Cardinality(Typing(r)) = 0
            \/ Cardinality(Wakers(r)) = 0 /\ Cardinality(Typing(r)) = 1
        BY <3>1, CountOne
      <3> QED BY <3>1, <3>2
    <2> QED BY <2>1, QueuesServed DEF WaiterHasAWaker
  <1> QED BY <1>1, AlwaysInv, PTL

=============================================================================
