------------------------- MODULE MacroRunner_proofs -------------------------
(***************************************************************************)
(* Proofs about MacroRunner, for any set of runs and any settings.         *)
(***************************************************************************)
EXTENDS MacroRunner, Integers, TLAPS

Frames == [kind : FrameKinds, run : Runs \cup {NoRun}]
Messages == {"sync", "done"} \X Threaded
One(b) == IF b THEN 1 ELSE 0

-----------------------------------------------------------------------------
(* Stacks: a frame on top, or the first k frames gone.                     *)

Pushed(s, t, f) ==
  Len(t) = Len(s) + 1 /\ t[1] = f /\ \A i \in 1..Len(s) : t[i + 1] = s[i]
Dropped(s, t, k) ==
  /\ k \in 0..Len(s) /\ Len(t) = Len(s) - k
  /\ \A i \in 1..Len(t) : t[i] = s[i + k]
In(s, kind, r) == \E i \in 1..Len(s) : s[i] = Frame(kind, r)

LEMMA PushFacts ==
  ASSUME NEW S, NEW s \in Seq(S), NEW f \in S
  PROVE  <<f>> \o s \in Seq(S) /\ Pushed(s, <<f>> \o s, f)
  <1>1. <<f>> \in Seq(S) /\ Len(<<f>>) = 1 /\ <<f>>[1] = f
    OBVIOUS
  <1>2. <<f>> \o s \in Seq(S) /\ Len(<<f>> \o s) = 1 + Len(s)
    BY <1>1
  <1>3. (<<f>> \o s)[1] = f
    BY <1>1
  <1>4. \A i \in 1..Len(s) : (<<f>> \o s)[i + 1] = s[i]
    BY <1>1
  <1> QED BY <1>2, <1>3, <1>4 DEF Pushed

LEMMA DropFacts ==
  ASSUME NEW S, NEW s \in Seq(S), NEW k \in 0..Len(s)
  PROVE  /\ SubSeq(s, k + 1, Len(s)) \in Seq(S)
         /\ Dropped(s, SubSeq(s, k + 1, Len(s)), k)
  <1>1. Len(s) \in Nat /\ \A i \in (k + 1)..Len(s) : s[i] \in S
    OBVIOUS
  <1>2. Len(SubSeq(s, k + 1, Len(s))) = Len(s) - k
    BY <1>1
  <1>3. \A i \in 1..(Len(s) - k) : SubSeq(s, k + 1, Len(s))[i] = s[i + k]
    BY <1>1
  <1>4. SubSeq(s, k + 1, Len(s)) \in Seq(S)
    BY <1>1
  <1> QED BY <1>2, <1>3, <1>4 DEF Dropped

LEMMA TailFacts ==
  ASSUME NEW S, NEW s \in Seq(S), s # <<>>
  PROVE  Tail(s) \in Seq(S) /\ Dropped(s, Tail(s), 1) /\ Head(s) = s[1] /\ Len(s) > 0
  <1>1. Len(s) \in Nat /\ Len(s) > 0 /\ Tail(s) \in Seq(S) /\ Len(Tail(s)) = Len(s) - 1
    OBVIOUS
  <1>2. \A i \in 1..(Len(s) - 1) : Tail(s)[i] = s[i + 1]
    BY <1>1
  <1> QED BY <1>1, <1>2 DEF Dropped

LEMMA AppendFacts ==
  ASSUME NEW S, NEW s \in Seq(S), NEW m \in S
  PROVE  /\ Append(s, m) \in Seq(S) /\ Len(Append(s, m)) = Len(s) + 1
         /\ Append(s, m)[Len(s) + 1] = m
         /\ \A i \in 1..Len(s) : Append(s, m)[i] = s[i]
  OBVIOUS

-----------------------------------------------------------------------------
(* The shape of the stack: guarded frames are innermost, a drain and a     *)
(* tick are outermost, a step lies on its tick and a call on its drain.    *)

Shape(s) ==
  \A i \in 1..Len(s) :
    /\ s[i].kind \in {"body", "tick", "step"} => s[i].run \in Timeline
    /\ s[i].kind = "call" =>
         s[i].run \in Threaded /\ i = Len(s) - 1 /\ s[Len(s)].kind = "drain"
    /\ s[i].kind = "drain" => s[i].run = NoRun
    /\ s[i].kind \in {"drain", "tick"} => i = Len(s)
    /\ s[i].kind = "step" => i = 1 /\ Len(s) = 2 /\ s[2] = Frame("tick", s[i].run)

LEMMA DropShape ==
  ASSUME NEW s \in Seq(Frames), NEW t \in Seq(Frames), NEW k \in Nat, Dropped(s, t, k), Shape(s)
  PROVE  Shape(t)
  <1> SUFFICES ASSUME NEW i \in 1..Len(t)
               PROVE  /\ t[i].kind \in {"body", "tick", "step"} => t[i].run \in Timeline
                      /\ t[i].kind = "call" =>
                           t[i].run \in Threaded /\ i = Len(t) - 1 /\ t[Len(t)].kind = "drain"
                      /\ t[i].kind = "drain" => t[i].run = NoRun
                      /\ t[i].kind \in {"drain", "tick"} => i = Len(t)
                      /\ t[i].kind = "step" =>
                           i = 1 /\ Len(t) = 2 /\ t[2] = Frame("tick", t[i].run)
    BY DEF Shape
  <1>1. /\ Len(s) \in Nat /\ k \in 0..Len(s) /\ Len(t) = Len(s) - k
        /\ t[i] = s[i + k] /\ i + k \in 1..Len(s) /\ t[Len(t)] = s[Len(s)]
    BY DEF Dropped
  <1>2. t[i].kind = "step" => k = 0
    BY <1>1 DEF Shape
  <1>3. k = 0 => i \in 1..Len(s) /\ (Len(t) = 2 => t[2] = s[2])
    BY <1>1 DEF Dropped
  <1> QED BY <1>1, <1>2, <1>3 DEF Shape

LEMMA PushShape ==
  ASSUME NEW s \in Seq(Frames), NEW t \in Seq(Frames), NEW f \in Frames, Pushed(s, t, f),
         Shape(s), s # <<>> => s[1].kind # "step",
         \/ f.kind = "body" /\ f.run \in Timeline
         \/ f.kind = "tick" /\ f.run \in Timeline /\ s = <<>>
         \/ f.kind = "drain" /\ f.run = NoRun /\ s = <<>>
         \/ f.kind = "step" /\ f.run \in Timeline /\ Len(s) = 1 /\ s[1] = Frame("tick", f.run)
         \/ f.kind = "call" /\ f.run \in Threaded /\ Len(s) = 1 /\ s[1].kind = "drain"
  PROVE  Shape(t)
  <1> SUFFICES ASSUME NEW i \in 1..Len(t)
               PROVE  /\ t[i].kind \in {"body", "tick", "step"} => t[i].run \in Timeline
                      /\ t[i].kind = "call" =>
                           t[i].run \in Threaded /\ i = Len(t) - 1 /\ t[Len(t)].kind = "drain"
                      /\ t[i].kind = "drain" => t[i].run = NoRun
                      /\ t[i].kind \in {"drain", "tick"} => i = Len(t)
                      /\ t[i].kind = "step" =>
                           i = 1 /\ Len(t) = 2 /\ t[2] = Frame("tick", t[i].run)
    BY DEF Shape
  <1>1. Len(s) \in Nat /\ Len(t) = Len(s) + 1 /\ t[1] = f /\ (s = <<>> => Len(s) = 0)
    BY DEF Pushed
  <1>2. Len(s) = 1 => t[2] = s[1]
    BY <1>1 DEF Pushed
  <1>3. CASE i = 1
    <2>1. CASE f.kind = "body"
      BY <1>1, <1>3, <2>1
    <2>2. CASE f.kind \in {"tick", "drain"}
      BY <1>1, <1>3, <2>2
    <2>3. CASE f.kind = "step"
      <3>1. f.run \in Timeline /\ Len(s) = 1 /\ s[1] = Frame("tick", f.run)
        BY <2>3
      <3>2. t[i] = f /\ Len(t) = 2 /\ t[2] = Frame("tick", f.run)
        BY <1>1, <1>2, <1>3, <3>1
      <3> QED BY <1>3, <2>3, <3>1, <3>2
    <2>4. CASE f.kind = "call"
      <3>1. f.run \in Threaded /\ Len(s) = 1 /\ s[1].kind = "drain"
        BY <2>4
      <3>2. t[i] = f /\ Len(t) = 2 /\ t[Len(t)].kind = "drain"
        BY <1>1, <1>2, <1>3, <3>1
      <3> QED BY <1>3, <2>4, <3>1, <3>2
    <2> QED BY <2>1, <2>2, <2>3, <2>4
  <1>4. CASE i # 1
    <2>1. i - 1 \in 1..Len(s) /\ t[i] = s[i - 1] /\ t[Len(t)] = s[Len(s)]
      BY <1>1, <1>4 DEF Pushed
    <2>2. s[i - 1].kind = "step" => i - 1 = 1 /\ s # <<>>
      BY <2>1 DEF Shape
    <2> QED BY <1>1, <2>1, <2>2 DEF Shape
  <1> QED BY <1>3, <1>4

LEMMA PushIn ==
  ASSUME NEW s \in Seq(Frames), NEW t \in Seq(Frames), NEW f \in Frames, Pushed(s, t, f),
         NEW kind, NEW r
  PROVE  In(t, kind, r) <=> In(s, kind, r) \/ f = Frame(kind, r)
  <1>1. Len(s) \in Nat /\ Len(t) = Len(s) + 1 /\ t[1] = f
        /\ \A i \in 1..Len(s) : t[i + 1] = s[i]
    BY DEF Pushed
  <1>2. ASSUME In(t, kind, r) PROVE In(s, kind, r) \/ f = Frame(kind, r)
    <2>1. PICK i \in 1..Len(t) : t[i] = Frame(kind, r)
      BY <1>2 DEF In
    <2>2. i = 1 \/ (i - 1 \in 1..Len(s) /\ t[i] = s[i - 1])
      BY <1>1
    <2> QED BY <1>1, <2>1, <2>2 DEF In
  <1>3. ASSUME In(s, kind, r) PROVE In(t, kind, r)
    <2>1. PICK i \in 1..Len(s) : s[i] = Frame(kind, r)
      BY <1>3 DEF In
    <2>2. i + 1 \in 1..Len(t) /\ t[i + 1] = s[i]
      BY <1>1
    <2> QED BY <2>1, <2>2 DEF In
  <1>4. f = Frame(kind, r) => In(t, kind, r)
    <2>1. 1 \in 1..Len(t) BY <1>1
    <2> QED BY <1>1, <2>1 DEF In
  <1> QED BY <1>2, <1>3, <1>4

LEMMA DropIn ==
  ASSUME NEW s \in Seq(Frames), NEW t \in Seq(Frames), NEW k \in Nat, Dropped(s, t, k)
  PROVE  \A kind, r :
           /\ In(t, kind, r) => In(s, kind, r)
           /\ In(s, kind, r) => In(t, kind, r) \/ \E i \in 1..k : s[i] = Frame(kind, r)
  <1> TAKE kind, r
  <1>1. /\ Len(s) \in Nat /\ k \in 0..Len(s) /\ Len(t) = Len(s) - k
        /\ \A i \in 1..Len(t) : t[i] = s[i + k]
    BY DEF Dropped
  <1>2. ASSUME In(t, kind, r) PROVE In(s, kind, r)
    <2>1. PICK i \in 1..Len(t) : t[i] = Frame(kind, r)
      BY <1>2 DEF In
    <2>2. i + k \in 1..Len(s) /\ t[i] = s[i + k]
      BY <1>1
    <2> QED BY <2>1, <2>2 DEF In
  <1>3. ASSUME In(s, kind, r) PROVE In(t, kind, r) \/ \E i \in 1..k : s[i] = Frame(kind, r)
    <2>1. PICK i \in 1..Len(s) : s[i] = Frame(kind, r)
      BY <1>3 DEF In
    <2>2. i \in 1..k \/ (i - k \in 1..Len(t) /\ t[i - k] = s[i])
      BY <1>1
    <2> QED BY <2>1, <2>2 DEF In
  <1> QED BY <1>2, <1>3

LEMMA TailIn ==
  ASSUME NEW s \in Seq(Frames), NEW t \in Seq(Frames), Dropped(s, t, 1), Len(s) > 0
  PROVE  \A kind, r : In(s, kind, r) <=> In(t, kind, r) \/ s[1] = Frame(kind, r)
  <1> TAKE kind, r
  <1>1. 1 \in 1..Len(s)
    OBVIOUS
  <1>2. /\ In(t, kind, r) => In(s, kind, r)
        /\ In(s, kind, r) => In(t, kind, r) \/ \E i \in 1..1 : s[i] = Frame(kind, r)
    BY DropIn
  <1>3. s[1] = Frame(kind, r) => In(s, kind, r)
    BY <1>1, Zenon DEF In
  <1> QED BY <1>2, <1>3

-----------------------------------------------------------------------------
(* What the actions do to the stack.                                       *)

StackOK == stack \in Seq(Frames) /\ Shape(stack)

\* The frames that hold something: a call, the tick of a timeline.
Holding == {"call", "tick"}
SameHolders == \A kind \in Holding, r \in Runs : In(stack', kind, r) <=> In(stack, kind, r)

LEMMA FrameIs ==
  \A k1, k2, r1, r2 : Frame(k1, r1) = Frame(k2, r2) <=> k1 = k2 /\ r1 = r2
  BY DEF Frame

LEMMA TopGone ==
  ASSUME StackOK, stack # <<>>
  PROVE  /\ Tail(stack) \in Seq(Frames) /\ Shape(Tail(stack)) /\ Dropped(stack, Tail(stack), 1)
         /\ Top = stack[1] /\ Len(stack) > 0
         /\ \A kind, r : In(stack, kind, r) <=> In(Tail(stack), kind, r) \/ Top = Frame(kind, r)
  <1>1. /\ Tail(stack) \in Seq(Frames) /\ Dropped(stack, Tail(stack), 1)
        /\ Top = stack[1] /\ Len(stack) > 0 /\ Len(stack) \in Nat
    BY TailFacts DEF StackOK, Top
  <1>2. Shape(Tail(stack))
    BY <1>1, DropShape DEF StackOK
  <1>3. \A kind, r : In(stack, kind, r) <=> In(Tail(stack), kind, r) \/ stack[1] = Frame(kind, r)
    BY <1>1, TailIn DEF StackOK
  <1> QED BY <1>1, <1>2, <1>3

\* A tick, a drain and what lies under them.
LEMMA TopIs ==
  ASSUME StackOK, stack # <<>>
  PROVE  /\ Top.kind \in {"tick", "drain"} => Len(stack) = 1 /\ Tail(stack) = <<>>
         /\ Top.kind = "call" => Len(stack) = 2 /\ Top.run \in Threaded /\ stack[2].kind = "drain"
         /\ Top.kind = "step" => Len(stack) = 2 /\ stack[2] = Frame("tick", Top.run)
         /\ Top.kind \in {"body", "tick", "step"} => Top.run \in Timeline
         /\ Top = Frame(Top.kind, Top.run)
  <1>1. Top = stack[1] /\ Len(stack) > 0 /\ Len(stack) \in Nat /\ stack[1] \in Frames
        /\ Len(Tail(stack)) = Len(stack) - 1 /\ Tail(stack) \in Seq(Frames)
    BY TopGone DEF StackOK, Dropped
  <1>2. 1 \in 1..Len(stack)
    BY <1>1
  <1>3. /\ Top.kind \in {"tick", "drain"} => Len(stack) = 1
        /\ Top.kind = "call" => Len(stack) = 2 /\ Top.run \in Threaded /\ stack[2].kind = "drain"
        /\ Top.kind = "step" => Len(stack) = 2 /\ stack[2] = Frame("tick", Top.run)
        /\ Top.kind \in {"body", "tick", "step"} => Top.run \in Timeline
    <2>1. /\ stack[1].kind \in {"body", "tick", "step"} => stack[1].run \in Timeline
          /\ stack[1].kind = "call" =>
               /\ stack[1].run \in Threaded
               /\ 1 = Len(stack) - 1 /\ stack[Len(stack)].kind = "drain"
          /\ stack[1].kind \in {"drain", "tick"} => 1 = Len(stack)
          /\ stack[1].kind = "step" =>
               1 = 1 /\ Len(stack) = 2 /\ stack[2] = Frame("tick", stack[1].run)
      BY <1>2, Zenon DEF StackOK, Shape
    <2> QED BY <1>1, <2>1
  <1>4. Top = Frame(Top.kind, Top.run)
    <2>1. \A f \in Frames : f = Frame(f.kind, f.run)
      BY DEF Frame, Frames
    <2> QED BY <1>1, <2>1
  <1>5. Len(stack) = 1 => Tail(stack) = <<>>
    <2>1. \A s \in Seq(Frames) : Len(s) = 0 => s = <<>>
      OBVIOUS
    <2>2. Len(stack) = 1 => Len(Tail(stack)) = 0
      BY <1>1
    <2> QED BY <1>1, <2>1, <2>2
  <1> QED BY <1>3, <1>4, <1>5

LEMMA EmptyHolds == \A kind, r : ~In(<<>>, kind, r)
  BY DEF In

LEMMA UnderFacts ==
  ASSUME StackOK
  PROVE  /\ Under \in Seq(Frames) /\ Shape(Under)
         /\ Under # <<>> => Under[1].kind # "step"
         /\ \A kind \in {"call", "tick", "body", "drain"} : \A r :
              In(Under, kind, r) <=> In(stack, kind, r)
  <1>1. CASE stack # <<>> /\ Top.kind = "step"
    <2>1. Under = Tail(stack)
      BY <1>1 DEF Under
    <2>2. Tail(stack)[1].kind # "step"
      BY <1>1, TopGone, TopIs DEF Dropped, Frame
    <2>3. \A kind \in {"call", "tick", "body", "drain"} : \A r : Top # Frame(kind, r)
      BY <1>1 DEF Frame
    <2> QED BY <1>1, <2>1, <2>2, <2>3, TopGone
  <1>2. CASE ~(stack # <<>> /\ Top.kind = "step")
    <2>1. Under = stack
      BY <1>2 DEF Under
    <2>2. stack # <<>> => stack[1].kind # "step"
      BY <1>2, TopGone
    <2> QED BY <2>1, <2>2 DEF StackOK
  <1> QED BY <1>1, <1>2

\* A frame put on a stack that has the right top.
LEMMA Push ==
  ASSUME NEW s \in Seq(Frames), Shape(s), s # <<>> => s[1].kind # "step",
         NEW kind \in FrameKinds, NEW r \in Runs \cup {NoRun},
         \/ kind = "body" /\ r \in Timeline
         \/ kind = "tick" /\ r \in Timeline /\ s = <<>>
         \/ kind = "drain" /\ r = NoRun /\ s = <<>>
         \/ kind = "step" /\ r \in Timeline /\ Len(s) = 1 /\ s[1] = Frame("tick", r)
         \/ kind = "call" /\ r \in Threaded /\ Len(s) = 1 /\ s[1].kind = "drain"
  PROVE  LET t == <<Frame(kind, r)>> \o s IN
         /\ t \in Seq(Frames) /\ Shape(t) /\ Pushed(s, t, Frame(kind, r))
         /\ \A k, d : In(t, k, d) <=> In(s, k, d) \/ (k = kind /\ d = r)
  <1> DEFINE f == Frame(kind, r)
             t == <<f>> \o s
  <1>1. f \in Frames /\ f.kind = kind /\ f.run = r
    BY DEF Frame, Frames
  <1> HIDE DEF f
  <1>2. t \in Seq(Frames) /\ Pushed(s, t, f)
    BY <1>1, PushFacts
  <1> HIDE DEF t
  <1>3. Shape(t)
    BY <1>1, <1>2, PushShape
  <1>4. \A k, d : In(t, k, d) <=> In(s, k, d) \/ f = Frame(k, d)
    BY <1>1, <1>2, PushIn
  <1>5. \A k, d : f = Frame(k, d) <=> k = kind /\ d = r
    BY DEF f, Frame
  <1>6. /\ t \in Seq(Frames) /\ Shape(t) /\ Pushed(s, t, f)
        /\ \A k, d : In(t, k, d) <=> In(s, k, d) \/ (k = kind /\ d = r)
    BY <1>2, <1>3, <1>4, <1>5
  <1> QED BY <1>6 DEF t, f

LEMMA StackKept ==
  ASSUME StackOK, stack' = stack
  PROVE  StackOK' /\ SameHolders
  BY DEF StackOK, SameHolders

LEMMA UnderKept ==
  ASSUME StackOK, stack' = Under
  PROVE  StackOK' /\ SameHolders
  <1>1. stack' \in Seq(Frames) /\ Shape(stack')
    BY UnderFacts
  <1>2. \A kind \in Holding, r \in Runs : In(stack', kind, r) <=> In(stack, kind, r)
    BY UnderFacts DEF Holding
  <1> QED BY <1>1, <1>2 DEF StackOK, SameHolders

LEMMA BodyPushed ==
  ASSUME StackOK, NEW r \in Timeline, stack' = <<Frame("body", r)>> \o Under
  PROVE  StackOK' /\ SameHolders
  <1>0. PICK s : s = Under
    OBVIOUS
  <1>1. /\ s \in Seq(Frames) /\ Shape(s) /\ (s # <<>> => s[1].kind # "step")
        /\ \A kind \in Holding, d \in Runs : In(s, kind, d) <=> In(stack, kind, d)
    BY <1>0, UnderFacts DEF Holding
  <1>2. "body" \in FrameKinds /\ r \in Runs \cup {NoRun}
    BY DEF FrameKinds, Timeline
  <1>3. /\ stack' \in Seq(Frames) /\ Shape(stack')
        /\ \A k, d : In(stack', k, d) <=> In(s, k, d) \/ (k = "body" /\ d = r)
    BY <1>0, <1>1, <1>2, Push
  <1> QED BY <1>1, <1>3 DEF StackOK, SameHolders, Holding

LEMMA Popped ==
  ASSUME StackOK, stack # <<>>, stack' = Tail(stack)
  PROVE  /\ StackOK'
         /\ \A kind, d : In(stack', kind, d) => In(stack, kind, d)
         /\ Top.kind \notin Holding => SameHolders
         /\ Top.kind = "tick" =>
              /\ \A kind, d : ~In(stack', kind, d)
              /\ \A kind, d : In(stack, kind, d) <=> kind = "tick" /\ d = Top.run
         /\ Top.kind = "call" =>
              /\ \A d : ~In(stack', "call", d) /\ ~In(stack', "tick", d)
              /\ \A d : In(stack, "call", d) <=> d = Top.run
              /\ \A d : ~In(stack, "tick", d)
  <1>1. /\ StackOK'
        /\ \A kind, d : In(stack, kind, d) <=> In(stack', kind, d) \/ Top = Frame(kind, d)
    BY TopGone DEF StackOK
  <1>2. Top = Frame(Top.kind, Top.run)
    BY TopIs
  <1>3. \A kind, d : Top = Frame(kind, d) <=> Top.kind = kind /\ Top.run = d
    <2>1. PICK k0, r0 : Top = Frame(k0, r0) /\ k0 = Top.kind /\ r0 = Top.run
      BY <1>2
    <2> QED BY <2>1, FrameIs
  <1>4. Top.kind \notin Holding => SameHolders
    BY <1>1, <1>3 DEF SameHolders
  <1>5. Top.kind = "tick" => \A kind, d : ~In(stack', kind, d)
    BY TopIs, EmptyHolds
  <1>6. Top.kind = "call" => \A d : ~In(stack', "call", d) /\ ~In(stack', "tick", d)
    <2>1. SUFFICES ASSUME Top.kind = "call", NEW i \in 1..Len(stack')
                   PROVE  stack'[i].kind \notin {"call", "tick"}
      BY DEF In, Frame
    <2>2. Len(stack) = 2 /\ stack[2].kind = "drain" /\ Dropped(stack, stack', 1)
      BY <2>1, TopIs, TopGone
    <2>3. i = 1 /\ stack'[i] = stack[2]
      BY <2>2 DEF Dropped
    <2> QED BY <2>2, <2>3
  <1> QED BY <1>1, <1>3, <1>4, <1>5, <1>6

LEMMA PushedOnEmpty ==
  ASSUME StackOK, stack = <<>>, NEW kind \in {"tick", "drain"}, NEW r,
         \/ kind = "tick" /\ r \in Timeline
         \/ kind = "drain" /\ r = NoRun,
         stack' = <<Frame(kind, r)>>
  PROVE  /\ StackOK'
         /\ \A k, d : ~In(stack, k, d)
         /\ \A k, d : In(stack', k, d) <=> k = kind /\ d = r
  <1>1. stack' = <<Frame(kind, r)>> \o <<>> /\ <<>> \in Seq(Frames) /\ Shape(<<>>)
    BY DEF StackOK, Shape
  <1>2. kind \in FrameKinds /\ r \in Runs \cup {NoRun}
    BY DEF FrameKinds, Timeline
  <1>3. PICK s \in Seq(Frames) : s = <<>> /\ Shape(s) /\ stack' = <<Frame(kind, r)>> \o s
    BY <1>1
  <1>4. \/ kind = "tick" /\ r \in Timeline /\ s = <<>>
        \/ kind = "drain" /\ r = NoRun /\ s = <<>>
    BY <1>3
  <1>5. (s # <<>> => s[1].kind # "step") /\ s \in Seq(Frames) /\ Shape(s)
    BY <1>3
  <1>6. LET t == <<Frame(kind, r)>> \o s IN
        /\ t \in Seq(Frames) /\ Shape(t)
        /\ \A k, d : In(t, k, d) <=> In(s, k, d) \/ (k = kind /\ d = r)
    BY <1>2, <1>4, <1>5, Push
  <1>7. /\ stack' \in Seq(Frames) /\ Shape(stack')
        /\ \A k, d : In(stack', k, d) <=> In(s, k, d) \/ (k = kind /\ d = r)
    BY <1>3, <1>6
  <1> QED BY <1>3, <1>7, EmptyHolds DEF StackOK

LEMMA PushedOnOne ==
  ASSUME StackOK, stack # <<>>, NEW kind \in {"step", "call"}, NEW r,
         \/ kind = "step" /\ Top = Frame("tick", r)
         \/ kind = "call" /\ r \in Threaded /\ Top.kind = "drain",
         stack' = <<Frame(kind, r)>> \o stack
  PROVE  /\ StackOK'
         /\ \A k, d : In(stack', k, d) <=> In(stack, k, d) \/ (k = kind /\ d = r)
         /\ kind = "call" => \A k, d : In(stack, k, d) => k = "drain"
  <1>1. /\ Top.kind = (IF kind = "step" THEN "tick" ELSE "drain")
        /\ kind = "step" => r \in Timeline
    BY TopIs DEF Frame
  <1>2. Len(stack) = 1 /\ Top = stack[1] /\ stack[1].kind \in {"tick", "drain"}
    BY <1>1, TopIs, TopGone
  <1>3. kind \in FrameKinds /\ r \in Runs \cup {NoRun}
    BY <1>1, MacroRunnerAssumption DEF FrameKinds, Timeline, MacroRunnerAssumption
  <1>4. PICK s \in Seq(Frames) : s = stack /\ Shape(s)
    BY DEF StackOK
  <1>5. \/ kind = "step" /\ r \in Timeline /\ Len(s) = 1 /\ s[1] = Frame("tick", r)
        \/ kind = "call" /\ r \in Threaded /\ Len(s) = 1 /\ s[1].kind = "drain"
    BY <1>1, <1>2, <1>4
  <1>6. /\ stack' \in Seq(Frames) /\ Shape(stack')
        /\ \A k, d : In(stack', k, d) <=> In(s, k, d) \/ (k = kind /\ d = r)
    BY <1>2, <1>3, <1>4, <1>5, Push
  <1>7. kind = "call" => \A k, d : In(stack, k, d) => k = "drain"
    <2>1. SUFFICES ASSUME kind = "call", NEW k, NEW d, NEW i \in 1..Len(stack),
                          stack[i] = Frame(k, d)
                   PROVE  k = "drain"
      BY DEF In
    <2>2. i = 1 /\ stack[1].kind = "drain"
      BY <1>1, <1>2, <2>1
    <2> QED BY <2>1, <2>2 DEF Frame
  <1> QED BY <1>4, <1>6, <1>7 DEF StackOK

\* A fault takes the guarded frames with it, and nothing that holds another run.
LEMMA Faulted ==
  ASSUME StackOK, NEW kind \in {"body", "call"}, NEW r, FaultLandsIn(Frame(kind, r))
  PROVE  /\ StackOK' /\ In(stack, kind, r)
         /\ \A kd, d : In(stack', kd, d) => In(stack, kd, d)
         /\ \A d : In(stack', "tick", d) <=> In(stack, "tick", d)
         /\ kind = "body" => \A d : In(stack', "call", d) <=> In(stack, "call", d)
         /\ kind = "call" => /\ \A d : ~In(stack', "call", d)
                             /\ \A d : In(stack, "call", d) <=> d = r
  <1>1. PICK k \in 1..Len(stack) :
          /\ OutermostGuard(k) /\ stack[k] = Frame(kind, r)
          /\ stack' = SubSeq(stack, k + 1, Len(stack))
    BY DEF FaultLandsIn
  <1>2. stack \in Seq(Frames) /\ Len(stack) \in Nat /\ k \in 0..Len(stack) /\ k \in Nat
    BY <1>1 DEF StackOK
  <1>3. stack' \in Seq(Frames) /\ Dropped(stack, stack', k)
    BY <1>1, <1>2, DropFacts
  <1>4. PICK t \in Seq(Frames) : t = stack' /\ Dropped(stack, t, k)
    BY <1>3
  <1>5. Shape(t)
    BY <1>2, <1>4, DropShape DEF StackOK
  <1>6. \A kd, d :
          /\ In(t, kd, d) => In(stack, kd, d)
          /\ In(stack, kd, d) => In(t, kd, d) \/ \E i \in 1..k : stack[i] = Frame(kd, d)
    BY <1>2, <1>4, DropIn
  <1>7. ASSUME NEW i \in 1..k PROVE stack[i].kind # "tick"
    <2>1. i \in 1..Len(stack) /\ (i # k => i # Len(stack))
      BY <1>2
    <2>2. stack[i].kind = "tick" => i = Len(stack)
      BY <2>1 DEF StackOK, Shape
    <2>3. stack[k].kind # "tick"
      BY <1>1 DEF Frame
    <2> QED BY <2>1, <2>2, <2>3
  <1>8. kind = "body" => \A i \in 1..k : stack[i].kind # "call"
    <2>1. SUFFICES ASSUME kind = "body", NEW i \in 1..k, stack[i].kind = "call"
                   PROVE  FALSE
      OBVIOUS
    <2>2. i \in 1..Len(stack) /\ stack[k].kind = "body"
      BY <1>1, <1>2, <2>1 DEF Frame
    <2>3. i = Len(stack) - 1 /\ stack[Len(stack)].kind = "drain"
      BY <2>1, <2>2 DEF StackOK, Shape
    <2>4. k = i \/ k = Len(stack)
      BY <1>2, <2>3
    <2> QED BY <2>1, <2>2, <2>3, <2>4
  <1>9. kind = "call" => /\ \A d : ~In(t, "call", d)
                         /\ \A d : In(stack, "call", d) <=> d = r
    <2>1. SUFFICES ASSUME kind = "call"
                   PROVE  /\ \A d : ~In(t, "call", d)
                          /\ \A d : In(stack, "call", d) <=> d = r
      OBVIOUS
    <2>2. stack[k].kind = "call" /\ stack[k].run = r
      BY <1>1, <2>1 DEF Frame
    <2>3. \A i \in 1..Len(stack) : stack[i].kind = "call" => i = k
      <3>1. \A i \in 1..Len(stack) : stack[i].kind = "call" => i = Len(stack) - 1
        BY DEF StackOK, Shape
      <3> QED BY <2>2, <3>1
    <2>4. \A d : In(stack, "call", d) => d = r
      BY <1>1, <2>1, <2>3, FrameIs DEF In, Frame
    <2>5. In(stack, "call", r)
      BY <1>1, <2>1 DEF In
    <2>6. ASSUME NEW d, In(t, "call", d) PROVE FALSE
      <3>1. PICK i \in 1..Len(t) : t[i] = Frame("call", d)
        BY <2>6 DEF In
      <3>2. i + k \in 1..Len(stack) /\ stack[i + k].kind = "call" /\ i + k # k
        BY <1>2, <1>4, <3>1 DEF Dropped, Frame
      <3> QED BY <2>3, <3>2
    <2> QED BY <2>4, <2>5, <2>6
  <1>10. \A i \in 1..k : \A d : stack[i] # Frame("tick", d)
    BY <1>7 DEF Frame
  <1>11. kind = "body" => \A i \in 1..k : \A d : stack[i] # Frame("call", d)
    BY <1>8 DEF Frame
  <1>12. In(stack, kind, r)
    BY <1>1 DEF In
  <1> QED BY <1>4, <1>5, <1>6, <1>9, <1>10, <1>11, <1>12 DEF StackOK

-----------------------------------------------------------------------------
(* What the actions do to the queue: no message is in it twice.            *)

InQueue(q, kind, r) == \E i \in 1..Len(q) : q[i] = <<kind, r>>
QueueOK ==
  /\ queue \in Seq(Messages)
  /\ \A i, j \in 1..Len(queue) : queue[i] = queue[j] => i = j

LEMMA Appended ==
  ASSUME QueueOK, NEW kind \in {"sync", "done"}, NEW r \in Threaded,
         ~InQueue(queue, kind, r), queue' = Append(queue, <<kind, r>>)
  PROVE  /\ QueueOK'
         /\ \A k, d : InQueue(queue', k, d) <=> InQueue(queue, k, d) \/ (k = kind /\ d = r)
  <1> DEFINE m == <<kind, r>>
  <1>1. m \in Messages /\ queue \in Seq(Messages) /\ Len(queue) \in Nat
    BY DEF QueueOK, Messages
  <1>2. \A i \in 1..Len(queue) : queue[i] # m
    BY DEF InQueue
  <1>3. \A k, d : <<k, d>> = m <=> k = kind /\ d = r
    OBVIOUS
  <1> HIDE DEF m
  <1>4. /\ queue' \in Seq(Messages) /\ Len(queue') = Len(queue) + 1
        /\ queue'[Len(queue) + 1] = m
        /\ \A i \in 1..Len(queue) : queue'[i] = queue[i]
    BY <1>1, AppendFacts DEF m
  <1>5. ASSUME NEW i \in 1..Len(queue'), NEW j \in 1..Len(queue'), queue'[i] = queue'[j]
        PROVE  i = j
    <2>1. (i \in 1..Len(queue) \/ i = Len(queue) + 1) /\ (j \in 1..Len(queue) \/ j = Len(queue) + 1)
      BY <1>1, <1>4
    <2> QED BY <1>2, <1>4, <1>5, <2>1 DEF QueueOK
  <1>6. ASSUME NEW k, NEW d PROVE InQueue(queue', k, d) <=> InQueue(queue, k, d) \/ <<k, d>> = m
    <2>1. ASSUME InQueue(queue', k, d) PROVE InQueue(queue, k, d) \/ <<k, d>> = m
      <3>1. PICK i \in 1..Len(queue') : queue'[i] = <<k, d>>
        BY <2>1 DEF InQueue
      <3>2. i \in 1..Len(queue) \/ i = Len(queue) + 1
        BY <1>1, <1>4
      <3> QED BY <1>4, <3>1, <3>2 DEF InQueue
    <2>2. ASSUME InQueue(queue, k, d) PROVE InQueue(queue', k, d)
      <3>1. PICK i \in 1..Len(queue) : queue[i] = <<k, d>>
        BY <2>2 DEF InQueue
      <3>2. i \in 1..Len(queue') /\ queue'[i] = <<k, d>>
        BY <1>1, <1>4, <3>1
      <3> QED BY <3>2 DEF InQueue
    <2>3. <<k, d>> = m => InQueue(queue', k, d)
      <3>1. Len(queue) + 1 \in 1..Len(queue')
        BY <1>1, <1>4
      <3> QED BY <1>4, <3>1 DEF InQueue
    <2> QED BY <2>1, <2>2, <2>3
  <1> QED BY <1>3, <1>4, <1>5, <1>6 DEF QueueOK

LEMMA Removed ==
  ASSUME QueueOK, queue # <<>>, NEW kind, NEW r, Head(queue) = <<kind, r>>,
         queue' = Tail(queue)
  PROVE  /\ QueueOK' /\ r \in Threaded /\ InQueue(queue, kind, r)
         /\ \A k, d : InQueue(queue', k, d) <=> InQueue(queue, k, d) /\ ~(k = kind /\ d = r)
  <1> DEFINE m == <<kind, r>>
  <1>1. \A k, d : <<k, d>> = m <=> k = kind /\ d = r
    OBVIOUS
  <1>2. /\ queue' \in Seq(Messages) /\ Len(queue) \in Nat /\ Len(queue) > 0
        /\ Len(queue') = Len(queue) - 1 /\ queue[1] = m /\ m \in Messages
        /\ \A i \in 1..Len(queue') : queue'[i] = queue[i + 1]
    BY TailFacts DEF QueueOK, Dropped
  <1>3. r \in Threaded
    BY <1>2 DEF Messages
  <1> HIDE DEF m
  <1>4. ASSUME NEW i \in 1..Len(queue'), NEW j \in 1..Len(queue'), queue'[i] = queue'[j]
        PROVE  i = j
    <2>1. i + 1 \in 1..Len(queue) /\ j + 1 \in 1..Len(queue) /\ queue[i + 1] = queue[j + 1]
      BY <1>2, <1>4
    <2>2. i + 1 = j + 1
      BY <2>1 DEF QueueOK
    <2> QED BY <2>2
  <1>5. 1 \in 1..Len(queue)
    BY <1>2
  <1>6. \A i \in 1..Len(queue') : queue'[i] # m
    <2>1. SUFFICES ASSUME NEW i \in 1..Len(queue'), queue'[i] = m PROVE FALSE
      OBVIOUS
    <2>2. i + 1 \in 1..Len(queue) /\ queue[i + 1] = queue[1]
      BY <1>2, <2>1
    <2>3. i + 1 = 1
      BY <1>5, <2>2 DEF QueueOK
    <2> QED BY <2>3
  <1>7. ASSUME NEW k, NEW d PROVE InQueue(queue', k, d) <=> InQueue(queue, k, d) /\ <<k, d>> # m
    <2>1. ASSUME InQueue(queue', k, d) PROVE InQueue(queue, k, d) /\ <<k, d>> # m
      <3>1. PICK i \in 1..Len(queue') : queue'[i] = <<k, d>>
        BY <2>1 DEF InQueue
      <3>2. i + 1 \in 1..Len(queue) /\ queue[i + 1] = <<k, d>>
        BY <1>2, <3>1
      <3> QED BY <1>6, <3>1, <3>2 DEF InQueue
    <2>2. ASSUME InQueue(queue, k, d), <<k, d>> # m PROVE InQueue(queue', k, d)
      <3>1. PICK i \in 1..Len(queue) : queue[i] = <<k, d>>
        BY <2>2 DEF InQueue
      <3>2. i # 1
        BY <1>2, <2>2, <3>1
      <3>3. i - 1 \in 1..Len(queue') /\ queue'[i - 1] = queue[i]
        BY <1>2, <3>2
      <3> QED BY <3>1, <3>3 DEF InQueue
    <2> QED BY <2>1, <2>2
  <1>8. InQueue(queue, kind, r)
    BY <1>2, <1>5 DEF InQueue, m
  <1> QED BY <1>1, <1>2, <1>3, <1>4, <1>7, <1>8 DEF QueueOK

-----------------------------------------------------------------------------
(* Types.                                                                  *)

FlagsOK == moduleRef \in BOOLEAN /\ dead \in BOOLEAN /\ efd \in BOOLEAN
SetsOK ==
  /\ table \subseteq started /\ started \subseteq Runs /\ timer \subseteq Runs
  /\ cancelled \subseteq Runs /\ faulted \subseteq Threaded
  /\ running \subseteq Names /\ held \subseteq Names
StepsOK ==
  /\ steps \in [Runs -> Seq({"do", "wait"})]
  /\ \A r \in Runs : Len(steps[r]) <= MaxSteps
CountsOK ==
  /\ callRefs \in [Runs -> Int] /\ refs \in [Runs -> Int] /\ told \in [Runs -> Nat]
  /\ call \in [Runs -> CallStates] /\ worker \in [Runs -> WorkerStates]
  /\ crashes \in 0..MaxCrashes

DataOK == FlagsOK /\ SetsOK /\ StepsOK /\ CountsOK
TypeInv == DataOK /\ StackOK /\ QueueOK

\* What StackOK and QueueOK do not mention.
dataVars == <<moduleRef, dead, table, steps, timer, efd, cancelled, call, callRefs, refs,
              workerVars, journalVars, historyVars>>

LEMMA NamesOfRuns == \A rs \in SUBSET Runs : {Macro[r] : r \in rs} \subseteq Names
  BY DEF Names

LEMMA TargetsAreRuns ==
  ASSUME SetsOK, NEW rs \in Targets
  PROVE  rs \subseteq table /\ rs \subseteq Runs
  BY DEF Targets, SetsOK

LEMMA CountFacts ==
  ASSUME NEW rs
  PROVE  /\ \A count \in [Runs -> Int] : Minus(count, rs) \in [Runs -> Int] /\ Plus(count, rs) \in [Runs -> Int]
         /\ \A count \in [Runs -> Nat] : Plus(count, rs) \in [Runs -> Nat]
  BY DEF Minus, Plus

LEMMA StepsFacts ==
  ASSUME StepsOK, NEW r \in Runs
  PROVE  /\ steps[r] # <<>> => [steps EXCEPT ![r] = Tail(@)] \in [Runs -> Seq({"do", "wait"})]
                             /\ Len(Tail(steps[r])) <= MaxSteps
         /\ [steps EXCEPT ![r] = <<>>] \in [Runs -> Seq({"do", "wait"})]
         /\ \A step \in {"do", "wait"} :
              /\ [steps EXCEPT ![r] = Append(@, step)] \in [Runs -> Seq({"do", "wait"})]
              /\ Len(Append(steps[r], step)) = Len(steps[r]) + 1 /\ Len(steps[r]) \in Nat
  <1>1. steps[r] \in Seq({"do", "wait"}) /\ Len(steps[r]) \in Nat /\ Len(steps[r]) <= MaxSteps
    BY DEF StepsOK
  <1>2. steps[r] # <<>> => Tail(steps[r]) \in Seq({"do", "wait"}) /\ Len(Tail(steps[r])) = Len(steps[r]) - 1
    BY <1>1
  <1>3. \A step \in {"do", "wait"} :
          Append(steps[r], step) \in Seq({"do", "wait"}) /\ Len(Append(steps[r], step)) = Len(steps[r]) + 1
    BY <1>1
  <1>4. <<>> \in Seq({"do", "wait"})
    OBVIOUS
  <1> QED
    BY <1>1, <1>2, <1>3, <1>4, MacroRunnerAssumption DEF StepsOK, MacroRunnerAssumption

LEMMA StepsStep ==
  ASSUME StepsOK, NEW r \in Runs,
         \/ steps' = steps
         \/ steps' = [steps EXCEPT ![r] = <<>>]
         \/ steps[r] # <<>> /\ steps' = [steps EXCEPT ![r] = Tail(@)]
         \/ \E step \in {"do", "wait"} :
              Len(steps[r]) < MaxSteps /\ steps' = [steps EXCEPT ![r] = Append(@, step)]
  PROVE  StepsOK'
  <1>0. MaxSteps \in Nat /\ Len(<<>>) = 0
    BY MacroRunnerAssumption DEF MacroRunnerAssumption
  <1>1. CASE steps' = steps
    BY <1>1 DEF StepsOK
  <1>2. CASE steps' = [steps EXCEPT ![r] = <<>>]
    BY <1>0, <1>2, StepsFacts DEF StepsOK
  <1>3. CASE steps[r] # <<>> /\ steps' = [steps EXCEPT ![r] = Tail(@)]
    BY <1>0, <1>3, StepsFacts DEF StepsOK
  <1>4. ASSUME NEW step \in {"do", "wait"}, Len(steps[r]) < MaxSteps,
               steps' = [steps EXCEPT ![r] = Append(@, step)]
        PROVE  StepsOK'
    BY <1>0, <1>4, StepsFacts DEF StepsOK
  <1> QED BY <1>1, <1>2, <1>3, <1>4

LEMMA DataStep ==
  ASSUME DataOK, Next
  PROVE  DataOK'
  <1> USE DEF DataOK, runnerVars, sharedVars, workerVars, journalVars, historyVars
  <1>0. Timeline \subseteq Runs /\ Threaded \subseteq Runs /\ \A r \in Runs : Macro[r] \in Names
    BY MacroRunnerAssumption DEF Timeline, Names, MacroRunnerAssumption
  <1>1. ASSUME NEW r \in Runs, StartTimeline(r) PROVE DataOK'
    <2>1. FlagsOK' BY <1>1 DEF FlagsOK, StartTimeline
    <2>2. SetsOK' BY <1>0, <1>1 DEF SetsOK, StartTimeline
    <2>3. StepsOK' BY <1>1 DEF StepsOK, StartTimeline
    <2>4. CountsOK' BY <1>0, <1>1, CountFacts DEF CountsOK, CallStates, WorkerStates, StartTimeline
    <2> QED BY <2>1, <2>2, <2>3, <2>4
  <1>2. ASSUME NEW r \in Runs, StartThreaded(r) PROVE DataOK'
    <2>1. FlagsOK' BY <1>2 DEF FlagsOK, StartThreaded
    <2>2. SetsOK' BY <1>0, <1>2 DEF SetsOK, StartThreaded
    <2>3. StepsOK' BY <1>2 DEF StepsOK, StartThreaded
    <2>4. CountsOK' BY <1>0, <1>2, CountFacts DEF CountsOK, CallStates, WorkerStates, StartThreaded
    <2> QED BY <2>1, <2>2, <2>3, <2>4
  <1>3. ASSUME NEW r \in Runs, StartNoThread(r) PROVE DataOK'
    <2>1. FlagsOK' BY <1>3 DEF FlagsOK, StartNoThread
    <2>2. SetsOK' BY <1>0, <1>3 DEF SetsOK, StartNoThread
    <2>3. StepsOK' BY <1>3 DEF StepsOK, StartNoThread
    <2>4. CountsOK' BY <1>0, <1>3, CountFacts DEF CountsOK, CallStates, WorkerStates, StartNoThread
    <2> QED BY <2>1, <2>2, <2>3, <2>4
  <1>4. ASSUME NEW rs \in Targets, Stop(rs) PROVE DataOK'
    <2>1. FlagsOK' BY <1>4 DEF FlagsOK, Stop, Finish, Leave
    <2>2. SetsOK' BY <1>0, <1>4, TargetsAreRuns, NamesOfRuns DEF SetsOK, Stop, Finish, Leave
    <2>3. StepsOK' BY <1>4 DEF StepsOK, Stop, Finish, Leave
    <2>4. CountsOK' BY <1>0, <1>4, CountFacts DEF CountsOK, CallStates, WorkerStates, Stop, Finish, Leave
    <2> QED BY <2>1, <2>2, <2>3, <2>4
  <1>5. ASSUME NEW m \in Names, Clear(m) PROVE DataOK'
    <2>1. FlagsOK' BY <1>5 DEF FlagsOK, Clear
    <2>2. SetsOK' BY <1>0, <1>5 DEF SetsOK, Clear
    <2>3. StepsOK' BY <1>5 DEF StepsOK, Clear
    <2>4. CountsOK' BY <1>0, <1>5, CountFacts DEF CountsOK, CallStates, WorkerStates, Clear
    <2> QED BY <2>1, <2>2, <2>3, <2>4
  <1>6. ASSUME NEW r \in Timeline, BodyStarted(r) PROVE DataOK'
    <2>1. FlagsOK' BY <1>6 DEF FlagsOK, BodyStarted
    <2>2. SetsOK' BY <1>0, <1>6 DEF SetsOK, BodyStarted
    <2>3. StepsOK' BY <1>6 DEF StepsOK, BodyStarted
    <2>4. CountsOK' BY <1>0, <1>6, CountFacts DEF CountsOK, CallStates, WorkerStates, BodyStarted
    <2> QED BY <2>1, <2>2, <2>3, <2>4
  <1>7. ASSUME NEW r \in Timeline, BodyFinished(r) PROVE DataOK'
    <2>1. FlagsOK' BY <1>7 DEF FlagsOK, BodyFinished, Finish, Leave
    <2>2. SetsOK' BY <1>0, <1>7 DEF SetsOK, BodyFinished, Finish, Leave
    <2>3. StepsOK' BY <1>0, <1>7, StepsStep DEF BodyFinished, Finish, Leave
    <2>4. CountsOK' BY <1>0, <1>7, CountFacts DEF CountsOK, CallStates, WorkerStates, BodyFinished, Finish, Leave
    <2> QED BY <2>1, <2>2, <2>3, <2>4
  <1>8. ASSUME NEW r \in Timeline, BodyFaulted(r) PROVE DataOK'
    <2>1. FlagsOK' BY <1>8 DEF FlagsOK, BodyFaulted, HoldBack, Leave
    <2>2. SetsOK' BY <1>0, <1>8 DEF SetsOK, BodyFaulted, HoldBack, Leave
    <2>3. StepsOK' BY <1>8 DEF StepsOK, BodyFaulted, HoldBack, Leave
    <2>4. CountsOK' BY <1>0, <1>8, CountFacts DEF CountsOK, CallStates, WorkerStates, BodyFaulted, HoldBack, Leave
    <2> QED BY <2>1, <2>2, <2>3, <2>4
  <1>9. ASSUME NEW r \in Timeline, TimelineTick(r) PROVE DataOK'
    <2>1. FlagsOK' BY <1>9 DEF FlagsOK, TimelineTick
    <2>2. SetsOK' BY <1>0, <1>9 DEF SetsOK, TimelineTick
    <2>3. StepsOK' BY <1>9 DEF StepsOK, TimelineTick
    <2>4. CountsOK' BY <1>0, <1>9, CountFacts DEF CountsOK, CallStates, WorkerStates, TimelineTick
    <2> QED BY <2>1, <2>2, <2>3, <2>4
  <1>10. ASSUME NEW r \in Timeline, TickStep(r) PROVE DataOK'
    <2>1. FlagsOK' BY <1>10 DEF FlagsOK, TickStep
    <2>2. SetsOK' BY <1>0, <1>10 DEF SetsOK, TickStep
    <2>3. StepsOK' BY <1>0, <1>10, StepsStep DEF TickStep
    <2>4. CountsOK' BY <1>0, <1>10, CountFacts DEF CountsOK, CallStates, WorkerStates, TickStep
    <2> QED BY <2>1, <2>2, <2>3, <2>4
  <1>11. ASSUME NEW r \in Timeline, StepDone(r) PROVE DataOK'
    <2>1. FlagsOK' BY <1>11 DEF FlagsOK, StepDone
    <2>2. SetsOK' BY <1>0, <1>11 DEF SetsOK, StepDone
    <2>3. StepsOK' BY <1>11 DEF StepsOK, StepDone
    <2>4. CountsOK' BY <1>0, <1>11, CountFacts DEF CountsOK, CallStates, WorkerStates, StepDone
    <2> QED BY <2>1, <2>2, <2>3, <2>4
  <1>12. ASSUME NEW r \in Timeline, TickWait(r) PROVE DataOK'
    <2>1. FlagsOK' BY <1>12 DEF FlagsOK, TickWait
    <2>2. SetsOK' BY <1>0, <1>12 DEF SetsOK, TickWait
    <2>3. StepsOK' BY <1>0, <1>12, StepsStep DEF TickWait
    <2>4. CountsOK' BY <1>0, <1>12, CountFacts DEF CountsOK, CallStates, WorkerStates, TickWait
    <2> QED BY <2>1, <2>2, <2>3, <2>4
  <1>13. ASSUME NEW r \in Timeline, TickFinished(r) PROVE DataOK'
    <2>1. FlagsOK' BY <1>13 DEF FlagsOK, TickFinished, Finish, Leave
    <2>2. SetsOK' BY <1>0, <1>13 DEF SetsOK, TickFinished, Finish, Leave
    <2>3. StepsOK' BY <1>13 DEF StepsOK, TickFinished, Finish, Leave
    <2>4. CountsOK' BY <1>0, <1>13, CountFacts DEF CountsOK, CallStates, WorkerStates, TickFinished, Finish, Leave
    <2> QED BY <2>1, <2>2, <2>3, <2>4
  <1>14. ASSUME NEW r \in Threaded, WorkerAsks(r) PROVE DataOK'
    <2>1. FlagsOK' BY <1>14 DEF FlagsOK, WorkerAsks
    <2>2. SetsOK' BY <1>0, <1>14 DEF SetsOK, WorkerAsks
    <2>3. StepsOK' BY <1>14 DEF StepsOK, WorkerAsks
    <2>4. CountsOK'
      <3>1. refs' \in [Runs -> Int]
        BY <1>0, <1>14, CountFacts DEF CountsOK, WorkerAsks
      <3>2. callRefs' \in [Runs -> Int]
        BY <1>0, <1>14, CountFacts DEF CountsOK, WorkerAsks
      <3>3. told' \in [Runs -> Nat]
        BY <1>0, <1>14, CountFacts DEF CountsOK, WorkerAsks
      <3>4. call' \in [Runs -> CallStates] /\ worker' \in [Runs -> WorkerStates] /\ crashes' \in 0..MaxCrashes
        BY <1>0, <1>14, CountFacts DEF CountsOK, CallStates, WorkerStates, WorkerAsks
      <3> QED BY <3>1, <3>2, <3>3, <3>4 DEF CountsOK
    <2> QED BY <2>1, <2>2, <2>3, <2>4
  <1>15. ASSUME NEW r \in Threaded, WorkerPokes(r) PROVE DataOK'
    <2>1. FlagsOK' BY <1>15 DEF FlagsOK, WorkerPokes
    <2>2. SetsOK' BY <1>0, <1>15 DEF SetsOK, WorkerPokes
    <2>3. StepsOK' BY <1>15 DEF StepsOK, WorkerPokes
    <2>4. CountsOK' BY <1>0, <1>15, CountFacts DEF CountsOK, CallStates, WorkerStates, WorkerPokes
    <2> QED BY <2>1, <2>2, <2>3, <2>4
  <1>16. ASSUME NEW r \in Threaded, WorkerAnswered(r) PROVE DataOK'
    <2>1. FlagsOK' BY <1>16 DEF FlagsOK, WorkerAnswered, WorkerDropsCall
    <2>2. SetsOK' BY <1>0, <1>16 DEF SetsOK, WorkerAnswered, WorkerDropsCall
    <2>3. StepsOK' BY <1>16 DEF StepsOK, WorkerAnswered, WorkerDropsCall
    <2>4. CountsOK'
      <3>1. refs' \in [Runs -> Int]
        BY <1>0, <1>16, CountFacts DEF CountsOK, WorkerAnswered, WorkerDropsCall
      <3>2. callRefs' \in [Runs -> Int]
        BY <1>0, <1>16, CountFacts DEF CountsOK, WorkerAnswered, WorkerDropsCall
      <3>3. told' \in [Runs -> Nat]
        BY <1>0, <1>16, CountFacts DEF CountsOK, WorkerAnswered, WorkerDropsCall
      <3>4. call' \in [Runs -> CallStates] /\ worker' \in [Runs -> WorkerStates] /\ crashes' \in 0..MaxCrashes
        BY <1>0, <1>16, CountFacts DEF CountsOK, CallStates, WorkerStates, WorkerAnswered, WorkerDropsCall
      <3> QED BY <3>1, <3>2, <3>3, <3>4 DEF CountsOK
    <2> QED BY <2>1, <2>2, <2>3, <2>4
  <1>17. ASSUME NEW r \in Threaded, WorkerAbandons(r) PROVE DataOK'
    <2>1. FlagsOK' BY <1>17 DEF FlagsOK, WorkerAbandons, WorkerDropsCall
    <2>2. SetsOK' BY <1>0, <1>17 DEF SetsOK, WorkerAbandons, WorkerDropsCall
    <2>3. StepsOK' BY <1>17 DEF StepsOK, WorkerAbandons, WorkerDropsCall
    <2>4. CountsOK'
      <3>1. refs' \in [Runs -> Int]
        BY <1>0, <1>17, CountFacts DEF CountsOK, WorkerAbandons, WorkerDropsCall
      <3>2. callRefs' \in [Runs -> Int]
        BY <1>0, <1>17, CountFacts DEF CountsOK, WorkerAbandons, WorkerDropsCall
      <3>3. told' \in [Runs -> Nat]
        BY <1>0, <1>17, CountFacts DEF CountsOK, WorkerAbandons, WorkerDropsCall
      <3>4. call' \in [Runs -> CallStates] /\ worker' \in [Runs -> WorkerStates] /\ crashes' \in 0..MaxCrashes
        BY <1>0, <1>17, CountFacts DEF CountsOK, CallStates, WorkerStates, WorkerAbandons, WorkerDropsCall
      <3> QED BY <3>1, <3>2, <3>3, <3>4 DEF CountsOK
    <2> QED BY <2>1, <2>2, <2>3, <2>4
  <1>18. ASSUME NEW r \in Threaded, HandleAbandoned(r) PROVE DataOK'
    <2>1. FlagsOK' BY <1>18 DEF FlagsOK, HandleAbandoned, MessageDropsCall
    <2>2. SetsOK' BY <1>0, <1>18 DEF SetsOK, HandleAbandoned, MessageDropsCall
    <2>3. StepsOK' BY <1>18 DEF StepsOK, HandleAbandoned, MessageDropsCall
    <2>4. CountsOK'
      <3>1. refs' \in [Runs -> Int]
        BY <1>0, <1>18, CountFacts DEF CountsOK, HandleAbandoned, MessageDropsCall
      <3>2. callRefs' \in [Runs -> Int]
        BY <1>0, <1>18, CountFacts DEF CountsOK, HandleAbandoned, MessageDropsCall
      <3>3. told' \in [Runs -> Nat]
        BY <1>0, <1>18, CountFacts DEF CountsOK, HandleAbandoned, MessageDropsCall
      <3>4. call' \in [Runs -> CallStates] /\ worker' \in [Runs -> WorkerStates] /\ crashes' \in 0..MaxCrashes
        BY <1>0, <1>18, CountFacts DEF CountsOK, CallStates, WorkerStates, HandleAbandoned, MessageDropsCall
      <3> QED BY <3>1, <3>2, <3>3, <3>4 DEF CountsOK
    <2> QED BY <2>1, <2>2, <2>3, <2>4
  <1>19. ASSUME NEW r \in Threaded, HandleSync(r) PROVE DataOK'
    <2>1. FlagsOK' BY <1>19 DEF FlagsOK, HandleSync
    <2>2. SetsOK' BY <1>0, <1>19 DEF SetsOK, HandleSync
    <2>3. StepsOK' BY <1>19 DEF StepsOK, HandleSync
    <2>4. CountsOK' BY <1>0, <1>19, CountFacts DEF CountsOK, CallStates, WorkerStates, HandleSync
    <2> QED BY <2>1, <2>2, <2>3, <2>4
  <1>20. ASSUME NEW r \in Threaded, CallReturns(r) PROVE DataOK'
    <2>1. FlagsOK' BY <1>20 DEF FlagsOK, CallReturns, MessageDropsCall
    <2>2. SetsOK' BY <1>0, <1>20 DEF SetsOK, CallReturns, MessageDropsCall
    <2>3. StepsOK' BY <1>20 DEF StepsOK, CallReturns, MessageDropsCall
    <2>4. CountsOK'
      <3>1. refs' \in [Runs -> Int]
        BY <1>0, <1>20, CountFacts DEF CountsOK, CallReturns, MessageDropsCall
      <3>2. callRefs' \in [Runs -> Int]
        BY <1>0, <1>20, CountFacts DEF CountsOK, CallReturns, MessageDropsCall
      <3>3. told' \in [Runs -> Nat]
        BY <1>0, <1>20, CountFacts DEF CountsOK, CallReturns, MessageDropsCall
      <3>4. call' \in [Runs -> CallStates] /\ worker' \in [Runs -> WorkerStates] /\ crashes' \in 0..MaxCrashes
        BY <1>0, <1>20, CountFacts DEF CountsOK, CallStates, WorkerStates, CallReturns, MessageDropsCall
      <3> QED BY <3>1, <3>2, <3>3, <3>4 DEF CountsOK
    <2> QED BY <2>1, <2>2, <2>3, <2>4
  <1>21. ASSUME NEW r \in Threaded, CallFaulted(r) PROVE DataOK'
    <2>1. FlagsOK' BY <1>21 DEF FlagsOK, CallFaulted, MessageDropsCall, HoldBack
    <2>2. SetsOK' BY <1>0, <1>21 DEF SetsOK, CallFaulted, MessageDropsCall, HoldBack
    <2>3. StepsOK' BY <1>21 DEF StepsOK, CallFaulted, MessageDropsCall, HoldBack
    <2>4. CountsOK'
      <3>1. refs' \in [Runs -> Int]
        BY <1>0, <1>21, CountFacts DEF CountsOK, CallFaulted, MessageDropsCall, HoldBack
      <3>2. callRefs' \in [Runs -> Int]
        BY <1>0, <1>21, CountFacts DEF CountsOK, CallFaulted, MessageDropsCall, HoldBack
      <3>3. told' \in [Runs -> Nat]
        BY <1>0, <1>21, CountFacts DEF CountsOK, CallFaulted, MessageDropsCall, HoldBack
      <3>4. call' \in [Runs -> CallStates] /\ worker' \in [Runs -> WorkerStates] /\ crashes' \in 0..MaxCrashes
        BY <1>0, <1>21, CountFacts DEF CountsOK, CallStates, WorkerStates, CallFaulted, MessageDropsCall, HoldBack
      <3> QED BY <3>1, <3>2, <3>3, <3>4 DEF CountsOK
    <2> QED BY <2>1, <2>2, <2>3, <2>4
  <1>22. ASSUME NEW r \in Threaded, HandleDone(r) PROVE DataOK'
    <2>1. FlagsOK' BY <1>22 DEF FlagsOK, HandleDone, Finish, Leave, HoldBack
    <2>2. SetsOK' BY <1>0, <1>22 DEF SetsOK, HandleDone, Finish, Leave, HoldBack
    <2>3. StepsOK' BY <1>22 DEF StepsOK, HandleDone, Finish, Leave, HoldBack
    <2>4. CountsOK'
      <3>0. CASE r \in table /\ r \in faulted
        <4>1. /\ refs' = Minus(Minus(refs, {r}), {r} \cap table) /\ told' = Plus(told, {r})
              /\ UNCHANGED <<callRefs, call, worker, crashes>>
          BY <1>22, <3>0 DEF HandleDone, HoldBack, Leave
        <4> QED BY <4>1, CountFacts DEF CountsOK
      <3>1. CASE ~(r \in table /\ r \in faulted)
        <4>1. /\ refs' = Minus(Minus(refs, {r}), ({r} \cap table) \cap table)
              /\ told' = Plus(told, {r} \cap table)
              /\ UNCHANGED <<callRefs, call, worker, crashes>>
          BY <1>22, <3>1 DEF HandleDone, Finish, Leave
        <4> QED BY <4>1, CountFacts DEF CountsOK
      <3> QED BY <3>0, <3>1
    <2> QED BY <2>1, <2>2, <2>3, <2>4
  <1>23. ASSUME NEW r \in Timeline, NEW step \in {"do", "wait"}, BodyQueueStep(r, step) PROVE DataOK'
    <2>1. FlagsOK' BY <1>23 DEF FlagsOK, BodyQueueStep
    <2>2. SetsOK' BY <1>0, <1>23 DEF SetsOK, BodyQueueStep
    <2>3. StepsOK' BY <1>0, <1>23, StepsStep DEF BodyQueueStep
    <2>4. CountsOK' BY <1>0, <1>23 DEF CountsOK, CallStates, WorkerStates, BodyQueueStep
    <2> QED BY <2>1, <2>2, <2>3, <2>4
  <1>24. ASSUME NEW r \in Threaded, NEW fault \in BOOLEAN, WorkerLeaves(r, fault) PROVE DataOK'
    <2>1. FlagsOK' BY <1>24 DEF FlagsOK, WorkerLeaves
    <2>2. SetsOK' BY <1>0, <1>24 DEF SetsOK, WorkerLeaves
    <2>3. StepsOK' BY <1>24 DEF StepsOK, WorkerLeaves
    <2>4. CountsOK' BY <1>0, <1>24 DEF CountsOK, CallStates, WorkerStates, WorkerLeaves
    <2> QED BY <2>1, <2>2, <2>3, <2>4
  <1>33. ASSUME NEW r \in Threaded, WorkerUnwound(r) PROVE DataOK'
    <2>1. FlagsOK' BY <1>33 DEF FlagsOK, WorkerUnwound
    <2>2. SetsOK' BY <1>0, <1>33 DEF SetsOK, WorkerUnwound
    <2>3. StepsOK' BY <1>33 DEF StepsOK, WorkerUnwound
    <2>4. CountsOK'
      <3>1. refs' \in [Runs -> Int]
        <4>1. refs' = refs \/ refs' = Plus(refs, {r})
          BY <1>33 DEF WorkerUnwound
        <4> QED BY <4>1, CountFacts DEF CountsOK
      <3>2. callRefs' \in [Runs -> Int]
        BY <1>0, <1>33 DEF CountsOK, WorkerUnwound
      <3>3. call' \in [Runs -> CallStates] /\ worker' \in [Runs -> WorkerStates]
        BY <1>0, <1>33 DEF CountsOK, CallStates, WorkerStates, WorkerUnwound
      <3>4. told' \in [Runs -> Nat] /\ crashes' \in 0..MaxCrashes
        BY <1>33 DEF CountsOK, WorkerUnwound
      <3> QED BY <3>1, <3>2, <3>3, <3>4 DEF CountsOK
    <2> QED BY <2>1, <2>2, <2>3, <2>4
  <1>25. ASSUME QueueReady PROVE DataOK'
    <2>1. FlagsOK' BY <1>25 DEF FlagsOK, QueueReady
    <2>2. SetsOK' BY <1>25 DEF SetsOK, QueueReady
    <2>3. StepsOK' BY <1>25 DEF StepsOK, QueueReady
    <2>4. CountsOK' BY <1>25, CountFacts DEF CountsOK, CallStates, WorkerStates, QueueReady
    <2> QED BY <2>1, <2>2, <2>3, <2>4
  <1>26. ASSUME DrainEmpty PROVE DataOK'
    <2>1. FlagsOK' BY <1>26 DEF FlagsOK, DrainEmpty
    <2>2. SetsOK' BY <1>26 DEF SetsOK, DrainEmpty
    <2>3. StepsOK' BY <1>26 DEF StepsOK, DrainEmpty
    <2>4. CountsOK' BY <1>26, CountFacts DEF CountsOK, CallStates, WorkerStates, DrainEmpty
    <2> QED BY <2>1, <2>2, <2>3, <2>4
  <1>27. ASSUME DisplayDestroyed PROVE DataOK'
    <2>1. FlagsOK' BY <1>27 DEF FlagsOK, DisplayDestroyed, ShutDown, Leave
    <2>2. SetsOK' BY <1>27 DEF SetsOK, DisplayDestroyed, ShutDown, Leave
    <2>3. StepsOK' BY <1>27 DEF StepsOK, DisplayDestroyed, ShutDown, Leave
    <2>4. CountsOK' BY <1>27, CountFacts DEF CountsOK, CallStates, WorkerStates, DisplayDestroyed, ShutDown, Leave
    <2> QED BY <2>1, <2>2, <2>3, <2>4
  <1>28. ASSUME Finalize PROVE DataOK'
    <2>1. FlagsOK' BY <1>28 DEF FlagsOK, Finalize, ShutDown, Leave
    <2>2. SetsOK' BY <1>28 DEF SetsOK, Finalize, ShutDown, Leave
    <2>3. StepsOK' BY <1>28 DEF StepsOK, Finalize, ShutDown, Leave
    <2>4. CountsOK'
      <3>1. refs' \in [Runs -> Int]
        <4>1. refs' = refs \/ refs' = Minus(refs, table \cap table)
          BY <1>28 DEF Finalize, ShutDown, Leave
        <4> QED BY <4>1, CountFacts DEF CountsOK
      <3>2. callRefs' \in [Runs -> Int]
        BY <1>28, CountFacts DEF CountsOK, Finalize, ShutDown, Leave
      <3>3. told' \in [Runs -> Nat]
        BY <1>28, CountFacts DEF CountsOK, Finalize, ShutDown, Leave
      <3>4. call' \in [Runs -> CallStates] /\ worker' \in [Runs -> WorkerStates] /\ crashes' \in 0..MaxCrashes
        BY <1>28, CountFacts DEF CountsOK, CallStates, WorkerStates, Finalize, ShutDown, Leave
      <3> QED BY <3>1, <3>2, <3>3, <3>4 DEF CountsOK
    <2> QED BY <2>1, <2>2, <2>3, <2>4
  <1>29. ASSUME Restart PROVE DataOK'
    <2>1. FlagsOK' BY <1>29 DEF FlagsOK, Restart, Fresh
    <2>2. SetsOK' BY <1>29 DEF SetsOK, Restart, Fresh
    <2>3. StepsOK' BY <1>29, MacroRunnerAssumption DEF StepsOK, MacroRunnerAssumption, Restart, Fresh
    <2>4. CountsOK' BY <1>29, CountFacts, MacroRunnerAssumption DEF CountsOK, CallStates, WorkerStates, MacroRunnerAssumption, Restart, Fresh
    <2> QED BY <2>1, <2>2, <2>3, <2>4
  <1>30. Command => DataOK'
    BY <1>1, <1>2, <1>3, <1>4, <1>5, Zenon DEF Command
  <1>31. FrameStep => DataOK'
    BY <1>6, <1>7, <1>8, <1>10, <1>11, <1>12, <1>13, <1>18, <1>19, <1>20, <1>21, <1>22, <1>26, Zenon
       DEF FrameStep
  <1>32. ASSUME NEW r \in Threaded, WorkerStep(r) PROVE DataOK'
    BY <1>14, <1>15, <1>16, <1>17, <1>24, <1>32, <1>33, Zenon DEF WorkerStep, WorkerWaits
  <1> QED
    BY <1>9, <1>23, <1>25, <1>27, <1>28, <1>29, <1>30, <1>31, <1>32, Zenon DEF Next

-----------------------------------------------------------------------------
(* What is true of each run: whom its call waits for, and that its         *)
(* reference counts count exactly those that hold it.                      *)

Waits(r) == worker[r] \in {"asking", "waiting"}
\* The guard has unwound the worker, wherever it was.
Unwound(r) == r \in faulted /\ worker[r] \in {"leaving", "gone"}
\* A message is one holder of a call, the worker that waits another; what is left
\* went with the frames of an unwound worker, and nobody will drop it.
Carried(r) == InQueue(queue, "sync", r) \/ In(stack, "call", r)
LostRefs(r) == callRefs[r] - One(Waits(r)) - One(Carried(r))
CallOK(r) ==
  /\ call[r] \in {"pending", "executing"} => Waits(r) \/ Unwound(r)
  /\ call[r] = "abandoned" => dead \/ r \in cancelled
  /\ In(stack, "call", r) => call[r] = "executing"
  /\ InQueue(queue, "sync", r) => call[r] \in {"pending", "abandoned"}
  /\ InQueue(queue, "done", r) => worker[r] \in {"leaving", "gone"}
  /\ LostRefs(r) \in 0..2
  /\ LostRefs(r) > 0 => Unwound(r)
  /\ LostRefs(r) = 2 => ~Carried(r)
RefsOK(r) ==
  /\ r \in Timeline => worker[r] = "none" /\ callRefs[r] = 0 /\ call[r] = "none"
  /\ refs[r] = One(r \in table) + One(In(stack, "tick", r))
             + One(worker[r] = "body" \/ Waits(r) \/ InQueue(queue, "done", r))
             + One(callRefs[r] > 0)
  /\ r \notin started => worker[r] = "none" /\ r \notin table /\ (r \in Threaded => refs[r] = 0)
RunOK(r) == CallOK(r) /\ RefsOK(r)

IInv == TypeInv /\ \A r \in Runs : RunOK(r)

\* A step that leaves run d alone, or takes it out of the table with the
\* table's reference.
Same(d) ==
  /\ call'[d] = call[d] /\ callRefs'[d] = callRefs[d] /\ worker'[d] = worker[d]
  /\ refs'[d] - One(d \in table') = refs[d] - One(d \in table)
  /\ d \in table' => d \in table
  /\ d \in started => d \in started'
  /\ dead => dead'
  /\ d \in cancelled => d \in cancelled'
  /\ d \in faulted => d \in faulted'
  /\ In(stack', "call", d) <=> In(stack, "call", d)
  /\ In(stack', "tick", d) <=> In(stack, "tick", d)
  /\ InQueue(queue', "sync", d) <=> InQueue(queue, "sync", d)
  /\ InQueue(queue', "done", d) <=> InQueue(queue, "done", d)

LEMMA SameKeeps ==
  ASSUME CountsOK, CountsOK', NEW d \in Runs, RunOK(d), Same(d)
  PROVE  RunOK(d)'
  <1>1. CallOK(d)'
    BY DEF RunOK, CallOK, Same, Waits, Unwound, Carried, LostRefs, One, CountsOK
  <1>2. RefsOK(d)'
    BY DEF RunOK, RefsOK, Same, Waits, One, CountsOK
  <1> QED BY <1>1, <1>2 DEF RunOK

\* A step that touches the run r, and leaves the others alone.
LEMMA OnlyTouches ==
  ASSUME IInv, CountsOK', NEW r \in Runs, RunOK(r)', \A d \in Runs \ {r} : Same(d)
  PROVE  \A d \in Runs : RunOK(d)'
  <1> SUFFICES ASSUME NEW d \in Runs PROVE RunOK(d)'
    OBVIOUS
  <1>1. CountsOK /\ RunOK(d)
    BY DEF IInv, TypeInv, DataOK
  <1>2. CASE d = r
    BY <1>2
  <1>3. CASE d # r
    BY <1>1, <1>3, SameKeeps
  <1> QED BY <1>2, <1>3

LEMMA TouchesNone ==
  ASSUME IInv, CountsOK', \A d \in Runs : Same(d)
  PROVE  \A d \in Runs : RunOK(d)'
  BY SameKeeps DEF IInv, TypeInv, DataOK

LEMMA LeaveFacts ==
  ASSUME NEW rs, NEW count \in [Runs -> Int], Leave(rs, count), NEW d \in Runs
  PROVE  /\ refs'[d] - One(d \in table') = count[d] - One(d \in table)
         /\ d \in table' => d \in table
         /\ refs'[d] = count[d] - One(d \in rs /\ d \in table)
         /\ d \in table' <=> d \in table /\ d \notin rs
  BY DEF Leave, Minus, One

\* The steps that touch no run, or take some out of the table.
LEMMA QuietSteps ==
  ASSUME IInv, CountsOK', UNCHANGED <<call, callRefs, worker, faulted, queue>>, SameHolders,
         started \subseteq started', cancelled \subseteq cancelled', dead => dead',
         \/ UNCHANGED <<table, refs>>
         \/ \E rs : Leave(rs, refs)
  PROVE  \A d \in Runs : RunOK(d)'
  <1> SUFFICES ASSUME NEW d \in Runs PROVE Same(d)
    BY TouchesNone
  <1>1. refs'[d] - One(d \in table') = refs[d] - One(d \in table) /\ (d \in table' => d \in table)
    <2>1. refs \in [Runs -> Int]
      BY DEF IInv, TypeInv, DataOK, CountsOK
    <2> QED BY <2>1, LeaveFacts
  <1> QED BY <1>1 DEF Same, SameHolders, Holding

-----------------------------------------------------------------------------
(* The invariant, step by step.                                            *)

RestOK == StackOK /\ QueueOK /\ \A d \in Runs : RunOK(d)

LEMMA QuietIsEnough ==
  ASSUME IInv, CountsOK', StackOK', SameHolders, UNCHANGED <<call, callRefs, worker, faulted, queue>>,
         started \subseteq started', cancelled \subseteq cancelled', dead => dead',
         \/ UNCHANGED <<table, refs>>
         \/ \E rs : Leave(rs, refs)
  PROVE  RestOK'
  <1>1. \A d \in Runs : RunOK(d)'
    BY QuietSteps
  <1>2. QueueOK'
    BY DEF IInv, TypeInv, QueueOK
  <1> QED BY <1>1, <1>2 DEF RestOK

LEMMA QuietFrames ==
  ASSUME IInv, CountsOK',
         \/ \E r \in Runs : StartNoThread(r)
         \/ \E rs \in Targets : Stop(rs)
         \/ \E m \in Names : Clear(m)
         \/ \E r \in Timeline :
              \/ BodyStarted(r) \/ BodyFinished(r) \/ BodyFaulted(r) \/ TickStep(r) \/ StepDone(r)
              \/ \E step \in {"do", "wait"} : BodyQueueStep(r, step)
         \/ QueueReady \/ DrainEmpty \/ DisplayDestroyed \/ Finalize
  PROVE  RestOK'
  <1>0. StackOK
    BY DEF IInv, TypeInv
  <1> USE DEF sharedVars, workerVars, historyVars
  <1>1. ASSUME NEW r \in Runs, StartNoThread(r) PROVE RestOK'
    <2>1. stack' = Under
      BY <1>1 DEF StartNoThread
    <2>2. StackOK' /\ SameHolders
      BY <1>0, <2>1, UnderKept
    <2>3. /\ UNCHANGED <<call, callRefs, worker, faulted, queue>>
          /\ started \subseteq started' /\ cancelled \subseteq cancelled' /\ (dead => dead')
      BY <1>1 DEF StartNoThread
    <2>4. UNCHANGED <<table, refs>> \/ \E rs : Leave(rs, refs)
      BY <1>1 DEF StartNoThread
    <2> QED BY <2>1, <2>2, <2>3, <2>4, QuietIsEnough
  <1>2. ASSUME NEW rs \in Targets, Stop(rs) PROVE RestOK'
    <2>1. stack' = Under
      BY <1>2 DEF Stop
    <2>2. StackOK' /\ SameHolders
      BY <1>0, <2>1, UnderKept
    <2>3. /\ UNCHANGED <<call, callRefs, worker, faulted, queue>>
          /\ started \subseteq started' /\ cancelled \subseteq cancelled' /\ (dead => dead')
      BY <1>2 DEF Stop, Finish
    <2>4. UNCHANGED <<table, refs>> \/ \E gone : Leave(gone, refs)
      BY <1>2 DEF Stop, Finish
    <2> QED BY <2>1, <2>2, <2>3, <2>4, QuietIsEnough
  <1>3. ASSUME NEW m \in Names, Clear(m) PROVE RestOK'
    <2>1. stack' = Under
      BY <1>3 DEF Clear
    <2>2. StackOK' /\ SameHolders
      BY <1>0, <2>1, UnderKept
    <2>3. /\ UNCHANGED <<call, callRefs, worker, faulted, queue>>
          /\ started \subseteq started' /\ cancelled \subseteq cancelled' /\ (dead => dead')
      BY <1>3 DEF Clear
    <2>4. UNCHANGED <<table, refs>> \/ \E rs : Leave(rs, refs)
      BY <1>3 DEF Clear
    <2> QED BY <2>1, <2>2, <2>3, <2>4, QuietIsEnough
  <1>4. ASSUME NEW r \in Timeline, BodyStarted(r) PROVE RestOK'
    <2>1. stack # <<>> /\ stack' = Tail(stack) /\ Top.kind \notin Holding
      BY <1>4 DEF BodyStarted, On, Frame, Holding
    <2>2. StackOK' /\ SameHolders
      BY <1>0, <2>1, Popped
    <2>3. /\ UNCHANGED <<call, callRefs, worker, faulted, queue>>
          /\ started \subseteq started' /\ cancelled \subseteq cancelled' /\ (dead => dead')
      BY <1>4 DEF BodyStarted
    <2>4. UNCHANGED <<table, refs>> \/ \E rs : Leave(rs, refs)
      BY <1>4 DEF BodyStarted
    <2> QED BY <2>1, <2>2, <2>3, <2>4, QuietIsEnough
  <1>5. ASSUME NEW r \in Timeline, BodyFinished(r) PROVE RestOK'
    <2>1. stack # <<>> /\ stack' = Tail(stack) /\ Top.kind \notin Holding
      BY <1>5 DEF BodyFinished, On, Frame, Holding
    <2>2. StackOK' /\ SameHolders
      BY <1>0, <2>1, Popped
    <2>3. /\ UNCHANGED <<call, callRefs, worker, faulted, queue>>
          /\ started \subseteq started' /\ cancelled \subseteq cancelled' /\ (dead => dead')
      BY <1>5 DEF BodyFinished, Finish
    <2>4. UNCHANGED <<table, refs>> \/ \E rs : Leave(rs, refs)
      BY <1>5 DEF BodyFinished, Finish
    <2> QED BY <2>1, <2>2, <2>3, <2>4, QuietIsEnough
  <1>6. ASSUME NEW r \in Timeline, BodyFaulted(r) PROVE RestOK'
    <2>1. FaultLandsIn(Frame("body", r))
      BY <1>6 DEF BodyFaulted
    <2>2. StackOK' /\ SameHolders
      BY <1>0, <2>1, Faulted DEF SameHolders, Holding
    <2>3. /\ UNCHANGED <<call, callRefs, worker, faulted, queue>>
          /\ started \subseteq started' /\ cancelled \subseteq cancelled' /\ (dead => dead')
      BY <1>6 DEF BodyFaulted, HoldBack
    <2>4. UNCHANGED <<table, refs>> \/ \E rs : Leave(rs, refs)
      BY <1>6 DEF BodyFaulted, HoldBack
    <2> QED BY <2>1, <2>2, <2>3, <2>4, QuietIsEnough
  <1>7. ASSUME NEW r \in Timeline, TickStep(r) PROVE RestOK'
    <2>1. stack # <<>> /\ Top = Frame("tick", r) /\ stack' = <<Frame("step", r)>> \o stack
      BY <1>7 DEF TickStep, On
    <2>2. StackOK' /\ SameHolders
      BY <1>0, <2>1, PushedOnOne DEF SameHolders, Holding
    <2>3. /\ UNCHANGED <<call, callRefs, worker, faulted, queue>>
          /\ started \subseteq started' /\ cancelled \subseteq cancelled' /\ (dead => dead')
      BY <1>7 DEF TickStep
    <2>4. UNCHANGED <<table, refs>> \/ \E rs : Leave(rs, refs)
      BY <1>7 DEF TickStep
    <2> QED BY <2>1, <2>2, <2>3, <2>4, QuietIsEnough
  <1>8. ASSUME NEW r \in Timeline, StepDone(r) PROVE RestOK'
    <2>1. stack # <<>> /\ stack' = Tail(stack) /\ Top.kind \notin Holding
      BY <1>8 DEF StepDone, On, Frame, Holding
    <2>2. StackOK' /\ SameHolders
      BY <1>0, <2>1, Popped
    <2>3. /\ UNCHANGED <<call, callRefs, worker, faulted, queue>>
          /\ started \subseteq started' /\ cancelled \subseteq cancelled' /\ (dead => dead')
      BY <1>8 DEF StepDone
    <2>4. UNCHANGED <<table, refs>> \/ \E rs : Leave(rs, refs)
      BY <1>8 DEF StepDone
    <2> QED BY <2>1, <2>2, <2>3, <2>4, QuietIsEnough
  <1>9. ASSUME NEW r \in Timeline, NEW step \in {"do", "wait"}, BodyQueueStep(r, step) PROVE RestOK'
    <2>1. StackOK' /\ SameHolders
      BY <1>0, <1>9, StackKept DEF BodyQueueStep
    <2>2. /\ UNCHANGED <<call, callRefs, worker, faulted, queue>>
          /\ started \subseteq started' /\ cancelled \subseteq cancelled' /\ (dead => dead')
      BY <1>9 DEF BodyQueueStep
    <2>3. UNCHANGED <<table, refs>> \/ \E rs : Leave(rs, refs)
      BY <1>9 DEF BodyQueueStep
    <2> QED BY <2>1, <2>2, <2>3, QuietIsEnough
  <1>10. ASSUME QueueReady PROVE RestOK'
    <2>1. stack = <<>> /\ stack' = <<Frame("drain", NoRun)>>
      BY <1>10 DEF QueueReady
    <2>2. StackOK' /\ SameHolders
      BY <1>0, <2>1, PushedOnEmpty DEF SameHolders, Holding
    <2>3. /\ UNCHANGED <<call, callRefs, worker, faulted, queue>>
          /\ started \subseteq started' /\ cancelled \subseteq cancelled' /\ (dead => dead')
      BY <1>10 DEF QueueReady
    <2>4. UNCHANGED <<table, refs>> \/ \E rs : Leave(rs, refs)
      BY <1>10 DEF QueueReady
    <2> QED BY <2>1, <2>2, <2>3, <2>4, QuietIsEnough
  <1>11. ASSUME DrainEmpty PROVE RestOK'
    <2>1. stack # <<>> /\ stack' = Tail(stack) /\ Top.kind \notin Holding
      BY <1>11 DEF DrainEmpty, Draining, Holding
    <2>2. StackOK' /\ SameHolders
      BY <1>0, <2>1, Popped
    <2>3. /\ UNCHANGED <<call, callRefs, worker, faulted, queue>>
          /\ started \subseteq started' /\ cancelled \subseteq cancelled' /\ (dead => dead')
      BY <1>11 DEF DrainEmpty
    <2>4. UNCHANGED <<table, refs>> \/ \E rs : Leave(rs, refs)
      BY <1>11 DEF DrainEmpty
    <2> QED BY <2>1, <2>2, <2>3, <2>4, QuietIsEnough
  <1>12. ASSUME DisplayDestroyed PROVE RestOK'
    <2>1. StackOK' /\ SameHolders
      BY <1>0, <1>12, StackKept DEF DisplayDestroyed
    <2>2. /\ UNCHANGED <<call, callRefs, worker, faulted, queue>>
          /\ started \subseteq started' /\ cancelled \subseteq cancelled' /\ (dead => dead')
      BY <1>12 DEF DisplayDestroyed, ShutDown
    <2>3. UNCHANGED <<table, refs>> \/ \E rs : Leave(rs, refs)
      BY <1>12 DEF DisplayDestroyed, ShutDown
    <2> QED BY <2>1, <2>2, <2>3, QuietIsEnough
  <1>13. ASSUME Finalize PROVE RestOK'
    <2>1. StackOK' /\ SameHolders
      BY <1>0, <1>13, StackKept DEF Finalize
    <2>2. /\ UNCHANGED <<call, callRefs, worker, faulted, queue>>
          /\ started \subseteq started' /\ cancelled \subseteq cancelled' /\ (dead => dead')
      BY <1>13 DEF Finalize, ShutDown
    <2>3. UNCHANGED <<table, refs>> \/ \E rs : Leave(rs, refs)
      BY <1>13 DEF Finalize, ShutDown
    <2> QED BY <2>1, <2>2, <2>3, QuietIsEnough
  <1> QED BY <1>1, <1>2, <1>3, <1>4, <1>5, <1>6, <1>7, <1>8, <1>9, <1>10, <1>11, <1>12, <1>13, Zenon

LEMMA StartTimelineStep ==
  ASSUME IInv, CountsOK', NEW r \in Runs, StartTimeline(r)
  PROVE  RestOK'
  <1>0. StackOK /\ QueueOK /\ CountsOK /\ r \in Runs /\ RunOK(r)
    BY MacroRunnerAssumption DEF IInv, TypeInv, DataOK, Timeline, MacroRunnerAssumption
  <1> USE DEF runnerVars, sharedVars, workerVars, journalVars, historyVars
  <1>1. r \in Timeline /\ stack' = <<Frame("body", r)>> \o Under
    BY DEF StartTimeline
  <1>2. StackOK' /\ SameHolders
    BY <1>0, <1>1, BodyPushed
  <1>3. /\ In(stack', "call", r) <=> In(stack, "call", r)
        /\ In(stack', "tick", r) <=> In(stack, "tick", r)
        /\ InQueue(queue', "sync", r) <=> InQueue(queue, "sync", r)
        /\ InQueue(queue', "done", r) <=> InQueue(queue, "done", r)
    BY <1>0, <1>1, <1>2 DEF StartTimeline, SameHolders, Holding
  <1>4. \A d \in Runs \ {r} :
          /\ In(stack', "call", d) <=> In(stack, "call", d)
          /\ In(stack', "tick", d) <=> In(stack, "tick", d)
          /\ InQueue(queue', "sync", d) <=> InQueue(queue, "sync", d)
          /\ InQueue(queue', "done", d) <=> InQueue(queue, "done", d)
    BY <1>0, <1>1, <1>2 DEF StartTimeline, SameHolders, Holding
  <1>5. /\ worker'[r] = worker[r] /\ call'[r] = call[r]
        /\ callRefs'[r] = callRefs[r]
        /\ refs'[r] = refs[r] + 1
        /\ r \in Timeline /\ r \notin started /\ r \in table' /\ r \in started'
        /\ (r \in cancelled => r \in cancelled') /\ (dead => dead')
        /\ (r \in faulted => r \in faulted')
    BY <1>0 DEF CountsOK, MayStart, Timeline, StartTimeline, Plus, Minus, One, Waits
  <1>6. RunOK(r)'
    <2>1. CallOK(r)'
      BY <1>0, <1>3, <1>5 DEF RunOK, CallOK, RefsOK, Waits, Unwound, Carried, LostRefs, One, CountsOK
    <2>2. RefsOK(r)'
      BY <1>0, <1>3, <1>5 DEF RunOK, CallOK, RefsOK, Waits, Unwound, Carried, LostRefs, One, CountsOK
    <2> QED BY <2>1, <2>2 DEF RunOK
  <1>7. \A d \in Runs \ {r} : Same(d)
    BY <1>0, <1>4 DEF StartTimeline, Plus, Minus, Same, One, CountsOK
  <1>8. StackOK' /\ QueueOK'
    BY <1>0, <1>1, <1>2 DEF StartTimeline, QueueOK
  <1> QED BY <1>0, <1>6, <1>7, <1>8, OnlyTouches DEF RestOK

LEMMA StartThreadedStep ==
  ASSUME IInv, CountsOK', NEW r \in Runs, StartThreaded(r)
  PROVE  RestOK'
  <1>0. StackOK /\ QueueOK /\ CountsOK /\ r \in Runs /\ RunOK(r)
    BY MacroRunnerAssumption DEF IInv, TypeInv, DataOK, Timeline, MacroRunnerAssumption
  <1> USE DEF runnerVars, sharedVars, workerVars, journalVars, historyVars
  <1>1. stack' = Under
    BY DEF StartThreaded
  <1>2. StackOK' /\ SameHolders
    BY <1>0, <1>1, UnderKept
  <1>3. /\ In(stack', "call", r) <=> In(stack, "call", r)
        /\ In(stack', "tick", r) <=> In(stack, "tick", r)
        /\ InQueue(queue', "sync", r) <=> InQueue(queue, "sync", r)
        /\ InQueue(queue', "done", r) <=> InQueue(queue, "done", r)
    BY <1>0, <1>1, <1>2 DEF StartThreaded, SameHolders, Holding
  <1>4. \A d \in Runs \ {r} :
          /\ In(stack', "call", d) <=> In(stack, "call", d)
          /\ In(stack', "tick", d) <=> In(stack, "tick", d)
          /\ InQueue(queue', "sync", d) <=> InQueue(queue, "sync", d)
          /\ InQueue(queue', "done", d) <=> InQueue(queue, "done", d)
    BY <1>0, <1>1, <1>2 DEF StartThreaded, SameHolders, Holding
  <1>5. /\ worker'[r] = "body" /\ call'[r] = call[r]
        /\ callRefs'[r] = callRefs[r]
        /\ refs'[r] = 2
        /\ r \in Threaded /\ r \notin Timeline /\ r \notin started /\ r \in table' /\ r \in started'
        /\ (r \in cancelled => r \in cancelled') /\ (dead => dead')
        /\ (r \in faulted => r \in faulted')
    BY <1>0 DEF CountsOK, MayStart, Timeline, StartThreaded, Plus, Minus, One, Waits
  <1>6. RunOK(r)'
    <2>1. CallOK(r)'
      BY <1>0, <1>3, <1>5 DEF RunOK, CallOK, RefsOK, Waits, Unwound, Carried, LostRefs, One, CountsOK
    <2>2. RefsOK(r)'
      BY <1>0, <1>3, <1>5 DEF RunOK, CallOK, RefsOK, Waits, Unwound, Carried, LostRefs, One, CountsOK
    <2> QED BY <2>1, <2>2 DEF RunOK
  <1>7. \A d \in Runs \ {r} : Same(d)
    BY <1>0, <1>4 DEF StartThreaded, Plus, Minus, Same, One, CountsOK
  <1>8. StackOK' /\ QueueOK'
    BY <1>0, <1>1, <1>2 DEF StartThreaded, QueueOK
  <1> QED BY <1>0, <1>6, <1>7, <1>8, OnlyTouches DEF RestOK

LEMMA TimelineTickStep ==
  ASSUME IInv, CountsOK', NEW r \in Timeline, TimelineTick(r)
  PROVE  RestOK'
  <1>0. StackOK /\ QueueOK /\ CountsOK /\ r \in Runs /\ RunOK(r)
    BY MacroRunnerAssumption DEF IInv, TypeInv, DataOK, Timeline, MacroRunnerAssumption
  <1> USE DEF runnerVars, sharedVars, workerVars, journalVars, historyVars
  <1>1. stack = <<>> /\ stack' = <<Frame("tick", r)>>
    BY DEF TimelineTick
  <1>2. /\ StackOK' /\ \A k, d : ~In(stack, k, d)
        /\ \A k, d : In(stack', k, d) <=> k = "tick" /\ d = r
    BY <1>0, <1>1, PushedOnEmpty
  <1>3. /\ ~In(stack, "call", r) /\ ~In(stack', "call", r)
        /\ ~In(stack, "tick", r) /\ In(stack', "tick", r)
        /\ InQueue(queue', "sync", r) <=> InQueue(queue, "sync", r)
        /\ InQueue(queue', "done", r) <=> InQueue(queue, "done", r)
    BY <1>0, <1>1, <1>2 DEF TimelineTick, SameHolders, Holding
  <1>4. \A d \in Runs \ {r} :
          /\ In(stack', "call", d) <=> In(stack, "call", d)
          /\ In(stack', "tick", d) <=> In(stack, "tick", d)
          /\ InQueue(queue', "sync", d) <=> InQueue(queue, "sync", d)
          /\ InQueue(queue', "done", d) <=> InQueue(queue, "done", d)
    BY <1>0, <1>1, <1>2 DEF TimelineTick, SameHolders, Holding
  <1>5. /\ r \in Timeline /\ r \notin Threaded
        /\ worker'[r] = worker[r] /\ call'[r] = call[r]
        /\ callRefs'[r] = callRefs[r]
        /\ refs'[r] = refs[r] + 1
        /\ (r \in table' <=> r \in table) /\ (r \in started => r \in started')
        /\ (r \in cancelled => r \in cancelled') /\ (dead => dead')
        /\ (r \in faulted => r \in faulted')
    BY <1>0 DEF CountsOK, MayStart, Timeline, TimelineTick, Plus, Minus, One, Waits
  <1>6. RunOK(r)'
    <2>1. CallOK(r)'
      BY <1>0, <1>3, <1>5 DEF RunOK, CallOK, RefsOK, Waits, Unwound, Carried, LostRefs, One, CountsOK
    <2>2. RefsOK(r)'
      BY <1>0, <1>3, <1>5 DEF RunOK, CallOK, RefsOK, Waits, Unwound, Carried, LostRefs, One, CountsOK
    <2> QED BY <2>1, <2>2 DEF RunOK
  <1>7. \A d \in Runs \ {r} : Same(d)
    BY <1>0, <1>4 DEF TimelineTick, Plus, Minus, Same, One, CountsOK
  <1>8. StackOK' /\ QueueOK'
    BY <1>0, <1>1, <1>2 DEF TimelineTick, QueueOK
  <1> QED BY <1>0, <1>6, <1>7, <1>8, OnlyTouches DEF RestOK

LEMMA TickWaitStep ==
  ASSUME IInv, CountsOK', NEW r \in Timeline, TickWait(r)
  PROVE  RestOK'
  <1>0. StackOK /\ QueueOK /\ CountsOK /\ r \in Runs /\ RunOK(r)
    BY MacroRunnerAssumption DEF IInv, TypeInv, DataOK, Timeline, MacroRunnerAssumption
  <1> USE DEF runnerVars, sharedVars, workerVars, journalVars, historyVars
  <1>1. stack # <<>> /\ Top.kind = "tick" /\ Top.run = r /\ stack' = Tail(stack)
    BY DEF TickWait, On, Frame
  <1>2. /\ StackOK' /\ \A k, d : ~In(stack', k, d)
        /\ \A k, d : In(stack, k, d) <=> k = "tick" /\ d = r
    BY <1>0, <1>1, Popped
  <1>3. /\ ~In(stack, "call", r) /\ ~In(stack', "call", r)
        /\ In(stack, "tick", r) /\ ~In(stack', "tick", r)
        /\ InQueue(queue', "sync", r) <=> InQueue(queue, "sync", r)
        /\ InQueue(queue', "done", r) <=> InQueue(queue, "done", r)
    BY <1>0, <1>1, <1>2 DEF TickWait, SameHolders, Holding
  <1>4. \A d \in Runs \ {r} :
          /\ In(stack', "call", d) <=> In(stack, "call", d)
          /\ In(stack', "tick", d) <=> In(stack, "tick", d)
          /\ InQueue(queue', "sync", d) <=> InQueue(queue, "sync", d)
          /\ InQueue(queue', "done", d) <=> InQueue(queue, "done", d)
    BY <1>0, <1>1, <1>2 DEF TickWait, SameHolders, Holding
  <1>5. /\ worker'[r] = worker[r] /\ call'[r] = call[r]
        /\ callRefs'[r] = callRefs[r]
        /\ refs'[r] = refs[r] - 1
        /\ (r \in table' <=> r \in table) /\ (r \in started => r \in started')
        /\ (r \in cancelled => r \in cancelled') /\ (dead => dead')
        /\ (r \in faulted => r \in faulted')
    BY <1>0 DEF CountsOK, MayStart, Timeline, TickWait, Plus, Minus, One, Waits
  <1>6. RunOK(r)'
    <2>1. CallOK(r)'
      BY <1>0, <1>3, <1>5 DEF RunOK, CallOK, RefsOK, Waits, Unwound, Carried, LostRefs, One, CountsOK
    <2>2. RefsOK(r)'
      BY <1>0, <1>3, <1>5 DEF RunOK, CallOK, RefsOK, Waits, Unwound, Carried, LostRefs, One, CountsOK
    <2> QED BY <2>1, <2>2 DEF RunOK
  <1>7. \A d \in Runs \ {r} : Same(d)
    BY <1>0, <1>4 DEF TickWait, Plus, Minus, Same, One, CountsOK
  <1>8. StackOK' /\ QueueOK'
    BY <1>0, <1>1, <1>2 DEF TickWait, QueueOK
  <1> QED BY <1>0, <1>6, <1>7, <1>8, OnlyTouches DEF RestOK

LEMMA TickFinishedStep ==
  ASSUME IInv, CountsOK', NEW r \in Timeline, TickFinished(r)
  PROVE  RestOK'
  <1>0. StackOK /\ QueueOK /\ CountsOK /\ r \in Runs /\ RunOK(r)
    BY MacroRunnerAssumption DEF IInv, TypeInv, DataOK, Timeline, MacroRunnerAssumption
  <1> USE DEF runnerVars, sharedVars, workerVars, journalVars, historyVars
  <1>1. stack # <<>> /\ Top.kind = "tick" /\ Top.run = r /\ stack' = Tail(stack)
    BY DEF TickFinished, On, Frame
  <1>2. /\ StackOK' /\ \A k, d : ~In(stack', k, d)
        /\ \A k, d : In(stack, k, d) <=> k = "tick" /\ d = r
    BY <1>0, <1>1, Popped
  <1>3. /\ ~In(stack, "call", r) /\ ~In(stack', "call", r)
        /\ In(stack, "tick", r) /\ ~In(stack', "tick", r)
        /\ InQueue(queue', "sync", r) <=> InQueue(queue, "sync", r)
        /\ InQueue(queue', "done", r) <=> InQueue(queue, "done", r)
    BY <1>0, <1>1, <1>2 DEF TickFinished, SameHolders, Holding
  <1>4. \A d \in Runs \ {r} :
          /\ In(stack', "call", d) <=> In(stack, "call", d)
          /\ In(stack', "tick", d) <=> In(stack, "tick", d)
          /\ InQueue(queue', "sync", d) <=> InQueue(queue, "sync", d)
          /\ InQueue(queue', "done", d) <=> InQueue(queue, "done", d)
    BY <1>0, <1>1, <1>2 DEF TickFinished, SameHolders, Holding
  <1>5. /\ worker'[r] = worker[r] /\ call'[r] = call[r]
        /\ callRefs'[r] = callRefs[r]
        /\ refs'[r] = refs[r] - 1 - One(r \in table)
        /\ r \notin table' /\ (r \in started => r \in started')
        /\ (r \in cancelled => r \in cancelled') /\ (dead => dead')
        /\ (r \in faulted => r \in faulted')
    BY <1>0 DEF CountsOK, MayStart, Timeline, TickFinished, Finish, Leave, Plus, Minus, One, Waits
  <1>6. RunOK(r)'
    <2>1. CallOK(r)'
      BY <1>0, <1>3, <1>5 DEF RunOK, CallOK, RefsOK, Waits, Unwound, Carried, LostRefs, One, CountsOK
    <2>2. RefsOK(r)'
      BY <1>0, <1>3, <1>5 DEF RunOK, CallOK, RefsOK, Waits, Unwound, Carried, LostRefs, One, CountsOK
    <2> QED BY <2>1, <2>2 DEF RunOK
  <1>7. \A d \in Runs \ {r} : Same(d)
    BY <1>0, <1>4 DEF TickFinished, Finish, Leave, Plus, Minus, Same, One, CountsOK
  <1>8. StackOK' /\ QueueOK'
    BY <1>0, <1>1, <1>2 DEF TickFinished, QueueOK
  <1> QED BY <1>0, <1>6, <1>7, <1>8, OnlyTouches DEF RestOK

LEMMA WorkerAsksStep ==
  ASSUME IInv, CountsOK', NEW r \in Threaded, WorkerAsks(r)
  PROVE  RestOK'
  <1>0. StackOK /\ QueueOK /\ CountsOK /\ r \in Runs /\ RunOK(r)
    BY MacroRunnerAssumption DEF IInv, TypeInv, DataOK, Timeline, MacroRunnerAssumption
  <1> USE DEF runnerVars, sharedVars, workerVars, journalVars, historyVars
  <1>1. StackOK' /\ SameHolders
    BY <1>0, StackKept DEF WorkerAsks
  <1>2. ~InQueue(queue, "sync", r)
    BY <1>0 DEF WorkerAsks, RunOK, CallOK, Waits, Unwound
  <1>3. /\ QueueOK'
        /\ \A k, d : InQueue(queue', k, d) <=> InQueue(queue, k, d) \/ (k = "sync" /\ d = r)
    BY <1>0, <1>2, Appended DEF WorkerAsks
  <1>4. /\ In(stack', "call", r) <=> In(stack, "call", r)
        /\ In(stack', "tick", r) <=> In(stack, "tick", r)
        /\ ~InQueue(queue, "sync", r) /\ InQueue(queue', "sync", r)
        /\ InQueue(queue', "done", r) <=> InQueue(queue, "done", r)
    BY <1>0, <1>1, <1>2, <1>3 DEF WorkerAsks, SameHolders, Holding
  <1>5. \A d \in Runs \ {r} :
          /\ In(stack', "call", d) <=> In(stack, "call", d)
          /\ In(stack', "tick", d) <=> In(stack, "tick", d)
          /\ InQueue(queue', "sync", d) <=> InQueue(queue, "sync", d)
          /\ InQueue(queue', "done", d) <=> InQueue(queue, "done", d)
    BY <1>0, <1>1, <1>2, <1>3 DEF WorkerAsks, SameHolders, Holding
  <1>6. /\ r \notin Timeline /\ worker[r] = "body" /\ ~dead /\ r \notin cancelled
        /\ worker'[r] = "asking" /\ call'[r] = "pending"
        /\ callRefs'[r] = 2
        /\ refs'[r] = refs[r] + 1
        /\ (r \in table' <=> r \in table) /\ (r \in started => r \in started')
        /\ (r \in cancelled => r \in cancelled') /\ (dead => dead')
        /\ (r \in faulted => r \in faulted')
    BY <1>0 DEF CountsOK, MayStart, Timeline, WorkerAsks, Plus, Minus, One, Waits
  <1>7. RunOK(r)'
    <2>1. CallOK(r)'
      BY <1>0, <1>4, <1>6 DEF RunOK, CallOK, RefsOK, Waits, Unwound, Carried, LostRefs, One, CountsOK
    <2>2. RefsOK(r)'
      BY <1>0, <1>4, <1>6 DEF RunOK, CallOK, RefsOK, Waits, Unwound, Carried, LostRefs, One, CountsOK
    <2> QED BY <2>1, <2>2 DEF RunOK
  <1>8. \A d \in Runs \ {r} : Same(d)
    <2>1. UNCHANGED <<dead, table, started, cancelled, faulted>>
      BY DEF WorkerAsks
    <2>2. \A d \in Runs \ {r} :
            /\ call'[d] = call[d] /\ callRefs'[d] = callRefs[d]
            /\ worker'[d] = worker[d] /\ refs'[d] = refs[d]
      BY <1>0 DEF WorkerAsks, Plus, CountsOK
    <2> QED BY <1>5, <2>1, <2>2 DEF Same
  <1>9. StackOK' /\ QueueOK'
    BY <1>0, <1>1, <1>2, <1>3 DEF WorkerAsks, QueueOK
  <1> QED BY <1>0, <1>7, <1>8, <1>9, OnlyTouches DEF RestOK

LEMMA WorkerPokesStep ==
  ASSUME IInv, CountsOK', NEW r \in Threaded, WorkerPokes(r)
  PROVE  RestOK'
  <1>0. StackOK /\ QueueOK /\ CountsOK /\ r \in Runs /\ RunOK(r)
    BY MacroRunnerAssumption DEF IInv, TypeInv, DataOK, Timeline, MacroRunnerAssumption
  <1> USE DEF runnerVars, sharedVars, workerVars, journalVars, historyVars
  <1>1. StackOK' /\ SameHolders
    BY <1>0, StackKept DEF WorkerPokes
  <1>2. /\ In(stack', "call", r) <=> In(stack, "call", r)
        /\ In(stack', "tick", r) <=> In(stack, "tick", r)
        /\ InQueue(queue', "sync", r) <=> InQueue(queue, "sync", r)
        /\ InQueue(queue', "done", r) <=> InQueue(queue, "done", r)
    BY <1>0, <1>1 DEF WorkerPokes, SameHolders, Holding
  <1>3. \A d \in Runs \ {r} :
          /\ In(stack', "call", d) <=> In(stack, "call", d)
          /\ In(stack', "tick", d) <=> In(stack, "tick", d)
          /\ InQueue(queue', "sync", d) <=> InQueue(queue, "sync", d)
          /\ InQueue(queue', "done", d) <=> InQueue(queue, "done", d)
    BY <1>0, <1>1 DEF WorkerPokes, SameHolders, Holding
  <1>4. /\ \/ worker[r] = "asking" /\ worker'[r] = "waiting"
           \/ worker[r] = "leaving" /\ worker'[r] = "gone"
        /\ call'[r] = call[r] /\ r \notin Timeline
        /\ callRefs'[r] = callRefs[r]
        /\ refs'[r] = refs[r]
        /\ (r \in table' <=> r \in table) /\ (r \in started => r \in started')
        /\ (r \in cancelled => r \in cancelled') /\ (dead => dead')
        /\ (r \in faulted => r \in faulted')
    BY <1>0 DEF CountsOK, MayStart, Timeline, WorkerPokes, Plus, Minus, One, Waits
  <1>5. RunOK(r)'
    <2>1. CallOK(r)'
      BY <1>0, <1>2, <1>4 DEF RunOK, CallOK, RefsOK, Waits, Unwound, Carried, LostRefs, One, CountsOK
    <2>2. RefsOK(r)'
      BY <1>0, <1>2, <1>4 DEF RunOK, CallOK, RefsOK, Waits, Unwound, Carried, LostRefs, One, CountsOK
    <2> QED BY <2>1, <2>2 DEF RunOK
  <1>6. \A d \in Runs \ {r} : Same(d)
    BY <1>0, <1>3 DEF WorkerPokes, Plus, Minus, Same, One, CountsOK
  <1>7. StackOK' /\ QueueOK'
    BY <1>0, <1>1 DEF WorkerPokes, QueueOK
  <1> QED BY <1>0, <1>5, <1>6, <1>7, OnlyTouches DEF RestOK

LEMMA WorkerAnsweredStep ==
  ASSUME IInv, CountsOK', NEW r \in Threaded, WorkerAnswered(r)
  PROVE  RestOK'
  <1>0. StackOK /\ QueueOK /\ CountsOK /\ r \in Runs /\ RunOK(r)
    BY MacroRunnerAssumption DEF IInv, TypeInv, DataOK, Timeline, MacroRunnerAssumption
  <1> USE DEF runnerVars, sharedVars, workerVars, journalVars, historyVars
  <1>1. StackOK' /\ SameHolders
    BY <1>0, StackKept DEF WorkerAnswered
  <1>2. /\ In(stack', "call", r) <=> In(stack, "call", r)
        /\ In(stack', "tick", r) <=> In(stack, "tick", r)
        /\ InQueue(queue', "sync", r) <=> InQueue(queue, "sync", r)
        /\ InQueue(queue', "done", r) <=> InQueue(queue, "done", r)
    BY <1>0, <1>1 DEF WorkerAnswered, SameHolders, Holding
  <1>3. \A d \in Runs \ {r} :
          /\ In(stack', "call", d) <=> In(stack, "call", d)
          /\ In(stack', "tick", d) <=> In(stack, "tick", d)
          /\ InQueue(queue', "sync", d) <=> InQueue(queue, "sync", d)
          /\ InQueue(queue', "done", d) <=> InQueue(queue, "done", d)
    BY <1>0, <1>1 DEF WorkerAnswered, SameHolders, Holding
  <1>4. /\ r \notin Timeline /\ worker[r] = "waiting" /\ call[r] \in {"done", "abandoned"}
        /\ worker'[r] = "body" /\ call'[r] = call[r]
        /\ callRefs'[r] = callRefs[r] - 1
        /\ \/ callRefs[r] = 1 /\ refs'[r] = refs[r] - 1
           \/ callRefs[r] # 1 /\ refs'[r] = refs[r]
        /\ (r \in table' <=> r \in table) /\ (r \in started => r \in started')
        /\ (r \in cancelled => r \in cancelled') /\ (dead => dead')
        /\ (r \in faulted => r \in faulted')
    BY <1>0 DEF CountsOK, MayStart, Timeline, WorkerAnswered, WorkerDropsCall, Plus, Minus, One, Waits
  <1>5. RunOK(r)'
    <2>1. CallOK(r)'
      BY <1>0, <1>2, <1>4 DEF RunOK, CallOK, RefsOK, Waits, Unwound, Carried, LostRefs, One, CountsOK
    <2>2. RefsOK(r)'
      BY <1>0, <1>2, <1>4 DEF RunOK, CallOK, RefsOK, Waits, Unwound, Carried, LostRefs, One, CountsOK
    <2> QED BY <2>1, <2>2 DEF RunOK
  <1>6. \A d \in Runs \ {r} : Same(d)
    BY <1>0, <1>3 DEF WorkerAnswered, WorkerDropsCall, Plus, Minus, Same, One, CountsOK
  <1>7. StackOK' /\ QueueOK'
    BY <1>0, <1>1 DEF WorkerAnswered, QueueOK
  <1> QED BY <1>0, <1>5, <1>6, <1>7, OnlyTouches DEF RestOK

LEMMA WorkerAbandonsStep ==
  ASSUME IInv, CountsOK', NEW r \in Threaded, WorkerAbandons(r)
  PROVE  RestOK'
  <1>0. StackOK /\ QueueOK /\ CountsOK /\ r \in Runs /\ RunOK(r)
    BY MacroRunnerAssumption DEF IInv, TypeInv, DataOK, Timeline, MacroRunnerAssumption
  <1> USE DEF runnerVars, sharedVars, workerVars, journalVars, historyVars
  <1>1. StackOK' /\ SameHolders
    BY <1>0, StackKept DEF WorkerAbandons
  <1>2. /\ In(stack', "call", r) <=> In(stack, "call", r)
        /\ In(stack', "tick", r) <=> In(stack, "tick", r)
        /\ InQueue(queue', "sync", r) <=> InQueue(queue, "sync", r)
        /\ InQueue(queue', "done", r) <=> InQueue(queue, "done", r)
    BY <1>0, <1>1 DEF WorkerAbandons, SameHolders, Holding
  <1>3. \A d \in Runs \ {r} :
          /\ In(stack', "call", d) <=> In(stack, "call", d)
          /\ In(stack', "tick", d) <=> In(stack, "tick", d)
          /\ InQueue(queue', "sync", d) <=> InQueue(queue, "sync", d)
          /\ InQueue(queue', "done", d) <=> InQueue(queue, "done", d)
    BY <1>0, <1>1 DEF WorkerAbandons, SameHolders, Holding
  <1>4. /\ r \notin Timeline /\ worker[r] = "waiting" /\ call[r] = "pending"
        /\ dead \/ r \in cancelled
        /\ worker'[r] = "body" /\ call'[r] = "abandoned"
        /\ callRefs'[r] = callRefs[r] - 1
        /\ \/ callRefs[r] = 1 /\ refs'[r] = refs[r] - 1
           \/ callRefs[r] # 1 /\ refs'[r] = refs[r]
        /\ (r \in table' <=> r \in table) /\ (r \in started => r \in started')
        /\ (r \in cancelled => r \in cancelled') /\ (dead => dead')
        /\ (r \in faulted => r \in faulted')
    BY <1>0 DEF CountsOK, MayStart, Timeline, WorkerAbandons, WorkerDropsCall, Plus, Minus, One, Waits
  <1>5. RunOK(r)'
    <2>1. CallOK(r)'
      BY <1>0, <1>2, <1>4 DEF RunOK, CallOK, RefsOK, Waits, Unwound, Carried, LostRefs, One, CountsOK
    <2>2. RefsOK(r)'
      BY <1>0, <1>2, <1>4 DEF RunOK, CallOK, RefsOK, Waits, Unwound, Carried, LostRefs, One, CountsOK
    <2> QED BY <2>1, <2>2 DEF RunOK
  <1>6. \A d \in Runs \ {r} : Same(d)
    BY <1>0, <1>3 DEF WorkerAbandons, WorkerDropsCall, Plus, Minus, Same, One, CountsOK
  <1>7. StackOK' /\ QueueOK'
    BY <1>0, <1>1 DEF WorkerAbandons, QueueOK
  <1> QED BY <1>0, <1>5, <1>6, <1>7, OnlyTouches DEF RestOK

LEMMA WorkerUnwoundStep ==
  ASSUME IInv, CountsOK', NEW r \in Threaded, WorkerUnwound(r)
  PROVE  RestOK'
  <1>0. StackOK /\ QueueOK /\ CountsOK /\ r \in Runs /\ RunOK(r)
    BY MacroRunnerAssumption DEF IInv, TypeInv, DataOK, Timeline, MacroRunnerAssumption
  <1> USE DEF runnerVars, sharedVars, workerVars, journalVars, historyVars
  <1>1. StackOK' /\ SameHolders
    BY <1>0, StackKept DEF WorkerUnwound
  <1>2. ~InQueue(queue, "done", r) /\ worker[r] \in {"body", "asking", "waiting"}
    BY <1>0 DEF WorkerUnwound, RunOK, CallOK
  <1>3. /\ QueueOK'
        /\ \A k, d : InQueue(queue', k, d) <=> InQueue(queue, k, d) \/ (k = "done" /\ d = r)
    BY <1>0, <1>2, Appended DEF WorkerUnwound
  <1>4. /\ In(stack', "call", r) <=> In(stack, "call", r)
        /\ In(stack', "tick", r) <=> In(stack, "tick", r)
        /\ InQueue(queue', "sync", r) <=> InQueue(queue, "sync", r)
        /\ ~InQueue(queue, "done", r) /\ InQueue(queue', "done", r)
    BY <1>0, <1>1, <1>2, <1>3 DEF WorkerUnwound, SameHolders, Holding
  <1>5. \A d \in Runs \ {r} :
          /\ In(stack', "call", d) <=> In(stack, "call", d)
          /\ In(stack', "tick", d) <=> In(stack, "tick", d)
          /\ InQueue(queue', "sync", d) <=> InQueue(queue, "sync", d)
          /\ InQueue(queue', "done", d) <=> InQueue(queue, "done", d)
    BY <1>0, <1>1, <1>2, <1>3 DEF WorkerUnwound, SameHolders, Holding
  <1>6. /\ r \notin Timeline /\ worker'[r] = "leaving"
        /\ r \in faulted' /\ r \in cancelled'
        /\ (r \in table' <=> r \in table) /\ (r \in started => r \in started')
        /\ (dead => dead')
    BY <1>0 DEF CountsOK, Timeline, WorkerUnwound
  <1>7. \/ /\ worker[r] = "body" /\ ~dead /\ r \notin cancelled
           /\ call'[r] = call[r] /\ callRefs'[r] = 2 /\ refs'[r] = refs[r] + 1
        \/ /\ worker[r] \in {"asking", "waiting"}
           /\ call'[r] = call[r] /\ callRefs'[r] = callRefs[r] /\ refs'[r] = refs[r]
        \/ /\ worker[r] = "waiting" /\ call[r] = "pending" /\ call'[r] = "abandoned"
           /\ callRefs'[r] = callRefs[r] /\ refs'[r] = refs[r]
    BY <1>0 DEF CountsOK, WorkerUnwound, Plus
  <1>8. RunOK(r)'
    <2>1. CallOK(r)'
      BY <1>0, <1>4, <1>6, <1>7 DEF RunOK, CallOK, RefsOK, Waits, Unwound, Carried, LostRefs, One, CountsOK
    <2>2. RefsOK(r)'
      BY <1>0, <1>4, <1>6, <1>7 DEF RunOK, CallOK, RefsOK, Waits, Unwound, Carried, LostRefs, One, CountsOK
    <2> QED BY <2>1, <2>2 DEF RunOK
  <1>9. \A d \in Runs \ {r} : Same(d)
    <2>1. /\ UNCHANGED <<dead, table, started>>
          /\ cancelled \subseteq cancelled' /\ faulted \subseteq faulted'
      BY DEF WorkerUnwound
    <2>2. \A d \in Runs \ {r} :
            /\ call'[d] = call[d] /\ callRefs'[d] = callRefs[d]
            /\ worker'[d] = worker[d] /\ refs'[d] = refs[d]
      BY <1>0 DEF WorkerUnwound, Plus, CountsOK
    <2> QED BY <1>5, <2>1, <2>2 DEF Same
  <1>10. StackOK' /\ QueueOK'
    BY <1>0, <1>1, <1>2, <1>3 DEF WorkerUnwound, QueueOK
  <1> QED BY <1>0, <1>8, <1>9, <1>10, OnlyTouches DEF RestOK

LEMMA WorkerLeavesStep ==
  ASSUME IInv, CountsOK', NEW r \in Threaded, NEW fault \in BOOLEAN, WorkerLeaves(r, fault)
  PROVE  RestOK'
  <1>0. StackOK /\ QueueOK /\ CountsOK /\ r \in Runs /\ RunOK(r)
    BY MacroRunnerAssumption DEF IInv, TypeInv, DataOK, Timeline, MacroRunnerAssumption
  <1> USE DEF runnerVars, sharedVars, workerVars, journalVars, historyVars
  <1>1. StackOK' /\ SameHolders
    BY <1>0, StackKept DEF WorkerLeaves
  <1>2. ~InQueue(queue, "done", r)
    BY <1>0 DEF WorkerLeaves, RunOK, CallOK, Waits
  <1>3. /\ QueueOK'
        /\ \A k, d : InQueue(queue', k, d) <=> InQueue(queue, k, d) \/ (k = "done" /\ d = r)
    BY <1>0, <1>2, Appended DEF WorkerLeaves
  <1>4. /\ In(stack', "call", r) <=> In(stack, "call", r)
        /\ In(stack', "tick", r) <=> In(stack, "tick", r)
        /\ InQueue(queue', "sync", r) <=> InQueue(queue, "sync", r)
        /\ ~InQueue(queue, "done", r) /\ InQueue(queue', "done", r)
    BY <1>0, <1>1, <1>2, <1>3 DEF WorkerLeaves, SameHolders, Holding
  <1>5. \A d \in Runs \ {r} :
          /\ In(stack', "call", d) <=> In(stack, "call", d)
          /\ In(stack', "tick", d) <=> In(stack, "tick", d)
          /\ InQueue(queue', "sync", d) <=> InQueue(queue, "sync", d)
          /\ InQueue(queue', "done", d) <=> InQueue(queue, "done", d)
    BY <1>0, <1>1, <1>2, <1>3 DEF WorkerLeaves, SameHolders, Holding
  <1>6. /\ r \notin Timeline /\ worker[r] = "body"
        /\ worker'[r] = "leaving" /\ call'[r] = call[r]
        /\ callRefs'[r] = callRefs[r]
        /\ refs'[r] = refs[r]
        /\ (r \in table' <=> r \in table) /\ (r \in started => r \in started')
        /\ (r \in cancelled => r \in cancelled') /\ (dead => dead')
        /\ (r \in faulted => r \in faulted')
    BY <1>0 DEF CountsOK, MayStart, Timeline, WorkerLeaves, Plus, Minus, One, Waits
  <1>7. RunOK(r)'
    <2>1. CallOK(r)'
      BY <1>0, <1>4, <1>6 DEF RunOK, CallOK, RefsOK, Waits, Unwound, Carried, LostRefs, One, CountsOK
    <2>2. RefsOK(r)'
      BY <1>0, <1>4, <1>6 DEF RunOK, CallOK, RefsOK, Waits, Unwound, Carried, LostRefs, One, CountsOK
    <2> QED BY <2>1, <2>2 DEF RunOK
  <1>8. \A d \in Runs \ {r} : Same(d)
    BY <1>0, <1>5 DEF WorkerLeaves, Plus, Minus, Same, One, CountsOK
  <1>9. StackOK' /\ QueueOK'
    BY <1>0, <1>1, <1>2, <1>3 DEF WorkerLeaves, QueueOK
  <1> QED BY <1>0, <1>7, <1>8, <1>9, OnlyTouches DEF RestOK

LEMMA HandleAbandonedStep ==
  ASSUME IInv, CountsOK', NEW r \in Threaded, HandleAbandoned(r)
  PROVE  RestOK'
  <1>0. StackOK /\ QueueOK /\ CountsOK /\ r \in Runs /\ RunOK(r)
    BY MacroRunnerAssumption DEF IInv, TypeInv, DataOK, Timeline, MacroRunnerAssumption
  <1> USE DEF runnerVars, sharedVars, workerVars, journalVars, historyVars
  <1>1. StackOK' /\ SameHolders
    BY <1>0, StackKept DEF HandleAbandoned
  <1>2. ~In(stack, "call", r)
    BY <1>0 DEF HandleAbandoned, RunOK, CallOK
  <1>3. /\ QueueOK' /\ InQueue(queue, "sync", r)
        /\ \A k, d : InQueue(queue', k, d) <=> InQueue(queue, k, d) /\ ~(k = "sync" /\ d = r)
    BY <1>0, Removed DEF HandleAbandoned
  <1>4. /\ ~In(stack, "call", r) /\ ~In(stack', "call", r)
        /\ In(stack', "tick", r) <=> In(stack, "tick", r)
        /\ InQueue(queue, "sync", r) /\ ~InQueue(queue', "sync", r)
        /\ InQueue(queue', "done", r) <=> InQueue(queue, "done", r)
    BY <1>0, <1>1, <1>2, <1>3 DEF HandleAbandoned, SameHolders, Holding
  <1>5. \A d \in Runs \ {r} :
          /\ In(stack', "call", d) <=> In(stack, "call", d)
          /\ In(stack', "tick", d) <=> In(stack, "tick", d)
          /\ InQueue(queue', "sync", d) <=> InQueue(queue, "sync", d)
          /\ InQueue(queue', "done", d) <=> InQueue(queue, "done", d)
    BY <1>0, <1>1, <1>2, <1>3 DEF HandleAbandoned, SameHolders, Holding
  <1>6. /\ r \notin Timeline /\ call[r] = "abandoned"
        /\ worker'[r] = worker[r] /\ call'[r] = call[r]
        /\ callRefs'[r] = callRefs[r] - 1
        /\ \/ callRefs[r] = 1 /\ refs'[r] = refs[r] - 1
           \/ callRefs[r] # 1 /\ refs'[r] = refs[r]
        /\ (r \in table' <=> r \in table) /\ (r \in started => r \in started')
        /\ (r \in cancelled => r \in cancelled') /\ (dead => dead')
        /\ (r \in faulted => r \in faulted')
    BY <1>0 DEF CountsOK, MayStart, Timeline, HandleAbandoned, MessageDropsCall, Plus, Minus, One, Waits
  <1>7. RunOK(r)'
    <2>1. CallOK(r)'
      BY <1>0, <1>4, <1>6 DEF RunOK, CallOK, RefsOK, Waits, Unwound, Carried, LostRefs, One, CountsOK
    <2>2. RefsOK(r)'
      BY <1>0, <1>4, <1>6 DEF RunOK, CallOK, RefsOK, Waits, Unwound, Carried, LostRefs, One, CountsOK
    <2> QED BY <2>1, <2>2 DEF RunOK
  <1>8. \A d \in Runs \ {r} : Same(d)
    BY <1>0, <1>5 DEF HandleAbandoned, MessageDropsCall, Plus, Minus, Same, One, CountsOK
  <1>9. StackOK' /\ QueueOK'
    BY <1>0, <1>1, <1>2, <1>3 DEF HandleAbandoned, QueueOK
  <1> QED BY <1>0, <1>7, <1>8, <1>9, OnlyTouches DEF RestOK

LEMMA HandleSyncStep ==
  ASSUME IInv, CountsOK', NEW r \in Threaded, HandleSync(r)
  PROVE  RestOK'
  <1>0. StackOK /\ QueueOK /\ CountsOK /\ r \in Runs /\ RunOK(r)
    BY MacroRunnerAssumption DEF IInv, TypeInv, DataOK, Timeline, MacroRunnerAssumption
  <1> USE DEF runnerVars, sharedVars, workerVars, journalVars, historyVars
  <1>1. stack # <<>> /\ Top.kind = "drain" /\ stack' = <<Frame("call", r)>> \o stack
    BY DEF HandleSync, Draining
  <1>2. /\ StackOK'
        /\ \A k, d : In(stack', k, d) <=> In(stack, k, d) \/ (k = "call" /\ d = r)
        /\ \A k, d : In(stack, k, d) => k = "drain"
    BY <1>0, <1>1, PushedOnOne
  <1>3. /\ QueueOK' /\ InQueue(queue, "sync", r)
        /\ \A k, d : InQueue(queue', k, d) <=> InQueue(queue, k, d) /\ ~(k = "sync" /\ d = r)
    BY <1>0, Removed DEF HandleSync
  <1>4. /\ ~In(stack, "call", r) /\ In(stack', "call", r)
        /\ In(stack', "tick", r) <=> In(stack, "tick", r)
        /\ InQueue(queue, "sync", r) /\ ~InQueue(queue', "sync", r)
        /\ InQueue(queue', "done", r) <=> InQueue(queue, "done", r)
    BY <1>0, <1>1, <1>2, <1>3 DEF HandleSync, SameHolders, Holding
  <1>5. \A d \in Runs \ {r} :
          /\ In(stack', "call", d) <=> In(stack, "call", d)
          /\ In(stack', "tick", d) <=> In(stack, "tick", d)
          /\ InQueue(queue', "sync", d) <=> InQueue(queue, "sync", d)
          /\ InQueue(queue', "done", d) <=> InQueue(queue, "done", d)
    BY <1>0, <1>1, <1>2, <1>3 DEF HandleSync, SameHolders, Holding
  <1>6. /\ r \notin Timeline /\ call[r] = "pending"
        /\ worker'[r] = worker[r] /\ call'[r] = "executing"
        /\ callRefs'[r] = callRefs[r]
        /\ refs'[r] = refs[r]
        /\ (r \in table' <=> r \in table) /\ (r \in started => r \in started')
        /\ (r \in cancelled => r \in cancelled') /\ (dead => dead')
        /\ (r \in faulted => r \in faulted')
    BY <1>0 DEF CountsOK, MayStart, Timeline, HandleSync, Plus, Minus, One, Waits
  <1>7. RunOK(r)'
    <2>1. CallOK(r)'
      BY <1>0, <1>4, <1>6 DEF RunOK, CallOK, RefsOK, Waits, Unwound, Carried, LostRefs, One, CountsOK
    <2>2. RefsOK(r)'
      BY <1>0, <1>4, <1>6 DEF RunOK, CallOK, RefsOK, Waits, Unwound, Carried, LostRefs, One, CountsOK
    <2> QED BY <2>1, <2>2 DEF RunOK
  <1>8. \A d \in Runs \ {r} : Same(d)
    BY <1>0, <1>5 DEF HandleSync, Plus, Minus, Same, One, CountsOK
  <1>9. StackOK' /\ QueueOK'
    BY <1>0, <1>1, <1>2, <1>3 DEF HandleSync, QueueOK
  <1> QED BY <1>0, <1>7, <1>8, <1>9, OnlyTouches DEF RestOK

LEMMA CallReturnsStep ==
  ASSUME IInv, CountsOK', NEW r \in Threaded, CallReturns(r)
  PROVE  RestOK'
  <1>0. StackOK /\ QueueOK /\ CountsOK /\ r \in Runs /\ RunOK(r)
    BY MacroRunnerAssumption DEF IInv, TypeInv, DataOK, Timeline, MacroRunnerAssumption
  <1> USE DEF runnerVars, sharedVars, workerVars, journalVars, historyVars
  <1>1. stack # <<>> /\ Top.kind = "call" /\ Top.run = r /\ stack' = Tail(stack)
    BY DEF CallReturns, On, Frame
  <1>2. /\ StackOK' /\ \A d : ~In(stack', "call", d) /\ ~In(stack', "tick", d)
        /\ \A d : (In(stack, "call", d) <=> d = r) /\ ~In(stack, "tick", d)
    BY <1>0, <1>1, Popped
  <1>3. ~InQueue(queue, "sync", r)
    BY <1>0, <1>2 DEF RunOK, CallOK
  <1>4. /\ In(stack, "call", r) /\ ~In(stack', "call", r)
        /\ ~In(stack, "tick", r) /\ ~In(stack', "tick", r)
        /\ ~InQueue(queue, "sync", r) /\ ~InQueue(queue', "sync", r)
        /\ InQueue(queue', "done", r) <=> InQueue(queue, "done", r)
    BY <1>0, <1>1, <1>2, <1>3 DEF CallReturns, SameHolders, Holding
  <1>5. \A d \in Runs \ {r} :
          /\ In(stack', "call", d) <=> In(stack, "call", d)
          /\ In(stack', "tick", d) <=> In(stack, "tick", d)
          /\ InQueue(queue', "sync", d) <=> InQueue(queue, "sync", d)
          /\ InQueue(queue', "done", d) <=> InQueue(queue, "done", d)
    BY <1>0, <1>1, <1>2, <1>3 DEF CallReturns, SameHolders, Holding
  <1>6. /\ r \notin Timeline
        /\ worker'[r] = worker[r] /\ call'[r] = "done"
        /\ callRefs'[r] = callRefs[r] - 1
        /\ \/ callRefs[r] = 1 /\ refs'[r] = refs[r] - 1
           \/ callRefs[r] # 1 /\ refs'[r] = refs[r]
        /\ (r \in table' <=> r \in table) /\ (r \in started => r \in started')
        /\ (r \in cancelled => r \in cancelled') /\ (dead => dead')
        /\ (r \in faulted => r \in faulted')
    BY <1>0 DEF CountsOK, MayStart, Timeline, CallReturns, MessageDropsCall, Plus, Minus, One, Waits
  <1>7. RunOK(r)'
    <2>1. CallOK(r)'
      BY <1>0, <1>4, <1>6 DEF RunOK, CallOK, RefsOK, Waits, Unwound, Carried, LostRefs, One, CountsOK
    <2>2. RefsOK(r)'
      BY <1>0, <1>4, <1>6 DEF RunOK, CallOK, RefsOK, Waits, Unwound, Carried, LostRefs, One, CountsOK
    <2> QED BY <2>1, <2>2 DEF RunOK
  <1>8. \A d \in Runs \ {r} : Same(d)
    BY <1>0, <1>5 DEF CallReturns, MessageDropsCall, Plus, Minus, Same, One, CountsOK
  <1>9. StackOK' /\ QueueOK'
    BY <1>0, <1>1, <1>2, <1>3 DEF CallReturns, QueueOK
  <1> QED BY <1>0, <1>7, <1>8, <1>9, OnlyTouches DEF RestOK

LEMMA CallFaultedStep ==
  ASSUME IInv, CountsOK', NEW r \in Threaded, CallFaulted(r)
  PROVE  RestOK'
  <1>0. StackOK /\ QueueOK /\ CountsOK /\ r \in Runs /\ RunOK(r)
    BY MacroRunnerAssumption DEF IInv, TypeInv, DataOK, Timeline, MacroRunnerAssumption
  <1> USE DEF runnerVars, sharedVars, workerVars, journalVars, historyVars
  <1>1. FaultLandsIn(Frame("call", r))
    BY DEF CallFaulted
  <1>2. /\ StackOK' /\ \A d : In(stack', "tick", d) <=> In(stack, "tick", d)
        /\ \A d : ~In(stack', "call", d)
        /\ \A d : In(stack, "call", d) <=> d = r
    BY <1>0, <1>1, Faulted
  <1>3. ~InQueue(queue, "sync", r)
    BY <1>0, <1>2 DEF RunOK, CallOK
  <1>4. /\ In(stack, "call", r) /\ ~In(stack', "call", r)
        /\ In(stack', "tick", r) <=> In(stack, "tick", r)
        /\ ~InQueue(queue, "sync", r) /\ ~InQueue(queue', "sync", r)
        /\ InQueue(queue', "done", r) <=> InQueue(queue, "done", r)
    BY <1>0, <1>1, <1>2, <1>3 DEF CallFaulted, SameHolders, Holding
  <1>5. \A d \in Runs \ {r} :
          /\ In(stack', "call", d) <=> In(stack, "call", d)
          /\ In(stack', "tick", d) <=> In(stack, "tick", d)
          /\ InQueue(queue', "sync", d) <=> InQueue(queue, "sync", d)
          /\ InQueue(queue', "done", d) <=> InQueue(queue, "done", d)
    BY <1>0, <1>1, <1>2, <1>3 DEF CallFaulted, SameHolders, Holding
  <1>6. /\ r \notin Timeline
        /\ worker'[r] = worker[r] /\ call'[r] = "done"
        /\ callRefs'[r] = callRefs[r] - 1
        /\ \/ callRefs[r] = 1 /\ refs'[r] = refs[r] - 1
           \/ callRefs[r] # 1 /\ refs'[r] = refs[r]
        /\ (r \in table' <=> r \in table) /\ (r \in started => r \in started')
        /\ (r \in cancelled => r \in cancelled') /\ (dead => dead')
        /\ (r \in faulted => r \in faulted')
    BY <1>0 DEF CountsOK, MayStart, Timeline, CallFaulted, MessageDropsCall, HoldBack, Plus, Minus, One, Waits
  <1>7. RunOK(r)'
    <2>1. CallOK(r)'
      BY <1>0, <1>4, <1>6 DEF RunOK, CallOK, RefsOK, Waits, Unwound, Carried, LostRefs, One, CountsOK
    <2>2. RefsOK(r)'
      BY <1>0, <1>4, <1>6 DEF RunOK, CallOK, RefsOK, Waits, Unwound, Carried, LostRefs, One, CountsOK
    <2> QED BY <2>1, <2>2 DEF RunOK
  <1>8. \A d \in Runs \ {r} : Same(d)
    BY <1>0, <1>5 DEF CallFaulted, MessageDropsCall, HoldBack, Plus, Minus, Same, One, CountsOK
  <1>9. StackOK' /\ QueueOK'
    BY <1>0, <1>1, <1>2, <1>3 DEF CallFaulted, QueueOK
  <1> QED BY <1>0, <1>7, <1>8, <1>9, OnlyTouches DEF RestOK

LEMMA HandleDoneStep ==
  ASSUME IInv, CountsOK', NEW r \in Threaded, HandleDone(r)
  PROVE  RestOK'
  <1>0. StackOK /\ QueueOK /\ CountsOK /\ r \in Runs /\ RunOK(r)
    BY MacroRunnerAssumption DEF IInv, TypeInv, DataOK, Timeline, MacroRunnerAssumption
  <1> USE DEF runnerVars, sharedVars, workerVars, journalVars, historyVars
  <1>1. StackOK' /\ SameHolders
    BY <1>0, StackKept DEF HandleDone
  <1>2. /\ QueueOK' /\ InQueue(queue, "done", r)
        /\ \A k, d : InQueue(queue', k, d) <=> InQueue(queue, k, d) /\ ~(k = "done" /\ d = r)
    BY <1>0, Removed DEF HandleDone
  <1>3. /\ In(stack', "call", r) <=> In(stack, "call", r)
        /\ In(stack', "tick", r) <=> In(stack, "tick", r)
        /\ InQueue(queue', "sync", r) <=> InQueue(queue, "sync", r)
        /\ InQueue(queue, "done", r) /\ ~InQueue(queue', "done", r)
    BY <1>0, <1>1, <1>2 DEF HandleDone, SameHolders, Holding
  <1>4. \A d \in Runs \ {r} :
          /\ In(stack', "call", d) <=> In(stack, "call", d)
          /\ In(stack', "tick", d) <=> In(stack, "tick", d)
          /\ InQueue(queue', "sync", d) <=> InQueue(queue, "sync", d)
          /\ InQueue(queue', "done", d) <=> InQueue(queue, "done", d)
    BY <1>0, <1>1, <1>2 DEF HandleDone, SameHolders, Holding
  <1>5. /\ r \notin Timeline
        /\ worker'[r] = worker[r] /\ call'[r] = call[r]
        /\ callRefs'[r] = callRefs[r]
        /\ refs'[r] = refs[r] - 1 - One(r \in table)
        /\ r \notin table' /\ (r \in started => r \in started')
        /\ (r \in cancelled => r \in cancelled') /\ (dead => dead')
        /\ (r \in faulted => r \in faulted')
    BY <1>0 DEF CountsOK, MayStart, Timeline, HandleDone, Finish, HoldBack, Leave, Plus, Minus, One, Waits
  <1>6. RunOK(r)'
    <2>1. CallOK(r)'
      BY <1>0, <1>3, <1>5 DEF RunOK, CallOK, RefsOK, Waits, Unwound, Carried, LostRefs, One, CountsOK
    <2>2. RefsOK(r)'
      BY <1>0, <1>3, <1>5 DEF RunOK, CallOK, RefsOK, Waits, Unwound, Carried, LostRefs, One, CountsOK
    <2> QED BY <2>1, <2>2 DEF RunOK
  <1>7. \A d \in Runs \ {r} : Same(d)
    BY <1>0, <1>4 DEF HandleDone, Finish, HoldBack, Leave, Plus, Minus, Same, One, CountsOK
  <1>8. StackOK' /\ QueueOK'
    BY <1>0, <1>1, <1>2 DEF HandleDone, QueueOK
  <1> QED BY <1>0, <1>6, <1>7, <1>8, OnlyTouches DEF RestOK

\* What every life begins with, once at the start and once per restart.
LEMMA InitInv == Init => IInv
  <1> SUFFICES ASSUME Init PROVE IInv
    OBVIOUS
  <1>0. Threaded \subseteq Runs /\ MaxSteps \in Nat /\ MaxCrashes \in Nat
    BY MacroRunnerAssumption DEF MacroRunnerAssumption
  <1>1. FlagsOK BY DEF Init, Fresh, FlagsOK
  <1>2. SetsOK BY DEF Init, Fresh, SetsOK
  <1>3. StepsOK BY <1>0 DEF Init, Fresh, StepsOK
  <1>4. CountsOK BY <1>0 DEF Init, Fresh, CountsOK, CallStates, WorkerStates
  <1>5. stack = <<>> /\ queue = <<>>
    BY DEF Init, Fresh
  <1>6. StackOK BY <1>5 DEF StackOK, Shape
  <1>7. QueueOK BY <1>5 DEF QueueOK
  <1>8. ASSUME NEW r \in Runs PROVE RunOK(r)
    <2>1. /\ ~In(stack, "call", r) /\ ~In(stack, "tick", r)
          /\ ~InQueue(queue, "sync", r) /\ ~InQueue(queue, "done", r)
      BY <1>5, EmptyHolds DEF InQueue
    <2>2. call[r] = "none" /\ callRefs[r] = 0 /\ refs[r] = 0 /\ worker[r] = "none" /\ r \notin table
      BY DEF Init, Fresh
    <2>3. LostRefs(r) = 0 /\ ~Waits(r)
      <3>1. ~Carried(r) /\ ~Waits(r) BY <2>1, <2>2 DEF Carried, Waits
      <3>2. One(Carried(r)) = 0 /\ One(Waits(r)) = 0 BY <3>1, Zenon DEF One
      <3>3. LostRefs(r) = callRefs[r] - One(Waits(r)) - One(Carried(r)) BY DEF LostRefs
      <3>4. LostRefs(r) = 0 BY <2>2, <3>2, <3>3, SMT
      <3> QED BY <3>1, <3>4
    <2>4. CallOK(r) BY <2>1, <2>2, <2>3 DEF CallOK
    <2>5. RefsOK(r) BY <2>1, <2>2, <2>3 DEF RefsOK, One
    <2> QED BY <2>4, <2>5 DEF RunOK
  <1> QED BY <1>1, <1>2, <1>3, <1>4, <1>6, <1>7, <1>8 DEF IInv, TypeInv, DataOK

LEMMA RestartStep ==
  ASSUME Restart
  PROVE  RestOK'
  <1>1. stack' = <<>> /\ queue' = <<>>
    BY DEF Restart, Fresh
  <1>2. StackOK' BY <1>1 DEF StackOK, Shape
  <1>3. QueueOK' BY <1>1 DEF QueueOK
  <1>4. ASSUME NEW r \in Runs PROVE RunOK(r)'
    <2>1. /\ ~In(stack', "call", r) /\ ~In(stack', "tick", r)
          /\ ~InQueue(queue', "sync", r) /\ ~InQueue(queue', "done", r)
      BY <1>1, EmptyHolds DEF InQueue
    <2>2. call'[r] = "none" /\ callRefs'[r] = 0 /\ refs'[r] = 0 /\ worker'[r] = "none" /\ r \notin table'
      BY DEF Restart, Fresh
    <2>3. LostRefs(r)' = 0 /\ ~Waits(r)'
      <3>1. ~Carried(r)' /\ ~Waits(r)' BY <2>1, <2>2 DEF Carried, Waits
      <3>2. One(Carried(r)') = 0 /\ One(Waits(r)') = 0 BY <3>1, Zenon DEF One
      <3>3. LostRefs(r)' = callRefs'[r] - One(Waits(r)') - One(Carried(r)') BY DEF LostRefs, One
      <3>4. LostRefs(r)' = 0 BY <2>2, <3>2, <3>3, SMT
      <3> QED BY <3>1, <3>4
    <2>4. CallOK(r)' BY <2>1, <2>2, <2>3 DEF CallOK
    <2>5. RefsOK(r)' BY <2>1, <2>2, <2>3 DEF RefsOK, One
    <2> QED BY <2>4, <2>5 DEF RunOK
  <1> QED BY <1>2, <1>3, <1>4 DEF RestOK

LEMMA NextInv == IInv /\ [Next]_vars => IInv'
  <1> SUFFICES ASSUME IInv, [Next]_vars PROVE IInv'
    OBVIOUS
  <1>1. CASE UNCHANGED vars
    <2> USE <1>1 DEF vars, runnerVars, sharedVars, workerVars, journalVars, historyVars
    <2>1. FlagsOK' /\ SetsOK' /\ StepsOK' /\ CountsOK'
      BY DEF IInv, TypeInv, DataOK, FlagsOK, SetsOK, StepsOK, CountsOK
    <2>2. StackOK' /\ QueueOK'
      BY DEF IInv, TypeInv, StackOK, QueueOK
    <2>3. \A r \in Runs : Same(r)
      BY DEF Same
    <2>4. \A r \in Runs : RunOK(r)'
      BY <2>1, <2>3, TouchesNone
    <2> QED BY <2>1, <2>2, <2>4 DEF IInv, TypeInv, DataOK
  <1>2. CASE Next
    <2>0. DataOK'
      BY <1>2, DataStep DEF IInv, TypeInv
    <2>1. CountsOK'
      BY <2>0 DEF DataOK
    <2>2. Command => RestOK'
      BY <2>1, StartTimelineStep, StartThreadedStep, QuietFrames, Zenon DEF Command
    <2>3. FrameStep => RestOK'
      BY <2>1, QuietFrames, TickWaitStep, TickFinishedStep, HandleAbandonedStep, HandleSyncStep,
         HandleDoneStep, CallReturnsStep, CallFaultedStep, Zenon
         DEF FrameStep
    <2>4. ASSUME NEW r \in Timeline, NEW step \in {"do", "wait"}
          PROVE  TimelineTick(r) \/ BodyQueueStep(r, step) => RestOK'
      BY <2>1, TimelineTickStep, QuietFrames, Zenon
    <2>5. ASSUME NEW r \in Threaded PROVE WorkerStep(r) => RestOK'
      BY <2>1, WorkerAsksStep, WorkerPokesStep, WorkerAnsweredStep, WorkerAbandonsStep,
         WorkerUnwoundStep, WorkerLeavesStep, Zenon
         DEF WorkerStep, WorkerWaits
    <2>6. QueueReady \/ DisplayDestroyed \/ Finalize \/ Restart => RestOK'
      BY <2>1, QuietFrames, RestartStep, Zenon
    <2>7. RestOK'
      BY <1>2, <2>2, <2>3, <2>4, <2>5, <2>6, TimelineTickStep, <2>1 DEF Next
    <2> QED BY <2>0, <2>7 DEF IInv, TypeInv, RestOK
  <1> QED BY <1>1, <1>2

\* The types, and what each run's call record, reference count, frames and messages
\* have to do with one another, through run_start() to run_free().
THEOREM Invariant == Spec => []IInv
  BY InitInv, NextInv, PTL DEF Spec

-----------------------------------------------------------------------------
(* What follows from the invariant alone.                                  *)

LEMMA TypesFollow == IInv => TypeOK
  <1> SUFFICES ASSUME IInv PROVE TypeOK
    OBVIOUS
  <1>1. CountsOK /\ SetsOK /\ StepsOK /\ FlagsOK /\ StackOK /\ QueueOK /\ \A r \in Runs : RunOK(r)
    BY DEF IInv, TypeInv, DataOK
  <1>2. ASSUME NEW r \in Runs PROVE callRefs[r] \in 0..2 /\ refs[r] \in 0..3
    <2>1. callRefs[r] \in 0..2
      BY <1>1 DEF RunOK, CallOK, Waits, Unwound, Carried, LostRefs, One, CountsOK
    <2>2. CASE r \in Timeline
      BY <1>1, <2>2, <2>1 DEF RunOK, CallOK, RefsOK, One, Waits
    <2>3. CASE r \notin Timeline
      <3>1. ~In(stack, "tick", r)
        <4>1. SUFFICES ASSUME NEW i \in 1..Len(stack), stack[i] = Frame("tick", r) PROVE FALSE
          BY DEF In
        <4>2. stack[i].kind = "tick" /\ stack[i].run = r
          BY <4>1 DEF Frame
        <4> QED BY <1>1, <2>3, <4>2 DEF StackOK, Shape
      <3> QED BY <1>1, <2>1, <3>1 DEF RunOK, RefsOK, One
    <2> QED BY <2>1, <2>2, <2>3
  <1>3. callRefs \in [Runs -> 0..2] /\ refs \in [Runs -> 0..3]
    BY <1>1, <1>2 DEF CountsOK
  <1>4. /\ stack \in Seq([kind : FrameKinds, run : Runs \cup {NoRun}])
        /\ queue \in Seq({"sync", "done"} \X Threaded)
    BY <1>1 DEF StackOK, QueueOK, Frames, Messages
  <1> QED BY <1>1, <1>3, <1>4, Zenon DEF TypeOK, CountsOK, SetsOK, StepsOK, FlagsOK

\* Every variable of a run of macros stays in the values the program can store:
\* the counts of run_ref()/run_unref() and of a call's two holders among them.
THEOREM TypeCorrect == Spec => []TypeOK
  BY Invariant, TypesFollow, PTL

\* handle_sync() runs a call only while the worker in host_invoke_sync() still
\* waits for it, whatever stop, shutdown and crash come in between; the one
\* exception is a worker that its own guard has unwound.
THEOREM CallsAreWaitedFor == Spec => []CallerWaits
  <1>1. IInv => CallerWaits
    <2> SUFFICES ASSUME IInv, NEW i \in 1..Len(stack), stack[i].kind = "call"
                 PROVE  worker[stack[i].run] \in {"asking", "waiting"} \/ stack[i].run \in faulted
      BY DEF CallerWaits
    <2>1. StackOK /\ \A r \in Runs : RunOK(r)
      BY DEF IInv, TypeInv
    <2>2. PICK r \in Runs : stack[i].run = r /\ r \in Threaded
      BY <2>1, MacroRunnerAssumption DEF StackOK, Shape, MacroRunnerAssumption
    <2>3. stack[i] = Frame("call", r)
      <3>1. stack[i] \in Frames
        BY <2>1 DEF StackOK
      <3>2. \A f \in Frames : f = Frame(f.kind, f.run)
        BY DEF Frames, Frame
      <3> QED BY <2>2, <3>1, <3>2
    <2>4. In(stack, "call", r)
      BY <2>3 DEF In
    <2> QED BY <2>1, <2>2, <2>4 DEF RunOK, CallOK, Waits, Unwound
  <1> QED BY <1>1, Invariant, PTL

-----------------------------------------------------------------------------
(* Where no body runs module commands, a body on the stack is innermost    *)
(* and its run is in the table.                                            *)

NoBody(s) == \A i \in 1..Len(s) : s[i].kind # "body"
BodiesOK == \A i \in 1..Len(stack) : stack[i].kind = "body" => i = 1 /\ stack[i].run \in table

\* All an action may do to the stack, with what it does to the table.
Moves ==
  \/ stack' = stack /\ (table \subseteq table' \/ stack = <<>> \/ Draining)
  \/ \E r \in Timeline : CommandsRun /\ stack' = <<Frame("body", r)>> \o Under /\ r \in table'
  \/ CommandsRun /\ stack' = Under
  \/ stack # <<>> /\ stack' = Tail(stack)
  \/ \E f : FaultLandsIn(f)
  \/ \E kind \in {"tick", "drain"} : \E r : stack = <<>> /\ stack' = <<Frame(kind, r)>>
  \/ \E kind \in {"step", "call"} : \E r :
       stack # <<>> /\ Top.kind \in {"tick", "drain"} /\ stack' = <<Frame(kind, r)>> \o stack
  \/ stack' = <<>>

LEMMA NextMoves == Next => Moves
  <1> USE DEF runnerVars, vars
  <1>1. ASSUME NEW r \in Runs, StartTimeline(r) \/ StartThreaded(r) \/ StartNoThread(r) PROVE Moves
    <2>1. StartTimeline(r) => r \in Timeline /\ CommandsRun /\ stack' = <<Frame("body", r)>> \o Under /\ r \in table'
      BY DEF StartTimeline
    <2>2. StartThreaded(r) \/ StartNoThread(r) => CommandsRun /\ stack' = Under
      BY DEF StartThreaded, StartNoThread
    <2> QED BY <1>1, <2>1, <2>2 DEF Moves
  <1>2. ASSUME (\E rs \in Targets : Stop(rs)) \/ (\E m \in Names : Clear(m)) PROVE Moves
    <2>1. CommandsRun /\ stack' = Under
      BY <1>2 DEF Stop, Clear
    <2> QED BY <2>1 DEF Moves
  <1>3. ASSUME NEW r \in Timeline,
               BodyStarted(r) \/ BodyFinished(r) \/ StepDone(r) \/ TickWait(r) \/ TickFinished(r)
        PROVE  Moves
    <2>1. stack # <<>> /\ stack' = Tail(stack)
      BY <1>3 DEF BodyStarted, BodyFinished, StepDone, TickWait, TickFinished, On
    <2> QED BY <2>1 DEF Moves
  <1>4. ASSUME NEW r, BodyFaulted(r) \/ CallFaulted(r) PROVE Moves
    <2>1. \E f : FaultLandsIn(f)
      BY <1>4 DEF BodyFaulted, CallFaulted
    <2> QED BY <2>1 DEF Moves
  <1>5. ASSUME (\E r \in Timeline : TimelineTick(r)) \/ QueueReady PROVE Moves
    <2>1. \E kind \in {"tick", "drain"} : \E r : stack = <<>> /\ stack' = <<Frame(kind, r)>>
      BY <1>5 DEF TimelineTick, QueueReady
    <2> QED BY <2>1 DEF Moves
  <1>6. ASSUME NEW r, TickStep(r) \/ HandleSync(r) PROVE Moves
    <2>1. TickStep(r) => stack # <<>> /\ Top.kind = "tick" /\ stack' = <<Frame("step", r)>> \o stack
      BY DEF TickStep, On, Frame
    <2>2. HandleSync(r) => stack # <<>> /\ Top.kind = "drain" /\ stack' = <<Frame("call", r)>> \o stack
      BY DEF HandleSync, Draining
    <2> QED BY <1>6, <2>1, <2>2 DEF Moves
  <1>7. ASSUME NEW r, HandleAbandoned(r) \/ HandleDone(r) PROVE Moves
    <2>1. stack' = stack /\ Draining
      BY <1>7 DEF HandleAbandoned, HandleDone
    <2> QED BY <2>1 DEF Moves
  <1>8. ASSUME NEW r, CallReturns(r) \/ DrainEmpty PROVE Moves
    <2>1. stack # <<>> /\ stack' = Tail(stack)
      BY <1>8 DEF CallReturns, DrainEmpty, On, Draining
    <2> QED BY <2>1 DEF Moves
  <1>9. ASSUME NEW r \in Runs, NEW step \in {"do", "wait"}, BodyQueueStep(r, step) \/ WorkerStep(r)
        PROVE  Moves
    <2>1. stack' = stack /\ table' = table
      BY <1>9
         DEF BodyQueueStep, WorkerStep, WorkerWaits, WorkerAsks, WorkerPokes, WorkerAnswered,
             WorkerAbandons, WorkerUnwound, WorkerLeaves
    <2> QED BY <2>1 DEF Moves
  <1>10. ASSUME DisplayDestroyed \/ Finalize \/ Restart PROVE Moves
    <2>1. stack' = <<>>
      BY <1>10 DEF DisplayDestroyed, Finalize, Restart, Fresh
    <2> QED BY <2>1 DEF Moves
  <1>11. Threaded \subseteq Runs /\ Timeline \subseteq Runs
    BY MacroRunnerAssumption DEF Timeline, MacroRunnerAssumption
  <1>12. Command => Moves
    BY <1>1, <1>2, Zenon DEF Command
  <1>13. FrameStep => Moves
    BY <1>3, <1>4, <1>6, <1>7, <1>8, Zenon DEF FrameStep
  <1> QED BY <1>5, <1>9, <1>10, <1>11, <1>12, <1>13 DEF Next

LEMMA DropNoBody ==
  ASSUME NEW s \in Seq(Frames), NEW t \in Seq(Frames), NEW k \in Nat, Dropped(s, t, k),
         NoBody(s) \/ (k > 0 /\ \A i \in 1..Len(s) : s[i].kind = "body" => i = 1)
  PROVE  NoBody(t)
  <1> SUFFICES ASSUME NEW i \in 1..Len(t) PROVE t[i].kind # "body"
    BY DEF NoBody
  <1>1. i + k \in 1..Len(s) /\ t[i] = s[i + k]
    BY DEF Dropped
  <1> QED BY <1>1 DEF NoBody

LEMMA PushBody ==
  ASSUME NEW s \in Seq(Frames), NEW t \in Seq(Frames), NEW f, Pushed(s, t, f), NoBody(s)
  PROVE  \A i \in 1..Len(t) : t[i].kind = "body" => i = 1 /\ t[i] = f
  <1> SUFFICES ASSUME NEW i \in 1..Len(t), t[i].kind = "body" PROVE i = 1 /\ t[i] = f
    OBVIOUS
  <1>1. i # 1 => i - 1 \in 1..Len(s) /\ t[i] = s[i - 1]
    BY DEF Pushed
  <1> QED BY <1>1 DEF NoBody, Pushed

LEMMA MoveKeepsBodies ==
  ASSUME "body" \notin Commands, StackOK, StackOK', BodiesOK, Moves
  PROVE  BodiesOK'
  <1>1. stack = <<>> \/ Top.kind # "body" => NoBody(stack)
    <2>1. stack # <<>> => Top = stack[1]
      BY TopGone
    <2>2. stack = <<>> => Len(stack) = 0
      OBVIOUS
    <2> QED BY <2>1, <2>2 DEF BodiesOK, NoBody
  <1>2. PICK s \in Seq(Frames) : s = stack
    BY DEF StackOK
  <1>3. stack # <<>> => NoBody(Tail(stack))
    <2>1. SUFFICES ASSUME stack # <<>> PROVE NoBody(Tail(stack))
      OBVIOUS
    <2>2. PICK t \in Seq(Frames) : t = Tail(stack) /\ Dropped(s, t, 1)
      BY <1>2, <2>1, TopGone
    <2>3. \A i \in 1..Len(s) : s[i].kind = "body" => i = 1
      BY <1>2 DEF BodiesOK
    <2>4. \A k \in Nat : k > 0 /\ Dropped(s, t, k) => NoBody(t)
      BY <2>3, DropNoBody
    <2> QED BY <2>2, <2>4
  <1>4. CommandsRun => NoBody(Under)
    <2>1. CommandsRun => NoBody(stack)
      BY <1>1 DEF CommandsRun
    <2> QED BY <2>1, <1>3 DEF Under
  <1>5. NoBody(stack') => BodiesOK'
    BY DEF NoBody, BodiesOK
  <1>6. CASE stack' = stack /\ (table \subseteq table' \/ stack = <<>> \/ Draining)
    <2>1. Draining => NoBody(stack)
      BY <1>1 DEF Draining
    <2> QED BY <1>1, <1>5, <1>6, <2>1 DEF BodiesOK
  <1>7. ASSUME NEW r \in Timeline, CommandsRun, stack' = <<Frame("body", r)>> \o Under, r \in table'
        PROVE  BodiesOK'
    <2>1. PICK u \in Seq(Frames) : u = Under /\ NoBody(u)
      BY <1>4, <1>7, UnderFacts
    <2>2. Frame("body", r) \in Frames /\ Frame("body", r).run = r
      BY DEF Frame, Frames, FrameKinds, Timeline
    <2>3. stack' \in Seq(Frames) /\ Pushed(u, stack', Frame("body", r))
      BY <1>7, <2>1, <2>2, PushFacts
    <2>4. \A i \in 1..Len(stack') : stack'[i].kind = "body" => i = 1 /\ stack'[i] = Frame("body", r)
      BY <2>1, <2>3, PushBody
    <2> QED BY <1>7, <2>2, <2>4 DEF BodiesOK
  <1>8. CASE CommandsRun /\ stack' = Under
    BY <1>4, <1>5, <1>8
  <1>9. CASE stack # <<>> /\ stack' = Tail(stack)
    BY <1>3, <1>5, <1>9
  <1>10. ASSUME NEW f, FaultLandsIn(f) PROVE BodiesOK'
    <2>1. PICK k \in 1..Len(stack) : stack' = SubSeq(stack, k + 1, Len(stack))
      BY <1>10 DEF FaultLandsIn
    <2>2. Len(s) \in Nat /\ k \in 0..Len(s) /\ k \in Nat /\ k > 0
      BY <1>2
    <2>3. stack' \in Seq(Frames) /\ Dropped(s, stack', k)
      BY <1>2, <2>1, <2>2, DropFacts
    <2>4. \A i \in 1..Len(s) : s[i].kind = "body" => i = 1
      BY <1>2 DEF BodiesOK
    <2>5. NoBody(stack')
      BY <2>2, <2>3, <2>4, DropNoBody
    <2> QED BY <1>5, <2>5
  <1>11. ASSUME NEW kind \in {"tick", "drain"}, NEW r, stack = <<>>, stack' = <<Frame(kind, r)>>
         PROVE  BodiesOK'
    <2>1. Len(stack') = 1 /\ stack'[1].kind # "body"
      BY <1>11 DEF Frame
    <2> QED BY <1>5, <2>1 DEF NoBody
  <1>12. ASSUME NEW kind \in {"step", "call"}, NEW r, stack # <<>>, Top.kind \in {"tick", "drain"},
                stack' = <<Frame(kind, r)>> \o stack
         PROVE  BodiesOK'
    <2>1. NoBody(s)
      BY <1>1, <1>2, <1>12
    <2>2. stack' \in Seq(Frames) /\ Len(stack') = Len(s) + 1 /\ Len(s) \in Nat
          /\ stack'[1] = Frame(kind, r) /\ \A i \in 1..Len(s) : stack'[i + 1] = s[i]
      BY <1>2, <1>12 DEF StackOK
    <2>3. stack' \in Seq(Frames) /\ Pushed(s, stack', Frame(kind, r))
      BY <2>2 DEF Pushed
    <2>4. \A i \in 1..Len(stack') : stack'[i].kind = "body" => stack'[i] = Frame(kind, r)
      BY <2>1, <2>3, PushBody
    <2>5. Frame(kind, r).kind # "body"
      BY <1>12 DEF Frame
    <2> QED BY <1>5, <2>4, <2>5 DEF NoBody
  <1>13. CASE stack' = <<>>
    BY <1>5, <1>13 DEF NoBody
  <1> QED BY <1>6, <1>7, <1>8, <1>9, <1>10, <1>11, <1>12, <1>13 DEF Moves

LEMMA UsersHold == IInv /\ BodiesOK => RunsOutliveUsers
  <1> SUFFICES ASSUME IInv, BodiesOK, NEW r \in Runs,
                      \/ r \in table
                      \/ \E i \in 1..Len(stack) : stack[i].run = r
                      \/ worker[r] \in {"body", "asking", "waiting"}
                      \/ \E i \in 1..Len(queue) : queue[i][2] = r
               PROVE  refs[r] > 0
    BY DEF RunsOutliveUsers
  <1>1. StackOK /\ QueueOK /\ CountsOK /\ RunOK(r) /\ NoRun # r
    BY MacroRunnerAssumption DEF IInv, TypeInv, DataOK, MacroRunnerAssumption
  <1>2. r \in table \/ In(stack, "tick", r) \/ worker[r] = "body" \/ Waits(r)
        \/ InQueue(queue, "done", r) \/ callRefs[r] > 0
        => refs[r] > 0
    BY <1>1 DEF RunOK, RefsOK, One
  <1>3. In(stack, "call", r) \/ InQueue(queue, "sync", r) => callRefs[r] > 0
    BY <1>1 DEF RunOK, CallOK, Waits, Carried, LostRefs, One, CountsOK
  <1>4. ASSUME NEW i \in 1..Len(stack), stack[i].run = r
        PROVE  r \in table \/ In(stack, "tick", r) \/ In(stack, "call", r)
    <2>1. stack[i] \in Frames
      BY <1>1 DEF StackOK
    <2>2. \A f \in Frames : f = Frame(f.kind, f.run) /\ f.kind \in FrameKinds
      BY DEF Frames, Frame
    <2>3. stack[i] = Frame(stack[i].kind, r)
      BY <1>4, <2>1, <2>2
    <2>4. CASE stack[i].kind = "body"
      BY <1>4, <2>4 DEF BodiesOK
    <2>5. CASE stack[i].kind \in {"tick", "call"}
      BY <2>3, <2>5 DEF In
    <2>6. CASE stack[i].kind = "step"
      <3>1. Len(stack) = 2 /\ stack[2] = Frame("tick", r)
        BY <1>1, <1>4, <2>6 DEF StackOK, Shape
      <3>2. 2 \in 1..Len(stack)
        BY <3>1
      <3> QED BY <3>1, <3>2 DEF In
    <2>7. CASE stack[i].kind = "drain"
      BY <1>1, <1>4, <2>7 DEF StackOK, Shape
    <2> QED BY <2>1, <2>2, <2>4, <2>5, <2>6, <2>7 DEF FrameKinds
  <1>5. ASSUME NEW i \in 1..Len(queue), queue[i][2] = r
        PROVE  InQueue(queue, "sync", r) \/ InQueue(queue, "done", r)
    <2>1. queue[i] \in Messages
      BY <1>1 DEF QueueOK
    <2>2. queue[i] = <<"sync", r>> \/ queue[i] = <<"done", r>>
      BY <1>5, <2>1 DEF Messages
    <2> QED BY <2>2 DEF InQueue
  <1> QED BY <1>2, <1>3, <1>4, <1>5 DEF Waits

\* run_unref() frees no run that the table, a frame, a thread, a message or a
\* call still names, where the bodies of timelines run no module commands (one
\* that did could stop its own run and be freed under its frame).
THEOREM NoneIsFreedInUse ==
  ASSUME "body" \notin Commands
  PROVE  Spec => []RunsOutliveUsers
  <1>1. Init => BodiesOK
    BY DEF Init, Fresh, BodiesOK
  <1>2. IInv /\ IInv' /\ BodiesOK /\ [Next]_vars => BodiesOK'
    <2> SUFFICES ASSUME IInv, IInv', BodiesOK, [Next]_vars PROVE BodiesOK'
      OBVIOUS
    <2>1. StackOK /\ StackOK'
      BY DEF IInv, TypeInv
    <2>2. CASE Next
      BY <2>1, <2>2, NextMoves, MoveKeepsBodies
    <2>3. CASE UNCHANGED vars
      BY <2>3 DEF vars, runnerVars, BodiesOK
    <2> QED BY <2>2, <2>3
  <1> QED BY <1>1, <1>2, Invariant, UsersHold, PTL DEF Spec

-----------------------------------------------------------------------------
(* Whoever waits for the end of a run hears of it.                         *)

\* Run d is over afterwards only if it was, or if it is reported, or if the
\* runner is dead; what was reported stays reported.
Reported(d) ==
  /\ d \in started' \ table' => d \in started \ table \/ told'[d] > 0 \/ dead'
  /\ told'[d] >= told[d]
  /\ dead => dead'

LEMMA PlusFacts ==
  ASSUME NEW count \in [Runs -> Nat], NEW rs, NEW d \in Runs
  PROVE  /\ Plus(count, rs)[d] \in Nat /\ Plus(count, rs)[d] >= count[d]
         /\ d \in rs => Plus(count, rs)[d] > 0
  BY DEF Plus

LEMMA EndsAreReported ==
  ASSUME CountsOK, SetsOK, Next, ~Restart, NEW d \in Runs
  PROVE  Reported(d)
  <1>0. told \in [Runs -> Nat] /\ told[d] >= told[d] /\ Threaded \subseteq Runs /\ Timeline \subseteq Runs
    BY MacroRunnerAssumption DEF CountsOK, Timeline, MacroRunnerAssumption
  <1> USE DEF vars, runnerVars, sharedVars, historyVars
  <1>1. ASSUME UNCHANGED <<table, started, told, dead>> PROVE Reported(d)
    BY <1>0, <1>1 DEF Reported
  <1>2. ASSUME NEW rs, told' = Plus(told, rs), table' = table \ rs, UNCHANGED <<started, dead>>
        PROVE  Reported(d)
    BY <1>0, <1>2, PlusFacts DEF Reported
  <1>3. ASSUME NEW r \in Runs, StartTimeline(r) \/ StartThreaded(r) PROVE Reported(d)
    <2>1. started' = started \cup {r} /\ table' = table \cup {r} /\ UNCHANGED <<told, dead>>
      BY <1>3 DEF StartTimeline, StartThreaded
    <2> QED BY <1>0, <2>1 DEF Reported
  <1>4. ASSUME NEW r \in Runs, StartNoThread(r) PROVE Reported(d)
    <2>1. started' = started \cup {r} /\ table' = table /\ told' = Plus(told, {r}) /\ dead' = dead
      BY <1>4 DEF StartNoThread
    <2> QED BY <1>0, <2>1, PlusFacts DEF Reported
  <1>5. ASSUME NEW rs, Stop(rs) PROVE Reported(d)
    BY <1>2, <1>5 DEF Stop, Finish, Leave
  <1>6. ASSUME NEW m, Clear(m) PROVE Reported(d)
    BY <1>1, <1>6 DEF Clear
  <1>7. ASSUME NEW r, BodyFinished(r) \/ TickFinished(r) PROVE Reported(d)
    BY <1>2, <1>7 DEF BodyFinished, TickFinished, Finish, Leave
  <1>8. ASSUME NEW r, BodyFaulted(r) PROVE Reported(d)
    BY <1>2, <1>8 DEF BodyFaulted, HoldBack, Leave
  <1>9. ASSUME NEW r, CallFaulted(r) PROVE Reported(d)
    <2>1. told' = Plus(told, {r}) /\ UNCHANGED <<table, started, dead>>
      BY <1>9 DEF CallFaulted, HoldBack
    <2> QED BY <1>0, <2>1, PlusFacts DEF Reported
  <1>10. ASSUME NEW r, HandleDone(r) PROVE Reported(d)
    <2>1. CASE r \in table /\ r \in faulted
      BY <1>2, <1>10, <2>1 DEF HandleDone, HoldBack, Leave
    <2>2. CASE ~(r \in table /\ r \in faulted)
      BY <1>2, <1>10, <2>2 DEF HandleDone, Finish, Leave
    <2> QED BY <2>1, <2>2
  <1>11. ASSUME NEW r, NEW step,
                \/ BodyStarted(r) \/ TickStep(r) \/ StepDone(r) \/ TickWait(r) \/ TimelineTick(r)
                \/ HandleAbandoned(r) \/ HandleSync(r) \/ CallReturns(r) \/ WorkerStep(r)
                \/ BodyQueueStep(r, step) \/ QueueReady \/ DrainEmpty
         PROVE  Reported(d)
    <2>1. UNCHANGED <<table, started, told, dead>>
      BY <1>11
         DEF BodyStarted, TickStep, StepDone, TickWait, TimelineTick, HandleAbandoned, HandleSync,
             CallReturns, BodyQueueStep, QueueReady, DrainEmpty, WorkerStep, WorkerWaits,
             WorkerAsks, WorkerPokes, WorkerAnswered, WorkerAbandons, WorkerUnwound, WorkerLeaves
    <2> QED BY <1>1, <2>1
  <1>12. ASSUME DisplayDestroyed \/ Finalize PROVE Reported(d)
    <2>1. (dead' /\ UNCHANGED told) \/ UNCHANGED <<table, started, told, dead>>
      BY <1>12 DEF DisplayDestroyed, Finalize, ShutDown
    <2> QED BY <1>0, <1>1, <2>1 DEF Reported
  <1>13. Command => Reported(d)
    BY <1>3, <1>4, <1>5, <1>6, Zenon DEF Command
  <1>14. FrameStep => Reported(d)
    BY <1>7, <1>8, <1>9, <1>10, <1>11, Zenon DEF FrameStep
  <1> QED BY <1>11, <1>12, <1>13, <1>14, Zenon DEF Next

\* run_finish(), on_run_faulted() and the failure paths between them tell the
\* finished listeners of every run that left the table.
THEOREM EndsAreHeard == Spec => []EndIsTold
  <1>1. Init => EndIsTold
    BY DEF Init, Fresh, EndIsTold
  <1>2. IInv /\ EndIsTold /\ [Next]_vars => EndIsTold'
    <2> SUFFICES ASSUME IInv, EndIsTold, [Next]_vars PROVE EndIsTold'
      OBVIOUS
    <2>1. CountsOK /\ SetsOK
      BY DEF IInv, TypeInv, DataOK
    <2>2. CASE UNCHANGED vars
      BY <2>2 DEF vars, runnerVars, historyVars, EndIsTold
    <2>3. CASE Restart
      BY <2>3 DEF Restart, Fresh, EndIsTold
    <2>4. CASE Next /\ ~Restart
      <3> SUFFICES ASSUME NEW d \in started' \ table' PROVE dead' \/ told'[d] > 0
        BY DEF EndIsTold
      <3>1. d \in Runs /\ told \in [Runs -> Nat] /\ told' \in [Runs -> Nat]
        <4>1. DataOK'
          BY <2>4, DataStep DEF IInv, TypeInv
        <4> QED BY <2>1, <4>1 DEF CountsOK, DataOK, SetsOK
      <3>2. Reported(d)
        BY <2>1, <2>4, <3>1, EndsAreReported
      <3> QED BY <3>1, <3>2 DEF Reported, EndIsTold
    <2> QED BY <2>2, <2>3, <2>4
  <1> QED BY <1>1, <1>2, Invariant, PTL DEF Spec

-----------------------------------------------------------------------------
(* The journal.  Where macros are not reentrant and no body runs module    *)
(* commands, each run in the table is marked, and no two are of one macro, *)
(* so no end of one takes the other's mark.  What is hard is a tick whose  *)
(* run one of its own steps stopped: it ends a run that has left the table,*)
(* before anything else can start.                                         *)

TimersOK == timer \subseteq table /\ timer \subseteq Timeline
FreshBodies == \A r \in Runs : In(stack, "body", r) => r \notin timer /\ ~In(stack, "tick", r)
LastTick(r) == r \in cancelled /\ Top.kind = "tick" /\ \A o \in table : Macro[o] # Macro[r]
TicksOK == \A r \in Runs : In(stack, "tick", r) => r \in started /\ (r \in table \/ LastTick(r))
MarksOK ==
  /\ \A r \in table : Macro[r] \in running
  /\ \A r, o \in table : Macro[r] = Macro[o] => r = o
JournalInv == TimersOK /\ FreshBodies /\ TicksOK /\ MarksOK

LEMMA BodyIsTop ==
  ASSUME StackOK, BodiesOK, NEW r \in Runs, In(stack, "body", r)
  PROVE  stack # <<>> /\ Top.kind = "body" /\ r \in table
  <1>1. PICK i \in 1..Len(stack) : stack[i] = Frame("body", r)
    BY DEF In
  <1>2. i = 1 /\ stack[1].kind = "body" /\ r \in table
    BY <1>1 DEF BodiesOK, Frame
  <1>3. stack # <<>>
    BY <1>1
  <1> QED BY <1>2, <1>3, TopGone

LEMMA NoTickUnder ==
  ASSUME StackOK,
         \/ stack = <<>> \/ Top.kind \in {"call", "drain"}
         \/ \E r : In(stack, "call", r)
  PROVE  \A d : ~In(stack, "tick", d)
  <1> SUFFICES ASSUME NEW i \in 1..Len(stack), stack[i].kind = "tick" PROVE FALSE
    BY DEF In, Frame
  <1>1. stack # <<>> /\ i = Len(stack)
    BY DEF StackOK, Shape
  <1>2. CASE \E r : In(stack, "call", r)
    <2>1. PICK j \in 1..Len(stack) : stack[j].kind = "call"
      BY <1>2 DEF In, Frame
    <2>2. stack[Len(stack)].kind = "drain"
      BY <2>1 DEF StackOK, Shape
    <2> QED BY <1>1, <2>2
  <1>3. CASE Top.kind = "call"
    BY <1>1, <1>3, TopIs
  <1>4. CASE Top.kind = "drain"
    BY <1>1, <1>4, TopIs, TopGone
  <1> QED BY <1>1, <1>2, <1>3, <1>4

\* Where a command runs, there is no body; and a tick lies right under the step.
LEMMA CommandSees ==
  ASSUME "body" \notin Commands, StackOK, BodiesOK, CommandsRun
  PROVE  /\ \A r \in Runs : ~In(stack, "body", r)
         /\ stack # <<>> => Top.kind # "tick"
         /\ \A d : In(stack, "tick", d) => Under # <<>> /\ Head(Under).kind = "tick"
  <1>1. stack # <<>> => Top.kind \in {"step", "call"}
    BY MacroRunnerAssumption DEF CommandsRun, MacroRunnerAssumption
  <1>2. \A r \in Runs : ~In(stack, "body", r)
    BY <1>1, BodyIsTop
  <1>3. ASSUME NEW d, In(stack, "tick", d) PROVE Under # <<>> /\ Head(Under).kind = "tick"
    <2>1. stack # <<>> /\ Top.kind = "step"
      BY <1>1, <1>3, NoTickUnder
    <2>2. Under = Tail(stack) /\ Len(stack) = 2 /\ stack[2] = Frame("tick", Top.run)
      BY <2>1, TopIs DEF Under
    <2>3. Under \in Seq(Frames) /\ Dropped(stack, Under, 1)
      BY <2>1, <2>2, TopGone
    <2>4. Len(Under) = 1 /\ Under[1] = stack[1 + 1]
      BY <2>2, <2>3 DEF Dropped
    <2>5. Under # <<>> /\ Head(Under) = stack[2]
      <3>1. \A s \in Seq(Frames) : Len(s) = 1 => s # <<>> /\ Head(s) = s[1]
        OBVIOUS
      <3> QED BY <2>3, <2>4, <3>1
    <2> QED BY <2>2, <2>5 DEF Frame
  <1> QED BY <1>1, <1>2, <1>3

LEMMA TickIsInTable ==
  ASSUME TicksOK, NEW r \in Runs, In(stack, "tick", r), r \notin cancelled \/ Top.kind # "tick"
  PROVE  r \in table
  BY DEF TicksOK, LastTick

\* Nothing ends, nothing starts, no frame is added that matters here.
LEMMA CalmStep ==
  ASSUME JournalInv, UNCHANGED <<table, started, running>>, cancelled \subseteq cancelled',
         timer' \subseteq timer,
         \A d \in Runs : In(stack', "body", d) => In(stack, "body", d),
         \A d \in Runs : In(stack', "tick", d) => In(stack, "tick", d),
         stack' = stack \/ \A d \in Runs : In(stack', "tick", d) => d \in table
  PROVE  JournalInv'
  <1>1. TimersOK' BY DEF JournalInv, TimersOK
  <1>2. FreshBodies' BY DEF JournalInv, FreshBodies
  <1>3. TicksOK'
    <2>1. CASE stack' = stack
      BY <2>1 DEF JournalInv, TicksOK, LastTick, Top
    <2>2. CASE \A d \in Runs : In(stack', "tick", d) => d \in table
      BY <2>2 DEF JournalInv, TicksOK
    <2> QED BY <2>1, <2>2
  <1>4. MarksOK' BY DEF JournalInv, MarksOK
  <1> QED BY <1>1, <1>2, <1>3, <1>4 DEF JournalInv

\* Runs end: rs leave the table, and their macros' marks are taken.
LEMMA EndStep ==
  ASSUME JournalInv, NEW rs \in SUBSET Runs,
         table' = table \ rs, started' = started, cancelled \subseteq cancelled',
         running' = running \ {Macro[r] : r \in rs},
         \A r \in rs : r \in table \/ \A o \in table : Macro[o] # Macro[r],
         timer' = timer \ rs,
         \A d \in Runs : In(stack', "body", d) => In(stack, "body", d),
         \A d \in Runs : In(stack', "tick", d) => In(stack, "tick", d) /\ d \in table,
         \A d \in rs \cap Runs : In(stack', "tick", d) => d \in cancelled' /\ Top'.kind = "tick"
  PROVE  JournalInv'
  <1>1. TimersOK' BY DEF JournalInv, TimersOK
  <1>2. FreshBodies' BY DEF JournalInv, FreshBodies
  <1>3. MarksOK'
    <2>1. ASSUME NEW o \in table', NEW r \in rs PROVE Macro[o] # Macro[r]
      BY <2>1 DEF JournalInv, MarksOK
    <2> QED BY <2>1 DEF JournalInv, MarksOK
  <1>4. TicksOK'
    <2> SUFFICES ASSUME NEW d \in Runs, In(stack', "tick", d)
                 PROVE  d \in started' /\ (d \in table' \/ LastTick(d)')
      BY DEF TicksOK
    <2>1. d \in started' /\ d \in table
      BY DEF JournalInv, TicksOK
    <2>2. CASE d \in rs
      <3>1. \A o \in table' : Macro[o] # Macro[d]
        BY <2>1, <2>2 DEF JournalInv, MarksOK
      <3> QED BY <2>1, <2>2, <3>1 DEF LastTick
    <2> QED BY <2>1, <2>2
  <1> QED BY <1>1, <1>2, <1>3, <1>4 DEF JournalInv

LEMMA StartsKeepJournal ==
  ASSUME "body" \notin Commands, ~Reentrant, IInv, BodiesOK, JournalInv, NEW r \in Runs,
         StartTimeline(r) \/ StartThreaded(r) \/ StartNoThread(r)
  PROVE  JournalInv'
  <1>0. StackOK /\ CommandsRun /\ MayStart(r) /\ SetsOK
    BY DEF IInv, TypeInv, DataOK, StartTimeline, StartThreaded, StartNoThread
  <1>1. r \notin started /\ r \notin table /\ r \notin timer /\ ~In(stack, "tick", r)
        /\ \A o \in table : Macro[o] # Macro[r]
    BY <1>0 DEF MayStart, JournalInv, TimersOK, TicksOK, SetsOK
  <1>2. /\ \A d \in Runs : ~In(stack, "body", d)
        /\ \A d \in Runs : In(stack, "tick", d) => d \in table
    <2>1. (stack # <<>> => Top.kind # "tick") /\ \A d \in Runs : ~In(stack, "body", d)
      BY <1>0, CommandSees
    <2>2. stack = <<>> => \A d : ~In(stack, "tick", d)
      BY EmptyHolds
    <2> QED BY <2>1, <2>2, TickIsInTable DEF JournalInv
  <1>3. /\ \A d \in Runs : In(stack', "tick", d) <=> In(stack, "tick", d)
        /\ \A d \in Runs : In(stack', "body", d) => d = r
    <2>1. CASE StartTimeline(r)
      <3>0. r \in Timeline /\ stack' = <<Frame("body", r)>> \o Under
        BY <2>1 DEF StartTimeline
      <3>1. PICK s \in Seq(Frames) : s = Under /\ Shape(s) /\ (s # <<>> => s[1].kind # "step")
                /\ \A d \in Runs : /\ In(s, "tick", d) <=> In(stack, "tick", d)
                                   /\ In(s, "body", d) <=> In(stack, "body", d)
        BY <1>0, UnderFacts
      <3>2. "body" \in FrameKinds /\ r \in Runs \cup {NoRun}
        BY DEF FrameKinds
      <3>3. LET t == <<Frame("body", r)>> \o s IN
            \A k, d : In(t, k, d) <=> In(s, k, d) \/ (k = "body" /\ d = r)
        BY <3>0, <3>1, <3>2, Push
      <3>4. stack' = <<Frame("body", r)>> \o s
        BY <3>0, <3>1
      <3> QED BY <1>2, <3>1, <3>3, <3>4
    <2>2. CASE StartThreaded(r) \/ StartNoThread(r)
      <3>1. stack' = Under
        BY <2>2 DEF StartThreaded, StartNoThread
      <3> QED BY <1>0, <1>2, <3>1, UnderFacts
    <2> QED BY <2>1, <2>2
  <1>4. /\ started' = started \cup {r} /\ timer' = timer
        /\ \/ table' = table \cup {r} /\ running' = running \cup {Macro[r]}
           \/ table' = table /\ running' = running \ {Macro[r]}
    BY DEF StartTimeline, StartThreaded, StartNoThread, sharedVars
  <1>5. TimersOK' BY <1>4 DEF JournalInv, TimersOK
  <1>6. FreshBodies' BY <1>1, <1>3, <1>4 DEF FreshBodies
  <1>7. TicksOK' BY <1>2, <1>3, <1>4 DEF JournalInv, TicksOK
  <1>8. MarksOK' BY <1>1, <1>4 DEF JournalInv, MarksOK
  <1> QED BY <1>5, <1>6, <1>7, <1>8 DEF JournalInv

LEMMA StopKeepsJournal ==
  ASSUME "body" \notin Commands, IInv, BodiesOK, JournalInv, NEW rs \in Targets, Stop(rs)
  PROVE  JournalInv'
  <1>0. StackOK /\ CommandsRun /\ SetsOK /\ rs \subseteq table /\ rs \subseteq Runs
        /\ stack' = Under
    BY TargetsAreRuns DEF IInv, TypeInv, DataOK, Stop
  <1>1. (stack # <<>> => Top.kind # "tick") /\ \A d \in Runs : ~In(stack, "body", d)
    BY <1>0, CommandSees
  <1>2. \A d \in Runs : /\ In(stack', "tick", d) <=> In(stack, "tick", d)
                        /\ In(stack', "body", d) <=> In(stack, "body", d)
    BY <1>0, UnderFacts
  <1>3. \A d \in Runs : In(stack, "tick", d) => d \in table
    <2>1. stack = <<>> => \A d : ~In(stack, "tick", d)
      BY EmptyHolds
    <2> QED BY <1>1, <2>1, TickIsInTable DEF JournalInv
  <1>4. \A d \in Runs : In(stack, "tick", d) => Top'.kind = "tick"
    BY <1>0, CommandSees DEF Top
  <1>5. PICK q \in SUBSET Runs : q = rs \cap Timeline
    BY <1>0
  <1>6. /\ table' = table \ q /\ started' = started /\ cancelled' = cancelled \cup rs
        /\ running' = running \ {Macro[r] : r \in q} /\ timer' = timer \ q
    BY <1>5 DEF Stop, Finish, Leave
  <1>7. \A d \in q : d \in cancelled' /\ d \in table
    BY <1>0, <1>5, <1>6
  <1> QED BY <1>1, <1>2, <1>3, <1>4, <1>6, <1>7, EndStep

LEMMA CalmKeepsJournal ==
  ASSUME "body" \notin Commands, IInv, BodiesOK, JournalInv,
         \/ \E m \in Names : Clear(m)
         \/ \E r \in Timeline : TickStep(r) \/ StepDone(r)
                                \/ \E step \in {"do", "wait"} : BodyQueueStep(r, step)
         \/ \E r \in Threaded : HandleAbandoned(r) \/ HandleSync(r) \/ CallReturns(r)
                                \/ CallFaulted(r) \/ WorkerStep(r)
         \/ QueueReady \/ DrainEmpty \/ UNCHANGED vars
  PROVE  JournalInv'
  <1>0. StackOK /\ TicksOK /\ Threaded \subseteq Runs /\ Timeline \subseteq Runs
    BY MacroRunnerAssumption DEF IInv, TypeInv, JournalInv, Timeline, MacroRunnerAssumption
  <1> USE DEF vars, runnerVars, sharedVars, workerVars, journalVars, historyVars
  <1>1. UNCHANGED <<table, started, running, timer>> /\ cancelled \subseteq cancelled'
    BY DEF Clear, TickStep, StepDone, BodyQueueStep, HandleAbandoned, HandleSync, CallReturns,
           CallFaulted, WorkerStep, WorkerWaits, WorkerAsks, WorkerPokes, WorkerAnswered,
           WorkerAbandons, WorkerUnwound, WorkerLeaves, QueueReady, DrainEmpty
  <1>2. ASSUME \A d \in Runs : In(stack', "body", d) => In(stack, "body", d),
               \A d \in Runs : In(stack', "tick", d) => In(stack, "tick", d),
               stack' = stack \/ \A d \in Runs : In(stack', "tick", d) => d \in table
        PROVE  JournalInv'
    BY <1>1, <1>2, CalmStep
  <1>3. CASE stack' = stack
    BY <1>2, <1>3
  <1>4. ASSUME NEW m \in Names, Clear(m) PROVE JournalInv'
    <2>1. stack' = Under /\ CommandsRun
      BY <1>4 DEF Clear
    <2>2. (stack # <<>> => Top.kind # "tick") /\ (stack = <<>> => \A d : ~In(stack, "tick", d))
      BY <1>0, <2>1, CommandSees, EmptyHolds
    <2>3. \A d \in Runs : In(stack, "tick", d) => d \in table
      BY <1>0, <2>2, TickIsInTable
    <2> QED BY <1>0, <1>2, <2>1, <2>3, UnderFacts
  <1>5. ASSUME NEW r \in Timeline, TickStep(r) PROVE JournalInv'
    <2>1. stack # <<>> /\ Top = Frame("tick", r) /\ stack' = <<Frame("step", r)>> \o stack /\ r \notin cancelled
      BY <1>5 DEF TickStep, On
    <2>2. \A k, d : In(stack', k, d) <=> In(stack, k, d) \/ (k = "step" /\ d = r)
      BY <1>0, <2>1, PushedOnOne
    <2>3. \A k, d : In(stack, k, d) => d = r
      <3>1. Len(stack) = 1 /\ stack[1] = Frame("tick", r)
        BY <1>0, <2>1, TopIs, TopGone DEF Frame
      <3>2. \A i \in 1..Len(stack) : stack[i] = Frame("tick", r)
        BY <3>1
      <3> QED BY <3>2, FrameIs DEF In
    <2>4. \A d \in Runs : In(stack, "tick", d) => d \in table
      BY <1>0, <2>1, <2>3, TickIsInTable
    <2> QED BY <1>2, <2>2, <2>4
  <1>6. ASSUME NEW r \in Timeline, StepDone(r) PROVE JournalInv'
    <2>1. stack # <<>> /\ Top.kind = "step" /\ stack' = Tail(stack)
      BY <1>6 DEF StepDone, On, Frame
    <2>2. \A k, d : In(stack', k, d) => In(stack, k, d)
      BY <1>0, <2>1, Popped
    <2>3. \A d \in Runs : In(stack, "tick", d) => d \in table
      BY <1>0, <2>1, TickIsInTable
    <2> QED BY <1>2, <2>2, <2>3
  <1>7. ASSUME NEW r \in Threaded, HandleSync(r) PROVE JournalInv'
    <2>1. stack # <<>> /\ Top.kind = "drain" /\ stack' = <<Frame("call", r)>> \o stack
      BY <1>7 DEF HandleSync, Draining
    <2>2. \A k, d : In(stack', k, d) <=> In(stack, k, d) \/ (k = "call" /\ d = r)
      BY <1>0, <2>1, PushedOnOne
    <2> QED BY <1>0, <1>2, <2>1, <2>2, NoTickUnder
  <1>8. ASSUME NEW r \in Threaded, CallReturns(r) \/ DrainEmpty PROVE JournalInv'
    <2>1. stack # <<>> /\ Top.kind \in {"call", "drain"} /\ stack' = Tail(stack)
      BY <1>8 DEF CallReturns, DrainEmpty, On, Frame, Draining
    <2> QED BY <1>0, <1>2, <2>1, Popped, NoTickUnder
  <1>9. ASSUME NEW r \in Threaded, CallFaulted(r) PROVE JournalInv'
    <2>1. FaultLandsIn(Frame("call", r))
      BY <1>9 DEF CallFaulted
    <2>2. In(stack, "call", r) /\ \A kd, d : In(stack', kd, d) => In(stack, kd, d)
      BY <1>0, <2>1, Faulted
    <2> QED BY <1>0, <1>2, <2>2, NoTickUnder
  <1>10. CASE QueueReady
    <2>1. stack = <<>> /\ stack' = <<Frame("drain", NoRun)>>
      BY <1>10 DEF QueueReady
    <2>2. \A k, d : In(stack', k, d) => k = "drain"
      BY <1>0, <2>1, PushedOnEmpty
    <2> QED BY <1>2, <2>2
  <1>11. CASE DrainEmpty
    <2>1. stack # <<>> /\ Top.kind \in {"call", "drain"} /\ stack' = Tail(stack)
      BY <1>11 DEF DrainEmpty, Draining
    <2> QED BY <1>0, <1>2, <2>1, Popped, NoTickUnder
  <1>12. ASSUME \/ \E r \in Timeline, step \in {"do", "wait"} : BodyQueueStep(r, step)
                \/ \E r \in Threaded : HandleAbandoned(r) \/ WorkerStep(r)
                \/ UNCHANGED vars
         PROVE  stack' = stack
    BY <1>12
       DEF BodyQueueStep, HandleAbandoned, WorkerStep, WorkerWaits, WorkerAsks, WorkerPokes,
           WorkerAnswered, WorkerAbandons, WorkerUnwound, WorkerLeaves
  <1> QED BY <1>3, <1>4, <1>5, <1>6, <1>7, <1>8, <1>9, <1>10, <1>11, <1>12, Zenon

LEMMA EndsKeepJournal ==
  ASSUME IInv, BodiesOK, JournalInv,
         \/ \E r \in Timeline : BodyFinished(r) \/ BodyFaulted(r) \/ TickFinished(r)
         \/ \E r \in Threaded : HandleDone(r)
  PROVE  JournalInv'
  <1>0. StackOK /\ JournalInv /\ Threaded \subseteq Runs /\ Timeline \subseteq Runs
    BY MacroRunnerAssumption DEF IInv, TypeInv, Timeline, MacroRunnerAssumption
  <1>1. ASSUME NEW r \in Timeline, BodyFinished(r) \/ BodyFaulted(r) PROVE JournalInv'
    <2>1. In(stack, "body", r) /\ \A kd, d : In(stack', kd, d) => In(stack, kd, d)
      <3>1. CASE BodyFinished(r)
        <4>1. stack # <<>> /\ Top = Frame("body", r) /\ stack' = Tail(stack)
          BY <3>1 DEF BodyFinished, On
        <4> QED BY <1>0, <4>1, Popped, TopGone
      <3>2. CASE BodyFaulted(r)
        <4>1. FaultLandsIn(Frame("body", r))
          BY <3>2 DEF BodyFaulted
        <4> QED BY <1>0, <4>1, Faulted
      <3> QED BY <1>1, <3>1, <3>2
    <2>2. stack # <<>> /\ Top.kind = "body" /\ r \in table
      BY <1>0, <2>1, BodyIsTop
    <2>3. r \notin timer /\ ~In(stack, "tick", r)
      BY <1>0, <2>1 DEF JournalInv, FreshBodies
    <2>4. \A d \in Runs : In(stack, "tick", d) => d \in table /\ d # r
      BY <1>0, <2>2, <2>3, TickIsInTable DEF JournalInv
    <2>5. PICK q \in SUBSET Runs : q = {r}
      BY <1>0
    <2>6. /\ table' = table \ q /\ started' = started /\ cancelled' = cancelled
          /\ running' = running \ {Macro[o] : o \in q} /\ timer' = timer \ q
      <3>1. /\ table' = table \ q /\ started' = started /\ cancelled' = cancelled
            /\ timer' = timer \ q
            /\ running' = running \ {Macro[o] : o \in {r}} \/ running' = running \ {Macro[r]}
        BY <1>1, <2>3, <2>5 DEF BodyFinished, BodyFaulted, Finish, Leave
      <3>2. {Macro[o] : o \in {r}} = {Macro[r]}
        OBVIOUS
      <3> QED BY <2>5, <3>1, <3>2
    <2> QED BY <2>1, <2>2, <2>4, <2>5, <2>6, EndStep
  <1>2. ASSUME NEW r \in Timeline, TickFinished(r) PROVE JournalInv'
    <2>1. stack # <<>> /\ Top.kind = "tick" /\ Top.run = r /\ stack' = Tail(stack)
      BY <1>2 DEF TickFinished, On, Frame
    <2>2. (\A kind, d : ~In(stack', kind, d)) /\ In(stack, "tick", r)
      BY <1>0, <2>1, Popped
    <2>3. r \in table \/ \A o \in table : Macro[o] # Macro[r]
      BY <1>0, <2>2 DEF JournalInv, TicksOK, LastTick
    <2>4. PICK q \in SUBSET Runs : q = {r}
      BY <1>0
    <2>5. /\ table' = table \ q /\ started' = started /\ cancelled' = cancelled
          /\ running' = running \ {Macro[o] : o \in q} /\ timer' = timer \ q
      BY <1>2, <2>4 DEF TickFinished, Finish, Leave
    <2> QED BY <2>2, <2>3, <2>4, <2>5, EndStep
  <1>3. ASSUME NEW r \in Threaded, HandleDone(r) PROVE JournalInv'
    <2>1. stack # <<>> /\ Top.kind = "drain" /\ stack' = stack
      BY <1>3 DEF HandleDone, Draining
    <2>2. \A d : ~In(stack, "tick", d)
      BY <1>0, <2>1, NoTickUnder
    <2>3. r \notin timer
      BY <1>0 DEF JournalInv, TimersOK, Timeline
    <2>4. PICK q \in SUBSET Runs : q = {r} \cap table
      BY <1>0
    <2>5. /\ table' = table \ q /\ started' = started /\ cancelled' = cancelled
          /\ running' = running \ {Macro[o] : o \in q} /\ timer' = timer \ q
      <3>1. CASE r \in table /\ r \in faulted
        <4>1. running' = running \ {Macro[r]} /\ table' = table \ {r} /\ timer' = timer
          BY <1>3, <3>1 DEF HandleDone, Leave
        <4>2. q = {r} /\ {Macro[o] : o \in q} = {Macro[r]}
          BY <2>4, <3>1
        <4> QED BY <1>3, <2>3, <4>1, <4>2 DEF HandleDone
      <3>2. CASE ~(r \in table /\ r \in faulted)
        <4>1. timer' = timer \ q /\ running' = running \ {Macro[o] : o \in q} /\ table' = table \ q
          BY <1>3, <2>4, <3>2 DEF HandleDone, Finish, Leave
        <4> QED BY <1>3, <4>1 DEF HandleDone
      <3> QED BY <3>1, <3>2
    <2> QED BY <2>1, <2>2, <2>4, <2>5, EndStep
  <1> QED BY <1>1, <1>2, <1>3

LEMMA TicksKeepJournal ==
  ASSUME IInv, BodiesOK, BodiesOK', JournalInv, NEW r \in Timeline,
         TimelineTick(r) \/ TickWait(r) \/ BodyStarted(r)
  PROVE  JournalInv'
  <1>0. StackOK /\ r \in Runs /\ SetsOK
    BY DEF IInv, TypeInv, DataOK, Timeline
  <1>1. UNCHANGED <<table, started, cancelled, running>> /\ timer' \subseteq timer \cup {r}
    BY DEF TimelineTick, TickWait, BodyStarted, sharedVars, journalVars, historyVars
  <1>2. MarksOK' BY <1>1 DEF JournalInv, MarksOK
  <1>3. CASE TimelineTick(r)
    <2>1. stack = <<>> /\ stack' = <<Frame("tick", r)>> /\ r \in timer /\ timer' = timer \ {r}
      BY <1>3 DEF TimelineTick
    <2>2. \A k, d : In(stack', k, d) <=> k = "tick" /\ d = r
      BY <1>0, <2>1, PushedOnEmpty
    <2>3. TimersOK' BY <1>1, <2>1 DEF JournalInv, TimersOK
    <2>4. FreshBodies' BY <2>2 DEF FreshBodies
    <2>5. TicksOK' BY <1>0, <1>1, <2>1, <2>2 DEF JournalInv, TimersOK, TicksOK, SetsOK
    <2> QED BY <1>2, <2>3, <2>4, <2>5 DEF JournalInv
  <1>4. CASE TickWait(r)
    <2>1. stack # <<>> /\ Top.kind = "tick" /\ Top.run = r /\ stack' = Tail(stack) /\ r \notin cancelled
      BY <1>4 DEF TickWait, On, Frame
    <2>2. (\A kind, d : ~In(stack', kind, d)) /\ In(stack, "tick", r)
      BY <1>0, <2>1, Popped
    <2>3. r \in table
      BY <1>0, <2>1, <2>2, TickIsInTable DEF JournalInv
    <2>4. TimersOK' BY <1>1, <2>3 DEF JournalInv, TimersOK
    <2>5. FreshBodies' /\ TicksOK' BY <2>2 DEF FreshBodies, TicksOK
    <2> QED BY <1>2, <2>4, <2>5 DEF JournalInv
  <1>5. CASE BodyStarted(r)
    <2>1. stack # <<>> /\ Top = Frame("body", r) /\ Top.kind = "body" /\ stack' = Tail(stack)
      BY <1>5 DEF BodyStarted, On, Frame
    <2>2. In(stack, "body", r) /\ \A kind, d : In(stack', kind, d) => In(stack, kind, d)
      BY <1>0, <2>1, Popped, TopGone
    <2>3. r \in table
      BY <1>0, <2>2, BodyIsTop
    <2>4. \A d \in Runs : ~In(stack', "body", d)
      <3>1. SUFFICES ASSUME NEW d \in Runs, NEW i \in 1..Len(stack'), stack'[i].kind = "body"
                     PROVE  FALSE
        BY DEF In, Frame
      <3>2. Dropped(stack, stack', 1) /\ Len(stack) \in Nat
        BY <1>0, <2>1, TopGone DEF StackOK
      <3>3. i + 1 \in 1..Len(stack) /\ stack[i + 1].kind = "body"
        BY <3>1, <3>2 DEF Dropped
      <3>4. i + 1 = 1
        BY <3>3 DEF BodiesOK
      <3> QED BY <3>4
    <2>5. TimersOK' BY <1>1, <2>3 DEF JournalInv, TimersOK
    <2>6. FreshBodies' BY <2>4 DEF FreshBodies
    <2>7. TicksOK'
      BY <1>0, <1>1, <2>1, <2>2, TickIsInTable DEF JournalInv, TicksOK
    <2> QED BY <1>2, <2>5, <2>6, <2>7 DEF JournalInv
  <1> QED BY <1>3, <1>4, <1>5

LEMMA ShutDownKeepsJournal ==
  ASSUME JournalInv, DisplayDestroyed \/ Finalize \/ Restart
  PROVE  JournalInv'
  <1>1. stack' = <<>>
    BY DEF DisplayDestroyed, Finalize, Restart, Fresh
  <1>2. \A kind, d : ~In(stack', kind, d)
    BY <1>1, EmptyHolds
  <1>3. FreshBodies' /\ TicksOK'
    BY <1>2 DEF FreshBodies, TicksOK
  <1>4. /\ table' = {} \/ (table' = table /\ running' = running)
        /\ timer' = {} \/ timer' = timer \ table \/ (timer' = timer /\ table' = table)
    BY DEF DisplayDestroyed, Finalize, Restart, Fresh, ShutDown, Leave, journalVars
  <1>5. TimersOK' BY <1>4 DEF JournalInv, TimersOK
  <1>6. MarksOK' BY <1>4 DEF JournalInv, MarksOK
  <1> QED BY <1>3, <1>5, <1>6 DEF JournalInv

\* journal_recover() finds every macro that was running: a crash holds them all
\* back.  (A reentrant macro's second run loses its mark when the first ends.)
THEOREM CrashesAreHeld ==
  ASSUME "body" \notin Commands, ~Reentrant
  PROVE  Spec => CrashIsHeld
  <1>1. Init => BodiesOK /\ JournalInv
    <2> SUFFICES ASSUME Init PROVE BodiesOK /\ JournalInv
      OBVIOUS
    <2>1. stack = <<>> /\ table = {} /\ timer = {}
      BY DEF Init, Fresh
    <2>2. \A kind, d : ~In(stack, kind, d)
      BY <2>1, EmptyHolds
    <2> QED BY <2>1, <2>2 DEF BodiesOK, JournalInv, TimersOK, FreshBodies, TicksOK, MarksOK
  <1>2. IInv /\ IInv' /\ BodiesOK /\ JournalInv /\ [Next]_vars => BodiesOK' /\ JournalInv'
    <2> SUFFICES ASSUME IInv, IInv', BodiesOK, JournalInv, [Next]_vars
                 PROVE  BodiesOK' /\ JournalInv'
      OBVIOUS
    <2>1. StackOK /\ StackOK'
      BY DEF IInv, TypeInv
    <2>2. BodiesOK'
      <3>1. CASE Next
        BY <2>1, <3>1, NextMoves, MoveKeepsBodies
      <3>2. CASE UNCHANGED vars
        BY <3>2 DEF vars, runnerVars, BodiesOK
      <3> QED BY <3>1, <3>2
    <2>3. Command => JournalInv'
      BY StartsKeepJournal, StopKeepsJournal, CalmKeepsJournal, Zenon DEF Command
    <2>4. FrameStep => JournalInv'
      BY <2>2, CalmKeepsJournal, EndsKeepJournal, TicksKeepJournal, Zenon DEF FrameStep
    <2>5. (\E r \in Timeline : TimelineTick(r)) => JournalInv'
      BY <2>2, TicksKeepJournal, Zenon
    <2>6. (\E r \in Timeline : \E step \in {"do", "wait"} : BodyQueueStep(r, step)) => JournalInv'
      BY CalmKeepsJournal, Zenon
    <2>7. QueueReady \/ (\E r \in Threaded : WorkerStep(r)) \/ UNCHANGED vars => JournalInv'
      BY CalmKeepsJournal, Zenon
    <2>8. DisplayDestroyed \/ Finalize \/ Restart => JournalInv'
      BY ShutDownKeepsJournal, Zenon
    <2> QED BY <2>2, <2>3, <2>4, <2>5, <2>6, <2>7, <2>8, Zenon DEF Next
  <1>3. IInv /\ JournalInv /\ [Next]_vars
          => [crashes' > crashes => {Macro[r] : r \in table} \subseteq held']_vars
    <2> SUFFICES ASSUME IInv, JournalInv, [Next]_vars, crashes' > crashes
                 PROVE  {Macro[r] : r \in table} \subseteq held'
      OBVIOUS
    <2>1. crashes \in Nat
      BY MacroRunnerAssumption DEF IInv, TypeInv, DataOK, CountsOK, MacroRunnerAssumption
    <2>2. crashes' # crashes
      BY <2>1
    <2>3. Restart
      <3> USE DEF vars, runnerVars, sharedVars, workerVars, journalVars, historyVars
      <3>1. ~(UNCHANGED vars)
        BY <2>2
      <3>2. Command \/ FrameStep => crashes' = crashes
        BY DEF Command, FrameStep, StartTimeline, StartThreaded, StartNoThread, Stop, Clear,
               BodyStarted, BodyFinished, BodyFaulted, TickStep, StepDone, TickWait, TickFinished,
               HandleAbandoned, HandleSync, HandleDone, CallReturns, CallFaulted, DrainEmpty
      <3>3. (\E r \in Timeline : TimelineTick(r) \/ \E step \in {"do", "wait"} : BodyQueueStep(r, step))
              => crashes' = crashes
        BY DEF TimelineTick, BodyQueueStep
      <3>4. (\E r \in Threaded : WorkerStep(r)) => crashes' = crashes
        BY DEF WorkerStep, WorkerWaits, WorkerAsks, WorkerPokes, WorkerAnswered, WorkerAbandons,
               WorkerUnwound, WorkerLeaves
      <3>5. QueueReady \/ DisplayDestroyed \/ Finalize => crashes' = crashes
        BY DEF QueueReady, DisplayDestroyed, Finalize
      <3> QED BY <2>2, <3>1, <3>2, <3>3, <3>4, <3>5, Zenon DEF Next
    <2>4. running \subseteq held'
      BY <2>3 DEF Restart
    <2> QED BY <2>4 DEF JournalInv, MarksOK
  <1> QED BY <1>1, <1>2, <1>3, Invariant, PTL DEF Spec, CrashIsHeld

=============================================================================
