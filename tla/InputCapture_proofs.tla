-------------------------- MODULE InputCapture_proofs --------------------------
(***************************************************************************)
(* Proofs about InputCapture: the barriers of a session are on the outer   *)
(* boundary of the zones it knows, which are the lit screens but for those *)
(* switched on or off since the layout changed, and the keyboard comes     *)
(* back when the pointer does.                                             *)
(***************************************************************************)
EXTENDS InputCapture, SequenceTheorems, TLAPS

(***************************************************************************)
(* Geometry: a barrier that is validated is outer.                         *)
(***************************************************************************)

LEMMA SpanOfTwo ==
  ASSUME NEW b, b.y1 \in Int, b.y2 \in Int, b.y1 # b.y2
  PROVE  /\ Span(b)[1] \in Int /\ Span(b)[2] \in Int
         /\ Span(b)[1] < Span(b)[2]
<1> DEFINE S == {b.y1, b.y2}
<1>1. \E x \in S : \A y \in S : x <= y
  OBVIOUS
<1>2. \E x \in S : \A y \in S : x >= y
  OBVIOUS
<1>3. Min(S) \in S /\ \A y \in S : Min(S) <= y
  BY <1>1 DEF Min
<1>4. Max(S) \in S /\ \A y \in S : Max(S) >= y
  BY <1>2 DEF Max
<1> QED
  BY <1>3, <1>4 DEF Span

\* The code looks at zone edges only; where zones do not overlap, edges tell.
LEMMA VerticalValidIsOuter ==
  ASSUME NEW zones \in SUBSET ZoneType, IsTiling(zones),
         NEW b \in BarrierType, VerticalIsValid(zones, b)
  PROVE  VerticalIsOuter(zones, b)
<1> DEFINE p == Span(b)[1]
           q == Span(b)[2]
<1>1. Vertical(b)
  BY DEF VerticalIsValid
<1>2. p \in Int /\ q \in Int /\ p < q /\ b.x1 \in Int
  BY <1>1, SpanOfTwo DEF Vertical, BarrierType
<1>3. PICK z \in zones :
        /\ z.y <= p /\ q <= z.y + z.h
        /\ b.x1 \in {z.x, z.x + z.w}
        /\ ~ZoneOnFarSide(zones, z, b, b.x1 = z.x)
  BY DEF VerticalIsValid
<1> DEFINE inside == IF b.x1 = z.x THEN b.x1 ELSE b.x1 - 1
<1>4. ASSUME NEW y \in p..(q - 1), NEW x \in {b.x1 - 1, b.x1}
      PROVE  Shown(zones, x, y) <=> x = inside
  <2> HIDE DEF p, q
  <2>1. y \in Int /\ p <= y /\ y < q /\ x \in Int
    BY <1>2
  <2>2. z.x \in Int /\ z.y \in Int /\ z.w \in Nat \ {0} /\ z.h \in Nat \ {0}
    BY DEF ZoneType
  <2>3. x = inside => z.x <= x /\ x < z.x + z.w
    BY <1>2, <1>3, <2>2
  <2>4. z.y <= y /\ y < z.y + z.h
    BY <1>2, <1>3, <2>1, <2>2
  <2>5. ASSUME x # inside, NEW o \in zones,
               o.x <= x, x < o.x + o.w, o.y <= y, y < o.y + o.h
        PROVE  FALSE
    <3>1. o.x \in Int /\ o.y \in Int /\ o.w \in Nat \ {0} /\ o.h \in Nat \ {0}
      BY DEF ZoneType
    <3>2. o # z
      BY <1>2, <1>3, <2>2, <2>5
    <3>3. Apart(z, o) \/ Apart(o, z)
      BY <3>2 DEF IsTiling
    <3>4. o.y + o.h > p /\ o.y < q
      BY <1>2, <2>1, <2>5, <3>1
    <3>5. IF b.x1 = z.x THEN b.x1 # o.x + o.w ELSE b.x1 # o.x
      BY <1>3, <3>2, <3>4 DEF ZoneOnFarSide, p, q
    <3>6. ~Apart(z, o) /\ ~Apart(o, z)
      <4>1. CASE b.x1 = z.x
        BY <4>1, <1>2, <2>1, <2>2, <2>4, <2>5, <3>1, <3>5 DEF Apart
      <4>2. CASE b.x1 # z.x
        <5>1. b.x1 = z.x + z.w /\ x = b.x1 /\ o.x # b.x1
          BY <4>2, <1>3, <2>5, <3>5
        <5> QED
          BY <5>1, <1>2, <2>1, <2>2, <2>4, <2>5, <3>1 DEF Apart
      <4> QED
        BY <4>1, <4>2
    <3> QED
      BY <3>3, <3>6
  <2> QED
    BY <2>3, <2>4, <2>5 DEF Shown
<1>5. inside \in {b.x1 - 1, b.x1}
  OBVIOUS
<1> QED
  BY <1>1, <1>4, <1>5 DEF VerticalIsOuter

LEMMA TurnedTiling ==
  ASSUME NEW zones \in SUBSET ZoneType, IsTiling(zones)
  PROVE  /\ {TurnZone(z) : z \in zones} \in SUBSET ZoneType
         /\ IsTiling({TurnZone(z) : z \in zones})
<1>1. ASSUME NEW z \in ZoneType
      PROVE  /\ TurnZone(z) \in ZoneType
             /\ TurnZone(z).x = z.y /\ TurnZone(z).y = z.x
             /\ TurnZone(z).w = z.h /\ TurnZone(z).h = z.w
  BY DEF ZoneType, TurnZone
<1>2. ASSUME NEW z \in zones, NEW o \in zones, TurnZone(z) # TurnZone(o)
      PROVE  Apart(TurnZone(z), TurnZone(o)) \/ Apart(TurnZone(o), TurnZone(z))
  <2>1. z # o
    BY <1>2
  <2>2. Apart(z, o) \/ Apart(o, z)
    BY <2>1 DEF IsTiling
  <2> QED
    BY <2>2, <1>1 DEF Apart
<1> QED
  BY <1>1, <1>2 DEF IsTiling

\* What set_barriers() accepts is on the outer boundary.
LEMMA ValidIsOuter ==
  ASSUME NEW zones \in SUBSET ZoneType, IsTiling(zones),
         NEW b \in BarrierType, BarrierIsValid(zones, b)
  PROVE  IsOuter(zones, b)
<1>1. CASE VerticalIsValid(zones, b)
  BY <1>1, VerticalValidIsOuter DEF IsOuter
<1>2. CASE VerticalIsValid({TurnZone(z) : z \in zones}, Turn(b))
  <2>1. Turn(b) \in BarrierType
    BY DEF Turn, BarrierType
  <2>2. VerticalIsOuter({TurnZone(z) : z \in zones}, Turn(b))
    BY <1>2, <2>1, TurnedTiling, VerticalValidIsOuter
  <2> QED
    BY <2>2 DEF IsOuter
<1> QED
  BY <1>1, <1>2 DEF BarrierIsValid

(***************************************************************************)
(* The desktop as a record, and what each step of a handler keeps.         *)
(***************************************************************************)

Machine ==
  [live : BOOLEAN, zones : Shows \cup {{}}, barriers : SUBSET Barriers,
   enabled : BOOLEAN, active : BOOLEAN]

Stacks == {q \in Seq(Windows) : \A i, j \in DOMAIN q : q[i] = q[j] => i = j}

Desktop ==
  [sessions : [Sessions -> Machine], attached : Sessions \cup {NoSession},
   delta : Segments \cup {NoMotion}, focus : Surfaces \cup {NoSurface},
   saved : Surfaces \cup {NoSurface}, held : SUBSET Keys, stack : Stacks,
   locked : BOOLEAN, grab : BOOLEAN]

\* d and e differ in who captures and who has the keyboard only.
Kept(d, e) ==
  /\ e.locked = d.locked /\ e.grab = d.grab /\ e.attached = d.attached
  /\ \A s \in Sessions :
       /\ e.sessions[s].live = d.sessions[s].live
       /\ e.sessions[s].zones = d.sessions[s].zones
       /\ e.sessions[s].barriers = d.sessions[s].barriers

LEMMA KeptTwice ==
  ASSUME NEW d, NEW e, NEW f, Kept(d, e), Kept(e, f)
  PROVE  Kept(d, f)
BY DEF Kept

LEMMA UnlinkedStack ==
  ASSUME NEW q \in Stacks, NEW w \in Windows
  PROVE  /\ Unlinked(q, w) \in Stacks
         /\ \A i \in DOMAIN Unlinked(q, w) : Unlinked(q, w)[i] # w
<1>1. CASE ~\E i \in DOMAIN q : q[i] = w
  BY <1>1 DEF Unlinked
<1>2. CASE \E i \in DOMAIN q : q[i] = w
  <2> DEFINE n == CHOOSE i \in DOMAIN q : q[i] = w
             a == SubSeq(q, 1, n - 1)
             b == SubSeq(q, n + 1, Len(q))
  <2>1. n \in DOMAIN q /\ q[n] = w
    BY <1>2
  <2>2. q \in Seq(Windows) /\ Len(q) \in Nat /\ DOMAIN q = 1..Len(q)
        /\ \A i, j \in 1..Len(q) : q[i] = q[j] => i = j
    BY DEF Stacks
  <2>3. Unlinked(q, w) = a \o b
    BY <1>2 DEF Unlinked
  <2> HIDE DEF n
  <2>4. n \in 1..Len(q) /\ n - 1 \in Int /\ n + 1 \in Int
    BY <2>1, <2>2
  <2>5. (\A i \in 1..(n - 1) : q[i] \in Windows) /\ (\A i \in (n + 1)..Len(q) : q[i] \in Windows)
    BY <2>2, <2>4
  <2>6. /\ a \in Seq(Windows) /\ Len(a) = n - 1
        /\ \A i \in 1..(n - 1) : a[i] = q[i]
    <3>1. /\ a \in Seq(Windows) /\ Len(a) = IF 1 <= n - 1 THEN (n - 1) - 1 + 1 ELSE 0
          /\ \A i \in 1..((n - 1) - 1 + 1) : a[i] = q[1 + i - 1]
      BY <2>4, <2>5, SubSeqProperties
    <3>2. n \in Int /\ 1 <= n /\ (n - 1) - 1 + 1 = n - 1
      BY <2>2, <2>4
    <3>3. Len(a) = n - 1
      BY <3>1, <3>2
    <3>4. ASSUME NEW i \in 1..(n - 1)
          PROVE  a[i] = q[i]
      <4>1. 1 + i - 1 = i
        BY <3>2
      <4> QED
        BY <3>1, <3>2, <4>1
    <3> QED
      BY <3>1, <3>3, <3>4
  <2>7. /\ b \in Seq(Windows) /\ Len(b) = Len(q) - n
        /\ \A i \in 1..(Len(q) - n) : b[i] = q[n + i]
    <3>1. /\ b \in Seq(Windows) /\ Len(b) = IF n + 1 <= Len(q) THEN Len(q) - (n + 1) + 1 ELSE 0
          /\ \A i \in 1..(Len(q) - (n + 1) + 1) : b[i] = q[n + 1 + i - 1]
      BY <2>2, <2>4, <2>5, SubSeqProperties
    <3>2. n \in Int /\ n <= Len(q) /\ Len(q) - (n + 1) + 1 = Len(q) - n
      BY <2>2, <2>4
    <3>3. Len(b) = Len(q) - n
      <4>1. Len(b) = IF n + 1 <= Len(q) THEN Len(q) - n ELSE 0
        BY <3>1, <3>2
      <4>2. Len(q) \in Nat
        BY <2>2
      <4>3. \A x, y \in Int : x <= y => x + 1 <= y \/ (~(x + 1 <= y) /\ y - x = 0)
        OBVIOUS
      <4>4. n + 1 <= Len(q) \/ (~(n + 1 <= Len(q)) /\ Len(q) - n = 0)
        <5>1. n \in Int /\ Len(q) \in Int /\ n <= Len(q)
          BY <3>2, <4>2
        <5> QED
          BY <4>3, <5>1
      <4> QED
        BY <4>1, <4>4
    <3>4. ASSUME NEW i \in 1..(Len(q) - n)
          PROVE  b[i] = q[n + i]
      <4>1. n + 1 + i - 1 = n + i
        BY <3>2, <2>2
      <4> QED
        BY <3>1, <3>2, <4>1
    <3> QED
      BY <3>1, <3>3, <3>4
  <2> HIDE DEF a, b
  <2>8. /\ a \o b \in Seq(Windows) /\ DOMAIN (a \o b) = 1..(Len(q) - 1)
        /\ \A i \in 1..(Len(q) - 1) : (a \o b)[i] = IF i < n THEN q[i] ELSE q[i + 1]
    <3>1. /\ a \o b \in Seq(Windows) /\ Len(a \o b) = Len(a) + Len(b)
          /\ \A i \in 1..(Len(a) + Len(b)) :
               (a \o b)[i] = IF i <= Len(a) THEN a[i] ELSE b[i - Len(a)]
      BY <2>6, <2>7, ConcatProperties
    <3>2. Len(a) + Len(b) = Len(q) - 1
      BY <2>2, <2>4, <2>6, <2>7
    <3>3. ASSUME NEW i \in 1..(Len(q) - 1)
          PROVE  (a \o b)[i] = IF i < n THEN q[i] ELSE q[i + 1]
      <4>1. CASE i < n
        BY <4>1, <3>1, <3>2, <2>2, <2>4, <2>6
      <4>2. CASE ~(i < n)
        <5>1. i - (n - 1) \in 1..(Len(q) - n) /\ n + (i - (n - 1)) = i + 1
          BY <4>2, <2>2, <2>4
        <5>2. (a \o b)[i] = b[i - (n - 1)]
          BY <4>2, <3>1, <3>2, <2>2, <2>4, <2>6
        <5> QED
          BY <4>2, <5>1, <5>2, <2>7
      <4> QED
        BY <4>1, <4>2
    <3>4. DOMAIN (a \o b) = 1..Len(a \o b)
      BY <3>1, LenProperties
    <3> QED
      BY <3>1, <3>2, <3>3, <3>4
  <2>9. ASSUME NEW i \in 1..(Len(q) - 1), NEW j \in 1..(Len(q) - 1),
               (a \o b)[i] = (a \o b)[j]
        PROVE  i = j
    <3> DEFINE At(k) == IF k < n THEN k ELSE k + 1
    <3>1. At(i) \in 1..Len(q) /\ At(j) \in 1..Len(q)
      BY <2>2, <2>4
    <3>2. q[At(i)] = q[At(j)]
      BY <2>8, <2>9
    <3>3. At(i) = At(j)
      <4> HIDE DEF At
      <4> QED
        BY <2>2, <3>1, <3>2
    <3> QED
      BY <2>2, <2>4, <3>3
  <2>10. ASSUME NEW i \in 1..(Len(q) - 1)
         PROVE  (a \o b)[i] # w
    <3> DEFINE k == IF i < n THEN i ELSE i + 1
    <3>1. k \in 1..Len(q) /\ k # n
      BY <2>2, <2>4
    <3>2. (a \o b)[i] = q[k]
      BY <2>8
    <3> HIDE DEF k
    <3> QED
      BY <2>1, <2>2, <2>4, <3>1, <3>2
  <2> QED
    BY <2>3, <2>8, <2>9, <2>10 DEF Stacks
<1> QED
  BY <1>1, <1>2

LEMMA LiftedStack ==
  ASSUME NEW q \in Stacks, NEW w \in Windows
  PROVE  /\ <<w>> \o Unlinked(q, w) \in Stacks
         /\ 1 \in DOMAIN (<<w>> \o Unlinked(q, w))
         /\ (<<w>> \o Unlinked(q, w))[1] = w
<1> DEFINE u == Unlinked(q, w)
           t == <<w>> \o u
<1>1. u \in Stacks /\ \A i \in DOMAIN u : u[i] # w
  BY UnlinkedStack
<1> HIDE DEF u
<1>2. u \in Seq(Windows) /\ Len(u) \in Nat /\ DOMAIN u = 1..Len(u)
  BY <1>1 DEF Stacks
<1>3. <<w>> \in Seq(Windows) /\ Len(<<w>>) = 1 /\ <<w>>[1] = w
  OBVIOUS
<1>4. /\ t \in Seq(Windows) /\ Len(t) = 1 + Len(u)
      /\ \A i \in 1..(1 + Len(u)) : t[i] = IF i <= 1 THEN <<w>>[i] ELSE u[i - 1]
  BY <1>2, <1>3, ConcatProperties
<1> HIDE DEF t
<1>5. DOMAIN t = 1..(1 + Len(u))
  BY <1>4, LenProperties
<1>6. ASSUME NEW i \in DOMAIN t, NEW j \in DOMAIN t, t[i] = t[j]
      PROVE  i = j
  <2>1. ASSUME NEW k \in DOMAIN t
        PROVE  t[k] = w <=> k = 1
    <3>1. CASE k = 1
      BY <3>1, <1>2, <1>3, <1>4, <1>5
    <3>2. CASE k # 1
      <4>1. k - 1 \in DOMAIN u /\ t[k] = u[k - 1]
        BY <3>2, <1>2, <1>4, <1>5
      <4> QED
        BY <3>2, <4>1, <1>1
    <3> QED
      BY <3>1, <3>2
  <2>2. CASE i = 1 \/ j = 1
    BY <2>1, <2>2, <1>6
  <2>3. CASE i # 1 /\ j # 1
    <3>1. /\ i - 1 \in DOMAIN u /\ t[i] = u[i - 1]
          /\ j - 1 \in DOMAIN u /\ t[j] = u[j - 1]
      BY <2>3, <1>2, <1>4, <1>5
    <3>2. i - 1 = j - 1
      BY <3>1, <1>1, <1>6 DEF Stacks
    <3> QED
      BY <3>2, <1>2, <1>5
  <2> QED
    BY <2>2, <2>3
<1>7. 1 \in DOMAIN t /\ t[1] = w
  BY <1>2, <1>3, <1>4, <1>5
<1> QED
  BY <1>4, <1>6, <1>7 DEF Stacks, t, u

(***************************************************************************)
(* The steps of a handler: each leaves a desktop, and none moves a zone or *)
(* a barrier.                                                              *)
(***************************************************************************)

LEMMA DivertsTyped ==
  ASSUME NEW d \in Desktop, Diverts(d)
  PROVE  d.attached \in Sessions
BY DEF Diverts, Desktop

LEMMA SetActive ==
  ASSUME NEW d \in Desktop, NEW s \in Sessions, NEW on \in BOOLEAN
  PROVE  LET e == [d EXCEPT !.sessions[s].active = on] IN
         /\ e \in Desktop /\ Kept(d, e)
         /\ e.sessions[s].active = on
         /\ \A r \in Sessions \ {s} : e.sessions[r] = d.sessions[r]
         /\ e.focus = d.focus /\ e.saved = d.saved /\ e.stack = d.stack
         /\ e.delta = d.delta /\ e.held = d.held
BY DEF Desktop, Machine, Kept

LEMMA FocusDropKeeps ==
  ASSUME NEW d \in Desktop
  PROVE  LET e == FocusDrop(d) IN
         /\ e \in Desktop /\ Kept(d, e) /\ e.stack = d.stack /\ e.delta = d.delta
         /\ e.sessions = d.sessions
BY DEF FocusDrop, Desktop, Kept

LEMMA CheckCrossingKeeps ==
  ASSUME NEW d \in Desktop
  PROVE  LET e == CheckCrossing(d) IN
         /\ e \in Desktop /\ Kept(d, e) /\ e.stack = d.stack
<1>1. CASE ~Crosses(d)
  BY <1>1 DEF CheckCrossing, Kept
<1>2. CASE Crosses(d)
  <2> DEFINE f == [d EXCEPT !.sessions[d.attached].active = TRUE]
  <2>1. d.attached \in Sessions
    BY <1>2 DEF Crosses, Desktop
  <2>2. f \in Desktop /\ Kept(d, f) /\ f.stack = d.stack
    BY <2>1, SetActive
  <2>3. CheckCrossing(d) = FocusDrop(f)
    BY <1>2 DEF CheckCrossing
  <2> HIDE DEF f
  <2> QED
    BY <2>2, <2>3, FocusDropKeeps, KeptTwice
<1> QED
  BY <1>1, <1>2

LEMMA MotionNotifyKeeps ==
  ASSUME NEW d \in Desktop
  PROVE  LET e == MotionNotify(d) IN
         /\ e \in Desktop /\ Kept(d, e) /\ e.stack = d.stack
<1> DEFINE f == CheckCrossing(d)
<1>1. f \in Desktop /\ Kept(d, f) /\ f.stack = d.stack
  BY CheckCrossingKeeps
<1>2. MotionNotify(d) = IF Diverts(f) THEN f ELSE [f EXCEPT !.delta = NoMotion]
  BY DEF MotionNotify
<1> HIDE DEF f
<1>3. LET g == [f EXCEPT !.delta = NoMotion] IN
      g \in Desktop /\ Kept(f, g) /\ g.stack = f.stack
  BY <1>1 DEF Desktop, Kept
<1> QED
  BY <1>1, <1>2, <1>3, KeptTwice

LEMMA LiftKeeps ==
  ASSUME NEW d \in Desktop, NEW w \in Windows
  PROVE  LET e == Lift(d, w) IN
         /\ e \in Desktop /\ Kept(d, e) /\ IsMapped(e, w)
         /\ e.focus = d.focus /\ e.saved = d.saved /\ e.sessions = d.sessions
<1> DEFINE q == <<w>> \o Unlinked(d.stack, w)
<1>1. d.stack \in Stacks
  BY DEF Desktop
<1>2. q \in Stacks /\ 1 \in DOMAIN q /\ q[1] = w
  BY <1>1, LiftedStack
<1>3. Lift(d, w) = [d EXCEPT !.stack = q]
  BY DEF Lift
<1> HIDE DEF q
<1>4. [d EXCEPT !.stack = q].stack = q
  BY DEF Desktop
<1>5. [d EXCEPT !.stack = q] \in Desktop /\ Kept(d, [d EXCEPT !.stack = q])
  BY <1>2 DEF Desktop, Kept
<1>6. LET e == [d EXCEPT !.stack = q] IN
      e.focus = d.focus /\ e.saved = d.saved /\ e.sessions = d.sessions
  BY DEF Desktop
<1> QED
  BY <1>2, <1>3, <1>4, <1>5, <1>6 DEF IsMapped

LEMMA FocusClientKeeps ==
  ASSUME NEW d \in Desktop, NEW w \in Windows \cup {NoSurface}, down \subseteq Keys
  PROVE  LET e == FocusClient(d, w) IN e \in Desktop /\ Kept(d, e)
<1>1. CASE d.locked \/ d.grab \/ w = d.focus
  BY <1>1 DEF FocusClient, Kept
<1>2. CASE ~(d.locked \/ d.grab \/ w = d.focus) /\ w = NoSurface
  <2>1. FocusClient(d, w) = [d EXCEPT !.focus = NoSurface, !.held = {}]
    BY <1>2 DEF FocusClient
  <2> QED
    BY <2>1 DEF Desktop, Kept
<1>3. CASE ~(d.locked \/ d.grab \/ w = d.focus) /\ w # NoSurface
  <2> DEFINE f == MotionNotify(Lift(d, w))
  <2>1. f \in Desktop /\ Kept(d, f)
    BY <1>3, LiftKeeps, MotionNotifyKeeps, KeptTwice
  <2>2. FocusClient(d, w) = [f EXCEPT !.focus = w, !.held = down]
    BY <1>3 DEF FocusClient
  <2> HIDE DEF f
  <2>3. LET g == [f EXCEPT !.focus = w, !.held = down] IN g \in Desktop /\ Kept(f, g)
    BY <1>3, <2>1 DEF Desktop, Kept, Surfaces
  <2> QED
    BY <2>1, <2>2, <2>3, KeptTwice
<1> QED
  BY <1>1, <1>2, <1>3

LEMMA TopIsWindow ==
  ASSUME NEW d \in Desktop
  PROVE  /\ FocusTop(d) \in Windows \cup {NoSurface}
         /\ d.stack # <<>> => FocusTop(d) \in Windows /\ IsMapped(d, FocusTop(d))
<1>1. d.stack \in Seq(Windows)
  BY DEF Desktop, Stacks
<1>2. CASE d.stack = <<>>
  BY <1>2 DEF FocusTop
<1>3. CASE d.stack # <<>>
  <2>1. Head(d.stack) = d.stack[1] /\ 1 \in DOMAIN d.stack /\ d.stack[1] \in Windows
    BY <1>1, <1>3
  <2> QED
    BY <1>3, <2>1 DEF FocusTop, IsMapped
<1> QED
  BY <1>2, <1>3

LEMMA MappedIsWindow ==
  ASSUME NEW d \in Desktop, NEW w, IsMapped(d, w)
  PROVE  w \in Windows /\ w # NoSurface /\ d.stack # <<>>
<1>1. d.stack \in Seq(Windows)
  BY DEF Desktop, Stacks
<1>2. PICK i \in DOMAIN d.stack : d.stack[i] = w
  BY DEF IsMapped
<1>3. w \in Windows
  BY <1>1, <1>2
<1>4. d.stack # <<>>
  BY <1>1, <1>2
<1> QED
  BY <1>3, <1>4, CaptureAssumption DEF CaptureAssumption

LEMMA FocusRestoreKeeps ==
  ASSUME NEW d \in Desktop, down \subseteq Keys
  PROVE  LET e == FocusRestore(d) IN e \in Desktop /\ Kept(d, e)
<1> DEFINE f == [d EXCEPT !.saved = NoSurface]
<1>1. f \in Desktop /\ Kept(d, f)
  BY DEF Desktop, Kept
<1>2. FocusRestore(d) = IF IsMapped(d, d.saved) /\ d.focus = NoSurface
                        THEN FocusClient(f, d.saved) ELSE f
  BY DEF FocusRestore
<1> HIDE DEF f
<1>3. CASE IsMapped(d, d.saved) /\ d.focus = NoSurface
  <2>1. d.saved \in Windows
    BY <1>3, MappedIsWindow
  <2> QED
    BY <1>1, <1>2, <1>3, <2>1, FocusClientKeeps, KeptTwice
<1>4. CASE ~(IsMapped(d, d.saved) /\ d.focus = NoSurface)
  BY <1>1, <1>2, <1>4
<1> QED
  BY <1>3, <1>4

LEMMA DeactivateKeeps ==
  ASSUME NEW d \in Desktop, NEW s \in Sessions, down \subseteq Keys
  PROVE  LET e == Deactivate(d, s) IN e \in Desktop /\ Kept(d, e)
<1> DEFINE f == [d EXCEPT !.sessions[s].active = FALSE]
<1>1. f \in Desktop /\ Kept(d, f)
  BY SetActive
<1>2. Deactivate(d, s) = IF d.sessions[s].active /\ s = d.attached THEN FocusRestore(f) ELSE f
  BY DEF Deactivate
<1> HIDE DEF f
<1> QED
  BY <1>1, <1>2, FocusRestoreKeeps, KeptTwice

(***************************************************************************)
(* The keyboard, step by step.                                             *)
(***************************************************************************)

\* A window has the keyboard, or there is none.
Settled(d) ==
  d.locked \/ d.grab \/ IsMapped(d, d.focus) \/ (d.focus = NoSurface /\ d.stack = <<>>)

\* ..., or it waits for a window that is still there.
Promised(d) ==
  Settled(d) \/ (d.focus = NoSurface /\ IsMapped(d, d.saved))

\* The inductive invariant: it is away only while a capture has it.
KeyboardInv(d) ==
  Settled(d) \/ (d.focus = NoSurface /\ IsMapped(d, d.saved) /\ Diverts(d))

LEMMA MotionNotifyKeyboard ==
  ASSUME NEW d \in Desktop, KeyboardInv(d)
  PROVE  KeyboardInv(MotionNotify(d))
<1> DEFINE f == CheckCrossing(d)
<1>1. f \in Desktop
  BY CheckCrossingKeeps
<1>2. KeyboardInv(f)
  <2>1. CASE ~Crosses(d)
    BY <2>1 DEF CheckCrossing
  <2>2. CASE Crosses(d)
    <3> DEFINE e == [d EXCEPT !.sessions[d.attached].active = TRUE]
    <3>1. d.attached \in Sessions /\ d.attached # NoSession /\ ~Diverts(d)
      BY <2>2 DEF Crosses, Desktop, Diverts
    <3>2. Settled(d)
      BY <3>1 DEF KeyboardInv
    <3>3. /\ e \in Desktop /\ e.attached = d.attached /\ e.sessions[d.attached].active
          /\ e.focus = d.focus /\ e.stack = d.stack /\ e.locked = d.locked /\ e.grab = d.grab
      BY <3>1, SetActive DEF Kept
    <3>4. f = FocusDrop(e)
      BY <2>2 DEF CheckCrossing
    <3> HIDE DEF e, f
    <3>5. Settled(e)
      BY <3>2, <3>3 DEF Settled, IsMapped
    <3>6. CASE e.locked \/ e.grab \/ e.focus = NoSurface
      <4>1. f = [e EXCEPT !.saved = NoSurface]
        BY <3>4, <3>6 DEF FocusDrop
      <4>2. f.focus = e.focus /\ f.stack = e.stack /\ f.locked = e.locked /\ f.grab = e.grab
        BY <3>3, <4>1 DEF Desktop
      <4> QED
        BY <3>5, <4>2 DEF KeyboardInv, Settled, IsMapped
    <3>7. CASE ~(e.locked \/ e.grab \/ e.focus = NoSurface)
      <4>1. f = [e EXCEPT !.saved = e.focus, !.focus = NoSurface, !.held = {}]
        BY <3>4, <3>7 DEF FocusDrop
      <4>2. /\ f.focus = NoSurface /\ f.saved = e.focus /\ f.stack = e.stack
            /\ f.attached = e.attached /\ f.sessions = e.sessions
        BY <3>3, <4>1 DEF Desktop
      <4>3. IsMapped(f, f.saved)
        BY <3>5, <3>7, <4>2 DEF Settled, IsMapped
      <4>4. Diverts(f)
        BY <3>1, <3>3, <4>2 DEF Diverts
      <4> QED
        BY <4>2, <4>3, <4>4 DEF KeyboardInv
    <3> QED
      BY <3>6, <3>7
  <2> QED
    BY <2>1, <2>2
<1>3. MotionNotify(d) = IF Diverts(f) THEN f ELSE [f EXCEPT !.delta = NoMotion]
  BY DEF MotionNotify
<1> HIDE DEF f
<1>4. LET g == [f EXCEPT !.delta = NoMotion] IN
      /\ g.focus = f.focus /\ g.saved = f.saved /\ g.stack = f.stack
      /\ g.locked = f.locked /\ g.grab = f.grab
      /\ g.attached = f.attached /\ g.sessions = f.sessions
  BY <1>1 DEF Desktop
<1> QED
  BY <1>2, <1>3, <1>4 DEF KeyboardInv, Settled, IsMapped, Diverts

LEMMA FocusClientKeyboard ==
  ASSUME NEW d \in Desktop, NEW w \in Windows, IsMapped(d, w) \/ w # d.focus,
         down \subseteq Keys
  PROVE  Settled(FocusClient(d, w))
<1>1. CASE d.locked \/ d.grab \/ w = d.focus
  BY <1>1 DEF FocusClient, Settled
<1>2. CASE ~(d.locked \/ d.grab \/ w = d.focus)
  <2> DEFINE l == Lift(d, w)
             f == MotionNotify(l)
  <2>1. l \in Desktop /\ IsMapped(l, w)
    BY LiftKeeps
  <2> HIDE DEF l
  <2>2. f \in Desktop /\ f.stack = l.stack
    BY <2>1, MotionNotifyKeeps
  <2>3. w # NoSurface
    BY CaptureAssumption DEF CaptureAssumption
  <2>4. FocusClient(d, w) = [f EXCEPT !.focus = w, !.held = down]
    BY <1>2, <2>3 DEF FocusClient, l
  <2> HIDE DEF f
  <2>5. LET g == [f EXCEPT !.focus = w, !.held = down] IN g.focus = w /\ g.stack = f.stack
    BY <2>2 DEF Desktop
  <2> QED
    BY <2>1, <2>2, <2>4, <2>5 DEF Settled, IsMapped
<1> QED
  BY <1>1, <1>2

\* Whoever had it, the top window gets it.
LEMMA FocusTopKeyboard ==
  ASSUME NEW d \in Desktop, down \subseteq Keys
  PROVE  Settled(FocusClient(d, FocusTop(d)))
<1>1. CASE d.stack # <<>>
  BY <1>1, TopIsWindow, FocusClientKeyboard
<1>2. CASE d.stack = <<>>
  <2>1. FocusTop(d) = NoSurface
    BY <1>2 DEF FocusTop
  <2>2. CASE d.locked \/ d.grab \/ NoSurface = d.focus
    BY <1>2, <2>1, <2>2 DEF FocusClient, Settled
  <2>3. CASE ~(d.locked \/ d.grab \/ NoSurface = d.focus)
    <3>1. FocusClient(d, NoSurface) = [d EXCEPT !.focus = NoSurface, !.held = {}]
      BY <2>3 DEF FocusClient
    <3>2. LET g == [d EXCEPT !.focus = NoSurface, !.held = {}] IN
          g.focus = NoSurface /\ g.stack = d.stack
      BY DEF Desktop
    <3> QED
      BY <1>2, <2>1, <3>1, <3>2 DEF Settled
  <2> QED
    BY <2>2, <2>3
<1> QED
  BY <1>1, <1>2

LEMMA FocusRestoreKeyboard ==
  ASSUME NEW d \in Desktop, Promised(d), down \subseteq Keys
  PROVE  Settled(FocusRestore(d))
<1> DEFINE f == [d EXCEPT !.saved = NoSurface]
<1>1. /\ f \in Desktop /\ f.focus = d.focus /\ f.stack = d.stack
      /\ f.locked = d.locked /\ f.grab = d.grab
  BY DEF Desktop
<1>2. FocusRestore(d) = IF IsMapped(d, d.saved) /\ d.focus = NoSurface
                        THEN FocusClient(f, d.saved) ELSE f
  BY DEF FocusRestore
<1> HIDE DEF f
<1>3. CASE IsMapped(d, d.saved) /\ d.focus = NoSurface
  <2>1. d.saved \in Windows /\ IsMapped(f, d.saved)
    BY <1>1, <1>3, MappedIsWindow DEF IsMapped
  <2> QED
    BY <1>1, <1>2, <1>3, <2>1, FocusClientKeyboard
<1>4. CASE ~(IsMapped(d, d.saved) /\ d.focus = NoSurface)
  <2>1. Settled(d)
    BY <1>4 DEF Promised
  <2> QED
    BY <1>1, <1>2, <1>4, <2>1 DEF Settled, IsMapped
<1> QED
  BY <1>3, <1>4

LEMMA DeactivateKeyboard ==
  ASSUME NEW d \in Desktop, NEW s \in Sessions, KeyboardInv(d), down \subseteq Keys
  PROVE  KeyboardInv(Deactivate(d, s))
<1> DEFINE f == [d EXCEPT !.sessions[s].active = FALSE]
<1>1. /\ f \in Desktop /\ f.focus = d.focus /\ f.saved = d.saved /\ f.stack = d.stack
      /\ f.locked = d.locked /\ f.grab = d.grab /\ f.attached = d.attached
      /\ \A r \in Sessions \ {s} : f.sessions[r] = d.sessions[r]
  BY SetActive DEF Kept
<1>2. Deactivate(d, s) = IF d.sessions[s].active /\ s = d.attached THEN FocusRestore(f) ELSE f
  BY DEF Deactivate
<1> HIDE DEF f
<1>3. CASE d.sessions[s].active /\ s = d.attached
  <2>1. Promised(f)
    BY <1>1 DEF KeyboardInv, Promised, Settled, IsMapped
  <2> QED
    BY <1>1, <1>2, <1>3, <2>1, FocusRestoreKeyboard DEF KeyboardInv
<1>4. CASE ~(d.sessions[s].active /\ s = d.attached)
  <2>1. Diverts(d) => Diverts(f)
    BY <1>1, <1>4, DivertsTyped DEF Diverts
  <2> QED
    BY <1>1, <1>2, <1>4, <2>1 DEF KeyboardInv, Settled, IsMapped
<1> QED
  BY <1>3, <1>4

\* A session is put in the place of another, or of none, or taken away.
LEMMA SetInputCaptureKeeps ==
  ASSUME NEW d \in Desktop, NEW s \in Sessions \cup {NoSession}, KeyboardInv(d),
         down \subseteq Keys
  PROVE  LET e == SetInputCapture(d, s) IN
         /\ e \in Desktop /\ e.attached = s /\ KeyboardInv(e)
         /\ \A r \in Sessions :
              /\ e.sessions[r].live = d.sessions[r].live
              /\ e.sessions[r].zones = d.sessions[r].zones
              /\ e.sessions[r].barriers = d.sessions[r].barriers
<1>1. CASE d.attached = s
  BY <1>1 DEF SetInputCapture
<1>2. CASE d.attached # s
  <2> DEFINE f == IF d.attached = NoSession THEN d ELSE FocusRestore(d)
  <2>1. f \in Desktop /\ Kept(d, f)
    BY FocusRestoreKeeps DEF Kept
  <2>2. Settled(f)
    <3>1. CASE d.attached = NoSession
      BY <3>1 DEF KeyboardInv, Diverts
    <3>2. CASE d.attached # NoSession
      <4>1. Promised(d)
        BY DEF KeyboardInv, Promised
      <4> QED
        BY <3>2, <4>1, FocusRestoreKeyboard
    <3> QED
      BY <3>1, <3>2
  <2>3. SetInputCapture(d, s) = [f EXCEPT !.attached = s]
    BY <1>2 DEF SetInputCapture
  <2> HIDE DEF f
  <2>4. LET g == [f EXCEPT !.attached = s] IN
        /\ g \in Desktop /\ g.attached = s /\ g.sessions = f.sessions
        /\ g.focus = f.focus /\ g.stack = f.stack /\ g.locked = f.locked /\ g.grab = f.grab
    BY <2>1 DEF Desktop
  <2>5. KeyboardInv([f EXCEPT !.attached = s])
    BY <2>2, <2>4 DEF KeyboardInv, Settled, IsMapped
  <2> QED
    BY <2>1, <2>3, <2>4, <2>5 DEF Kept
<1> QED
  BY <1>1, <1>2

(***************************************************************************)
(* The inductive invariant.                                                *)
(***************************************************************************)

\* The zones a session may know: the lit screens of now, but for those that were
\* switched since the layout changed.
Known == {zones \in Shows : Differ(zones, Lit) \subseteq switched}

OutputsOK ==
  /\ layout \in Layouts
  /\ dark \subseteq layout \cap Blankable /\ switched \subseteq layout \cap Blankable

\* A machine has zones it may know or none; its barriers were judged by them.
MachineOK(m, known) ==
  /\ m.live \/ (m.zones = {} /\ m.barriers = {})
  /\ m.zones = {} \/ m.zones \in known
  /\ \A b \in m.barriers : BarrierIsValid(m.zones, b)

Good(d, known) ==
  /\ d \in Desktop
  /\ \A s \in Sessions : MachineOK(d.sessions[s], known)
  /\ d.attached = NoSession \/ d.sessions[d.attached].live
  /\ KeyboardInv(d)

IInv == OutputsOK /\ down \subseteq Keys /\ Good(Now, Known)

\* The machines of e are those of d, but for who is active.
SameMachines(d, e) ==
  /\ e.attached = d.attached
  /\ \A s \in Sessions :
       /\ e.sessions[s].live = d.sessions[s].live
       /\ e.sessions[s].zones = d.sessions[s].zones
       /\ e.sessions[s].barriers = d.sessions[s].barriers

LEMMA GoodAfter ==
  ASSUME NEW d, NEW known, Good(d, known),
         NEW e \in Desktop, SameMachines(d, e), KeyboardInv(e)
  PROVE  Good(e, known)
<1>1. ASSUME NEW s \in Sessions
      PROVE  MachineOK(e.sessions[s], known)
  BY DEF Good, SameMachines, MachineOK
<1>2. e.attached = NoSession \/ e.sessions[e.attached].live
  BY DEF Good, SameMachines, Desktop
<1> QED
  BY <1>1, <1>2 DEF Good

LEMMA KeptMachines ==
  ASSUME NEW d, NEW e, Kept(d, e)
  PROVE  SameMachines(d, e)
BY DEF Kept, SameMachines

LEMMA NowIsDesktop ==
  ASSUME IInv
  PROVE  /\ Now \in Desktop /\ KeyboardInv(Now) /\ Good(Now, Known)
         /\ OutputsOK /\ down \subseteq Keys
BY DEF IInv, Good

\* The screens that are lit are zones build_zones() gives, and a session may know them.
LEMMA LitIsKnown ==
  ASSUME OutputsOK
  PROVE  Lit \in Shows /\ Lit \in Known
<1>1. Lit = layout \ dark /\ dark \in SUBSET (layout \cap Blankable) /\ layout \in Layouts
  BY DEF OutputsOK, Lit
<1>2. Lit \in Shows
  BY <1>1 DEF Shows
<1>3. Differ(Lit, Lit) = {}
  BY DEF Differ
<1> QED
  BY <1>2, <1>3 DEF Known

\* What a handler made of the desktop is the desktop.
LEMMA Becomes ==
  ASSUME NEW d, Become(d), OutputsOK', down' \subseteq Keys, Good(d, Known')
  PROVE  IInv'
<1>1. Now' = d
  BY DEF Now, Become, Good, Desktop
<1>2. Good(Now', Known')
  BY <1>1
<1> QED
  BY <1>2 DEF IInv, Good, Desktop, KeyboardInv, Settled, IsMapped, Diverts, MachineOK

\* The outputs are as they were.
LEMMA BecomesHere ==
  ASSUME OutputsOK, NEW d, Become(d), UNCHANGED Outputs, down' \subseteq Keys, Good(d, Known)
  PROVE  IInv'
<1>1. OutputsOK' /\ Known' = Known
  BY DEF OutputsOK, Outputs, Known, Lit
<1> QED
  BY <1>1, Becomes

LEMMA InitIsGood ==
  ASSUME Init
  PROVE  IInv
<1>1. NoCapture \in Machine /\ NoCapture.zones = {} /\ NoCapture.barriers = {}
  BY DEF NoCapture, NewCapture, Machine
<1>2. stack \in Stacks
  BY DEF Init, Stacks
<1>3. Now \in Desktop
  BY <1>1, <1>2 DEF Init, Now, Desktop
<1>4. \A s \in Sessions : MachineOK(Now.sessions[s], Known)
  BY <1>1 DEF Init, Now, MachineOK
<1>5. KeyboardInv(Now)
  BY DEF Init, Now, KeyboardInv, Settled
<1>6. OutputsOK /\ down \subseteq Keys
  BY DEF Init, OutputsOK
<1>7. Now.attached = NoSession
  BY DEF Init, Now
<1> QED
  BY <1>3, <1>4, <1>5, <1>6, <1>7 DEF IInv, Good

(***************************************************************************)
(* The requests of a session.                                              *)
(***************************************************************************)

\* Nothing but the machine of s changed, and whether it diverts did not.
LEMMA MachineChanged ==
  ASSUME NEW d, NEW known, Good(d, known), NEW s \in Sessions, NEW m \in Machine,
         MachineOK(m, known), d.attached = s => m.live /\ m.active = d.sessions[s].active
  PROVE  Good([d EXCEPT !.sessions[s] = m], known)
<1> DEFINE e == [d EXCEPT !.sessions[s] = m]
<1>1. /\ e \in Desktop
      /\ e.sessions[s] = m /\ \A r \in Sessions \ {s} : e.sessions[r] = d.sessions[r]
      /\ e.attached = d.attached /\ e.focus = d.focus /\ e.saved = d.saved
      /\ e.stack = d.stack /\ e.locked = d.locked /\ e.grab = d.grab
  BY DEF Good, Desktop
<1> HIDE DEF e
<1>2. d.attached \in Sessions \cup {NoSession}
  BY DEF Good, Desktop
<1>3. \A r \in Sessions : MachineOK(e.sessions[r], known)
  BY <1>1 DEF Good
<1>4. e.attached = NoSession \/ e.sessions[e.attached].live
  BY <1>1, <1>2 DEF Good
<1>5. Diverts(d) => Diverts(e)
  BY <1>1, <1>2 DEF Diverts
<1>6. KeyboardInv(e)
  BY <1>1, <1>5 DEF Good, KeyboardInv, Settled, IsMapped
<1> QED
  BY <1>1, <1>3, <1>4, <1>6 DEF Good, e

LEMMA MachineTyped ==
  ASSUME NEW d, NEW known, Good(d, known), NEW s \in Sessions
  PROVE  d.sessions[s] \in Machine /\ MachineOK(d.sessions[s], known)
BY DEF Good, Desktop

LEMMA CreateCaptureIsGood ==
  ASSUME IInv, NEW s \in Sessions, CreateCapture(s)
  PROVE  IInv'
<1> DEFINE d == [Now EXCEPT !.sessions[s] = NewCapture]
           e == SetInputCapture(d, s)
<1>1. Now.attached # s
  <2>1. ~Now.sessions[s].live
    BY DEF CreateCapture, Live, Now
  <2>2. s # NoSession
    BY CaptureAssumption DEF CaptureAssumption
  <2> QED
    BY <2>1, <2>2 DEF IInv, Good
<1>2. NewCapture \in Machine /\ MachineOK(NewCapture, Known) /\ NewCapture.live
  BY DEF NewCapture, Machine, MachineOK
<1>3. Good(d, Known)
  BY <1>1, <1>2, NowIsDesktop, MachineChanged
<1>4. d.sessions[s] = NewCapture
  BY NowIsDesktop DEF Desktop
<1>5. Become(e) /\ UNCHANGED Outputs /\ down' = down
  BY DEF CreateCapture, Others
<1> HIDE DEF d
<1>6. /\ e \in Desktop /\ e.attached = s /\ KeyboardInv(e)
      /\ \A r \in Sessions :
           /\ e.sessions[r].live = d.sessions[r].live
           /\ e.sessions[r].zones = d.sessions[r].zones
           /\ e.sessions[r].barriers = d.sessions[r].barriers
  BY <1>3, NowIsDesktop, SetInputCaptureKeeps DEF Good
<1> HIDE DEF e
<1>7. \A r \in Sessions : MachineOK(e.sessions[r], Known)
  BY <1>3, <1>6 DEF Good, MachineOK
<1>8. Good(e, Known)
  BY <1>2, <1>4, <1>6, <1>7 DEF Good
<1> QED
  BY <1>5, <1>8, NowIsDesktop, BecomesHere

LEMMA GetZonesIsGood ==
  ASSUME IInv, NEW s \in Sessions, GetZones(s)
  PROVE  IInv'
<1> DEFINE m == [sessions[s] EXCEPT !.zones = Lit, !.barriers = {}]
           d == [Now EXCEPT !.sessions[s] = m]
<1>1. sessions[s] \in Machine /\ sessions[s].live /\ sessions[s] = Now.sessions[s]
  BY NowIsDesktop, MachineTyped DEF GetZones, Live, Now
<1>2. m \in Machine /\ MachineOK(m, Known) /\ m.live /\ m.active = sessions[s].active
  BY <1>1, NowIsDesktop, LitIsKnown DEF Machine, MachineOK
<1>3. sessions' = [sessions EXCEPT ![s] = m]
  BY DEF GetZones
<1> HIDE DEF m
<1>4. Good(d, Known)
  BY <1>1, <1>2, NowIsDesktop, MachineChanged
<1>5. Become(d) /\ UNCHANGED Outputs /\ down' = down
  BY <1>3 DEF GetZones, Others, Become, Now
<1> QED
  BY <1>4, <1>5, NowIsDesktop, BecomesHere

\* A barrier that set_barriers() takes was validated.
LEMMA AcceptedIsValid ==
  ASSUME NEW zones, NEW request \in Requests, NEW b \in Accepted(zones, request)
  PROVE  b \in Barriers /\ BarrierIsValid(zones, b)
<1>1. PICK j \in DOMAIN request : b = request[j] /\ BarrierIsValid(zones, request[j])
  BY DEF Accepted
<1> QED
  BY <1>1 DEF Barriers

LEMMA SetBarriersIsGood ==
  ASSUME IInv, NEW s \in Sessions, NEW request \in Requests, SetBarriers(s, request)
  PROVE  IInv'
<1> DEFINE ok == Accepted(sessions[s].zones, request)
           m == [sessions[s] EXCEPT !.barriers = IF ok = {} THEN @ ELSE ok]
           d == [Now EXCEPT !.sessions[s] = m]
<1>1. /\ sessions[s] \in Machine /\ MachineOK(sessions[s], Known)
      /\ sessions[s].live /\ sessions[s] = Now.sessions[s]
  BY NowIsDesktop, MachineTyped DEF SetBarriers, Live, Now
<1>2. ok \subseteq Barriers /\ \A b \in ok : BarrierIsValid(sessions[s].zones, b)
  BY AcceptedIsValid
<1>3. sessions' = [sessions EXCEPT ![s] = m]
  BY DEF SetBarriers
<1> HIDE DEF ok
<1>4. m \in Machine /\ MachineOK(m, Known) /\ m.live /\ m.active = sessions[s].active
  BY <1>1, <1>2 DEF Machine, MachineOK
<1> HIDE DEF m
<1>5. Good(d, Known)
  BY <1>1, <1>4, NowIsDesktop, MachineChanged
<1>6. Become(d) /\ UNCHANGED Outputs /\ down' = down
  BY <1>3 DEF SetBarriers, Others, Become, Now
<1> QED
  BY <1>5, <1>6, NowIsDesktop, BecomesHere

LEMMA EnableIsGood ==
  ASSUME IInv, NEW s \in Sessions, Enable(s)
  PROVE  IInv'
<1> DEFINE m == [sessions[s] EXCEPT !.enabled = TRUE]
           d == [Now EXCEPT !.sessions[s] = m]
<1>1. /\ sessions[s] \in Machine /\ MachineOK(sessions[s], Known)
      /\ sessions[s].live /\ sessions[s] = Now.sessions[s]
  BY NowIsDesktop, MachineTyped DEF Enable, Live, Now
<1>2. m \in Machine /\ MachineOK(m, Known) /\ m.live /\ m.active = sessions[s].active
  BY <1>1 DEF Machine, MachineOK
<1>3. sessions' = [sessions EXCEPT ![s] = m]
  BY DEF Enable
<1> HIDE DEF m
<1>4. Good(d, Known)
  BY <1>1, <1>2, NowIsDesktop, MachineChanged
<1>5. Become(d) /\ UNCHANGED Outputs /\ down' = down
  BY <1>3 DEF Enable, Others, Become, Now
<1> QED
  BY <1>4, <1>5, NowIsDesktop, BecomesHere

LEMMA DeactivateIsGood ==
  ASSUME IInv, NEW s \in Sessions
  PROVE  Good(Deactivate(Now, s), Known)
BY NowIsDesktop, DeactivateKeeps, DeactivateKeyboard, KeptMachines, GoodAfter

LEMMA DisableIsGood ==
  ASSUME IInv, NEW s \in Sessions, Disable(s)
  PROVE  IInv'
<1> DEFINE e == Deactivate(Now, s)
           m == [e.sessions[s] EXCEPT !.enabled = FALSE]
           f == [e EXCEPT !.sessions[s] = m]
<1>1. Good(e, Known)
  BY DeactivateIsGood
<1>2. Become(f) /\ UNCHANGED Outputs /\ down' = down
  BY DEF Disable, Others
<1>3. Now.sessions[s].live /\ e.sessions[s].live = Now.sessions[s].live
  BY NowIsDesktop, DeactivateKeeps DEF Disable, Live, Now, Kept
<1> HIDE DEF e
<1>4. e.sessions[s] \in Machine /\ MachineOK(e.sessions[s], Known)
  BY <1>1, MachineTyped
<1>5. m \in Machine /\ MachineOK(m, Known) /\ m.live /\ m.active = e.sessions[s].active
  BY <1>3, <1>4 DEF Machine, MachineOK
<1> HIDE DEF m
<1>6. Good(f, Known)
  BY <1>1, <1>5, NowIsDesktop, MachineChanged
<1> QED
  BY <1>2, <1>6, NowIsDesktop, BecomesHere

LEMMA MotionNotifyIsGood ==
  ASSUME NEW d, NEW known, Good(d, known)
  PROVE  Good(MotionNotify(d), known)
BY MotionNotifyKeeps, MotionNotifyKeyboard, KeptMachines, GoodAfter DEF Good

\* The last motion is forgotten, or another came.
LEMMA DeltaIsGood ==
  ASSUME NEW d, NEW known, Good(d, known), NEW line \in Segments \cup {NoMotion}
  PROVE  Good([d EXCEPT !.delta = line], known)
<1> DEFINE e == [d EXCEPT !.delta = line]
<1>1. /\ e \in Desktop /\ e.sessions = d.sessions /\ e.attached = d.attached
      /\ e.focus = d.focus /\ e.saved = d.saved /\ e.stack = d.stack
      /\ e.locked = d.locked /\ e.grab = d.grab
  BY DEF Good, Desktop
<1> HIDE DEF e
<1>2. SameMachines(d, e) /\ KeyboardInv(e)
  BY <1>1 DEF Good, SameMachines, KeyboardInv, Settled, IsMapped, Diverts
<1> QED
  BY <1>1, <1>2, GoodAfter DEF e

LEMMA ReleaseIsGood ==
  ASSUME IInv, NEW s \in Sessions, NEW warp \in BOOLEAN, Release(s, warp)
  PROVE  IInv'
<1> DEFINE d == Deactivate(Now, s)
           e == IF warp THEN MotionNotify([d EXCEPT !.delta = NoMotion]) ELSE d
<1>1. Good(d, Known)
  BY DeactivateIsGood
<1>2. Become(e) /\ UNCHANGED Outputs /\ down' = down
  BY DEF Release, Others
<1> HIDE DEF d
<1>3. Good(e, Known)
  BY <1>1, DeltaIsGood, MotionNotifyIsGood
<1> QED
  BY <1>2, <1>3, NowIsDesktop, BecomesHere

LEMMA ResourceDestroyIsGood ==
  ASSUME IInv, NEW s \in Sessions, ResourceDestroy(s)
  PROVE  IInv'
<1> DEFINE d == IF attached = s THEN SetInputCapture(Now, NoSession) ELSE Now
<1>1. /\ d \in Desktop /\ KeyboardInv(d) /\ d.attached # s
      /\ d.attached \in {NoSession, Now.attached}
      /\ \A r \in Sessions :
           /\ d.sessions[r].live = Now.sessions[r].live
           /\ d.sessions[r].zones = Now.sessions[r].zones
           /\ d.sessions[r].barriers = Now.sessions[r].barriers
  <2>1. s # NoSession
    BY CaptureAssumption DEF CaptureAssumption
  <2>2. CASE attached = s
    BY <2>1, <2>2, NowIsDesktop, SetInputCaptureKeeps
  <2>3. CASE attached # s
    BY <2>3, NowIsDesktop DEF Now
  <2> QED
    BY <2>2, <2>3
<1>2. Become([d EXCEPT !.sessions[s] = NoCapture]) /\ UNCHANGED Outputs /\ down' = down
  BY DEF ResourceDestroy, Others
<1> HIDE DEF d
<1>3. \A r \in Sessions : MachineOK(d.sessions[r], Known)
  BY <1>1, NowIsDesktop DEF Good, MachineOK
<1>4. d.attached = NoSession \/ d.sessions[d.attached].live
  BY <1>1, NowIsDesktop DEF Good, Desktop
<1>5. Good(d, Known)
  BY <1>1, <1>3, <1>4 DEF Good
<1>6. NoCapture \in Machine /\ MachineOK(NoCapture, Known)
  BY DEF NoCapture, NewCapture, Machine, MachineOK
<1>7. Good([d EXCEPT !.sessions[s] = NoCapture], Known)
  BY <1>1, <1>5, <1>6, NowIsDesktop, MachineChanged
<1> QED
  BY <1>2, <1>7, NowIsDesktop, BecomesHere

(***************************************************************************)
(* Outputs and input.                                                      *)
(***************************************************************************)

\* The barriers that were judged against other zones are gone.
LEMMA RezonedIsOK ==
  ASSUME NEW m \in Machine, NEW old, NEW known, NEW zones \in Shows, zones \in known,
         MachineOK(m, old)
  PROVE  LET n == Rezoned(m, zones) IN
         n \in Machine /\ MachineOK(n, known) /\ n.live = m.live /\ n.active = m.active
<1>1. CASE m.live /\ m.zones # zones
  BY <1>1 DEF Rezoned, Machine, MachineOK
<1>2. CASE ~(m.live /\ m.zones # zones)
  BY <1>2 DEF Rezoned, MachineOK
<1> QED
  BY <1>1, <1>2

LEMMA LayoutChangeIsGood ==
  ASSUME IInv, NEW new \in Layouts, NEW off \in SUBSET (new \cap Blankable),
         LayoutChange(new, off)
  PROVE  IInv'
<1> DEFINE d == MotionNotify(Now)
           e == [d EXCEPT !.sessions = [s \in Sessions |-> Rezoned(d.sessions[s], new \ off)]]
<1>1. Good(d, Known)
  BY NowIsDesktop, MotionNotifyIsGood
<1>2. /\ Become(e) /\ down' = down
      /\ layout' = new /\ dark' = off /\ switched' = {}
  BY DEF LayoutChange
<1> HIDE DEF d
<1>3. OutputsOK' /\ Lit' = new \ off
  BY <1>2 DEF OutputsOK, Lit
<1>4. new \ off \in Shows /\ new \ off \in Known'
  <2>1. new \ off \in Shows
    BY DEF Shows
  <2>2. Differ(new \ off, Lit') = {}
    BY <1>3 DEF Differ
  <2>3. Differ(new \ off, Lit)' = Differ(new \ off, Lit')
    BY DEF Differ
  <2> QED
    BY <2>1, <2>2, <2>3 DEF Known
<1>5. ASSUME NEW s \in Sessions
      PROVE  LET n == Rezoned(d.sessions[s], new \ off) IN
             /\ n \in Machine /\ MachineOK(n, Known')
             /\ n.live = d.sessions[s].live /\ n.active = d.sessions[s].active
  BY <1>1, <1>4, MachineTyped, RezonedIsOK
<1>6. /\ e \in Desktop /\ e.attached = d.attached /\ e.focus = d.focus /\ e.saved = d.saved
      /\ e.stack = d.stack /\ e.locked = d.locked /\ e.grab = d.grab
      /\ \A s \in Sessions : e.sessions[s] = Rezoned(d.sessions[s], new \ off)
  BY <1>1, <1>5 DEF Good, Desktop
<1> HIDE DEF e
<1>7. d.attached \in Sessions \cup {NoSession}
  BY <1>1 DEF Good, Desktop
<1>8. e.attached = NoSession \/ e.sessions[e.attached].live
  BY <1>1, <1>5, <1>6, <1>7 DEF Good
<1>9. Diverts(d) => Diverts(e)
  BY <1>5, <1>6, <1>7 DEF Diverts
<1>10. KeyboardInv(e)
  BY <1>1, <1>6, <1>9 DEF Good, KeyboardInv, Settled, IsMapped
<1>11. Good(e, Known')
  BY <1>5, <1>6, <1>8, <1>10 DEF Good
<1> QED
  BY <1>2, <1>3, <1>11, NowIsDesktop, Becomes

\* An enable bit that switches excuses itself: what a session could know, it may.
LEMMA SwitchKeepsKnown ==
  ASSUME OutputsOK, NEW z \in layout \cap Blankable, layout' = layout,
         dark' \in {dark \cup {z}, dark \ {z}}, switched' = switched \cup {z}
  PROVE  OutputsOK' /\ Known \subseteq Known'
<1>1. OutputsOK'
  BY DEF OutputsOK
<1>2. ASSUME NEW zones \in Known
      PROVE  zones \in Known'
  <2>1. zones \in Shows /\ Differ(zones, Lit) \subseteq switched
    BY DEF Known
  <2>2. Differ(zones, Lit)' \subseteq Differ(zones, Lit) \cup {z}
    BY DEF Differ, Lit
  <2> QED
    BY <2>1, <2>2 DEF Known
<1> QED
  BY <1>1, <1>2

\* More zones may be known.
LEMMA MoreIsKnown ==
  ASSUME NEW d, NEW known, NEW more, known \subseteq more, Good(d, known)
  PROVE  Good(d, more)
BY DEF Good, MachineOK

LEMMA DarkenOutputIsGood ==
  ASSUME IInv, NEW z \in Blankable, DarkenOutput(z)
  PROVE  IInv'
<1>1. Become(Now) /\ down' = down
  BY DEF DarkenOutput, Become, Now
<1>2. /\ z \in layout \cap Blankable /\ layout' = layout
      /\ dark' = dark \cup {z} /\ switched' = switched \cup {z}
  BY DEF DarkenOutput, Lit
<1>3. OutputsOK' /\ Known \subseteq Known'
  BY <1>2, NowIsDesktop, SwitchKeepsKnown
<1> QED
  BY <1>1, <1>3, NowIsDesktop, MoreIsKnown, Becomes

LEMMA WakeOutputIsGood ==
  ASSUME IInv, NEW z \in Blankable, NEW arranged \in BOOLEAN, WakeOutput(z, arranged)
  PROVE  IInv'
<1> DEFINE d == IF arranged THEN MotionNotify(Now) ELSE Now
<1>1. Become(d) /\ down' = down
  BY DEF WakeOutput
<1>2. /\ z \in layout \cap Blankable /\ layout' = layout
      /\ dark' = dark \ {z} /\ switched' = switched \cup {z}
  BY NowIsDesktop DEF WakeOutput, OutputsOK
<1>3. OutputsOK' /\ Known \subseteq Known'
  BY <1>2, NowIsDesktop, SwitchKeepsKnown
<1>4. Good(d, Known)
  BY NowIsDesktop, MotionNotifyIsGood
<1> HIDE DEF d
<1> QED
  BY <1>1, <1>3, <1>4, NowIsDesktop, MoreIsKnown, Becomes

LEMMA CursorMotionIsGood ==
  ASSUME IInv, NEW line \in Segments \cup {NoMotion}, CursorMotion(line)
  PROVE  IInv'
<1>1. Good(MotionNotify([Now EXCEPT !.delta = line]), Known)
  BY NowIsDesktop, DeltaIsGood, MotionNotifyIsGood
<1>2. UNCHANGED Outputs /\ down' = down
  BY DEF CursorMotion, Others
<1> QED
  BY <1>1, <1>2, NowIsDesktop, BecomesHere DEF CursorMotion

LEMMA KeyIsGood ==
  ASSUME IInv, NEW k \in Keys, Key(k)
  PROVE  IInv'
<1> DEFINE d == [Now EXCEPT !.held = held']
<1>1. held' \subseteq Keys /\ down' \subseteq Keys
  BY NowIsDesktop DEF Key, Desktop, Now
<1>2. /\ d \in Desktop /\ SameMachines(Now, d) /\ d.focus = Now.focus /\ d.saved = Now.saved
      /\ d.stack = Now.stack /\ d.locked = Now.locked /\ d.grab = Now.grab
      /\ d.attached = Now.attached /\ d.sessions = Now.sessions
  BY <1>1, NowIsDesktop DEF Desktop, Now, SameMachines
<1>3. Become(d) /\ UNCHANGED Outputs
  BY DEF Key, Become, Now
<1> HIDE DEF d
<1>4. KeyboardInv(d)
  BY <1>2, NowIsDesktop DEF KeyboardInv, Settled, IsMapped, Diverts
<1> QED
  BY <1>1, <1>2, <1>3, <1>4, NowIsDesktop, GoodAfter, BecomesHere

LEMMA BreakCaptureIsGood ==
  ASSUME IInv, BreakCapture
  PROVE  IInv'
<1>1. attached \in Sessions
  BY NowIsDesktop, DivertsTyped DEF BreakCapture, Capturing, Now
<1>2. Good(Deactivate(Now, attached), Known)
  BY <1>1, DeactivateIsGood
<1>3. UNCHANGED Outputs /\ down' = down
  BY DEF BreakCapture, Others
<1> QED
  BY <1>2, <1>3, NowIsDesktop, BecomesHere DEF BreakCapture

(***************************************************************************)
(* The rest of the desktop.                                                *)
(***************************************************************************)

\* The keyboard is given to a window, or to the top one, and settles.
LEMMA GivenIsGood ==
  ASSUME NEW d, NEW known, Good(d, known), down \subseteq Keys,
         NEW w \in Windows \cup {NoSurface}, Settled(FocusClient(d, w))
  PROVE  Good(FocusClient(d, w), known)
<1>1. d \in Desktop
  BY DEF Good
<1>2. FocusClient(d, w) \in Desktop /\ SameMachines(d, FocusClient(d, w))
  BY <1>1, FocusClientKeeps, KeptMachines
<1> QED
  BY <1>2, GoodAfter DEF KeyboardInv

LEMMA MapWindowIsGood ==
  ASSUME IInv, NEW w \in Windows, MapWindow(w)
  PROVE  IInv'
<1> DEFINE l == Lift(Now, w)
           d == MotionNotify(l)
           e == FocusClient(d, w)
<1>1. l \in Desktop /\ Kept(Now, l) /\ IsMapped(l, w)
  BY NowIsDesktop, LiftKeeps
<1>2. Become(e) /\ UNCHANGED Outputs /\ down' = down
  BY DEF MapWindow, Others
<1> HIDE DEF l
<1>3. d \in Desktop /\ Kept(l, d) /\ d.stack = l.stack
  BY <1>1, MotionNotifyKeeps
<1> HIDE DEF d
<1>4. IsMapped(d, w)
  BY <1>1, <1>3 DEF IsMapped
<1>5. Settled(e)
  BY <1>3, <1>4, NowIsDesktop, FocusClientKeyboard
<1>6. e \in Desktop /\ Kept(d, e)
  BY <1>3, NowIsDesktop, FocusClientKeeps
<1> HIDE DEF e
<1>7. SameMachines(Now, e)
  BY <1>1, <1>3, <1>6, KeptTwice, KeptMachines
<1> QED
  BY <1>2, <1>5, <1>6, <1>7, NowIsDesktop, GoodAfter, BecomesHere DEF KeyboardInv

LEMMA UnmapWindowIsGood ==
  ASSUME IInv, NEW w \in Windows, NEW destroyed \in BOOLEAN, UnmapWindow(w, destroyed)
  PROVE  IInv'
<1> DEFINE d == [Now EXCEPT !.stack = Unlinked(@, w),
                            !.saved = IF destroyed /\ @ = w THEN NoSurface ELSE @,
                            !.focus = IF @ = w THEN NoSurface ELSE @,
                            !.held = IF focus = w THEN {} ELSE @]
           e == MotionNotify(d)
           f == FocusClient(e, FocusTop(e))
<1>1. Unlinked(Now.stack, w) \in Stacks
  BY NowIsDesktop, UnlinkedStack DEF Desktop
<1>2. d \in Desktop /\ SameMachines(Now, d)
  BY <1>1, NowIsDesktop DEF Desktop, SameMachines
<1>3. Become(MotionNotify(f)) /\ UNCHANGED Outputs /\ down' = down
  BY DEF UnmapWindow, Others
<1> HIDE DEF d
<1>4. e \in Desktop /\ SameMachines(d, e)
  BY <1>2, MotionNotifyKeeps, KeptMachines
<1> HIDE DEF e
<1>5. f \in Desktop /\ SameMachines(e, f)
  BY <1>4, NowIsDesktop, TopIsWindow, FocusClientKeeps, KeptMachines
<1>6. Settled(f)
  BY <1>4, NowIsDesktop, FocusTopKeyboard
<1> HIDE DEF f
<1>7. SameMachines(Now, f)
  BY <1>2, <1>4, <1>5 DEF SameMachines
<1>8. Good(f, Known)
  BY <1>5, <1>6, <1>7, NowIsDesktop, GoodAfter DEF KeyboardInv
<1>9. Good(MotionNotify(f), Known)
  BY <1>8, MotionNotifyIsGood
<1> QED
  BY <1>3, <1>9, NowIsDesktop, BecomesHere

LEMMA ActivateClientIsGood ==
  ASSUME IInv, NEW w \in Windows, ActivateClient(w)
  PROVE  IInv'
<1>1. IsMapped(Now, w)
  BY DEF ActivateClient
<1>2. Good(FocusClient(Now, w), Known)
  BY <1>1, NowIsDesktop, FocusClientKeyboard, GivenIsGood
<1>3. Become(FocusClient(Now, w)) /\ UNCHANGED Outputs /\ down' = down
  BY DEF ActivateClient, Others
<1> QED
  BY <1>2, <1>3, NowIsDesktop, BecomesHere

LEMMA LauncherCommitIsGood ==
  ASSUME IInv, LauncherCommit
  PROVE  IInv'
<1> DEFINE d == FocusClient(Now, NoSurface)
           e == [d EXCEPT !.grab = TRUE, !.focus = Launcher, !.held = {}]
<1>1. d \in Desktop /\ SameMachines(Now, d)
  BY NowIsDesktop, FocusClientKeeps, KeptMachines
<1>2. Become(e) /\ UNCHANGED Outputs /\ down' = down
  BY DEF LauncherCommit, Others
<1> HIDE DEF d
<1>3. e \in Desktop /\ SameMachines(d, e) /\ e.grab
  BY <1>1 DEF Desktop, SameMachines, Surfaces
<1> HIDE DEF e
<1>4. SameMachines(Now, e) /\ KeyboardInv(e)
  BY <1>1, <1>3 DEF SameMachines, KeyboardInv, Settled
<1> QED
  BY <1>2, <1>3, <1>4, NowIsDesktop, GoodAfter, BecomesHere

\* The keyboard goes to the top window, and the pointer is resolved.
LEMMA BackToTheTop ==
  ASSUME IInv, NEW d \in Desktop, SameMachines(Now, d)
  PROVE  Good(MotionNotify(FocusClient(d, FocusTop(d))), Known)
<1> DEFINE f == FocusClient(d, FocusTop(d))
<1>1. f \in Desktop /\ SameMachines(d, f)
  BY NowIsDesktop, TopIsWindow, FocusClientKeeps, KeptMachines
<1>2. Settled(f)
  BY NowIsDesktop, FocusTopKeyboard
<1> HIDE DEF f
<1>3. SameMachines(Now, f)
  BY <1>1 DEF SameMachines
<1>4. Good(f, Known)
  BY <1>1, <1>2, <1>3, NowIsDesktop, GoodAfter DEF KeyboardInv
<1> QED
  BY <1>4, MotionNotifyIsGood DEF f

LEMMA LauncherUnmapIsGood ==
  ASSUME IInv, LauncherUnmap
  PROVE  IInv'
<1> DEFINE d == [Now EXCEPT !.grab = FALSE]
<1>1. d \in Desktop /\ SameMachines(Now, d)
  BY NowIsDesktop DEF Desktop, SameMachines
<1>2. Become(MotionNotify(FocusClient(d, FocusTop(d)))) /\ UNCHANGED Outputs /\ down' = down
  BY DEF LauncherUnmap, Others
<1> HIDE DEF d
<1> QED
  BY <1>1, <1>2, NowIsDesktop, BackToTheTop, BecomesHere

LEMMA SessionUnlockIsGood ==
  ASSUME IInv, SessionUnlock
  PROVE  IInv'
<1> DEFINE d == [Now EXCEPT !.locked = FALSE]
<1>1. d \in Desktop /\ SameMachines(Now, d)
  BY NowIsDesktop DEF Desktop, SameMachines
<1>2. Become(MotionNotify(FocusClient(d, FocusTop(d)))) /\ UNCHANGED Outputs /\ down' = down
  BY DEF SessionUnlock, Others
<1> HIDE DEF d
<1> QED
  BY <1>1, <1>2, NowIsDesktop, BackToTheTop, BecomesHere

LEMMA NewSessionLockIsGood ==
  ASSUME IInv, NewSessionLock
  PROVE  IInv'
<1> DEFINE c == [Now EXCEPT !.grab = FALSE]
           d == FocusClient(c, NoSurface)
           e == [d EXCEPT !.locked = TRUE]
<1>1. c \in Desktop /\ SameMachines(Now, c)
  BY NowIsDesktop DEF Desktop, SameMachines
<1>2. Become(e) /\ UNCHANGED Outputs /\ down' = down
  BY DEF NewSessionLock, Others
<1> HIDE DEF c
<1>3. d \in Desktop /\ SameMachines(c, d)
  BY <1>1, NowIsDesktop, FocusClientKeeps, KeptMachines
<1> HIDE DEF d
<1>4. e \in Desktop /\ SameMachines(d, e) /\ e.locked
  BY <1>3 DEF Desktop, SameMachines
<1> HIDE DEF e
<1>5. SameMachines(Now, e) /\ KeyboardInv(e)
  BY <1>1, <1>3, <1>4 DEF SameMachines, KeyboardInv, Settled
<1> QED
  BY <1>2, <1>4, <1>5, NowIsDesktop, GoodAfter, BecomesHere

LEMMA LockSurfaceCreateIsGood ==
  ASSUME IInv, LockSurfaceCreate
  PROVE  IInv'
<1> DEFINE e == [Now EXCEPT !.focus = LockSurface, !.held = {}]
<1>1. e \in Desktop /\ SameMachines(Now, e) /\ e.locked
  BY NowIsDesktop DEF Desktop, SameMachines, Surfaces, LockSurfaceCreate, Now
<1>2. Become(e) /\ UNCHANGED Outputs /\ down' = down
  BY DEF LockSurfaceCreate, Others
<1> HIDE DEF e
<1> QED
  BY <1>1, <1>2, NowIsDesktop, GoodAfter, BecomesHere DEF KeyboardInv, Settled

(***************************************************************************)
(* The theorems.                                                           *)
(***************************************************************************)

LEMMA StepIsGood ==
  ASSUME IInv, [Next]_vars
  PROVE  IInv'
<1>1. CASE Next
  <2>1. CASE \E s \in Sessions :
               \/ CreateCapture(s) \/ GetZones(s) \/ Enable(s) \/ Disable(s)
               \/ ResourceDestroy(s)
               \/ \E request \in Requests : SetBarriers(s, request)
               \/ \E warp \in BOOLEAN : Release(s, warp)
    BY <2>1, CreateCaptureIsGood, GetZonesIsGood, EnableIsGood, DisableIsGood,
       ResourceDestroyIsGood, SetBarriersIsGood, ReleaseIsGood
  <2>2. CASE \/ \E new \in Layouts : \E off \in SUBSET (new \cap Blankable) :
                  LayoutChange(new, off)
             \/ \E z \in Blankable :
                  DarkenOutput(z) \/ \E arranged \in BOOLEAN : WakeOutput(z, arranged)
    BY <2>2, LayoutChangeIsGood, DarkenOutputIsGood, WakeOutputIsGood
  <2>3. CASE \E line \in Segments \cup {NoMotion} : CursorMotion(line)
    BY <2>3, CursorMotionIsGood
  <2>4. CASE \E k \in Keys : Key(k)
    BY <2>4, KeyIsGood
  <2>5. CASE BreakCapture
    BY <2>5, BreakCaptureIsGood
  <2>6. CASE \E w \in Windows :
               \/ MapWindow(w) \/ ActivateClient(w)
               \/ \E destroyed \in BOOLEAN : UnmapWindow(w, destroyed)
    BY <2>6, MapWindowIsGood, ActivateClientIsGood, UnmapWindowIsGood
  <2>7. CASE LauncherCommit \/ LauncherUnmap
    BY <2>7, LauncherCommitIsGood, LauncherUnmapIsGood
  <2>8. CASE NewSessionLock \/ LockSurfaceCreate \/ SessionUnlock
    BY <2>8, NewSessionLockIsGood, LockSurfaceCreateIsGood, SessionUnlockIsGood
  <2> QED
    BY <1>1, <2>1, <2>2, <2>3, <2>4, <2>5, <2>6, <2>7, <2>8 DEF Next
<1>2. CASE UNCHANGED vars
  <2>1. Become(Now) /\ UNCHANGED Outputs /\ down' = down
    BY <1>2 DEF vars, Become, Now
  <2> QED
    BY <2>1, NowIsDesktop, BecomesHere
<1> QED
  BY <1>1, <1>2

\* Whatever the sessions ask for and the outputs do, the inductive invariant holds.
THEOREM Invariant == Spec => []IInv
<1>1. Init => IInv
  BY InitIsGood
<1>2. IInv /\ [Next]_vars => IInv'
  BY StepIsGood
<1> QED
  BY <1>1, <1>2, PTL DEF Spec

\* Every variable keeps a value the program can store: the attached session is
\* a live one, no window is on the focus stack twice, a session's zones are ones
\* the outputs had.
THEOREM TypeCorrect == Spec => []TypeOK
<1>1. IInv => TypeOK
  BY DEF IInv, OutputsOK, Good, Now, Desktop, Machine, Stacks, TypeOK
<1> QED
  BY <1>1, Invariant, PTL

\* Outputs that are beside each other, as the layout places them: a barrier a
\* session has is on the outer boundary of the zones the session knows, and those
\* are the screens lit now but for what was switched on or off since the layout
\* changed, whatever was plugged, moved, blanked and asked for since and whatever
\* the outputs' geometry is.
THEOREM BarriersStayOuter ==
  ASSUME \A boxes \in Layouts : IsTiling(boxes)
  PROVE  Spec => []BarriersAreOuter
<1>1. ASSUME IInv
      PROVE  BarriersAreOuter
  <2>1. SUFFICES ASSUME NEW s \in Sessions, NEW b \in sessions[s].barriers
                 PROVE  /\ IsOuter(sessions[s].zones, b)
                        /\ Differ(sessions[s].zones, Lit) \subseteq switched
    BY DEF BarriersAreOuter
  <2>2. sessions[s] \in Machine /\ MachineOK(sessions[s], Known)
    BY <1>1, NowIsDesktop, MachineTyped DEF Now
  <2>3. BarrierIsValid(sessions[s].zones, b)
    BY <2>2 DEF MachineOK
  <2>4. sessions[s].zones # {}
    BY <2>3 DEF BarrierIsValid, VerticalIsValid
  <2>5. sessions[s].zones \in Known
    BY <2>2, <2>4 DEF MachineOK
  <2>6. b \in BarrierType
    <3>1. b \in Barriers
      BY <2>2 DEF Machine
    <3>2. PICK request \in Requests : \E i \in DOMAIN request : b = request[i]
      BY <3>1 DEF Barriers
    <3>3. request \in Seq(BarrierType)
      BY CaptureAssumption DEF CaptureAssumption
    <3> QED
      BY <3>2, <3>3
  <2>7. sessions[s].zones \in SUBSET ZoneType /\ IsTiling(sessions[s].zones)
    <3>1. PICK boxes \in Layouts : sessions[s].zones \subseteq boxes
      BY <2>5 DEF Known, Shows
    <3>2. boxes \in SUBSET ZoneType /\ IsTiling(boxes)
      BY CaptureAssumption DEF CaptureAssumption
    <3> QED
      BY <3>1, <3>2 DEF IsTiling
  <2> QED
    BY <2>3, <2>5, <2>6, <2>7, ValidIsOuter DEF Known
<1> QED
  BY <1>1, Invariant, PTL

\* Every way a capture ends -- release, escape, disable, the session or its client
\* going away, another taking its place -- gives the keyboard back, whatever
\* windows, launchers and locks did meanwhile.
THEOREM KeyboardIsGivenBack == Spec => []KeyboardComesBack
<1>1. IInv => KeyboardComesBack
  <2> SUFFICES ASSUME IInv, ~Capturing, ~locked, ~grab, stack # <<>>
               PROVE  focus # NoSurface
    BY DEF KeyboardComesBack
  <2>1. IsMapped(Now, Now.focus) \/ (Now.focus = NoSurface /\ Now.stack = <<>>)
    BY NowIsDesktop DEF KeyboardInv, Settled, Capturing, Now
  <2>2. Now.stack = stack /\ Now.focus = focus
    BY DEF Now
  <2> QED
    BY <2>1, <2>2, NowIsDesktop, MappedIsWindow
<1> QED
  BY <1>1, Invariant, PTL

=============================================================================
