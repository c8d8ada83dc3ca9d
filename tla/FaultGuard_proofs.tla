-------------------------- MODULE FaultGuard_proofs --------------------------
(***************************************************************************)
(* Proofs about FaultGuard, for any number of threads and any stack, where *)
(* no held region makes guarded calls (~CallsInHolds).                     *)
(***************************************************************************)
EXTENDS FaultGuard, FiniteSetTheorems, TLAPS

Frames == {"call", "direct", "hold", "wants", "lock"}
Places == {"code", "disarm", "block", "unblock"}

\* Where a stack has a frame.
Spots(s, frame) == {i \in 1..Len(s) : s[i] = frame}

-----------------------------------------------------------------------------
(* Stacks.                                                                 *)

\* At most one guarded call, below every hold; a lock, or the wish for it, directly
\* on top of a hold.
Shape(s) ==
  /\ s \in Seq(Frames)
  /\ \A i, j \in Spots(s, "call") : i = j
  /\ \A i \in Spots(s, "call"), j \in Spots(s, "hold") : i < j
  /\ \A i \in Spots(s, "lock") \cup Spots(s, "wants") : i > 1 /\ s[i - 1] = "hold"

LEMMA SpotsFinite ==
  ASSUME NEW s \in Seq(Frames), NEW f
  PROVE  IsFiniteSet(Spots(s, f)) /\ Cardinality(Spots(s, f)) \in Nat
  <1>1. IsFiniteSet(1..Len(s)) BY FS_Interval
  <1> QED BY <1>1, FS_Subset, FS_CardinalityType DEF Spots

\* A push adds a spot to its own frame and to no other.
LEMMA SpotsPushed ==
  ASSUME NEW s \in Seq(Frames), NEW g \in Frames, NEW f \in Frames
  PROVE  /\ s \o <<g>> \in Seq(Frames)
         /\ g = f => Spots(s \o <<g>>, f) = Spots(s, f) \cup {Len(s) + 1}
         /\ g # f => Spots(s \o <<g>>, f) = Spots(s, f)
         /\ \A i \in 1..Len(s) : (s \o <<g>>)[i] = s[i]
         /\ Len(s \o <<g>>) = Len(s) + 1 /\ (s \o <<g>>)[Len(s) + 1] = g
  BY DEF Spots, Frames

\* A prefix keeps the spots it reaches.
LEMMA SpotsCut ==
  ASSUME NEW s \in Seq(Frames), NEW k \in 0..Len(s), NEW f \in Frames
  PROVE  /\ SubSeq(s, 1, k) \in Seq(Frames) /\ Len(SubSeq(s, 1, k)) = k
         /\ \A i \in 1..k : SubSeq(s, 1, k)[i] = s[i]
         /\ Spots(SubSeq(s, 1, k), f) = {i \in Spots(s, f) : i <= k}
  BY DEF Spots

LEMMA HoldsPushed ==
  ASSUME NEW s \in Seq(Frames), NEW g \in Frames
  PROVE  Cardinality(Spots(s \o <<g>>, "hold")) =
           Cardinality(Spots(s, "hold")) + IF g = "hold" THEN 1 ELSE 0
  <1>1. IsFiniteSet(Spots(s, "hold")) BY SpotsFinite
  <1>2. Cardinality(Spots(s, "hold")) \in Nat BY SpotsFinite
  <1>3. "hold" \in Frames BY DEF Frames
  <1>4. Len(s) + 1 \notin Spots(s, "hold") BY DEF Spots
  <1>5. CASE g = "hold"
    <2>1. Spots(s \o <<g>>, "hold") = Spots(s, "hold") \cup {Len(s) + 1}
      BY <1>3, <1>5, SpotsPushed
    <2> QED BY <2>1, <1>1, <1>2, <1>4, <1>5, FS_AddElement
  <1>6. CASE g # "hold"
    <2>1. Spots(s \o <<g>>, "hold") = Spots(s, "hold") BY <1>3, <1>6, SpotsPushed
    <2> QED BY <2>1, <1>2, <1>6
  <1> QED BY <1>5, <1>6

LEMMA HoldsPopped ==
  ASSUME NEW s \in Seq(Frames), s # <<>>
  PROVE  Cardinality(Spots(Front(s), "hold")) =
           Cardinality(Spots(s, "hold")) - IF Last(s) = "hold" THEN 1 ELSE 0
  <1> DEFINE t == Front(s)
  <1>1. Len(s) \in Nat \ {0} /\ Len(s) - 1 \in 0..Len(s) BY DEF Frames
  <1>2. t \in Seq(Frames) BY <1>1, SpotsCut DEF Front, Frames
  <1>3. Last(s) \in Frames BY <1>1 DEF Last
  <1>4. s = t \o <<Last(s)>> BY <1>1, <1>2 DEF Front, Last
  <1>5. Cardinality(Spots(t \o <<Last(s)>>, "hold")) =
          Cardinality(Spots(t, "hold")) + IF Last(s) = "hold" THEN 1 ELSE 0
    BY <1>2, <1>3, HoldsPushed
  <1>6. Cardinality(Spots(t, "hold")) \in Nat BY <1>2, SpotsFinite
  <1> HIDE DEF t
  <1>7. Cardinality(Spots(s, "hold")) =
          Cardinality(Spots(t, "hold")) + IF Last(s) = "hold" THEN 1 ELSE 0
    BY <1>4, <1>5
  <1>8. Cardinality(Spots(t, "hold")) =
          Cardinality(Spots(s, "hold")) - IF Last(s) = "hold" THEN 1 ELSE 0
    BY <1>6, <1>7
  <1> QED BY <1>8 DEF t

LEMMA NoHoldsNoDepth ==
  ASSUME NEW s \in Seq(Frames)
  PROVE  Cardinality(Spots(s, "hold")) = 0 <=> Spots(s, "hold") = {}
  BY SpotsFinite, FS_EmptySet

-----------------------------------------------------------------------------
(* Shapes: what the guard's functions do to a stack leaves it well shaped. *)

LEMMA ShapePrefix ==
  ASSUME NEW s, Shape(s), NEW k \in 0..Len(s)
  PROVE  Shape(SubSeq(s, 1, k))
  <1>1. s \in Seq(Frames) BY DEF Shape
  <1>2. /\ SubSeq(s, 1, k) \in Seq(Frames) /\ Len(SubSeq(s, 1, k)) = k
        /\ \A i \in 1..k : SubSeq(s, 1, k)[i] = s[i]
        /\ \A f \in Frames : Spots(SubSeq(s, 1, k), f) = {i \in Spots(s, f) : i <= k}
    BY <1>1, SpotsCut DEF Frames
  <1>3. {"call", "hold", "wants", "lock"} \subseteq Frames BY DEF Frames
  <1>4. \A f \in Frames : Spots(s, f) \subseteq 1..Len(s) BY DEF Spots
  <1>5. \A i \in Spots(SubSeq(s, 1, k), "lock") \cup Spots(SubSeq(s, 1, k), "wants") :
          i > 1 /\ SubSeq(s, 1, k)[i - 1] = "hold"
    <2> SUFFICES ASSUME NEW i \in Spots(SubSeq(s, 1, k), "lock") \cup Spots(SubSeq(s, 1, k), "wants")
                 PROVE  i > 1 /\ SubSeq(s, 1, k)[i - 1] = "hold"
      OBVIOUS
    <2>1. i \in Spots(s, "lock") \cup Spots(s, "wants") /\ i <= k BY <1>2, <1>3
    <2>2. i \in 1..Len(s) /\ i > 1 /\ s[i - 1] = "hold" BY <2>1, <1>3, <1>4 DEF Shape
    <2>3. i - 1 \in 1..k BY <2>1, <2>2
    <2> QED BY <2>2, <2>3, <1>2
  <1> QED BY <1>2, <1>3, <1>5 DEF Shape

LEMMA ShapeFront ==
  ASSUME NEW s, Shape(s), s # <<>> PROVE Shape(Front(s))
  <1>1. s \in Seq(Frames) BY DEF Shape
  <1>2. Len(s) - 1 \in 0..Len(s) BY <1>1
  <1> QED BY <1>2, ShapePrefix DEF Front

\* A guarded call is made where there is no other and no hold; a direct one anywhere.
LEMMA ShapeCall ==
  ASSUME NEW s, Shape(s), Spots(s, "call") = {}, Spots(s, "hold") = {}
  PROVE  Shape(s \o <<"call">>)
  <1>1. s \in Seq(Frames) BY DEF Shape
  <1>2. /\ s \o <<"call">> \in Seq(Frames)
        /\ Spots(s \o <<"call">>, "call") = {Len(s) + 1}
        /\ Spots(s \o <<"call">>, "hold") = {}
        /\ Spots(s \o <<"call">>, "lock") = Spots(s, "lock")
        /\ Spots(s \o <<"call">>, "wants") = Spots(s, "wants")
        /\ \A i \in 1..Len(s) : (s \o <<"call">>)[i] = s[i]
    BY <1>1, SpotsPushed DEF Frames
  <1>3. \A i \in Spots(s, "lock") \cup Spots(s, "wants") : i \in 1..Len(s) BY DEF Spots
  <1>4. Spots(s, "lock") \cup Spots(s, "wants") = {}
    <2> SUFFICES ASSUME NEW i \in Spots(s, "lock") \cup Spots(s, "wants") PROVE FALSE
      OBVIOUS
    <2>1. i > 1 /\ s[i - 1] = "hold" /\ i \in 1..Len(s) BY <1>3 DEF Shape
    <2>2. i - 1 \in Spots(s, "hold") BY <2>1 DEF Spots
    <2> QED BY <2>2
  <1> QED BY <1>2, <1>4 DEF Shape

LEMMA ShapePush ==
  ASSUME NEW s, Shape(s), NEW g \in {"direct", "hold"}
  PROVE  Shape(s \o <<g>>)
  <1>1. s \in Seq(Frames) /\ g \in Frames BY DEF Shape, Frames
  <1>2. /\ s \o <<g>> \in Seq(Frames)
        /\ Spots(s \o <<g>>, "call") = Spots(s, "call")
        /\ Spots(s \o <<g>>, "hold") \subseteq Spots(s, "hold") \cup {Len(s) + 1}
        /\ Spots(s \o <<g>>, "lock") = Spots(s, "lock")
        /\ Spots(s \o <<g>>, "wants") = Spots(s, "wants")
        /\ \A i \in 1..Len(s) : (s \o <<g>>)[i] = s[i]
    BY <1>1, SpotsPushed DEF Frames
  <1>3. \A f : \A i \in Spots(s, f) : i \in 1..Len(s) BY DEF Spots
  <1>4. \A i \in Spots(s, "lock") \cup Spots(s, "wants") :
          i > 1 /\ (s \o <<g>>)[i - 1] = "hold"
    <2> SUFFICES ASSUME NEW i \in Spots(s, "lock") \cup Spots(s, "wants")
                 PROVE  i > 1 /\ (s \o <<g>>)[i - 1] = "hold"
      OBVIOUS
    <2>1. i > 1 /\ s[i - 1] = "hold" /\ i \in 1..Len(s) BY <1>3 DEF Shape
    <2>2. i - 1 \in 1..Len(s) BY <2>1
    <2> QED BY <2>1, <2>2, <1>2
  <1>5. \A i \in Spots(s \o <<g>>, "call"), j \in Spots(s \o <<g>>, "hold") : i < j
    BY <1>1, <1>2, <1>3 DEF Shape
  <1> QED BY <1>2, <1>4, <1>5 DEF Shape

\* The wish for the lock, and the lock, on a hold.
LEMMA ShapeOnHold ==
  ASSUME NEW s, Shape(s), s # <<>>, Last(s) = "hold", NEW g \in {"wants", "lock"}
  PROVE  Shape(s \o <<g>>)
  <1>1. s \in Seq(Frames) /\ g \in Frames /\ Len(s) \in Nat \ {0} BY DEF Shape, Frames
  <1>2. /\ s \o <<g>> \in Seq(Frames)
        /\ Spots(s \o <<g>>, "call") = Spots(s, "call")
        /\ Spots(s \o <<g>>, "hold") = Spots(s, "hold")
        /\ Spots(s \o <<g>>, "lock") \subseteq Spots(s, "lock") \cup {Len(s) + 1}
        /\ Spots(s \o <<g>>, "wants") \subseteq Spots(s, "wants") \cup {Len(s) + 1}
        /\ \A i \in 1..Len(s) : (s \o <<g>>)[i] = s[i]
    BY <1>1, SpotsPushed DEF Frames
  <1>3. \A i \in Spots(s, "lock") \cup Spots(s, "wants") :
          i \in 2..Len(s) /\ s[i - 1] = "hold"
    BY <1>1 DEF Shape, Spots
  <1>4. \A i \in Spots(s, "lock") \cup Spots(s, "wants") \cup {Len(s) + 1} :
          i > 1 /\ (s \o <<g>>)[i - 1] = "hold"
    <2> SUFFICES ASSUME NEW i \in Spots(s, "lock") \cup Spots(s, "wants") \cup {Len(s) + 1}
                 PROVE  i > 1 /\ (s \o <<g>>)[i - 1] = "hold"
      OBVIOUS
    <2>1. i \in 2..(Len(s) + 1) /\ s[i - 1] = "hold"
      BY <1>1, <1>3 DEF Last
    <2>2. i - 1 \in 1..Len(s) BY <2>1, <1>1
    <2> QED BY <2>1, <2>2, <1>2
  <1> QED BY <1>2, <1>4 DEF Shape

-----------------------------------------------------------------------------
(* The invariant, of one thread.                                           *)

\* A call is armed while its frame is there, but for the landing or the return that
\* is under way; the depth counts the holds; the signal is blocked exactly in them,
\* but for the two moments in which a guard function is about to block or unblock;
\* a call begins unblocked; what waits is blocked; and the lock is on the stack.
Good(a, s, ar, e, b, d, p, mine) ==
  /\ a \in Places /\ ar \in BOOLEAN /\ e \in BOOLEAN /\ b \in BOOLEAN
  /\ p \in {"none", "own", "past"}
  /\ Shape(s)
  /\ d = Cardinality(Spots(s, "hold"))
  /\ a # "disarm" => (ar <=> Spots(s, "call") # {})
  /\ a = "disarm" => ~ar /\ s # <<>> /\ Last(s) = "call"
  /\ b <=> (d > 0 /\ a # "block") \/ a = "unblock"
  /\ a = "block" => d > 0 /\ ~mine
  /\ a = "unblock" => d = 0
  /\ p # "past" /\ (p = "own" => b)
  /\ ar => ~e
  /\ mine => Spots(s, "lock") # {}

Mine(t) == lock = t

ThreadOK(t) ==
  Good(at[t], stack[t], armed[t], env[t], blocked[t], depth[t], pending[t], Mine(t))

FunctionsOK ==
  /\ at \in [Threads -> Places] /\ DOMAIN stack = Threads
  /\ armed \in [Threads -> BOOLEAN] /\ env \in [Threads -> BOOLEAN]
  /\ blocked \in [Threads -> BOOLEAN] /\ timer \in [Threads -> BOOLEAN]
  /\ depth \in [Threads -> Nat] /\ pending \in [Threads -> {"none", "own", "past"}]
  /\ lock \in Threads \cup {NoThread}

IInv == FunctionsOK /\ \A t \in Threads : ThreadOK(t)

-----------------------------------------------------------------------------
(* What each step does to its thread.                                      *)

LEMMA NoHoldNoLock ==
  ASSUME NEW s, Shape(s), Spots(s, "hold") = {}
  PROVE  Spots(s, "lock") = {} /\ Spots(s, "wants") = {}
  <1> SUFFICES ASSUME NEW i \in Spots(s, "lock") \cup Spots(s, "wants") PROVE FALSE
    OBVIOUS
  <1>1. s \in Seq(Frames) /\ i \in 1..Len(s) /\ i > 1 /\ s[i - 1] = "hold" BY DEF Shape, Spots
  <1>2. i - 1 \in Spots(s, "hold") BY <1>1 DEF Spots
  <1> QED BY <1>2

\* Landing: the call is the only one, above it are all the holds.
LEMMA GoodUnwind ==
  ASSUME NEW a, NEW s, NEW ar, NEW e, NEW b, NEW d, NEW p, NEW mine, NEW k,
         Good(a, s, ar, e, b, d, p, mine), ar, ~mine,
         k = CHOOSE j \in DOMAIN s : s[j] = "call"
  PROVE  Good("disarm", SubSeq(s, 1, k), FALSE, e, e, 0, IF e THEN p ELSE "none", mine)
  <1>1. Shape(s) /\ s \in Seq(Frames) /\ a # "disarm" /\ Spots(s, "call") # {} /\ e = FALSE
    BY DEF Good, Shape
  <1>2. DOMAIN s = 1..Len(s) BY <1>1
  <1>3. \E j \in DOMAIN s : s[j] = "call" BY <1>1, <1>2 DEF Spots
  <1>4. k \in 1..Len(s) /\ s[k] = "call" BY <1>2, <1>3
  <1>5. k \in 0..Len(s) /\ k \in Spots(s, "call") BY <1>4 DEF Spots
  <1>6. Shape(SubSeq(s, 1, k)) BY <1>1, <1>5, ShapePrefix
  <1>7. /\ Len(SubSeq(s, 1, k)) = k /\ SubSeq(s, 1, k)[k] = s[k]
        /\ Spots(SubSeq(s, 1, k), "hold") = {i \in Spots(s, "hold") : i <= k}
    BY <1>1, <1>4, <1>5, SpotsCut DEF Frames
  <1>8. Spots(SubSeq(s, 1, k), "hold") = {}
    <2> SUFFICES ASSUME NEW i \in Spots(s, "hold") PROVE ~(i <= k) BY <1>7
    <2>1. k < i /\ i \in Nat /\ k \in Nat BY <1>1, <1>5 DEF Shape, Spots
    <2> QED BY <2>1
  <1>9. SubSeq(s, 1, k) # <<>> /\ Last(SubSeq(s, 1, k)) = "call" BY <1>4, <1>7 DEF Last
  <1>10. Cardinality(Spots(SubSeq(s, 1, k), "hold")) = 0 BY <1>8, FS_EmptySet
  <1> QED BY <1>1, <1>6, <1>9, <1>10 DEF Good, Places

LEMMA GoodCall ==
  ASSUME NEW s, NEW e, NEW b, NEW d, NEW p, NEW mine,
         Good("code", s, FALSE, e, b, d, p, mine), ~Contains(s, "hold")
  PROVE  Good("code", s \o <<"call">>, TRUE, b, b, d, p, mine)
  <1>1. Shape(s) /\ s \in Seq(Frames) /\ Spots(s, "call") = {} BY DEF Good, Shape
  <1>2. Spots(s, "hold") = {} BY DEF Contains, Spots
  <1>3. d = 0 /\ b = FALSE BY <1>2, FS_EmptySet DEF Good
  <1>4. Shape(s \o <<"call">>) BY <1>1, <1>2, ShapeCall
  <1>5. Cardinality(Spots(s \o <<"call">>, "hold")) = d
    BY <1>1, <1>2, <1>3, SpotsPushed, FS_EmptySet DEF Frames
  <1>6. /\ Spots(s \o <<"call">>, "call") # {}
        /\ Spots(s \o <<"call">>, "lock") = Spots(s, "lock")
    BY <1>1, SpotsPushed DEF Frames
  <1> QED BY <1>3, <1>4, <1>5, <1>6 DEF Good

LEMMA GoodDirect ==
  ASSUME NEW s, NEW ar, NEW e, NEW b, NEW d, NEW p, NEW mine,
         Good("code", s, ar, e, b, d, p, mine)
  PROVE  Good("code", s \o <<"direct">>, ar, e, b, d, p, mine)
  <1>1. Shape(s) /\ s \in Seq(Frames) BY DEF Good, Shape
  <1>2. Shape(s \o <<"direct">>) BY <1>1, ShapePush
  <1>3. \A f \in {"call", "hold", "lock"} : Spots(s \o <<"direct">>, f) = Spots(s, f)
    BY <1>1, SpotsPushed DEF Frames
  <1> QED BY <1>2, <1>3 DEF Good

\* What a pop leaves.
LEMMA SpotsPopped ==
  ASSUME NEW s \in Seq(Frames), s # <<>>, NEW f \in Frames, NEW g, Last(s) = g
  PROVE  /\ f # g => Spots(Front(s), f) = Spots(s, f)
         /\ f = g => Spots(Front(s), f) = Spots(s, f) \ {Len(s)} /\ Len(s) \in Spots(s, f)
  <1>1. Len(s) \in Nat \ {0} /\ Len(s) - 1 \in 0..Len(s) /\ s[Len(s)] = g BY DEF Last
  <1>2. Spots(Front(s), f) = {i \in Spots(s, f) : i <= Len(s) - 1}
    BY <1>1, SpotsCut DEF Front
  <1>3. \A i \in Spots(s, f) : i \in 1..Len(s) /\ s[i] = f BY DEF Spots
  <1>4. f = g => Len(s) \in Spots(s, f) BY <1>1 DEF Spots
  <1>5. \A i \in Spots(s, f) : i <= Len(s) - 1 <=> i # Len(s) BY <1>1, <1>3
  <1>6. f # g => \A i \in Spots(s, f) : i # Len(s) BY <1>1, <1>3
  <1> QED BY <1>2, <1>4, <1>5, <1>6

LEMMA GoodReturnDirect ==
  ASSUME NEW s, NEW ar, NEW e, NEW b, NEW d, NEW p, NEW mine,
         Good("code", s, ar, e, b, d, p, mine), s # <<>>, Last(s) = "direct"
  PROVE  Good("code", Front(s), ar, e, b, d, p, mine)
  <1>1. Shape(s) /\ s \in Seq(Frames) BY DEF Good, Shape
  <1>2. Shape(Front(s)) BY <1>1, ShapeFront
  <1>3. \A f \in {"call", "hold", "lock"} : Spots(Front(s), f) = Spots(s, f)
    BY <1>1, SpotsPopped DEF Frames
  <1> QED BY <1>2, <1>3 DEF Good

\* The only call is on top: no hold is above it, and none below.
LEMMA CallOnTop ==
  ASSUME NEW s, Shape(s), s # <<>>, Last(s) = "call"
  PROVE  Spots(s, "hold") = {} /\ Spots(Front(s), "call") = {}
  <1>1. s \in Seq(Frames) /\ Len(s) \in Nat \ {0} BY DEF Shape
  <1>2. Len(s) \in Spots(s, "call") BY <1>1 DEF Last, Spots
  <1>3. \A j \in Spots(s, "hold") : j \in 1..Len(s) /\ Len(s) < j
    BY <1>2 DEF Shape, Spots
  <1>4. Spots(Front(s), "call") = Spots(s, "call") \ {Len(s)}
    BY <1>1, SpotsPopped DEF Frames
  <1> QED BY <1>1, <1>2, <1>3, <1>4 DEF Shape

LEMMA GoodReturnCall ==
  ASSUME NEW s, NEW ar, NEW e, NEW b, NEW d, NEW p, NEW mine,
         Good("code", s, ar, e, b, d, p, mine), s # <<>>, Last(s) = "call"
  PROVE  Good("disarm", s, FALSE, e, b, d, p, mine)
  <1>1. Shape(s) BY DEF Good
  <1>2. Spots(s, "hold") = {} BY <1>1, CallOnTop
  <1>3. d = 0 BY <1>2, FS_EmptySet DEF Good
  <1> QED BY <1>3 DEF Good, Places

LEMMA GoodDisarm ==
  ASSUME NEW s, NEW ar, NEW e, NEW b, NEW d, NEW p, NEW mine, NEW q,
         Good("disarm", s, ar, e, b, d, p, mine),
         q \in {"none", IF p = "none" THEN "none" ELSE "past"}
  PROVE  Good("code", Front(s), ar, e, b, d, q, mine)
  <1>1. Shape(s) /\ s \in Seq(Frames) /\ s # <<>> /\ Last(s) = "call" /\ ar = FALSE
    BY DEF Good, Shape
  <1>2. Spots(s, "hold") = {} /\ Spots(Front(s), "call") = {} BY <1>1, CallOnTop
  <1>3. d = 0 BY <1>2, FS_EmptySet DEF Good
  <1>4. b = FALSE /\ p = "none" /\ q = "none" BY <1>3 DEF Good
  <1>5. Shape(Front(s)) BY <1>1, ShapeFront
  <1>6. \A f \in {"hold", "lock"} : Spots(Front(s), f) = Spots(s, f)
    BY <1>1, SpotsPopped DEF Frames
  <1> QED BY <1>1, <1>2, <1>3, <1>4, <1>5, <1>6 DEF Good, Places

LEMMA GoodHold ==
  ASSUME NEW s, NEW ar, NEW e, NEW b, NEW d, NEW p, NEW mine,
         Good("code", s, ar, e, b, d, p, mine)
  PROVE  Good(IF d = 0 THEN "block" ELSE "code", s \o <<"hold">>, ar, e, b, d + 1, p, mine)
  <1>1. Shape(s) /\ s \in Seq(Frames) /\ d = Cardinality(Spots(s, "hold")) BY DEF Good, Shape
  <1>2. Shape(s \o <<"hold">>) BY <1>1, ShapePush
  <1>3. \A f \in {"call", "lock"} : Spots(s \o <<"hold">>, f) = Spots(s, f)
    BY <1>1, SpotsPushed DEF Frames
  <1>4. d + 1 = Cardinality(Spots(s \o <<"hold">>, "hold"))
    BY <1>1, HoldsPushed DEF Frames
  <1>5. d \in Nat BY <1>1, SpotsFinite
  <1>6. d = 0 => ~mine BY <1>1, NoHoldsNoDepth, NoHoldNoLock DEF Good
  <1> QED BY <1>2, <1>3, <1>4, <1>5, <1>6 DEF Good, Places

\* What the thread asks for after a hold: the lock.
LEMMA GoodWants ==
  ASSUME NEW a, NEW s, NEW ar, NEW e, NEW b, NEW d, NEW p, NEW mine,
         Good(a, s, ar, e, b, d, p, mine), a # "disarm", s # <<>>, Last(s) = "hold"
  PROVE  Good(a, s \o <<"wants">>, ar, e, b, d, p, mine)
  <1>1. Shape(s) /\ s \in Seq(Frames) BY DEF Good, Shape
  <1>2. Shape(s \o <<"wants">>) BY <1>1, ShapeOnHold
  <1>3. \A f \in {"call", "hold", "lock"} : Spots(s \o <<"wants">>, f) = Spots(s, f)
    BY <1>1, SpotsPushed DEF Frames
  <1> QED BY <1>2, <1>3 DEF Good

LEMMA GoodHoldWants ==
  ASSUME NEW s, NEW ar, NEW e, NEW b, NEW d, NEW p, NEW mine,
         Good("code", s, ar, e, b, d, p, mine)
  PROVE  Good(IF d = 0 THEN "block" ELSE "code", s \o <<"hold", "wants">>,
              ar, e, b, d + 1, p, mine)
  <1> DEFINE t == s \o <<"hold">>
  <1>1. s \in Seq(Frames) BY DEF Good, Shape
  <1>2. t \in Seq(Frames) /\ Len(t) = Len(s) + 1 /\ t[Len(s) + 1] = "hold"
    BY <1>1, SpotsPushed DEF Frames
  <1>3. t # <<>> /\ Last(t) = "hold" BY <1>1, <1>2 DEF Last
  <1>4. Good(IF d = 0 THEN "block" ELSE "code", t, ar, e, b, d + 1, p, mine) BY GoodHold
  <1>5. s \o <<"hold", "wants">> = t \o <<"wants">>
    <2>1. <<"hold", "wants">> = <<"hold">> \o <<"wants">> OBVIOUS
    <2> QED BY <1>1, <2>1 DEF Frames
  <1> HIDE DEF t
  <1>6. Good(IF d = 0 THEN "block" ELSE "code", t \o <<"wants">>, ar, e, b, d + 1, p, mine)
    BY <1>3, <1>4, GoodWants
  <1> QED BY <1>5, <1>6

LEMMA GoodBlock ==
  ASSUME NEW s, NEW ar, NEW e, NEW b, NEW d, NEW p, NEW mine,
         Good("block", s, ar, e, b, d, p, mine)
  PROVE  Good("code", s, ar, e, TRUE, d, p, mine)
  BY DEF Good, Places

\* The wish becomes the lock.
LEMMA GoodLock ==
  ASSUME NEW s, NEW ar, NEW e, NEW b, NEW d, NEW p, NEW mine,
         Good("code", s, ar, e, b, d, p, mine), s # <<>>, Last(s) = "wants"
  PROVE  Good("code", Append(Front(s), "lock"), ar, e, b, d, p, TRUE)
  <1> DEFINE t == Front(s)
  <1>1. Shape(s) /\ s \in Seq(Frames) /\ Len(s) \in Nat \ {0} BY DEF Good, Shape
  <1>2. Len(s) \in Spots(s, "wants") BY <1>1 DEF Last, Spots
  <1>3. Len(s) > 1 /\ s[Len(s) - 1] = "hold" BY <1>1, <1>2 DEF Shape
  <1>4. t \in Seq(Frames) /\ Len(t) = Len(s) - 1 /\ t[Len(s) - 1] = s[Len(s) - 1]
    BY <1>1, <1>3, SpotsCut DEF Front, Frames
  <1>5. Shape(t) /\ t # <<>> /\ Last(t) = "hold" BY <1>1, <1>3, <1>4, ShapeFront DEF Last
  <1>6. \A f \in {"call", "hold"} : Spots(t, f) = Spots(s, f)
    BY <1>1, SpotsPopped DEF Frames
  <1> HIDE DEF t
  <1>7. /\ \A f \in {"call", "hold"} : Spots(t \o <<"lock">>, f) = Spots(t, f)
        /\ Spots(t \o <<"lock">>, "lock") # {}
    BY <1>4, SpotsPushed DEF Frames
  <1>8. Shape(t \o <<"lock">>) BY <1>5, ShapeOnHold
  <1>9. Append(t, "lock") = t \o <<"lock">> BY <1>4
  <1>10. Good("code", t \o <<"lock">>, ar, e, b, d, p, TRUE)
    BY <1>6, <1>7, <1>8 DEF Good
  <1> QED BY <1>9, <1>10 DEF t

LEMMA GoodUnlock ==
  ASSUME NEW s, NEW ar, NEW e, NEW b, NEW d, NEW p, NEW mine,
         Good("code", s, ar, e, b, d, p, mine), s # <<>>, Last(s) = "lock"
  PROVE  Good("code", Front(s), ar, e, b, d, p, FALSE)
  <1>1. Shape(s) /\ s \in Seq(Frames) BY DEF Good, Shape
  <1>2. \A f \in {"call", "hold"} : Spots(Front(s), f) = Spots(s, f)
    BY <1>1, SpotsPopped DEF Frames
  <1> QED BY <1>1, <1>2, ShapeFront DEF Good

LEMMA GoodRelease ==
  ASSUME NEW s, NEW ar, NEW e, NEW b, NEW d, NEW p, NEW mine,
         Good("code", s, ar, e, b, d, p, mine), s # <<>>, Last(s) = "hold"
  PROVE  Good(IF d = 1 THEN "unblock" ELSE "code", Front(s), ar, e, b,
              IF d = 0 THEN 0 ELSE d - 1, p, mine)
  <1>1. Shape(s) /\ s \in Seq(Frames) /\ d = Cardinality(Spots(s, "hold")) BY DEF Good, Shape
  <1>2. d - 1 = Cardinality(Spots(Front(s), "hold")) BY <1>1, HoldsPopped
  <1>3. \A f \in {"call", "lock"} : Spots(Front(s), f) = Spots(s, f)
    BY <1>1, SpotsPopped DEF Frames
  <1>4. Front(s) \in Seq(Frames) /\ Shape(Front(s)) BY <1>1, ShapeFront DEF Shape
  <1>5. d - 1 \in Nat /\ d \in Nat BY <1>1, <1>2, <1>4, SpotsFinite
  <1> QED BY <1>2, <1>3, <1>4, <1>5 DEF Good, Places

LEMMA GoodUnblock ==
  ASSUME NEW s, NEW ar, NEW e, NEW b, NEW d, NEW p, NEW mine,
         Good("unblock", s, ar, e, b, d, p, mine)
  PROVE  Good("code", s, ar, e, FALSE, d, "none", mine)
  BY DEF Good, Places

LEMMA GoodWaits ==
  ASSUME NEW a, NEW s, NEW ar, NEW e, NEW b, NEW d, NEW p, NEW mine,
         Good(a, s, ar, e, b, d, p, mine), b
  PROVE  Good(a, s, ar, e, b, d, "own", mine)
  BY DEF Good

-----------------------------------------------------------------------------
(* The invariant is inductive.                                             *)

\* Where the watchdog may land, the thread does not have the lock.
LEMMA NotInLock ==
  ASSUME NEW a, NEW s, NEW ar, NEW e, NEW b, NEW d, NEW p, NEW mine,
         Good(a, s, ar, e, b, d, p, mine), ~b \/ a = "unblock"
  PROVE  ~mine
  <1>1. CASE a = "block" BY <1>1 DEF Good
  <1>2. CASE a # "block"
    <2>1. Shape(s) /\ s \in Seq(Frames) /\ d = Cardinality(Spots(s, "hold")) BY DEF Good, Shape
    <2>2. d \in Nat BY <2>1, SpotsFinite
    <2>3. d = 0 BY <1>2, <2>2 DEF Good
    <2>4. Spots(s, "lock") = {} BY <2>1, <2>3, NoHoldsNoDepth, NoHoldNoLock
    <2> QED BY <2>4 DEF Good
  <1> QED BY <1>1, <1>2

LEMMA UnwindKeeps ==
  ASSUME IInv, NEW t \in Threads, Unwind(t), armed[t], ~Mine(t), UNCHANGED <<env, lock>>
  PROVE  ThreadOK(t)'
  <1> DEFINE k == CHOOSE j \in DOMAIN stack[t] : stack[t][j] = "call"
  <1>1. Good("disarm", SubSeq(stack[t], 1, k), FALSE, env[t], env[t], 0,
             IF env[t] THEN pending[t] ELSE "none", Mine(t))
    BY GoodUnwind DEF IInv, ThreadOK
  <1>2. /\ at'[t] = "disarm" /\ stack'[t] = SubSeq(stack[t], 1, k) /\ armed'[t] = FALSE
        /\ env'[t] = env[t] /\ blocked'[t] = env[t] /\ depth'[t] = 0
        /\ pending'[t] = IF env[t] THEN pending[t] ELSE "none"
        /\ Mine(t)' = Mine(t)
    BY DEF Unwind, Goes, IInv, FunctionsOK, Mine
  <1> HIDE DEF k
  <1> QED BY <1>1, <1>2 DEF ThreadOK

\* What a step leaves alone.
Apart(t) ==
  /\ \A u \in Threads \ {t} :
       /\ at'[u] = at[u] /\ stack'[u] = stack[u] /\ armed'[u] = armed[u]
       /\ env'[u] = env[u] /\ blocked'[u] = blocked[u] /\ depth'[u] = depth[u]
       /\ pending'[u] = pending[u] /\ (Mine(u)' => Mine(u))
  /\ FunctionsOK'

LEMMA UnwindApart ==
  ASSUME IInv, NEW t \in Threads, Unwind(t), UNCHANGED <<env, lock>>,
         timer' \in [Threads -> BOOLEAN]
  PROVE  Apart(t)
  BY DEF Unwind, Goes, IInv, FunctionsOK, Apart, Mine, Places

LEMMA StepApart ==
  ASSUME IInv, NEW t \in Threads, Step(t)
  PROVE  Apart(t)
  <1> USE DEF IInv, FunctionsOK, Apart, Mine, Places, Goes, Push, Pop
  <1>1. CASE Direct(t) BY <1>1 DEF Direct
  <1>2. CASE Return(t)
    <2>1. CASE Top(t) = "direct" BY <1>2, <2>1 DEF Return
    <2>2. CASE Top(t) # "direct" BY <1>2, <2>2 DEF Return
    <2> QED BY <2>1, <2>2
  <1>3. CASE Disarm(t) BY <1>3 DEF Disarm
  <1>4. CASE Expire(t)
    <2>1. timer' \in [Threads -> BOOLEAN] /\ UNCHANGED <<env, lock>> BY <1>4 DEF Expire
    <2>2. CASE Unwind(t) BY <2>1, <2>2, UnwindApart
    <2>3. CASE ~Unwind(t) BY <1>4, <2>3 DEF Expire
    <2> QED BY <2>2, <2>3
  <1>5. CASE Fault(t) BY <1>5, UnwindApart DEF Fault
  <1>6. CASE Block(t) BY <1>6 DEF Block
  <1>7. CASE Lock(t) BY <1>7, GuardAssumption DEF Lock, GuardAssumption
  <1>8. CASE Unlock(t) BY <1>8, GuardAssumption DEF Unlock, GuardAssumption
  <1>9. CASE Release(t) BY <1>9 DEF Release
  <1>10. CASE Unblock(t)
    <2>1. CASE Unwind(t) BY <1>10, <2>1, UnwindApart DEF Unblock
    <2>2. CASE ~Unwind(t) BY <1>10, <2>2 DEF Unblock
    <2> QED BY <2>1, <2>2
  <1>11. CASE \E b \in BOOLEAN : Call(t, b) \/ Extend(t, b) \/ Hold(t, b)
    <2>1. PICK b \in BOOLEAN : Call(t, b) \/ Extend(t, b) \/ Hold(t, b) BY <1>11
    <2>2. CASE Call(t, b) BY <2>2 DEF Call
    <2>3. CASE Extend(t, b) BY <2>3 DEF Extend
    <2>4. CASE Hold(t, b) BY <2>4 DEF Hold
    <2> QED BY <2>1, <2>2, <2>3, <2>4
  <1> QED
    BY <1>1, <1>2, <1>3, <1>4, <1>5, <1>6, <1>7, <1>8, <1>9, <1>10, <1>11 DEF Step

LEMMA StepKeeps ==
  ASSUME ~CallsInHolds, IInv, NEW t \in Threads, Step(t)
  PROVE  ThreadOK(t)'
  <1> DEFINE now == Good(at[t], stack[t], armed[t], env[t], blocked[t], depth[t],
                         pending[t], Mine(t))
  <1>1. now BY DEF IInv, ThreadOK
  <1>2. /\ stack[t] = <<>> => Top(t) = "code"
        /\ stack[t] # <<>> => Top(t) = Last(stack[t])
    BY DEF Top
  <1> USE DEF InCode, Goes, Push, Pop, In
  <1>3. CASE Direct(t)
    <2>1. Good("code", stack[t] \o <<"direct">>, armed[t], env[t], blocked[t], depth[t],
               pending[t], Mine(t))
      BY <1>1, <1>3, GoodDirect DEF Direct
    <2>2. /\ at'[t] = "code" /\ stack'[t] = stack[t] \o <<"direct">> /\ armed'[t] = armed[t]
          /\ env'[t] = env[t] /\ blocked'[t] = blocked[t] /\ depth'[t] = depth[t]
          /\ pending'[t] = pending[t] /\ Mine(t)' = Mine(t)
      BY <1>3 DEF Direct, IInv, FunctionsOK, Mine
    <2> QED BY <2>1, <2>2 DEF ThreadOK
  <1>4. CASE \E b \in BOOLEAN : Call(t, b)
    <2>1. Good("code", stack[t] \o <<"call">>, TRUE, blocked[t], blocked[t], depth[t],
               pending[t], Mine(t))
      <3>1. armed[t] = FALSE /\ at[t] = "code" /\ ~Contains(stack[t], "hold")
        BY <1>4 DEF Call, IInv, FunctionsOK
      <3> QED BY <1>1, <3>1, GoodCall
    <2>2. /\ at'[t] = "code" /\ stack'[t] = stack[t] \o <<"call">> /\ armed'[t] = TRUE
          /\ env'[t] = blocked[t] /\ blocked'[t] = blocked[t] /\ depth'[t] = depth[t]
          /\ pending'[t] = pending[t] /\ Mine(t)' = Mine(t)
      BY <1>4 DEF Call, IInv, FunctionsOK, Mine
    <2> QED BY <2>1, <2>2 DEF ThreadOK
  <1>5. CASE Return(t) /\ Top(t) = "direct"
    <2>1. Good("code", Front(stack[t]), armed[t], env[t], blocked[t], depth[t],
               pending[t], Mine(t))
      BY <1>1, <1>2, <1>5, GoodReturnDirect DEF Return
    <2>2. /\ at'[t] = "code" /\ stack'[t] = Front(stack[t]) /\ armed'[t] = armed[t]
          /\ env'[t] = env[t] /\ blocked'[t] = blocked[t] /\ depth'[t] = depth[t]
          /\ pending'[t] = pending[t] /\ Mine(t)' = Mine(t)
      BY <1>5 DEF Return, IInv, FunctionsOK, Mine
    <2> QED BY <2>1, <2>2 DEF ThreadOK
  <1>6. CASE Return(t) /\ Top(t) # "direct"
    <2>1. Good("disarm", stack[t], FALSE, env[t], blocked[t], depth[t], pending[t], Mine(t))
      BY <1>1, <1>2, <1>6, GoodReturnCall DEF Return
    <2>2. /\ at'[t] = "disarm" /\ stack'[t] = stack[t] /\ armed'[t] = FALSE
          /\ env'[t] = env[t] /\ blocked'[t] = blocked[t] /\ depth'[t] = depth[t]
          /\ pending'[t] = pending[t] /\ Mine(t)' = Mine(t)
      BY <1>6 DEF Return, IInv, FunctionsOK, Mine
    <2> QED BY <2>1, <2>2 DEF ThreadOK
  <1>7. CASE Disarm(t)
    <2>1. PICK q \in {"none", IF pending[t] = "none" THEN "none" ELSE "past"} :
            pending' = [pending EXCEPT ![t] = q]
      BY <1>7 DEF Disarm
    <2>2. Good("code", Front(stack[t]), armed[t], env[t], blocked[t], depth[t], q, Mine(t))
      <3>1. at[t] = "disarm" BY <1>7 DEF Disarm
      <3> QED BY <1>1, <3>1, GoodDisarm
    <2>3. /\ at'[t] = "code" /\ stack'[t] = Front(stack[t]) /\ armed'[t] = armed[t]
          /\ env'[t] = env[t] /\ blocked'[t] = blocked[t] /\ depth'[t] = depth[t]
          /\ pending'[t] = q /\ Mine(t)' = Mine(t)
      BY <1>7, <2>1 DEF Disarm, IInv, FunctionsOK, Mine
    <2> QED BY <2>2, <2>3 DEF ThreadOK
  <1>8. CASE Expire(t)
    <2>1. CASE blocked[t]
      <3>1. Good(at[t], stack[t], armed[t], env[t], blocked[t], depth[t], "own", Mine(t))
        BY <1>1, <2>1, GoodWaits
      <3>2. /\ at'[t] = at[t] /\ stack'[t] = stack[t] /\ armed'[t] = armed[t]
            /\ env'[t] = env[t] /\ blocked'[t] = blocked[t] /\ depth'[t] = depth[t]
            /\ pending'[t] = "own" /\ Mine(t)' = Mine(t)
        BY <1>8, <2>1 DEF Expire, IInv, FunctionsOK, Mine
      <3> QED BY <3>1, <3>2 DEF ThreadOK
    <2>2. CASE ~blocked[t] /\ armed[t]
      <3>1. ~Mine(t)
        <4>1. ~blocked[t] \/ at[t] = "unblock" BY <2>2
        <4> HIDE DEF Mine
        <4> QED BY <1>1, <4>1, NotInLock
      <3>2. Unwind(t) /\ UNCHANGED <<env, lock>> BY <1>8, <2>2 DEF Expire
      <3> QED BY <2>2, <3>1, <3>2, UnwindKeeps
    <2>3. CASE ~blocked[t] /\ ~armed[t]
      <3>1. UNCHANGED <<at, stack, armed, blocked, depth, pending, env, lock>>
        BY <1>8, <2>3 DEF Expire
      <3> QED BY <1>1, <3>1 DEF ThreadOK, Mine
    <2> QED BY <2>1, <2>2, <2>3
  <1>9. CASE Fault(t)
    <2>1. ~Mine(t) /\ armed[t] /\ Unwind(t) /\ UNCHANGED <<env, lock>> BY <1>9 DEF Fault, Mine
    <2> QED BY <2>1, UnwindKeeps
  <1>10. CASE \E b \in BOOLEAN : Extend(t, b)
    BY <1>1, <1>10 DEF Extend, ThreadOK, Mine
  <1>11. CASE Hold(t, FALSE)
    <2>1. Good(IF depth[t] = 0 THEN "block" ELSE "code", stack[t] \o <<"hold">>, armed[t],
               env[t], blocked[t], depth[t] + 1, pending[t], Mine(t))
      BY <1>1, <1>11, GoodHold DEF Hold
    <2>2. /\ at'[t] = (IF depth[t] = 0 THEN "block" ELSE "code")
          /\ stack'[t] = stack[t] \o <<"hold">> /\ armed'[t] = armed[t]
          /\ env'[t] = env[t] /\ blocked'[t] = blocked[t] /\ depth'[t] = depth[t] + 1
          /\ pending'[t] = pending[t] /\ Mine(t)' = Mine(t)
      BY <1>11 DEF Hold, IInv, FunctionsOK, Mine
    <2> QED BY <2>1, <2>2 DEF ThreadOK
  <1>12. CASE Hold(t, TRUE)
    <2>1. Good(IF depth[t] = 0 THEN "block" ELSE "code", stack[t] \o <<"hold", "wants">>,
               armed[t], env[t], blocked[t], depth[t] + 1, pending[t], Mine(t))
      BY <1>1, <1>12, GoodHoldWants DEF Hold
    <2>2. /\ at'[t] = (IF depth[t] = 0 THEN "block" ELSE "code")
          /\ stack'[t] = stack[t] \o <<"hold", "wants">> /\ armed'[t] = armed[t]
          /\ env'[t] = env[t] /\ blocked'[t] = blocked[t] /\ depth'[t] = depth[t] + 1
          /\ pending'[t] = pending[t] /\ Mine(t)' = Mine(t)
      BY <1>12 DEF Hold, IInv, FunctionsOK, Mine
    <2> QED BY <2>1, <2>2 DEF ThreadOK
  <1>13. CASE Block(t)
    <2>1. Good("code", stack[t], armed[t], env[t], TRUE, depth[t], pending[t], Mine(t))
      BY <1>1, <1>13, GoodBlock DEF Block
    <2>2. /\ at'[t] = "code" /\ stack'[t] = stack[t] /\ armed'[t] = armed[t]
          /\ env'[t] = env[t] /\ blocked'[t] = TRUE /\ depth'[t] = depth[t]
          /\ pending'[t] = pending[t] /\ Mine(t)' = Mine(t)
      BY <1>13 DEF Block, IInv, FunctionsOK, Mine
    <2> QED BY <2>1, <2>2 DEF ThreadOK
  <1>14. CASE Lock(t)
    <2>1. Good("code", Append(Front(stack[t]), "lock"), armed[t], env[t], blocked[t],
               depth[t], pending[t], TRUE)
      BY <1>1, <1>2, <1>14, GoodLock DEF Lock
    <2>2. /\ at'[t] = "code" /\ stack'[t] = Append(Front(stack[t]), "lock")
          /\ armed'[t] = armed[t] /\ env'[t] = env[t] /\ blocked'[t] = blocked[t]
          /\ depth'[t] = depth[t] /\ pending'[t] = pending[t] /\ Mine(t)' = TRUE
      BY <1>14 DEF Lock, IInv, FunctionsOK, Mine
    <2> QED BY <2>1, <2>2 DEF ThreadOK
  <1>15. CASE Unlock(t)
    <2>1. Good("code", Front(stack[t]), armed[t], env[t], blocked[t], depth[t],
               pending[t], FALSE)
      BY <1>1, <1>2, <1>15, GoodUnlock DEF Unlock
    <2>2. /\ at'[t] = "code" /\ stack'[t] = Front(stack[t]) /\ armed'[t] = armed[t]
          /\ env'[t] = env[t] /\ blocked'[t] = blocked[t] /\ depth'[t] = depth[t]
          /\ pending'[t] = pending[t] /\ Mine(t)' = FALSE
      BY <1>15, GuardAssumption DEF Unlock, IInv, FunctionsOK, Mine, GuardAssumption
    <2> QED BY <2>1, <2>2 DEF ThreadOK
  <1>16. CASE Release(t)
    <2>1. Good(IF depth[t] = 1 THEN "unblock" ELSE "code", Front(stack[t]), armed[t], env[t],
               blocked[t], IF depth[t] = 0 THEN 0 ELSE depth[t] - 1, pending[t], Mine(t))
      BY <1>1, <1>2, <1>16, GoodRelease DEF Release
    <2>2. /\ at'[t] = (IF depth[t] = 1 THEN "unblock" ELSE "code")
          /\ stack'[t] = Front(stack[t]) /\ armed'[t] = armed[t]
          /\ env'[t] = env[t] /\ blocked'[t] = blocked[t]
          /\ depth'[t] = (IF depth[t] = 0 THEN 0 ELSE depth[t] - 1)
          /\ pending'[t] = pending[t] /\ Mine(t)' = Mine(t)
      BY <1>16 DEF Release, IInv, FunctionsOK, Mine
    <2> QED BY <2>1, <2>2 DEF ThreadOK
  <1>17. CASE Unblock(t)
    <2>1. CASE pending[t] # "none" /\ armed[t]
      <3>1. ~Mine(t) BY <1>1, <1>17, NotInLock DEF Unblock
      <3>2. Unwind(t) /\ UNCHANGED <<env, lock>> BY <1>17, <2>1 DEF Unblock
      <3> QED BY <2>1, <3>1, <3>2, UnwindKeeps
    <2>2. CASE ~(pending[t] # "none" /\ armed[t])
      <3>1. Good("code", stack[t], armed[t], env[t], FALSE, depth[t], "none", Mine(t))
        <4>1. at[t] = "unblock" BY <1>17 DEF Unblock
        <4>2. Good("unblock", stack[t], armed[t], env[t], blocked[t], depth[t], pending[t], Mine(t))
          BY <1>1, <4>1
        <4> QED BY <4>2, GoodUnblock
      <3>2. /\ at'[t] = "code" /\ stack'[t] = stack[t] /\ armed'[t] = armed[t]
            /\ env'[t] = env[t] /\ blocked'[t] = FALSE /\ depth'[t] = depth[t]
            /\ pending'[t] = "none" /\ Mine(t)' = Mine(t)
        BY <1>17, <2>2 DEF Unblock, IInv, FunctionsOK, Mine
      <3> QED BY <3>1, <3>2 DEF ThreadOK
    <2> QED BY <2>1, <2>2
  <1> QED
    BY <1>3, <1>4, <1>5, <1>6, <1>7, <1>8, <1>9, <1>10, <1>11, <1>12, <1>13, <1>14,
       <1>15, <1>16, <1>17 DEF Step

LEMMA ThreadStays ==
  ASSUME NEW t \in Threads, ThreadOK(t),
         at'[t] = at[t], stack'[t] = stack[t], armed'[t] = armed[t], env'[t] = env[t],
         blocked'[t] = blocked[t], depth'[t] = depth[t], pending'[t] = pending[t],
         Mine(t)' => Mine(t)
  PROVE  ThreadOK(t)'
  <1>1. Good(at[t], stack[t], armed[t], env[t], blocked[t], depth[t], pending[t], Mine(t)')
    BY DEF ThreadOK, Good
  <1> QED BY <1>1 DEF ThreadOK

LEMMA InvInit == Init => IInv
  <1> SUFFICES ASSUME Init PROVE IInv OBVIOUS
  <1>1. <<>> \in Seq(Frames) /\ \A f : Spots(<<>>, f) = {} BY DEF Spots
  <1>2. Shape(<<>>) BY <1>1 DEF Shape
  <1>3. Good("code", <<>>, FALSE, FALSE, FALSE, 0, "none", FALSE)
    BY <1>1, <1>2, FS_EmptySet DEF Good, Places
  <1>4. \A t \in Threads : ThreadOK(t)
    <2> SUFFICES ASSUME NEW t \in Threads PROVE ThreadOK(t) OBVIOUS
    <2>1. Mine(t) = FALSE BY GuardAssumption DEF Mine, Init, GuardAssumption
    <2> QED BY <1>3, <2>1 DEF ThreadOK, Init
  <1> QED BY <1>4 DEF IInv, Init, FunctionsOK, Places

LEMMA InvNext ==
  ASSUME ~CallsInHolds, IInv, [Next]_vars PROVE IInv'
  <1>1. CASE UNCHANGED vars
    BY <1>1 DEF vars, IInv, FunctionsOK, ThreadOK, Mine
  <1>2. ASSUME NEW t \in Threads, Step(t) PROVE IInv'
    <2>1. Apart(t) /\ ThreadOK(t)' BY <1>2, StepApart, StepKeeps
    <2>2. ASSUME NEW u \in Threads PROVE ThreadOK(u)'
      <3>1. CASE u = t BY <2>1, <3>1
      <3>2. CASE u # t BY <2>1, <3>2, ThreadStays DEF Apart, IInv
      <3> QED BY <3>1, <3>2
    <2> QED BY <2>1, <2>2 DEF IInv, Apart
  <1> QED BY <1>1, <1>2 DEF Next

-----------------------------------------------------------------------------
(* Theorems.                                                               *)

\* Every call of the guard keeps to its types, whatever interrupts it.
THEOREM TypeCorrect ==
  ASSUME ~CallsInHolds PROVE Spec => []TypeOK
  <1>1. IInv => TypeOK
    <2> SUFFICES ASSUME IInv PROVE TypeOK OBVIOUS
    <2>1. \A t \in Threads : /\ stack[t] \in Seq(Frames) /\ pending[t] \in {"none", "own", "past"}
                             /\ depth[t] = Cardinality(Spots(stack[t], "hold"))
      BY DEF IInv, ThreadOK, Good, Shape
    <2>2. \A t \in Threads : depth[t] \in Nat BY <2>1, SpotsFinite
    <2> QED BY <2>1, <2>2 DEF TypeOK, IInv, FunctionsOK, Frames, Places
  <1> QED BY <1>1, InvInit, InvNext, PTL DEF Spec

\* UnwindIsClean: the watchdog signal ends the call whose budget ran out, never a
\* later one on a signal that was left over, and never while the thread is in a
\* region that has the lock: gowl_fault_guard_hold()'s block covers every moment
\* from before the lock is taken to after it is let go of.
THEOREM WatchdogIsClean ==
  ASSUME ~CallsInHolds PROVE Spec => UnwindIsClean
  <1>1. IInv /\ [Next]_vars =>
          \A t \in Threads : WatchdogUnwinds(t) => lock # t /\ pending[t] # "past"
    <2> SUFFICES ASSUME IInv, [Next]_vars, NEW t \in Threads, WatchdogUnwinds(t)
                 PROVE  lock # t /\ pending[t] # "past"
      OBVIOUS
    <2>1. Good(at[t], stack[t], armed[t], env[t], blocked[t], depth[t], pending[t], Mine(t))
      BY DEF IInv, ThreadOK
    <2>2. armed[t] /\ ~armed'[t] BY DEF WatchdogUnwinds
    <2>3. PICK u \in Threads : Step(u) BY <2>2 DEF Next, vars
    <2>4. u = t BY <2>2, <2>3, StepApart DEF Apart
    <2>5. ~blocked[t] \/ at[t] = "unblock"
      <3> SUFFICES ASSUME at[t] # "unblock", blocked[t] PROVE FALSE OBVIOUS
      <3>1. timer[t] # timer'[t] BY DEF WatchdogUnwinds
      <3>2. Step(t) /\ armed \in [Threads -> BOOLEAN] /\ timer \in [Threads -> BOOLEAN]
        BY <2>3, <2>4 DEF IInv, FunctionsOK
      <3>3. ~Return(t) /\ ~Fault(t) /\ ~Unblock(t) BY <3>1 DEF Return, Fault, Unblock
      <3>4. ~Expire(t) BY <2>2 DEF Expire
      <3>5. ~Direct(t) /\ ~Disarm(t) /\ ~Block(t) /\ ~Lock(t) /\ ~Unlock(t) /\ ~Release(t)
        BY <2>2 DEF Direct, Disarm, Block, Lock, Unlock, Release
      <3>6. PICK b \in BOOLEAN : Call(t, b) \/ Extend(t, b) \/ Hold(t, b)
        BY <3>2, <3>3, <3>4, <3>5 DEF Step
      <3> QED BY <2>2, <3>6 DEF Call, Extend, Hold
    <2>6. ~Mine(t) BY <2>1, <2>5, NotInLock
    <2> QED BY <2>1, <2>6 DEF Good, Mine
  <1> QED BY <1>1, InvInit, InvNext, PTL DEF Spec, UnwindIsClean

=============================================================================
