-------------------------- MODULE InputRemap_proofs --------------------------
(***************************************************************************)
(* Proofs about InputRemap, for any devices, inputs, rules and targets,    *)
(* where no command runs while a device is drained ("drain" is not in      *)
(* CommandsFrom), and, for what is held and fed, where none takes away the *)
(* device being handled (~SelfRemap).  The README says which findings the  *)
(* two exclude.                                                            *)
(***************************************************************************)
EXTENDS InputRemap, FiniteSetTheorems, WellFoundedInduction, TLAPS

AllInputs == UNION {Inputs[d] : d \in Devices}

Steps == {"return", "notch", "let go", "modifiers", "forget", "drain", "unclaim", "gone"}

\* What a handler may have left to do.
Ops == [at : Steps, dev : Devices, in : AllInputs \cup {NoCode}]
         \cup [at : {"out"}, dev : Devices, of : {"press", "release", "drain"},
               key : BOOLEAN, press : BOOLEAN]
         \cup [at : {"reevaluate"}, devices : SUBSET Devices]

-----------------------------------------------------------------------------
(* What may be on top of what.                                             *)

\* A step of remap_device_release().
Draining(o) ==
  o.at \in {"drain", "modifiers", "forget"} \/ (o.at = "out" /\ o.of = "drain")

Ends(o) == o.at \in {"unclaim", "gone"}

\* What o needs beneath it.
Rests(o, t) ==
  /\ o.at = "gone" => t = <<>>
  /\ o.at = "notch" => t = <<>> /\ o.in \in Inputs[o.dev]
  /\ o.at = "let go" => Len(t) = 1 /\ t[1].at = "notch"
  /\ o.at = "drain" => t # <<>> /\ Ends(t[1]) /\ t[1].dev = o.dev
  /\ o.at = "unclaim" => t # <<>> /\ t[1].at = "reevaluate"
  /\ o.at = "modifiers" => t # <<>> /\ t[1] = Op("forget", o.dev, o.in)

\* What may be on top of these: a device is drained, and then let go at once.
Allows(o, t) ==
  /\ \A k \in 1..Len(t) : Ends(t[k]) => Draining(o)
  /\ \A k \in 1..Len(t) : t[k].at = "reevaluate" => Draining(o) \/ o.at = "unclaim"
  /\ t # <<>> /\ Ends(t[1]) => o.at = "drain"

After(t, k) == SubSeq(t, k + 1, Len(t))

TodoGood(t) ==
  /\ t \in Seq(Ops)
  /\ \A k \in 1..Len(t) : Rests(t[k], After(t, k)) /\ Allows(t[k], After(t, k))

-----------------------------------------------------------------------------
(* The invariants.                                                         *)

TodoOK == TodoGood(todo)

Sets ==
  /\ claimed \subseteq plugged /\ plugged \subseteq Devices
  /\ DOMAIN down = Devices /\ \A d \in Devices : down[d] \subseteq Inputs[d]
  /\ DOMAIN held = Devices /\ \A d \in Devices : DOMAIN held[d] \subseteq Inputs[d]

\* What of it concerns who is claimed.
IsLoud(o) == Ends(o) \/ o.at = "reevaluate"
Loud(t) == {t[k] : k \in {k \in 1..Len(t) : IsLoud(t[k])}}

\* A device that disagrees with the rules is one that is still to be looked at, or
\* on its way out.
Covers(o, d) ==
  \/ o.at = "reevaluate" /\ d \in o.devices
  \/ Ends(o) /\ o.dev = d

ClaimsInv ==
  /\ \A o \in Loud(todo) : o.at = "reevaluate" => o.devices \subseteq plugged
  /\ \A o \in Loud(todo) : o.at = "unclaim" => ~Claims(rules, o.dev)
  /\ \A d \in plugged : \/ Claims(rules, d) <=> d \in claimed
                        \/ \E o \in Loud(todo) : Covers(o, d)

\* What is left to do, in no order.
Elems(t) == {t[k] : k \in 1..Len(t)}

\* Nothing beneath is being done for the device.
Free(t, d) == \A x \in Elems(t) : ~IsLoud(x) => x.dev # d

\* A release is in progress once; a device is let go only when nothing is being done
\* for it, which is so because the rules in force claim what is.
Apart(o, t, e) ==
  /\ o.at = "forget" => /\ Op("forget", o.dev, o.in) \notin Elems(t)
                        /\ Op("modifiers", o.dev, o.in) \notin Elems(t)
  /\ o.at \in {"drain", "unclaim"} => Free(t, o.dev)
  /\ o.at = "reevaluate" => \A x \in Elems(t) : ~IsLoud(x) => Claims(e, x.dev)

AllApart(t, e) == \A k \in 1..Len(t) : Apart(t[k], After(t, k), e)

HandInv ==
  /\ AllApart(todo, rules)
  /\ \A x \in Elems(todo) : ~IsLoud(x) => x.dev \in claimed

Pending(place, d, i) == Op(place, d, i) \in Elems(todo)

\* A press is held while its input is down or its release under way; a device that is
\* let go holds nothing.
HeldInv ==
  /\ \A d \in Devices : \A i \in DOMAIN held[d] :
       d \in claimed /\ (i \in down[d] \/ Pending("forget", d, i) \/ Pending("let go", d, i))
  /\ \A x \in Elems(todo) : x.at = "forget" => x.in \in DOMAIN held[x.dev]
  /\ ~AtLoop /\ Ends(Now) => DOMAIN held[Now.dev] = {}

\* What the press of x still has fed: its key until the release lifts it, its
\* modifiers until release_key_target() does.
KeyOwed(c) ==
  {x \in HeldInputs : held[x[1]][x[2]].out = c /\ ~Pending("forget", x[1], x[2])}
ModOwed(c) ==
  {x \in HeldInputs : /\ c \in held[x[1]][x[2]].mods
                      /\ Pending("forget", x[1], x[2]) => Pending("modifiers", x[1], x[2])}

EntryOK(e) ==
  /\ e.kind # "key" => e.mods = {}
  /\ e.out = NoCode => e.mods = {}

Ledger ==
  /\ DOMAIN fed = Codes
  /\ \A d \in Devices : \A i \in DOMAIN held[d] : EntryOK(held[d][i])
  /\ \A c \in Codes \ {NoCode} :
       /\ IsFiniteSet(KeyOwed(c)) /\ IsFiniteSet(ModOwed(c))
       /\ fed[c] = Cardinality(KeyOwed(c)) + Cardinality(ModOwed(c))

-----------------------------------------------------------------------------
(* What is left to do, as a stack.                                         *)

LEMMA OpsThereAre ==
  /\ \A place \in Steps, d \in Devices, i \in AllInputs \cup {NoCode} : Op(place, d, i) \in Ops
  /\ \A d \in Devices, of \in {"press", "release", "drain"}, key, press \in BOOLEAN :
       CallOut(d, of, key, press) \in Ops
  /\ \A ds \in SUBSET Devices : Reevaluate(ds) \in Ops
  BY DEF Op, CallOut, Reevaluate, Ops

LEMMA OpParts ==
  /\ \A o \in Ops : o.at # "reevaluate" => o.dev \in Devices
  /\ \A o \in Ops : o.at = "reevaluate" => o.devices \in SUBSET Devices
  /\ \A o \in Ops : o.at \notin {"out", "reevaluate"} => o.in \in AllInputs \cup {NoCode}
  BY DEF Ops, Steps

LEMMA Pushed ==
  ASSUME NEW S, NEW t \in Seq(S), NEW o \in S
  PROVE  /\ <<o>> \o t \in Seq(S) /\ Len(<<o>> \o t) = Len(t) + 1
         /\ (<<o>> \o t)[1] = o
         /\ \A k \in 1..Len(t) : (<<o>> \o t)[k + 1] = t[k]
         /\ \A k \in 1..(Len(t) + 1) : k = 1 \/ k - 1 \in 1..Len(t)
         /\ <<o>> \o t # <<>> /\ Head(<<o>> \o t) = o /\ Tail(<<o>> \o t) = t
  OBVIOUS

LEMMA Popped ==
  ASSUME NEW S, NEW t \in Seq(S), t # <<>>
  PROVE  /\ Tail(t) \in Seq(S) /\ Len(Tail(t)) = Len(t) - 1 /\ Len(t) \in Nat \ {0}
         /\ \A k \in 1..Len(Tail(t)) : Tail(t)[k] = t[k + 1] /\ k + 1 \in 1..Len(t)
         /\ Head(t) = t[1] /\ Head(t) \in S /\ 1 \in 1..Len(t)
         /\ \A k \in 1..Len(t) : k = 1 \/ (k - 1 \in 1..Len(Tail(t)) /\ t[k] = Tail(t)[k - 1])
  OBVIOUS

LEMMA HeadPushed ==
  ASSUME NEW S, NEW t \in Seq(S), NEW o \in S
  PROVE  Head(<<o>> \o t) = o
  OBVIOUS

LEMMA LastOne ==
  ASSUME NEW S, NEW t \in Seq(S), t # <<>>, Tail(t) = <<>>
  PROVE  Len(t) = 1
  <1> DEFINE u == Tail(t)
  <1>1. Len(u) = Len(t) - 1 /\ Len(t) \in Nat BY Popped
  <1>2. u = <<>> OBVIOUS
  <1> HIDE DEF u
  <1>3. Len(u) = 0 BY <1>2
  <1> QED BY <1>1, <1>3

LEMMA OneThere ==
  ASSUME NEW S, NEW t \in Seq(S), Len(t) = 1
  PROVE  t # <<>>
  OBVIOUS

LEMMA TwoPushed ==
  ASSUME NEW a, NEW b, NEW S, NEW r \in Seq(S)
  PROVE  <<a, b>> \o r = <<a>> \o (<<b>> \o r)
  <1> DEFINE s == <<a, b>> \o r
             t == <<a>> \o (<<b>> \o r)
             U == S \cup {a, b}
  <1>1. r \in Seq(U) OBVIOUS
  <1>2. s \in Seq(U) /\ t \in Seq(U) BY <1>1
  <1>3. Len(s) = Len(r) + 2 /\ Len(t) = Len(r) + 2 BY <1>1
  <1>4. \A i \in 1..(Len(r) + 2) : s[i] = t[i] BY <1>1
  <1> HIDE DEF s, t, U
  <1>5. s = t BY <1>2, <1>3, <1>4
  <1> QED BY <1>5 DEF s, t

LEMMA ThreePushed ==
  ASSUME NEW a, NEW b, NEW c, NEW S, NEW r \in Seq(S)
  PROVE  <<a, b, c>> \o r = <<a>> \o (<<b>> \o (<<c>> \o r))
  <1> DEFINE s == <<a, b, c>> \o r
             t == <<a>> \o (<<b>> \o (<<c>> \o r))
             U == S \cup {a, b, c}
  <1>1. r \in Seq(U) OBVIOUS
  <1>2. s \in Seq(U) /\ t \in Seq(U) BY <1>1
  <1>3. Len(s) = Len(r) + 3 /\ Len(t) = Len(r) + 3 BY <1>1
  <1>4. \A i \in 1..(Len(r) + 3) : s[i] = t[i] BY <1>1
  <1> HIDE DEF s, t, U
  <1>5. s = t BY <1>2, <1>3, <1>4
  <1> QED BY <1>5 DEF s, t

LEMMA AfterPushed ==
  ASSUME NEW S, NEW t \in Seq(S), NEW o \in S
  PROVE  /\ After(<<o>> \o t, 1) = t
         /\ \A k \in 1..Len(t) : After(<<o>> \o t, k + 1) = After(t, k)
  BY DEF After

LEMMA AfterPopped ==
  ASSUME NEW S, NEW t \in Seq(S), t # <<>>
  PROVE  /\ After(t, 1) = Tail(t)
         /\ \A k \in 1..Len(Tail(t)) : After(Tail(t), k) = After(t, k + 1)
  BY DEF After

LEMMA TodoPush ==
  ASSUME NEW t, TodoGood(t), NEW o \in Ops, Rests(o, t), Allows(o, t)
  PROVE  TodoGood(<<o>> \o t)
  <1>1. t \in Seq(Ops) BY DEF TodoGood
  <1>2. /\ <<o>> \o t \in Seq(Ops) /\ Len(<<o>> \o t) = Len(t) + 1
        /\ (<<o>> \o t)[1] = o
        /\ \A k \in 1..Len(t) : (<<o>> \o t)[k + 1] = t[k]
        /\ \A k \in 1..(Len(t) + 1) : k = 1 \/ k - 1 \in 1..Len(t)
    BY <1>1, Pushed
  <1>3. /\ After(<<o>> \o t, 1) = t
        /\ \A k \in 1..Len(t) : After(<<o>> \o t, k + 1) = After(t, k)
    BY <1>1, AfterPushed
  <1>4. ASSUME NEW k \in 1..(Len(t) + 1)
        PROVE  /\ Rests((<<o>> \o t)[k], After(<<o>> \o t, k))
               /\ Allows((<<o>> \o t)[k], After(<<o>> \o t, k))
    <2>1. CASE k = 1 BY <2>1, <1>2, <1>3
    <2>2. CASE k # 1
      <3>1. PICK j \in 1..Len(t) : k = j + 1 BY <1>2, <2>2
      <3>2. (<<o>> \o t)[k] = t[j] /\ After(<<o>> \o t, k) = After(t, j) BY <3>1, <1>2, <1>3
      <3> QED BY <3>2 DEF TodoGood
    <2> QED BY <2>1, <2>2
  <1> QED BY <1>2, <1>4 DEF TodoGood

LEMMA TodoPop ==
  ASSUME NEW t, TodoGood(t), t # <<>>
  PROVE  /\ TodoGood(Tail(t)) /\ Tail(t) \in Seq(Ops)
         /\ Head(t) \in Ops /\ Rests(Head(t), Tail(t)) /\ Allows(Head(t), Tail(t))
  <1>1. t \in Seq(Ops) BY DEF TodoGood
  <1>2. /\ Tail(t) \in Seq(Ops) /\ Len(Tail(t)) = Len(t) - 1
        /\ \A k \in 1..Len(Tail(t)) : Tail(t)[k] = t[k + 1] /\ k + 1 \in 1..Len(t)
        /\ Head(t) = t[1] /\ Head(t) \in Ops /\ 1 \in 1..Len(t)
    BY <1>1, Popped
  <1>3. /\ After(t, 1) = Tail(t)
        /\ \A k \in 1..Len(Tail(t)) : After(Tail(t), k) = After(t, k + 1)
    BY <1>1, AfterPopped
  <1>4. ASSUME NEW k \in 1..Len(Tail(t))
        PROVE  /\ Rests(Tail(t)[k], After(Tail(t), k))
               /\ Allows(Tail(t)[k], After(Tail(t), k))
    BY <1>2, <1>3 DEF TodoGood
  <1>5. Rests(Head(t), Tail(t)) /\ Allows(Head(t), Tail(t)) BY <1>2, <1>3 DEF TodoGood
  <1> QED BY <1>2, <1>4, <1>5 DEF TodoGood

LEMMA TodoEmpty == TodoGood(<<>>)
  BY DEF TodoGood

\* Nothing that is looked at again or on its way out.
Calm(t) == \A k \in 1..Len(t) : ~Ends(t[k]) /\ t[k].at # "reevaluate"

LEMMA CalmAllows ==
  ASSUME NEW t \in Seq(Ops), Calm(t), NEW o PROVE Allows(o, t)
  <1>1. t # <<>> => 1 \in 1..Len(t) OBVIOUS
  <1> QED BY <1>1 DEF Calm, Allows

LEMMA CalmPush ==
  ASSUME NEW t \in Seq(Ops), Calm(t), NEW o \in Ops, ~Ends(o), o.at # "reevaluate"
  PROVE  Calm(<<o>> \o t)
  <1> DEFINE u == <<o>> \o t
  <1>1. /\ Len(u) = Len(t) + 1 /\ u[1] = o
        /\ \A k \in 1..Len(t) : u[k + 1] = t[k]
        /\ \A k \in 1..(Len(t) + 1) : k = 1 \/ k - 1 \in 1..Len(t)
    BY Pushed
  <1> HIDE DEF u
  <1>2. ASSUME NEW k \in 1..Len(u) PROVE ~Ends(u[k]) /\ u[k].at # "reevaluate"
    <2>1. CASE k = 1 BY <2>1, <1>1
    <2>2. CASE k # 1
      <3>1. PICK j \in 1..Len(t) : k = j + 1 BY <1>1, <2>2
      <3> QED BY <3>1, <1>1 DEF Calm
    <2> QED BY <2>1, <2>2
  <1> QED BY <1>2 DEF Calm, u

\* What is neither part of a drain nor of a re-evaluation has neither beneath it.
LEMMA CalmBelow ==
  ASSUME NEW t, TodoGood(t), t # <<>>, ~Draining(Head(t)), Head(t).at # "unclaim"
  PROVE  Calm(Tail(t))
  BY TodoPop DEF Allows, Calm

LEMMA DrainAllows ==
  ASSUME NEW t, NEW o, Draining(o), t # <<>> => ~Ends(t[1])
  PROVE  Allows(o, t)
  BY DEF Allows

\* What handle_edge() leaves to do for a press, on top of rest.
PressLeaves(d, i, rest) ==
  \/ todo' = rest
  \/ \E key \in BOOLEAN :
       \/ todo' = <<CallOut(d, "press", key, TRUE)>> \o rest
       \/ todo' = <<CallOut(d, "press", key, TRUE)>> \o (<<Op("return", d, i)>> \o rest)

LEMMA PressTodo ==
  ASSUME NEW d, NEW i, NEW rest \in Seq(Ops), PressEdge(d, i, rest)
  PROVE  PressLeaves(d, i, rest)
  <1>1. CASE Holds(d, i) BY <1>1 DEF PressEdge, PressLeaves
  <1>2. CASE ~Holds(d, i) /\ IsEscape(d, i)
    BY <1>2 DEF PressEdge, Escaped, PressLeaves
  <1>3. CASE ~Holds(d, i) /\ ~IsEscape(d, i)
    <2> DEFINE e == Produced(d, i, Decided(d, i))
               key == e.kind \in {"key", "pass"}
    <2>1. Pressed(d, i, e, rest) BY <1>3 DEF PressEdge
    <2>2. key \in BOOLEAN OBVIOUS
    <2>3. \/ todo' = <<CallOut(d, "press", key, TRUE), Op("return", d, i)>> \o rest
          \/ todo' = <<>> \o rest
      BY <2>1 DEF Pressed
    <2> HIDE DEF key
    <2>4. <<CallOut(d, "press", key, TRUE), Op("return", d, i)>> \o rest
            = <<CallOut(d, "press", key, TRUE)>> \o (<<Op("return", d, i)>> \o rest)
      <3>1. \A a, b : <<a, b>> \o rest = <<a>> \o (<<b>> \o rest) BY TwoPushed
      <3> QED BY <3>1
    <2>5. <<>> \o rest = rest OBVIOUS
    <2> QED BY <2>2, <2>3, <2>4, <2>5 DEF PressLeaves
  <1> QED BY <1>1, <1>2, <1>3

\* And for a release.
ReleaseLeaves(d, i, of, rest) ==
  \/ todo' = rest
  \/ \E key \in BOOLEAN :
       \/ todo' = <<CallOut(d, of, key, FALSE)>> \o (<<Op("forget", d, i)>> \o rest)
       \/ todo' = <<CallOut(d, of, key, FALSE)>>
                    \o (<<Op("modifiers", d, i)>> \o (<<Op("forget", d, i)>> \o rest))

LEMMA ReleaseTodo ==
  ASSUME NEW d, NEW i, NEW of, NEW rest \in Seq(Ops), Released(d, i, of, rest)
  PROVE  ReleaseLeaves(d, i, of, rest)
  <1> DEFINE key == held[d][i].kind \in {"key", "pass"}
             c == CallOut(d, of, key, FALSE)
             m == Op("modifiers", d, i)
             f == Op("forget", d, i)
  <1>1. key \in BOOLEAN OBVIOUS
  <1>2. \/ todo' = <<>> \o rest
        \/ todo' = (<<c>> \o (<<m>> \o <<f>>)) \o rest
        \/ todo' = (<<c>> \o (<<>> \o <<f>>)) \o rest
    BY DEF Released
  <1> HIDE DEF key, c, m, f
  <1>3. /\ (<<c>> \o (<<m>> \o <<f>>)) \o rest = <<c>> \o (<<m>> \o (<<f>> \o rest))
        /\ (<<c>> \o (<<>> \o <<f>>)) \o rest = <<c>> \o (<<f>> \o rest)
        /\ <<>> \o rest = rest
    <2>1. \A x, y, z : /\ (<<x>> \o (<<y>> \o <<z>>)) \o rest = <<x>> \o (<<y>> \o (<<z>> \o rest))
                       /\ (<<x>> \o (<<>> \o <<z>>)) \o rest = <<x>> \o (<<z>> \o rest)
      OBVIOUS
    <2> QED BY <2>1
  <1> QED BY <1>1, <1>2, <1>3 DEF ReleaseLeaves, c, m, f

LEMMA PressTodoGood ==
  ASSUME NEW d \in Devices, NEW i \in AllInputs \cup {NoCode}, NEW rest, TodoGood(rest), Calm(rest),
         PressLeaves(d, i, rest)
  PROVE  TodoOK'
  <1>1. rest \in Seq(Ops) BY DEF TodoGood
  <1>2. CASE todo' = rest BY <1>2 DEF TodoOK
  <1>3. ASSUME NEW key \in BOOLEAN PROVE CallOut(d, "press", key, TRUE) \in Ops
    BY <1>3, OpsThereAre
  <1>4. Op("return", d, i) \in Ops BY OpsThereAre DEF Steps
  <1>5. \A key \in BOOLEAN : \A t : Rests(CallOut(d, "press", key, TRUE), t)
    BY DEF Rests, CallOut
  <1>6. \A t : Rests(Op("return", d, i), t) BY DEF Rests, Op
  <1>7. TodoGood(<<Op("return", d, i)>> \o rest)
    BY <1>1, <1>4, <1>6, CalmAllows, TodoPush
  <1>8. Calm(<<Op("return", d, i)>> \o rest)
    <2>1. ~Ends(Op("return", d, i)) /\ Op("return", d, i).at # "reevaluate" BY DEF Op, Ends
    <2> QED BY <1>1, <1>4, <2>1, CalmPush
  <1>9. <<Op("return", d, i)>> \o rest \in Seq(Ops) BY <1>7 DEF TodoGood
  <1>10. ASSUME NEW key \in BOOLEAN,
                \/ todo' = <<CallOut(d, "press", key, TRUE)>> \o rest
                \/ todo' = <<CallOut(d, "press", key, TRUE)>> \o (<<Op("return", d, i)>> \o rest)
         PROVE  TodoOK'
    <2>1. TodoGood(<<CallOut(d, "press", key, TRUE)>> \o rest)
      BY <1>1, <1>3, <1>5, CalmAllows, TodoPush
    <2>2. TodoGood(<<CallOut(d, "press", key, TRUE)>> \o (<<Op("return", d, i)>> \o rest))
      BY <1>3, <1>5, <1>7, <1>8, <1>9, CalmAllows, TodoPush
    <2> QED BY <1>10, <2>1, <2>2 DEF TodoOK
  <1> QED BY <1>2, <1>10 DEF PressLeaves

LEMMA ReleaseTodoGood ==
  ASSUME NEW d \in Devices, NEW i \in AllInputs \cup {NoCode}, NEW of \in {"release", "drain"}, NEW rest,
         TodoGood(rest), rest # <<>> => ~Ends(rest[1]), of # "drain" => Calm(rest),
         ReleaseLeaves(d, i, of, rest)
  PROVE  TodoOK'
  <1> DEFINE m == Op("modifiers", d, i)
             f == Op("forget", d, i)
             rf == <<f>> \o rest
             rm == <<m>> \o rf
  <1>1. rest \in Seq(Ops) BY DEF TodoGood
  <1>2. m \in Ops /\ f \in Ops BY OpsThereAre DEF Steps
  <1>3. Draining(m) /\ Draining(f) /\ ~Ends(m) /\ ~Ends(f) BY DEF Draining, Op, Ends
  <1>4. Rests(f, rest) BY DEF Rests, Op
  <1>5. TodoGood(rf) /\ rf # <<>> /\ rf[1] = f /\ rf \in Seq(Ops)
    BY <1>1, <1>2, <1>3, <1>4, DrainAllows, TodoPush, Pushed
  <1>6. Rests(m, rf) BY <1>5 DEF Rests, Op
  <1>7. TodoGood(rm) /\ rm # <<>> /\ rm[1] = m /\ rm \in Seq(Ops)
    <2> HIDE DEF m, f, rf
    <2> QED BY <1>2, <1>3, <1>5, <1>6, DrainAllows, TodoPush, Pushed
  <1>8. of # "drain" => Calm(rf) /\ Calm(rm)
    <2> HIDE DEF m, f
    <2>1. m.at # "reevaluate" /\ f.at # "reevaluate" BY DEF m, f, Op
    <2>2. \A t \in Seq(Ops), o \in {m, f} : Calm(t) => Calm(<<o>> \o t)
      BY <1>2, <1>3, <2>1, CalmPush
    <2> QED BY <1>1, <1>5, <2>2
  <1>9. CASE todo' = rest BY <1>9 DEF TodoOK
  <1>10. ASSUME NEW key \in BOOLEAN, NEW t \in {rf, rm},
                todo' = <<CallOut(d, of, key, FALSE)>> \o t
         PROVE  TodoOK'
    <2> DEFINE o == CallOut(d, of, key, FALSE)
    <2>1. o \in Ops /\ Rests(o, t) BY OpsThereAre DEF Rests, CallOut
    <2>2. of = "drain" => Draining(o) BY DEF Draining, CallOut
    <2> HIDE DEF o, rf, rm, m, f
    <2>3. TodoGood(t) /\ t \in Seq(Ops) /\ (t # <<>> => ~Ends(t[1])) BY <1>3, <1>5, <1>7
    <2>4. Allows(o, t) BY <1>8, <2>2, <2>3, DrainAllows, CalmAllows
    <2> QED BY <1>10, <2>1, <2>3, <2>4, TodoPush DEF TodoOK, o
  <1> QED BY <1>9, <1>10 DEF ReleaseLeaves

-----------------------------------------------------------------------------
(* What each step leaves to do.                                            *)

LEMMA CalmEmpty == Calm(<<>>)
  BY DEF Calm

\* The innermost thing, and what is beneath it.
LEMMA Top ==
  ASSUME TodoOK, ~AtLoop
  PROVE  /\ todo # <<>> /\ todo \in Seq(Ops) /\ Tail(todo) \in Seq(Ops)
         /\ Now \in Ops /\ Now = todo[1] /\ TodoGood(Tail(todo))
         /\ Rests(Now, Tail(todo)) /\ Allows(Now, Tail(todo))
         /\ ~Draining(Now) /\ Now.at # "unclaim" => Calm(Tail(todo))
         /\ Now.at # "reevaluate" => Now.dev \in Devices
  <1>1. todo # <<>> /\ todo \in Seq(Ops) /\ TodoGood(todo) BY DEF TodoOK, TodoGood, AtLoop
  <1>2. Now = todo[1] BY <1>1 DEF Now
  <1>3. Now \in Ops BY <1>1, TodoPop DEF Now
  <1> QED BY <1>1, <1>2, <1>3, TodoPop, CalmBelow, OpParts DEF Now

LEMMA PopGood ==
  ASSUME TodoOK, ~AtLoop, todo' = Does(<<>>)
  PROVE  TodoOK' /\ todo' = Tail(todo)
  <1>1. <<>> \o Tail(todo) = Tail(todo) BY Top
  <1> QED BY <1>1, Top DEF TodoOK, Does

\* The wheel's notch, and the release that follows its press.
LEMMA NotchRest ==
  ASSUME TodoOK, At("notch")
  PROVE  /\ Now.in \in Inputs[Now.dev] /\ Now.in \in AllInputs /\ Now.dev \in Devices
         /\ Tail(todo) = <<>> /\ Calm(todo)
         /\ TodoGood(<<Op("let go", Now.dev, Now.in)>> \o todo)
         /\ Calm(<<Op("let go", Now.dev, Now.in)>> \o todo)
  <1>1. ~AtLoop /\ Now.at = "notch" BY DEF At
  <1>2. Now.in \in Inputs[Now.dev] /\ Now.dev \in Devices /\ Tail(todo) = <<>>
    BY <1>1, Top DEF Rests
  <1>3. Now.in \in AllInputs BY <1>2 DEF AllInputs
  <1>4. Len(todo) = 1 /\ todo[1] = Now /\ todo \in Seq(Ops) /\ TodoGood(todo)
    <2>1. todo # <<>> /\ todo \in Seq(Ops) /\ todo[1] = Now BY <1>1, Top
    <2>2. Len(todo) = 1 BY <1>2, <2>1, LastOne
    <2> QED BY <2>1, <2>2 DEF TodoOK
  <1>5. Calm(todo) BY <1>1, <1>4 DEF Calm, Ends
  <1> DEFINE o == Op("let go", Now.dev, Now.in)
  <1>6. o \in Ops BY <1>2, <1>3, OpsThereAre DEF Steps
  <1>7. Rests(o, todo) /\ ~Ends(o) /\ o.at # "reevaluate"
    BY <1>1, <1>4 DEF Rests, Op, Ends
  <1> HIDE DEF o
  <1>8. TodoGood(<<o>> \o todo) /\ Calm(<<o>> \o todo)
    BY <1>4, <1>5, <1>6, <1>7, CalmAllows, CalmPush, TodoPush
  <1> QED BY <1>2, <1>3, <1>5, <1>8 DEF o

LEMMA LetGoRest ==
  ASSUME TodoOK, At("let go")
  PROVE  /\ Now.dev \in Devices /\ Now.in \in AllInputs \cup {NoCode}
         /\ TodoGood(Tail(todo)) /\ Calm(Tail(todo)) /\ Len(Tail(todo)) = 1
         /\ Tail(todo)[1].at = "notch" /\ Tail(todo) # <<>> /\ ~Ends(Tail(todo)[1])
  <1>1. ~AtLoop /\ Now.at = "let go" BY DEF At
  <1>2. Now \in Ops /\ Tail(todo) \in Seq(Ops) BY <1>1, Top
  <1>3. Now.in \in AllInputs \cup {NoCode} BY <1>1, <1>2, OpParts
  <1>4. Len(Tail(todo)) = 1 /\ Tail(todo)[1].at = "notch" BY <1>1, Top DEF Rests
  <1>5. Calm(Tail(todo)) /\ TodoGood(Tail(todo)) /\ Now.dev \in Devices
    BY <1>1, Top DEF Draining
  <1>6. Tail(todo) # <<>> BY <1>2, <1>4, OneThere
  <1> QED BY <1>3, <1>4, <1>5, <1>6 DEF Ends

\* What a device that is drained is drained for.
LEMMA DrainRest ==
  ASSUME TodoOK, At("drain")
  PROVE  /\ Now.dev \in Devices /\ todo[1].at = "drain" /\ ~Ends(todo[1])
         /\ todo # <<>> /\ todo \in Seq(Ops) /\ TodoGood(todo) /\ Tail(todo) # <<>>
         /\ Ends(Tail(todo)[1]) /\ Tail(todo)[1].dev = Now.dev
  <1>1. ~AtLoop /\ Now.at = "drain" BY DEF At
  <1> QED BY <1>1, Top DEF Rests, Ends, TodoOK

\* A change of the rules, at the loop or from a handler that may run commands.
LEMMA ChangeRest ==
  ASSUME "drain" \notin CommandsFrom, TodoOK, CanRun
  PROVE  Calm(todo) /\ todo \in Seq(Ops) /\ TodoGood(todo)
  <1>1. todo \in Seq(Ops) /\ TodoGood(todo) BY DEF TodoOK, TodoGood
  <1>2. CASE AtLoop BY <1>1, <1>2, CalmEmpty DEF AtLoop
  <1>3. CASE ~AtLoop
    <2>1. Now.at = "out" /\ Now.of # "drain" BY <1>3 DEF CanRun, At
    <2>2. Calm(Tail(todo)) /\ Now = todo[1] /\ Now \in Ops /\ todo # <<>>
          /\ Tail(todo) \in Seq(Ops)
      BY <1>3, <2>1, Top DEF Draining
    <2>3. ~Ends(Now) /\ Now.at # "reevaluate" BY <2>1 DEF Ends
    <2>4. Calm(<<Now>> \o Tail(todo)) BY <2>2, <2>3, CalmPush
    <2>5. <<Now>> \o Tail(todo) = todo BY <1>1, <2>2
    <2> QED BY <1>1, <2>4, <2>5
  <1> QED BY <1>2, <1>3

\* Looking at the devices again: one of them is let go, or there is none.
ReevaluateLeaves ==
  \/ todo' = Tail(todo)
  \/ \E d \in Now.devices :
       LET rest == Reevaluate(Now.devices \ {d}) IN
       \/ todo' = <<rest>> \o Tail(todo)
       \/ todo' = <<Op("drain", d, NoCode)>> \o
                    (<<Op("unclaim", d, NoCode)>> \o (<<rest>> \o Tail(todo)))

LEMMA ReevaluateTodo ==
  ASSUME TodoOK, ReevaluateNext
  PROVE  /\ ReevaluateLeaves /\ Calm(Tail(todo)) /\ Tail(todo) \in Seq(Ops)
         /\ TodoGood(Tail(todo)) /\ Now.devices \in SUBSET Devices
         /\ Now.at = "reevaluate" /\ ~AtLoop /\ todo # <<>> /\ todo \in Seq(Ops) /\ Now = todo[1]
  <1>1. ~AtLoop /\ Now.at = "reevaluate" BY DEF At, ReevaluateNext
  <1>2. /\ Calm(Tail(todo)) /\ Tail(todo) \in Seq(Ops) /\ TodoGood(Tail(todo)) /\ Now \in Ops
        /\ todo # <<>> /\ todo \in Seq(Ops) /\ Now = todo[1]
    BY <1>1, Top DEF Draining
  <1>3. Now.devices \in SUBSET Devices BY <1>1, <1>2, OpParts
  <1>4. <<>> \o Tail(todo) = Tail(todo) BY <1>2
  <1>5. \A a, b : <<a, b>> \o Tail(todo) = <<a>> \o (<<b>> \o Tail(todo)) BY <1>2, TwoPushed
  <1>6. ASSUME NEW a, NEW b, NEW c
        PROVE  <<a, b, c>> \o Tail(todo) = <<a>> \o (<<b>> \o (<<c>> \o Tail(todo)))
    <2> DEFINE t == Tail(todo)
    <2>1. t \in Seq(Ops) BY <1>2
    <2> HIDE DEF t
    <2>2. <<a, b, c>> \o t = <<a>> \o (<<b>> \o (<<c>> \o t)) BY <2>1, ThreePushed, SMTT(40)
    <2> QED BY <2>2 DEF t
  <1>7. ReevaluateLeaves
    <2>1. CASE todo' = Does(<<>>) BY <2>1, <1>4 DEF Does, ReevaluateLeaves
    <2>2. CASE todo' # Does(<<>>)
      <3>1. PICK d \in Now.devices :
              LET rest == Reevaluate(Now.devices \ {d}) IN
              \/ todo' = Does(<<rest>>)
              \/ todo' = Does(<<Op("drain", d, NoCode), Op("unclaim", d, NoCode), rest>>)
        BY <2>2 DEF ReevaluateNext
      <3> DEFINE r == Reevaluate(Now.devices \ {d})
                 u == Op("unclaim", d, NoCode)
                 n == Op("drain", d, NoCode)
      <3>2. todo' = <<r>> \o Tail(todo) \/ todo' = <<n, u, r>> \o Tail(todo) BY <3>1 DEF Does
      <3> HIDE DEF r, u, n
      <3>3. todo' = <<r>> \o Tail(todo) \/ todo' = <<n>> \o (<<u>> \o (<<r>> \o Tail(todo)))
        BY <3>2, <1>6
      <3> QED BY <3>3 DEF ReevaluateLeaves, r, u, n
    <2> QED BY <2>1, <2>2
  <1> QED BY <1>1, <1>2, <1>3, <1>7

LEMMA ReevaluateTodoGood ==
  ASSUME TodoOK, ReevaluateNext
  PROVE  TodoOK'
  <1>1. /\ ReevaluateLeaves /\ Calm(Tail(todo)) /\ Tail(todo) \in Seq(Ops)
        /\ TodoGood(Tail(todo)) /\ Now.devices \in SUBSET Devices
    BY ReevaluateTodo
  <1>2. CASE todo' = Tail(todo) BY <1>1, <1>2 DEF TodoOK
  <1>3. ASSUME NEW d \in Now.devices,
               \/ todo' = <<Reevaluate(Now.devices \ {d})>> \o Tail(todo)
               \/ todo' = <<Op("drain", d, NoCode)>> \o
                            (<<Op("unclaim", d, NoCode)>> \o
                               (<<Reevaluate(Now.devices \ {d})>> \o Tail(todo)))
        PROVE  TodoOK'
    <2> DEFINE r == Reevaluate(Now.devices \ {d})
               u == Op("unclaim", d, NoCode)
               n == Op("drain", d, NoCode)
               t1 == <<r>> \o Tail(todo)
               t2 == <<u>> \o t1
    <2>1. r \in Ops /\ u \in Ops /\ n \in Ops
      BY <1>1, OpsThereAre DEF Steps
    <2>2. Rests(r, Tail(todo)) BY DEF Rests, Reevaluate
    <2>3. TodoGood(t1) /\ t1 \in Seq(Ops) /\ t1 # <<>> /\ t1[1] = r /\ r.at = "reevaluate"
      <3>1. r.at = "reevaluate" BY DEF Reevaluate
      <3>2. Allows(r, Tail(todo)) BY <1>1, CalmAllows
      <3> HIDE DEF r
      <3>3. TodoGood(t1) BY <1>1, <2>1, <2>2, <3>2, TodoPush
      <3>4. t1 \in Seq(Ops) /\ t1 # <<>> /\ t1[1] = r BY <1>1, <2>1, Pushed
      <3> QED BY <3>1, <3>3, <3>4
    <2>4. Rests(u, t1) BY <2>3 DEF Rests, Op
    <2>5. Allows(u, t1)
      <3>1. \A k \in 1..Len(t1) : ~Ends(t1[k])
        <4>1. /\ Len(t1) = Len(Tail(todo)) + 1
              /\ \A k \in 1..Len(Tail(todo)) : t1[k + 1] = Tail(todo)[k]
              /\ \A k \in 1..(Len(Tail(todo)) + 1) : k = 1 \/ k - 1 \in 1..Len(Tail(todo))
          BY <1>1, <2>1, Pushed
        <4> HIDE DEF t1
        <4> SUFFICES ASSUME NEW k \in 1..Len(t1) PROVE ~Ends(t1[k]) OBVIOUS
        <4>2. CASE k = 1 BY <4>2, <2>3 DEF Ends
        <4>3. CASE k # 1
          <5>1. PICK j \in 1..Len(Tail(todo)) : k = j + 1 BY <4>1, <4>3
          <5> QED BY <5>1, <4>1, <1>1 DEF Calm
        <4> QED BY <4>2, <4>3
      <3>2. u.at = "unclaim" BY DEF Op
      <3>3. ~Ends(t1[1]) BY <2>3 DEF Ends
      <3> HIDE DEF t1, u
      <3> QED BY <3>1, <3>2, <3>3 DEF Allows
    <2> HIDE DEF t1
    <2>6. TodoGood(t2) /\ t2 \in Seq(Ops) /\ t2 # <<>> /\ t2[1] = u
      BY <2>1, <2>3, <2>4, <2>5, TodoPush, Pushed
    <2>7. Rests(n, t2) BY <2>6 DEF Rests, Op, Ends
    <2>8. Allows(n, t2) BY DEF Allows, Draining, Op
    <2> HIDE DEF t2
    <2>9. TodoGood(<<n>> \o t2) BY <2>1, <2>6, <2>7, <2>8, TodoPush
    <2> QED BY <1>3, <2>3, <2>9 DEF TodoOK, t1, t2
  <1> QED BY <1>1, <1>2, <1>3 DEF ReevaluateLeaves

\* The commands that change the rules.
Changes ==
  \/ \E r \in Addable : Add(r) \/ RemoveNamed(NameOf[r])
  \/ Clear
  \/ \E l \in ConfigLists : Reload(l)
  \/ \E on \in BOOLEAN : Enable(on)

LEMMA ChangesRules == ASSUME Changes PROVE \E e : Change(e)
  <1>1. ASSUME NEW r \in Addable, Add(r) \/ RemoveNamed(NameOf[r]) PROVE \E e : Change(e)
    BY <1>1 DEF Add, RemoveNamed
  <1>2. CASE Clear BY <1>2 DEF Clear
  <1>3. ASSUME NEW l \in ConfigLists, Reload(l) PROVE \E e : Change(e) BY <1>3 DEF Reload
  <1>4. ASSUME NEW on \in BOOLEAN, Enable(on) PROVE \E e : Change(e) BY <1>4 DEF Enable
  <1> QED BY <1>1, <1>2, <1>3, <1>4 DEF Changes

LEMMA PhysicalInputs ==
  ASSUME NEW d \in Devices, NEW i \in Physical(d)
  PROVE  i \in Inputs[d] /\ i \in AllInputs
  BY DEF Physical, AllInputs

\* One handler's sequence of steps, from the event that starts it.
LEMMA TodoOne ==
  ASSUME NEW o \in Ops, Rests(o, <<>>) PROVE TodoGood(<<o>>)
  <1>1. <<>> \in Seq(Ops) OBVIOUS
  <1>2. TodoGood(<<o>> \o <<>>) BY <1>1, TodoEmpty, CalmEmpty, CalmAllows, TodoPush
  <1>3. <<o>> \o <<>> = <<o>> OBVIOUS
  <1> QED BY <1>2, <1>3

LEMMA PressTodoNext ==
  ASSUME TodoOK, NEW d \in Devices, NEW i \in Physical(d), Press(d, i) \/ Release(d, i)
  PROVE  TodoOK'
  <1>1. i \in AllInputs \cup {NoCode} BY PhysicalInputs
  <1>2. <<>> \in Seq(Ops) OBVIOUS
  <1>3. CASE PressEdge(d, i, <<>>)
    <2>1. PressLeaves(d, i, <<>>) BY <1>2, <1>3, PressTodo
    <2> QED BY <1>1, <2>1, TodoEmpty, CalmEmpty, PressTodoGood
  <1>4. CASE ReleaseEdge(d, i, <<>>)
    <2>1. ReleaseLeaves(d, i, "release", <<>>)
      <3>1. CASE Holds(d, i)
        <4>1. Released(d, i, "release", <<>>) BY <1>4, <3>1 DEF ReleaseEdge
        <4> QED BY <1>2, <4>1, ReleaseTodo
      <3>2. CASE ~Holds(d, i) BY <1>4, <3>2 DEF ReleaseEdge, ReleaseLeaves
      <3> QED BY <3>1, <3>2
    <2> QED BY <1>1, <2>1, TodoEmpty, CalmEmpty, ReleaseTodoGood
  <1>5. CASE UNCHANGED todo BY <1>5 DEF TodoOK
  <1> QED BY <1>3, <1>4, <1>5 DEF Press, Release

LEMMA UnplugTodoNext ==
  ASSUME TodoOK, NEW d \in Devices, Unplug(d)
  PROVE  TodoOK'
  <1> DEFINE g == Op("gone", d, NoCode)
             n == Op("drain", d, NoCode)
  <1>1. g \in Ops /\ n \in Ops BY OpsThereAre DEF Steps
  <1>2. Rests(g, <<>>) BY DEF Rests, Op
  <1>3. TodoGood(<<g>>) BY <1>1, <1>2, TodoOne
  <1>4. Ends(g) /\ g.dev = d /\ Draining(n) BY DEF Ends, Draining, Op
  <1>5. <<g>> # <<>> /\ <<g>>[1] = g OBVIOUS
  <1>6. Rests(n, <<g>>) BY <1>4, <1>5 DEF Rests, Op
  <1>7. Allows(n, <<g>>) BY <1>4 DEF Allows, Op
  <1>8. TodoGood(<<n>> \o <<g>>) BY <1>1, <1>3, <1>6, <1>7, TodoPush
  <1>9. todo' = <<n>> \o <<g>> \/ todo' = <<>> \o <<g>> BY DEF Unplug
  <1>10. <<>> \o <<g>> = <<g>> OBVIOUS
  <1> HIDE DEF g, n
  <1> QED BY <1>3, <1>8, <1>9, <1>10 DEF TodoOK

LEMMA TurnTodoNext ==
  ASSUME TodoOK, NEW d \in Devices, NEW i, NEW n, Turn(d, i, n)
  PROVE  TodoOK'
  <1> DEFINE o == Op("notch", d, i)
  <1>1. i \in Inputs[d] /\ i \in AllInputs /\ todo' = <<o>> BY DEF Turn, AllInputs
  <1>2. o \in Ops BY <1>1, OpsThereAre DEF Steps
  <1>3. Rests(o, <<>>) BY <1>1 DEF Rests, Op
  <1> HIDE DEF o
  <1> QED BY <1>1, <1>2, <1>3, TodoOne DEF TodoOK

LEMMA WheelTodoNext ==
  ASSUME TodoOK, NextNotch \/ NotchEnds
  PROVE  TodoOK'
  <1>1. CASE NextNotch
    <2>1. At("notch") /\ ~AtLoop BY <1>1 DEF NextNotch, At
    <2> DEFINE rest == <<Op("let go", Now.dev, Now.in)>> \o todo
    <2>2. /\ TodoGood(rest) /\ Calm(rest) /\ rest \in Seq(Ops)
          /\ Now.dev \in Devices /\ Now.in \in AllInputs \cup {NoCode}
      BY <2>1, NotchRest DEF TodoGood
    <2>3. PressEdge(Now.dev, Now.in, rest) \/ todo' = Does(<<>>) BY <1>1 DEF NextNotch
    <2> HIDE DEF rest
    <2>4. CASE PressEdge(Now.dev, Now.in, rest)
      <3>1. PressLeaves(Now.dev, Now.in, rest) BY <2>2, <2>4, PressTodo
      <3> QED BY <2>2, <3>1, PressTodoGood
    <2>5. CASE todo' = Does(<<>>) BY <2>1, <2>5, PopGood
    <2> QED BY <2>3, <2>4, <2>5
  <1>2. CASE NotchEnds
    <2>1. At("let go") /\ ReleaseEdge(Now.dev, Now.in, Tail(todo)) BY <1>2 DEF NotchEnds
    <2>2. /\ Now.dev \in Devices /\ Now.in \in AllInputs \cup {NoCode}
          /\ TodoGood(Tail(todo)) /\ Calm(Tail(todo)) /\ ~Ends(Tail(todo)[1])
          /\ Tail(todo) \in Seq(Ops)
      BY <2>1, LetGoRest DEF TodoGood
    <2>3. ReleaseLeaves(Now.dev, Now.in, "release", Tail(todo))
      <3>1. CASE Holds(Now.dev, Now.in)
        <4>1. Released(Now.dev, Now.in, "release", Tail(todo)) BY <2>1, <3>1 DEF ReleaseEdge
        <4> QED BY <2>2, <4>1, ReleaseTodo
      <3>2. CASE ~Holds(Now.dev, Now.in) BY <2>1, <3>2 DEF ReleaseEdge, ReleaseLeaves
      <3> QED BY <3>1, <3>2
    <2> QED BY <2>2, <2>3, ReleaseTodoGood
  <1> QED BY <1>1, <1>2

LEMMA DrainTodoNext ==
  ASSUME Sets, TodoOK, Drain
  PROVE  TodoOK'
  <1>1. At("drain") /\ ~AtLoop BY DEF Drain, At
  <1>2. /\ Now.dev \in Devices /\ todo # <<>> /\ todo \in Seq(Ops) /\ TodoGood(todo)
        /\ ~Ends(todo[1])
    BY <1>1, DrainRest
  <1>3. ASSUME NEW i \in DOMAIN held[Now.dev], Released(Now.dev, i, "drain", todo)
        PROVE  TodoOK'
    <2>1. ReleaseLeaves(Now.dev, i, "drain", todo) BY <1>2, <1>3, ReleaseTodo
    <2>2. i \in AllInputs \cup {NoCode} BY <1>2, <1>3 DEF Sets, AllInputs
    <2> QED BY <1>2, <2>1, <2>2, ReleaseTodoGood
  <1>4. CASE todo' = Does(<<>>) BY <1>1, <1>4, PopGood
  <1> QED BY <1>3, <1>4 DEF Drain

LEMMA ChangeTodoNext ==
  ASSUME "drain" \notin CommandsFrom, Sets, TodoOK, NEW e, Change(e)
  PROVE  TodoOK'
  <1> DEFINE o == Reevaluate(plugged)
  <1>1. Calm(todo) /\ todo \in Seq(Ops) /\ TodoGood(todo) BY ChangeRest DEF Change
  <1>2. o \in Ops BY OpsThereAre DEF Sets
  <1>3. Rests(o, todo) BY DEF Rests, Reevaluate
  <1>4. todo' = <<o>> \o todo BY DEF Change
  <1> HIDE DEF o
  <1> QED BY <1>1, <1>2, <1>3, <1>4, CalmAllows, TodoPush DEF TodoOK

LEMMA TodoNext ==
  ASSUME "drain" \notin CommandsFrom, Sets, TodoOK, [Next]_vars
  PROVE  TodoOK'
  <1>1. ASSUME NEW d \in Devices, Plug(d) PROVE TodoOK' BY <1>1 DEF Plug, TodoOK
  <1>2. ASSUME NEW d \in Devices, Unplug(d) PROVE TodoOK' BY <1>2, UnplugTodoNext
  <1>3. ASSUME NEW d \in Devices, NEW i \in Physical(d), Press(d, i) \/ Release(d, i)
        PROVE  TodoOK'
    BY <1>3, PressTodoNext
  <1>4. ASSUME NEW d \in Devices, NEW i \in Wheels, NEW n \in Deltas, Turn(d, i, n)
        PROVE  TodoOK'
    BY <1>4, TurnTodoNext
  <1>5. CASE NextNotch \/ NotchEnds BY <1>5, WheelTodoNext
  <1>6. CASE OutReturns \/ PressReturns \/ ReleaseModifiers \/ Forget \/ Unclaim \/ Gone
    <2>1. ~AtLoop /\ todo' = Does(<<>>)
      BY <1>6 DEF OutReturns, PressReturns, ReleaseModifiers, Forget, Unclaim, Gone, At
    <2> QED BY <2>1, PopGood
  <1>7. CASE Drain BY <1>7, DrainTodoNext
  <1>8. CASE ReevaluateNext BY <1>8, ReevaluateTodoGood
  <1>9. CASE Changes BY <1>9, ChangesRules, ChangeTodoNext
  <1>10. CASE Lock \/ Unlock \/ UNCHANGED vars BY <1>10 DEF Lock, Unlock, vars, TodoOK
  <1> QED BY <1>1, <1>2, <1>3, <1>4, <1>5, <1>6, <1>7, <1>8, <1>9, <1>10 DEF Next, Changes

-----------------------------------------------------------------------------
(* What of it concerns who is claimed.                                     *)

LEMMA LoudPush ==
  ASSUME NEW S, NEW t \in Seq(S), NEW o \in S
  PROVE  Loud(<<o>> \o t) = Loud(t) \cup (IF IsLoud(o) THEN {o} ELSE {})
  <1> DEFINE u == <<o>> \o t
  <1>1. /\ Len(u) = Len(t) + 1 /\ u[1] = o /\ 1 \in 1..(Len(t) + 1)
        /\ \A k \in 1..Len(t) : u[k + 1] = t[k] /\ k + 1 \in 1..(Len(t) + 1)
        /\ \A k \in 1..(Len(t) + 1) : k = 1 \/ (k - 1 \in 1..Len(t) /\ u[k] = t[k - 1])
    BY Pushed
  <1> HIDE DEF u
  <1>2. ASSUME NEW x \in Loud(u) PROVE x \in Loud(t) \cup (IF IsLoud(o) THEN {o} ELSE {})
    <2>1. PICK k \in 1..Len(u) : IsLoud(u[k]) /\ x = u[k] BY DEF Loud
    <2>2. CASE k = 1 BY <2>1, <2>2, <1>1
    <2>3. CASE k # 1 BY <2>1, <2>3, <1>1 DEF Loud
    <2> QED BY <2>2, <2>3
  <1>3. ASSUME NEW x \in Loud(t) PROVE x \in Loud(u)
    <2>1. PICK k \in 1..Len(t) : IsLoud(t[k]) /\ x = t[k] BY DEF Loud
    <2> QED BY <2>1, <1>1 DEF Loud
  <1>4. IsLoud(o) => o \in Loud(u) BY <1>1 DEF Loud
  <1> QED BY <1>2, <1>3, <1>4 DEF u

LEMMA LoudPop ==
  ASSUME NEW S, NEW t \in Seq(S), t # <<>>
  PROVE  Loud(t) = Loud(Tail(t)) \cup (IF IsLoud(Head(t)) THEN {Head(t)} ELSE {})
  <1>1. Head(t) \in S /\ Tail(t) \in Seq(S) BY Popped
  <1>2. <<Head(t)>> \o Tail(t) = t OBVIOUS
  <1> QED BY <1>1, <1>2, LoudPush

LEMMA LoudCalm == ASSUME NEW t, Calm(t) PROVE Loud(t) = {}
  BY DEF Calm, Loud, IsLoud

LEMMA PressLoud ==
  ASSUME NEW d \in Devices, NEW i \in AllInputs \cup {NoCode}, NEW rest \in Seq(Ops),
         PressLeaves(d, i, rest)
  PROVE  Loud(todo') = Loud(rest)
  <1>1. /\ ~IsLoud(Op("return", d, i)) /\ Op("return", d, i) \in Ops
        /\ \A key \in BOOLEAN : /\ ~IsLoud(CallOut(d, "press", key, TRUE))
                                /\ CallOut(d, "press", key, TRUE) \in Ops
    <2>1. Op("return", d, i) \in Ops BY OpsThereAre DEF Steps
    <2>2. \A key \in BOOLEAN : CallOut(d, "press", key, TRUE) \in Ops BY OpsThereAre
    <2> QED BY <2>1, <2>2 DEF IsLoud, Ends, Op, CallOut
  <1> DEFINE r == <<Op("return", d, i)>> \o rest
  <1>2. r \in Seq(Ops) BY <1>1, Pushed
  <1>3. Loud(r) = Loud(rest) BY <1>1, LoudPush
  <1> HIDE DEF r
  <1>4. ASSUME NEW key \in BOOLEAN, NEW t \in Seq(Ops)
        PROVE  Loud(<<CallOut(d, "press", key, TRUE)>> \o t) = Loud(t)
    BY <1>1, LoudPush
  <1>5. \/ todo' = rest
        \/ \E key \in BOOLEAN : \/ todo' = <<CallOut(d, "press", key, TRUE)>> \o rest
                                \/ todo' = <<CallOut(d, "press", key, TRUE)>> \o r
    BY DEF PressLeaves, r
  <1> QED BY <1>2, <1>3, <1>4, <1>5

LEMMA ReleaseLoud ==
  ASSUME NEW d \in Devices, NEW i \in AllInputs \cup {NoCode}, NEW of \in {"release", "drain"},
         NEW rest \in Seq(Ops), ReleaseLeaves(d, i, of, rest)
  PROVE  Loud(todo') = Loud(rest)
  <1> DEFINE m == Op("modifiers", d, i)
             f == Op("forget", d, i)
             rf == <<f>> \o rest
             rm == <<m>> \o rf
  <1>1. m \in Ops /\ f \in Ops BY OpsThereAre DEF Steps
  <1>2. ~IsLoud(m) /\ ~IsLoud(f) BY DEF IsLoud, Ends, Op
  <1>3. \A key \in BOOLEAN : /\ ~IsLoud(CallOut(d, of, key, FALSE))
                             /\ CallOut(d, of, key, FALSE) \in Ops
    <2>1. \A key \in BOOLEAN : CallOut(d, of, key, FALSE) \in Ops BY OpsThereAre
    <2> QED BY <2>1 DEF IsLoud, Ends, CallOut
  <1>4. \/ todo' = rest
        \/ \E key \in BOOLEAN : \/ todo' = <<CallOut(d, of, key, FALSE)>> \o rf
                                \/ todo' = <<CallOut(d, of, key, FALSE)>> \o rm
    BY DEF ReleaseLeaves
  <1> HIDE DEF m, f
  <1>5. rf \in Seq(Ops) /\ Loud(rf) = Loud(rest) BY <1>1, <1>2, Pushed, LoudPush
  <1> HIDE DEF rf
  <1>6. rm \in Seq(Ops) /\ Loud(rm) = Loud(rest)
    <2>1. rm \in Seq(Ops) BY <1>1, <1>5, Pushed
    <2>2. Loud(rm) = Loud(rf) \cup (IF IsLoud(m) THEN {m} ELSE {}) BY <1>1, <1>5, LoudPush
    <2> QED BY <1>2, <1>5, <2>1, <2>2
  <1> HIDE DEF rm
  <1>7. ASSUME NEW key \in BOOLEAN, NEW t \in Seq(Ops)
        PROVE  Loud(<<CallOut(d, of, key, FALSE)>> \o t) = Loud(t)
    BY <1>3, LoudPush
  <1> QED BY <1>4, <1>5, <1>6, <1>7

\* What is done and not about claims leaves nothing about claims.
LEMMA PopLoud ==
  ASSUME TodoOK, ~AtLoop, todo' = Does(<<>>)
  PROVE  /\ ~IsLoud(Now) => Loud(todo') = Loud(todo)
         /\ Loud(todo) = Loud(todo') \cup (IF IsLoud(Now) THEN {Now} ELSE {})
  <1>1. todo # <<>> /\ todo \in Seq(Ops) /\ todo' = Tail(todo) BY Top, PopGood
  <1> QED BY <1>1, LoudPop DEF Now

-----------------------------------------------------------------------------
(* What each step does to what is held.                                    *)

\* One more entry.
Gains(d, i) ==
  /\ DOMAIN held' = DOMAIN held
  /\ DOMAIN held'[d] = DOMAIN held[d] \cup {i}
  /\ \A j \in DOMAIN held[d] \ {i} : held'[d][j] = held[d][j]
  /\ \A c \in Devices \ {d} : held'[c] = held[c]

\* One fewer.
Loses(d, i) ==
  /\ DOMAIN held' = DOMAIN held
  /\ DOMAIN held'[d] = DOMAIN held[d] \ {i}
  /\ \A j \in DOMAIN held[d] \ {i} : held'[d][j] = held[d][j]
  /\ \A c \in Devices \ {d} : held'[c] = held[c]

LEMMA HoldGains ==
  ASSUME DOMAIN held = Devices, NEW d \in Devices, NEW i, NEW e, Hold(d, i, e)
  PROVE  Gains(d, i) /\ held'[d][i] = e
  BY DEF Hold, Gains

LEMMA WithoutLoses ==
  ASSUME DOMAIN held = Devices, NEW d \in Devices, NEW i, held' = Without(d, i)
  PROVE  Loses(d, i)
  BY DEF Without, Loses

LEMMA PressHeld ==
  ASSUME DOMAIN held = Devices, NEW d \in Devices, NEW i, NEW rest, PressEdge(d, i, rest)
  PROVE  held' = held \/ (~Holds(d, i) /\ Gains(d, i))
  <1>1. CASE Holds(d, i) BY <1>1 DEF PressEdge
  <1>2. CASE ~Holds(d, i) /\ IsEscape(d, i)
    <2>1. i = Esc /\ Escaped(d, rest) BY <1>2 DEF PressEdge, IsEscape
    <2> DEFINE e == [Entry("key", NoTarget) EXCEPT !.out = Esc, !.mods = Needed({Super})]
    <2>2. Hold(d, i, e) BY <2>1 DEF Escaped
    <2> HIDE DEF e
    <2> QED BY <1>2, <2>2, HoldGains
  <1>3. CASE ~Holds(d, i) /\ ~IsEscape(d, i)
    <2> DEFINE e == Produced(d, i, Decided(d, i))
    <2>1. Hold(d, i, e) BY <1>3 DEF PressEdge, Pressed
    <2> HIDE DEF e
    <2> QED BY <1>3, <2>1, HoldGains
  <1> QED BY <1>1, <1>2, <1>3

LEMMA ReleasedHeld ==
  ASSUME DOMAIN held = Devices, NEW d \in Devices, NEW i, NEW of, NEW rest,
         Released(d, i, of, rest)
  PROVE  held' = held \/ Loses(d, i)
  <1>1. held' = held \/ held' = Without(d, i) BY DEF Released
  <1> QED BY <1>1, WithoutLoses

LEMMA ReleaseHeld ==
  ASSUME DOMAIN held = Devices, NEW d \in Devices, NEW i, NEW rest, ReleaseEdge(d, i, rest)
  PROVE  held' = held \/ Loses(d, i)
  <1>1. CASE Holds(d, i)
    <2>1. Released(d, i, "release", rest) BY <1>1 DEF ReleaseEdge
    <2> QED BY <2>1, ReleasedHeld
  <1>2. CASE ~Holds(d, i) BY <1>2 DEF ReleaseEdge
  <1> QED BY <1>1, <1>2

\* The parts of Sets.
ClaimSets == claimed \subseteq plugged /\ plugged \subseteq Devices
DownSets == DOMAIN down = Devices /\ \A d \in Devices : down[d] \subseteq Inputs[d]
HeldSets == DOMAIN held = Devices /\ \A d \in Devices : DOMAIN held[d] \subseteq Inputs[d]

LEMMA SetsParts == Sets <=> ClaimSets /\ DownSets /\ HeldSets
  BY DEF Sets, ClaimSets, DownSets, HeldSets

LEMMA GainsSets ==
  ASSUME HeldSets, NEW d \in Devices, NEW i \in Inputs[d], Gains(d, i) PROVE HeldSets'
  BY DEF HeldSets, Gains

LEMMA LosesSets ==
  ASSUME HeldSets, NEW d \in Devices, NEW i, Loses(d, i) PROVE HeldSets'
  BY DEF HeldSets, Loses

\* What a step does to what is held, if anything: one entry comes or goes.
HeldStep ==
  \/ held' = held
  \/ \E d \in Devices : \E i \in Inputs[d] : ~Holds(d, i) /\ Gains(d, i)
  \/ \E d \in Devices : \E i : Loses(d, i)

LEMMA HeldNext ==
  ASSUME HeldSets, TodoOK, [Next]_vars PROVE HeldStep
  <1> USE DEF HeldStep
  <1>0. DOMAIN held = Devices BY DEF HeldSets
  <1>1. ASSUME NEW d \in Devices, Plug(d) \/ Unplug(d) PROVE HeldStep BY <1>1 DEF Plug, Unplug
  <1>2. ASSUME NEW d \in Devices, NEW i \in Physical(d), Press(d, i) PROVE HeldStep
    <2>1. held' = held \/ PressEdge(d, i, <<>>) BY <1>2 DEF Press
    <2>2. i \in Inputs[d] BY PhysicalInputs
    <2> QED BY <1>0, <2>1, <2>2, PressHeld
  <1>3. ASSUME NEW d \in Devices, NEW i \in Physical(d), Release(d, i) PROVE HeldStep
    <2>1. held' = held \/ ReleaseEdge(d, i, <<>>) BY <1>3 DEF Release
    <2> QED BY <1>0, <2>1, ReleaseHeld
  <1>4. ASSUME NEW d, NEW i, NEW n, Turn(d, i, n) PROVE HeldStep BY <1>4 DEF Turn
  <1>5. CASE NextNotch
    <2>1. Now.in \in Inputs[Now.dev] /\ Now.dev \in Devices BY <1>5, NotchRest DEF NextNotch
    <2> DEFINE rest == <<Op("let go", Now.dev, Now.in)>> \o todo
    <2>2. held' = held \/ PressEdge(Now.dev, Now.in, rest) BY <1>5 DEF NextNotch
    <2> HIDE DEF rest
    <2> QED BY <1>0, <2>1, <2>2, PressHeld
  <1>6. CASE NotchEnds
    <2>1. Now.dev \in Devices /\ ReleaseEdge(Now.dev, Now.in, Tail(todo))
      BY <1>6, LetGoRest DEF NotchEnds
    <2> QED BY <1>0, <2>1, ReleaseHeld
  <1>7. CASE Forget
    <2>1. ~AtLoop /\ Now.at = "forget" /\ held' = Without(Now.dev, Now.in) BY <1>7 DEF Forget, At
    <2>2. Now.dev \in Devices BY <2>1, Top
    <2> QED BY <1>0, <2>1, <2>2, WithoutLoses
  <1>8. CASE Drain
    <2>1. Now.dev \in Devices BY <1>8, DrainRest DEF Drain
    <2>2. held' = held \/ \E i : Released(Now.dev, i, "drain", todo) BY <1>8 DEF Drain
    <2> QED BY <1>0, <2>1, <2>2, ReleasedHeld
  <1>9. CASE OutReturns \/ PressReturns \/ ReleaseModifiers \/ Unclaim \/ Gone \/ ReevaluateNext
    BY <1>9 DEF OutReturns, PressReturns, ReleaseModifiers, Unclaim, Gone, ReevaluateNext
  <1>10. CASE Changes
    <2>1. PICK e : Change(e) BY <1>10, ChangesRules
    <2> QED BY <2>1 DEF Change
  <1>11. CASE Lock \/ Unlock \/ UNCHANGED vars BY <1>11 DEF Lock, Unlock, vars
  <1> QED BY <1>1, <1>2, <1>3, <1>4, <1>5, <1>6, <1>7, <1>8, <1>9, <1>10, <1>11 DEF Next, Changes

LEMMA DownNext ==
  ASSUME DownSets, [Next]_vars PROVE DownSets'
  <1>1. ASSUME NEW d \in Devices, NEW i \in Physical(d), Press(d, i) \/ Release(d, i)
        PROVE  DownSets'
    <2>1. i \in Inputs[d] BY PhysicalInputs
    <2>2. \/ down' = [down EXCEPT ![d] = @ \cup {i}]
          \/ down' = [down EXCEPT ![d] = @ \ {i}]
      BY <1>1 DEF Press, Release
    <2> QED BY <2>1, <2>2 DEF DownSets
  <1>2. ASSUME NEW d \in Devices, Plug(d) \/ Unplug(d) PROVE DownSets'
    BY <1>2 DEF Plug, Unplug, DownSets
  <1>3. ASSUME NEW d, NEW i, NEW n, Turn(d, i, n) PROVE DownSets' BY <1>3 DEF Turn, DownSets
  <1>4. CASE Gone BY <1>4 DEF Gone, DownSets
  <1>5. CASE NextNotch \/ NotchEnds \/ OutReturns \/ PressReturns \/ ReleaseModifiers \/ Forget
    BY <1>5 DEF NextNotch, NotchEnds, OutReturns, PressReturns, ReleaseModifiers, Forget, DownSets
  <1>6. CASE Drain \/ Unclaim \/ ReevaluateNext
    BY <1>6 DEF Drain, Unclaim, ReevaluateNext, DownSets
  <1>7. CASE Changes
    <2>1. PICK e : Change(e) BY <1>7, ChangesRules
    <2> QED BY <2>1 DEF Change, DownSets
  <1>8. CASE Lock \/ Unlock \/ UNCHANGED vars BY <1>8 DEF Lock, Unlock, vars, DownSets
  <1> QED BY <1>1, <1>2, <1>3, <1>4, <1>5, <1>6, <1>7, <1>8 DEF Next, Changes

LEMMA HeldSetsNext ==
  ASSUME HeldSets, TodoOK, [Next]_vars PROVE HeldSets'
  <1>1. HeldStep BY HeldNext
  <1>2. CASE held' = held BY <1>2 DEF HeldSets
  <1> QED BY <1>1, <1>2, GainsSets, LosesSets DEF HeldStep

-----------------------------------------------------------------------------
(* Who is claimed.                                                         *)

\* A step about no claim.
Quiet == Loud(todo') = Loud(todo) /\ UNCHANGED <<plugged, claimed, rules>>

ClaimsOK == ClaimSets /\ ClaimsInv

LEMMA QuietKeeps ==
  ASSUME ClaimsOK, Quiet PROVE ClaimsOK'
  <1>1. Loud(todo)' = Loud(todo) BY DEF Quiet
  <1> QED BY <1>1 DEF Quiet, ClaimsOK, ClaimSets, ClaimsInv

LEMMA LoopIsCalm == ASSUME AtLoop PROVE Loud(todo) = {}
  BY CalmEmpty, LoudCalm DEF AtLoop

LEMMA PressQuiet ==
  ASSUME TodoOK, NEW d \in Devices, NEW i \in Physical(d), Press(d, i) \/ Release(d, i)
  PROVE  Quiet
  <1>1. i \in AllInputs \cup {NoCode} BY PhysicalInputs
  <1>2. <<>> \in Seq(Ops) OBVIOUS
  <1>3. Loud(todo) = {} /\ Loud(<<>>) = {}
    BY LoopIsCalm, CalmEmpty, LoudCalm DEF Press, Release
  <1>4. Loud(todo') = Loud(todo)
    <2>1. CASE PressEdge(d, i, <<>>)
      <3>1. PressLeaves(d, i, <<>>) BY <1>2, <2>1, PressTodo
      <3> QED BY <1>1, <1>2, <1>3, <3>1, PressLoud
    <2>2. CASE ReleaseEdge(d, i, <<>>)
      <3>1. ReleaseLeaves(d, i, "release", <<>>)
        <4>1. CASE Holds(d, i)
          <5>1. Released(d, i, "release", <<>>) BY <2>2, <4>1 DEF ReleaseEdge
          <5> QED BY <1>2, <5>1, ReleaseTodo
        <4>2. CASE ~Holds(d, i) BY <2>2, <4>2 DEF ReleaseEdge, ReleaseLeaves
        <4> QED BY <4>1, <4>2
      <3> QED BY <1>1, <1>2, <1>3, <3>1, ReleaseLoud
    <2>3. CASE UNCHANGED todo BY <2>3
    <2> QED BY <2>1, <2>2, <2>3 DEF Press, Release
  <1> QED BY <1>4 DEF Quiet, Press, Release

LEMMA WheelQuiet ==
  ASSUME TodoOK, NextNotch \/ NotchEnds PROVE Quiet
  <1>1. ~AtLoop BY DEF NextNotch, NotchEnds, At
  <1>2. todo \in Seq(Ops) /\ todo # <<>> /\ Tail(todo) \in Seq(Ops) BY <1>1, Top
  <1>3. CASE NextNotch
    <2> DEFINE o == Op("let go", Now.dev, Now.in)
               rest == <<o>> \o todo
    <2>1. /\ rest \in Seq(Ops) /\ Now.dev \in Devices /\ Now.in \in AllInputs /\ Calm(rest)
          /\ Calm(todo)
      BY <1>3, NotchRest DEF NextNotch, TodoGood
    <2>2. PressEdge(Now.dev, Now.in, rest) \/ todo' = Does(<<>>) BY <1>3 DEF NextNotch
    <2> HIDE DEF rest
    <2>3. CASE PressEdge(Now.dev, Now.in, rest)
      <3>1. PressLeaves(Now.dev, Now.in, rest) BY <2>1, <2>3, PressTodo
      <3>2. Loud(todo') = Loud(rest) BY <2>1, <3>1, PressLoud
      <3>3. Loud(rest) = {} /\ Loud(todo) = {} BY <2>1, LoudCalm
      <3> QED BY <1>3, <3>2, <3>3 DEF Quiet, NextNotch
    <2>4. CASE todo' = Does(<<>>)
      <3>1. ~IsLoud(Now) BY <1>3 DEF NextNotch, At, IsLoud, Ends
      <3> QED BY <1>1, <1>3, <2>4, <3>1, PopLoud DEF Quiet, NextNotch
    <2> QED BY <2>2, <2>3, <2>4
  <1>4. CASE NotchEnds
    <2>1. /\ At("let go") /\ Now.at = "let go" /\ ReleaseEdge(Now.dev, Now.in, Tail(todo))
      BY <1>4 DEF NotchEnds, At
    <2>2. Now.dev \in Devices /\ Now.in \in AllInputs \cup {NoCode} BY <2>1, LetGoRest
    <2>3. ReleaseLeaves(Now.dev, Now.in, "release", Tail(todo))
      <3>1. CASE Holds(Now.dev, Now.in)
        <4>1. Released(Now.dev, Now.in, "release", Tail(todo)) BY <2>1, <3>1 DEF ReleaseEdge
        <4> QED BY <1>2, <4>1, ReleaseTodo
      <3>2. CASE ~Holds(Now.dev, Now.in) BY <2>1, <3>2 DEF ReleaseEdge, ReleaseLeaves
      <3> QED BY <3>1, <3>2
    <2>4. Loud(todo') = Loud(Tail(todo)) BY <1>2, <2>2, <2>3, ReleaseLoud
    <2>5. ~IsLoud(Now) BY <2>1 DEF IsLoud, Ends
    <2>6. Loud(todo) = Loud(Tail(todo)) BY <1>2, <2>5, LoudPop DEF Now
    <2> QED BY <1>4, <2>4, <2>6 DEF Quiet, NotchEnds
  <1> QED BY <1>3, <1>4

LEMMA DrainQuiet ==
  ASSUME HeldSets, TodoOK, Drain PROVE Quiet
  <1>1. At("drain") /\ ~AtLoop /\ Now.at = "drain" BY DEF Drain, At
  <1>2. Now.dev \in Devices /\ todo # <<>> /\ todo \in Seq(Ops) BY <1>1, DrainRest
  <1>3. ASSUME NEW i \in DOMAIN held[Now.dev], Released(Now.dev, i, "drain", todo)
        PROVE  Loud(todo') = Loud(todo)
    <2>1. ReleaseLeaves(Now.dev, i, "drain", todo) BY <1>2, <1>3, ReleaseTodo
    <2>2. i \in AllInputs \cup {NoCode} BY <1>2, <1>3 DEF HeldSets, AllInputs
    <2> QED BY <1>2, <2>1, <2>2, ReleaseLoud
  <1>4. CASE todo' = Does(<<>>)
    <2>1. ~IsLoud(Now) BY <1>1 DEF IsLoud, Ends
    <2> QED BY <1>1, <1>4, <2>1, PopLoud DEF Quiet, Drain
  <1> QED BY <1>3, <1>4 DEF Quiet, Drain

LEMMA PopQuiet ==
  ASSUME TodoOK, OutReturns \/ PressReturns \/ ReleaseModifiers \/ Forget PROVE Quiet
  <1>1. ~AtLoop /\ todo' = Does(<<>>) /\ UNCHANGED <<plugged, claimed, rules>>
    BY DEF OutReturns, PressReturns, ReleaseModifiers, Forget, At
  <1>2. ~IsLoud(Now)
    BY DEF OutReturns, PressReturns, ReleaseModifiers, Forget, At, IsLoud, Ends
  <1> QED BY <1>1, <1>2, PopLoud DEF Quiet

LEMMA TurnQuiet ==
  ASSUME TodoOK, NEW d \in Devices, NEW i, NEW n, Turn(d, i, n) PROVE Quiet
  <1> DEFINE o == Op("notch", d, i)
  <1>1. AtLoop /\ todo' = <<o>> /\ i \in AllInputs /\ UNCHANGED <<plugged, claimed, rules>>
    BY DEF Turn, AllInputs
  <1>2. o \in Ops BY <1>1, OpsThereAre DEF Steps
  <1>3. ~IsLoud(o) BY DEF IsLoud, Ends, Op
  <1> HIDE DEF o
  <1>4. <<>> \in Seq(Ops) /\ <<o>> \o <<>> = <<o>> OBVIOUS
  <1>5. Loud(<<o>>) = Loud(<<>>) BY <1>2, <1>3, <1>4, LoudPush
  <1> QED BY <1>1, <1>5 DEF Quiet, AtLoop

LEMMA PlugClaims ==
  ASSUME ClaimsOK, NEW d \in Devices, Plug(d) PROVE ClaimsOK'
  <1>1. Loud(todo) = {} /\ Loud(todo)' = {} BY LoopIsCalm DEF Plug
  <1>2. ClaimSets' BY DEF ClaimsOK, ClaimSets, Plug
  <1>3. \A c \in plugged : Claims(rules, c) <=> c \in claimed BY <1>1 DEF ClaimsOK, ClaimsInv
  <1>4. UNCHANGED rules /\ plugged' = plugged \cup {d} /\ d \notin plugged
        /\ claimed' = IF Claims(rules, d) THEN claimed \cup {d} ELSE claimed
    BY DEF Plug
  <1>5. \A c : Claims(rules, c)' <=> Claims(rules, c)
    <2> SUFFICES ASSUME NEW c PROVE Claims(rules, c)' <=> Claims(rules, c) OBVIOUS
    <2> QED BY <1>4
  <1>6. d \notin claimed BY <1>4 DEF ClaimsOK, ClaimSets
  <1>7. \A c \in plugged' : Claims(rules, c) <=> c \in claimed' BY <1>3, <1>4, <1>6
  <1> QED BY <1>1, <1>2, <1>4, <1>7 DEF ClaimsOK, ClaimsInv

LEMMA UnplugClaims ==
  ASSUME TodoOK, ClaimsOK, NEW d \in Devices, Unplug(d) PROVE ClaimsOK'
  <1>1. UNCHANGED <<plugged, claimed, rules>> BY DEF Unplug
  <1>2. \A c \in plugged : Claims(rules, c) <=> c \in claimed
    BY LoopIsCalm DEF ClaimsOK, ClaimsInv, Unplug
  <1>3. ASSUME NEW o \in Loud(todo') PROVE o.at \notin {"reevaluate", "unclaim"}
    <2> DEFINE g == Op("gone", d, NoCode)
               n == Op("drain", d, NoCode)
    <2>1. todo' = <<n>> \o <<g>> \/ todo' = <<>> \o <<g>> BY DEF Unplug
    <2>2. g.at = "gone" /\ n.at = "drain" BY DEF Op
    <2> HIDE DEF g, n
    <2>3. todo' = <<n, g>> \/ todo' = <<g>> BY <2>1
    <2>4. \A k \in 1..Len(todo') : todo'[k] = n \/ todo'[k] = g BY <2>3
    <2>5. PICK k \in 1..Len(todo') : o = todo'[k] BY <1>3 DEF Loud
    <2> QED BY <2>2, <2>4, <2>5
  <1> QED BY <1>1, <1>2, <1>3 DEF ClaimsOK, ClaimSets, ClaimsInv

LEMMA UnclaimClaims ==
  ASSUME TodoOK, ClaimsOK, Unclaim PROVE ClaimsOK'
  <1>1. ~AtLoop /\ todo' = Does(<<>>) /\ Now.at = "unclaim" /\ IsLoud(Now) /\ Ends(Now)
    BY DEF Unclaim, At, IsLoud, Ends
  <1>2. Loud(todo) = Loud(todo') \cup {Now} BY <1>1, PopLoud
  <1>3. ~Claims(rules, Now.dev) BY <1>1, <1>2 DEF ClaimsOK, ClaimsInv
  <1>4. claimed' = claimed \ {Now.dev} /\ UNCHANGED <<plugged, rules>> BY DEF Unclaim
  <1>5. ASSUME NEW c \in plugged
        PROVE  (Claims(rules, c) <=> c \in claimed') \/ \E o \in Loud(todo') : Covers(o, c)
    <2>1. CASE c = Now.dev BY <1>3, <1>4, <2>1
    <2>2. CASE c # Now.dev
      <3>1. ~Covers(Now, c) BY <1>1, <2>2 DEF Covers
      <3> QED BY <1>2, <1>4, <2>2, <3>1 DEF ClaimsOK, ClaimsInv
    <2> QED BY <2>1, <2>2
  <1> QED BY <1>2, <1>4, <1>5 DEF ClaimsOK, ClaimSets, ClaimsInv

LEMMA GoneClaims ==
  ASSUME TodoOK, ClaimsOK, Gone PROVE ClaimsOK'
  <1>1. ~AtLoop /\ todo' = Does(<<>>) /\ Now.at = "gone" /\ IsLoud(Now) /\ Ends(Now)
    BY DEF Gone, At, IsLoud, Ends
  <1>2. Tail(todo) = <<>> /\ todo' = Tail(todo) BY <1>1, Top, PopGood DEF Rests
  <1>3. Loud(todo') = {} BY <1>2, CalmEmpty, LoudCalm
  <1>4. Loud(todo) = {Now} BY <1>1, <1>3, PopLoud
  <1>5. /\ claimed' = claimed \ {Now.dev} /\ plugged' = plugged \ {Now.dev}
        /\ UNCHANGED rules
    BY DEF Gone
  <1>6. \A c : Covers(Now, c) => c = Now.dev BY <1>1 DEF Covers
  <1>7. \A c \in plugged' : Claims(rules, c) <=> c \in claimed'
    BY <1>4, <1>5, <1>6 DEF ClaimsOK, ClaimsInv
  <1> QED BY <1>3, <1>5, <1>7 DEF ClaimsOK, ClaimSets, ClaimsInv

LEMMA ChangeClaims ==
  ASSUME "drain" \notin CommandsFrom, TodoOK, ClaimsOK, NEW e, Change(e) PROVE ClaimsOK'
  <1> DEFINE o == Reevaluate(plugged)
  <1>1. Calm(todo) /\ todo \in Seq(Ops) BY ChangeRest DEF Change
  <1>2. o \in Ops BY OpsThereAre DEF ClaimsOK, ClaimSets
  <1>3. todo' = <<o>> \o todo /\ UNCHANGED <<plugged, claimed>> BY DEF Change
  <1>4. o.at = "reevaluate" /\ o.devices = plugged /\ IsLoud(o) BY DEF Reevaluate, IsLoud
  <1> HIDE DEF o
  <1>5. Loud(todo) = {} BY <1>1, LoudCalm
  <1>6. Loud(<<o>> \o todo) = {o} BY <1>1, <1>2, <1>4, <1>5, LoudPush
  <1>7. Loud(todo)' = {o} BY <1>3, <1>6
  <1>8. \A c \in plugged : Covers(o, c) BY <1>4 DEF Covers
  <1> QED BY <1>3, <1>4, <1>7, <1>8 DEF ClaimsOK, ClaimSets, ClaimsInv

LEMMA ReevaluateClaims ==
  ASSUME TodoOK, ClaimsOK, ReevaluateNext PROVE ClaimsOK'
  <1>1. /\ Calm(Tail(todo)) /\ Tail(todo) \in Seq(Ops) /\ Now.devices \in SUBSET Devices
        /\ Now.at = "reevaluate" /\ ~AtLoop /\ todo # <<>> /\ todo \in Seq(Ops)
    BY ReevaluateTodo
  <1>2. IsLoud(Now) /\ ~Ends(Now) BY <1>1 DEF IsLoud, Ends
  <1>3. Loud(Tail(todo)) = {} BY <1>1, LoudCalm
  <1>4. Loud(todo) = {Now} BY <1>1, <1>2, <1>3, LoudPop DEF Now
  <1>5. /\ Now.devices \subseteq plugged
        /\ \A c \in plugged : (Claims(rules, c) <=> c \in claimed) \/ c \in Now.devices
    BY <1>1, <1>2, <1>4 DEF ClaimsOK, ClaimsInv, Covers
  <1>6. UNCHANGED <<plugged, rules>> BY DEF ReevaluateNext
  <1>7. \A c : Claims(rules, c) \in BOOLEAN BY DEF Claims
  <1>11. ASSUME NEW o \in Ops, IsLoud(o) PROVE Loud(<<o>> \o Tail(todo)) = {o}
    <2> DEFINE t == Tail(todo)
    <2>1. t \in Seq(Ops) /\ Loud(t) = {} BY <1>1, <1>3
    <2> HIDE DEF t
    <2>2. Loud(<<o>> \o t) = {o} BY <1>11, <2>1, LoudPush
    <2> QED BY <2>2 DEF t
  <1>12. ASSUME NEW a, NEW b, NEW c
         PROVE  <<a, b, c>> \o Tail(todo) = <<a>> \o (<<b>> \o (<<c>> \o Tail(todo)))
    <2> DEFINE t == Tail(todo)
    <2>1. t \in Seq(Ops) BY <1>1
    <2> HIDE DEF t
    <2>2. <<a, b, c>> \o t = <<a>> \o (<<b>> \o (<<c>> \o t)) BY <2>1, ThreePushed, SMTT(40)
    <2> QED BY <2>2 DEF t
  <1> DEFINE Wrong == {c \in Now.devices : Claims(rules, c) # (c \in claimed)}
  <1>8. CASE Wrong = {} /\ todo' = Does(<<>>) /\ UNCHANGED claimed
    <2>1. todo' = Tail(todo) BY <1>1, <1>8, PopGood
    <2>2. Loud(todo)' = {} BY <1>3, <2>1
    <2>3. \A c \in plugged : Claims(rules, c) <=> c \in claimed BY <1>5, <1>7, <1>8
    <2> QED BY <1>6, <1>8, <2>2, <2>3 DEF ClaimsOK, ClaimSets, ClaimsInv
  <1>9. ASSUME NEW d \in Wrong, d \notin claimed, claimed' = claimed \cup {d},
               todo' = Does(<<Reevaluate(Now.devices \ {d})>>)
        PROVE  ClaimsOK'
    <2> DEFINE r == Reevaluate(Now.devices \ {d})
    <2>1. r \in Ops BY <1>1, OpsThereAre
    <2>2. r.at = "reevaluate" /\ r.devices = Now.devices \ {d} /\ IsLoud(r)
      BY DEF Reevaluate, IsLoud
    <2>3. todo' = <<r>> \o Tail(todo) BY <1>9 DEF Does
    <2> HIDE DEF r
    <2>4. Loud(<<r>> \o Tail(todo)) = {r} BY <1>11, <2>1, <2>2
    <2>5. Loud(todo)' = {r} BY <2>3, <2>4
    <2>6. Claims(rules, d) /\ d \in plugged BY <1>5, <1>7, <1>9
    <2>7. \A c \in plugged : (Claims(rules, c) <=> c \in claimed') \/ Covers(r, c)
      BY <1>5, <1>9, <2>2, <2>6 DEF Covers
    <2> QED BY <1>5, <1>6, <1>9, <2>2, <2>5, <2>6, <2>7 DEF ClaimsOK, ClaimSets, ClaimsInv
  <1>10. ASSUME NEW d \in Wrong, d \in claimed, UNCHANGED claimed,
                todo' = Does(<<Op("drain", d, NoCode), Op("unclaim", d, NoCode),
                               Reevaluate(Now.devices \ {d})>>)
         PROVE  ClaimsOK'
    <2> DEFINE r == Reevaluate(Now.devices \ {d})
               u == Op("unclaim", d, NoCode)
               n == Op("drain", d, NoCode)
               t1 == <<r>> \o Tail(todo)
               t2 == <<u>> \o t1
    <2>1. r \in Ops /\ u \in Ops /\ n \in Ops BY <1>1, OpsThereAre DEF Steps
    <2>2. /\ r.at = "reevaluate" /\ r.devices = Now.devices \ {d} /\ IsLoud(r) /\ ~Ends(r)
          /\ u.at = "unclaim" /\ u.dev = d /\ IsLoud(u) /\ Ends(u) /\ ~IsLoud(n)
      BY DEF Reevaluate, Op, IsLoud, Ends
    <2>3. todo' = <<n, u, r>> \o Tail(todo) BY <1>10 DEF Does
    <2> HIDE DEF r, u, n
    <2>4. <<n, u, r>> \o Tail(todo) = <<n>> \o t2 BY <1>12
    <2>5. t1 \in Seq(Ops) /\ Loud(t1) = {r}
      <3>1. t1 \in Seq(Ops) BY <1>1, <2>1, Pushed
      <3>2. Loud(t1) = {r} BY <1>11, <2>1, <2>2
      <3> QED BY <3>1, <3>2
    <2> HIDE DEF t1
    <2>6. t2 \in Seq(Ops) /\ Loud(t2) = {r, u}
      <3>1. t2 \in Seq(Ops) BY <2>1, <2>5, Pushed
      <3>2. Loud(t2) = Loud(t1) \cup (IF IsLoud(u) THEN {u} ELSE {}) BY <2>1, <2>5, LoudPush
      <3> QED BY <2>2, <2>5, <3>1, <3>2
    <2> HIDE DEF t2
    <2>7. Loud(<<n>> \o t2) = Loud(t2) BY <2>1, <2>2, <2>6, LoudPush
    <2>8. Loud(todo)' = {r, u} BY <2>3, <2>4, <2>6, <2>7
    <2>9. ~Claims(rules, d) BY <1>7, <1>10
    <2>10. Covers(u, d) /\ \A c \in Now.devices \ {d} : Covers(r, c) BY <2>2 DEF Covers
    <2>11. \A c \in plugged :
             (Claims(rules, c) <=> c \in claimed) \/ \E o \in {r, u} : Covers(o, c)
      BY <1>5, <2>10
    <2> QED BY <1>5, <1>6, <1>10, <2>2, <2>8, <2>9, <2>11 DEF ClaimsOK, ClaimSets, ClaimsInv
  <1> QED BY <1>8, <1>9, <1>10 DEF ReevaluateNext

LEMMA ClaimsNext ==
  ASSUME "drain" \notin CommandsFrom, Sets, TodoOK, ClaimsOK, [Next]_vars
  PROVE  ClaimsOK'
  <1>1. ASSUME NEW d \in Devices, Plug(d) PROVE ClaimsOK' BY <1>1, PlugClaims
  <1>2. ASSUME NEW d \in Devices, Unplug(d) PROVE ClaimsOK' BY <1>2, UnplugClaims
  <1>3. ASSUME NEW d \in Devices, NEW i \in Physical(d), Press(d, i) \/ Release(d, i)
        PROVE  ClaimsOK'
    BY <1>3, PressQuiet, QuietKeeps
  <1>4. ASSUME NEW d \in Devices, NEW i, NEW n, Turn(d, i, n) PROVE ClaimsOK'
    BY <1>4, TurnQuiet, QuietKeeps
  <1>5. CASE NextNotch \/ NotchEnds BY <1>5, WheelQuiet, QuietKeeps
  <1>6. CASE OutReturns \/ PressReturns \/ ReleaseModifiers \/ Forget
    BY <1>6, PopQuiet, QuietKeeps
  <1>7. CASE Drain BY <1>7, SetsParts, DrainQuiet, QuietKeeps
  <1>8. CASE Unclaim BY <1>8, UnclaimClaims
  <1>9. CASE Gone BY <1>9, GoneClaims
  <1>10. CASE ReevaluateNext BY <1>10, ReevaluateClaims
  <1>11. CASE Changes BY <1>11, ChangesRules, ChangeClaims
  <1>12. CASE Lock \/ Unlock \/ UNCHANGED vars
    <2>1. Quiet BY <1>12 DEF Lock, Unlock, vars, Quiet
    <2> QED BY <2>1, QuietKeeps
  <1> QED BY <1>1, <1>2, <1>3, <1>4, <1>5, <1>6, <1>7, <1>8, <1>9, <1>10, <1>11, <1>12
          DEF Next, Changes

\* Inductive as long as no command runs while a device is drained.
ClaimsInductive == Sets /\ TodoOK /\ ClaimsInv

LEMMA ClaimsStep ==
  ASSUME "drain" \notin CommandsFrom, ClaimsInductive, [Next]_vars
  PROVE  ClaimsInductive'
  <1>1. Sets /\ TodoOK /\ ClaimsOK BY SetsParts DEF ClaimsInductive, ClaimsOK
  <1>2. TodoOK' BY <1>1, TodoNext
  <1>3. ClaimsOK' BY <1>1, ClaimsNext
  <1>4. DownSets' BY <1>1, SetsParts, DownNext
  <1>5. HeldSets' BY <1>1, SetsParts, HeldSetsNext
  <1> QED BY <1>2, <1>3, <1>4, <1>5
          DEF ClaimsInductive, ClaimsOK, Sets, ClaimSets, DownSets, HeldSets

LEMMA ClaimsInit == Init => ClaimsInductive
  <1> SUFFICES ASSUME Init PROVE ClaimsInductive OBVIOUS
  <1>1. todo = <<>> /\ plugged = {} /\ claimed = {} BY DEF Init
  <1>2. TodoOK BY <1>1, TodoEmpty DEF TodoOK
  <1>3. Loud(todo) = {} BY <1>1, LoopIsCalm DEF AtLoop
  <1>4. Sets BY DEF Init, Sets
  <1> QED BY <1>1, <1>2, <1>3, <1>4 DEF ClaimsInductive, ClaimsInv

\* Between events the claimed devices are exactly the ones the rules in force match,
\* whatever commands ran inside a press or a release and however deep: what
\* try_claim(), reevaluate_device() and on_remap_device_destroy() leave.
THEOREM ClaimsFollowRules ==
  "drain" \notin CommandsFrom => (Spec => []ClaimsAgree)
  <1> SUFFICES ASSUME "drain" \notin CommandsFrom PROVE Spec => []ClaimsAgree
    OBVIOUS
  <1>1. Init => ClaimsInductive BY ClaimsInit
  <1>2. ClaimsInductive /\ [Next]_vars => ClaimsInductive' BY ClaimsStep
  <1>3. ClaimsInductive => ClaimsAgree
    <2> SUFFICES ASSUME ClaimsInductive, AtLoop PROVE claimed = {d \in plugged : Claims(rules, d)}
      BY DEF ClaimsAgree
    <2>1. Loud(todo) = {} BY LoopIsCalm
    <2> QED BY <2>1 DEF ClaimsInductive, ClaimsInv, Sets
  <1> QED BY <1>1, <1>2, <1>3, PTL DEF Spec

-----------------------------------------------------------------------------
(* What is held and fed, where no command takes away the device in hand.   *)

LEMMA ElemsPush ==
  ASSUME NEW S, NEW t \in Seq(S), NEW o \in S
  PROVE  Elems(<<o>> \o t) = {o} \cup Elems(t)
  <1> DEFINE u == <<o>> \o t
  <1>1. /\ Len(u) = Len(t) + 1 /\ u[1] = o /\ 1 \in 1..(Len(t) + 1)
        /\ \A k \in 1..Len(t) : u[k + 1] = t[k] /\ k + 1 \in 1..(Len(t) + 1)
        /\ \A k \in 1..(Len(t) + 1) : k = 1 \/ (k - 1 \in 1..Len(t) /\ u[k] = t[k - 1])
    BY Pushed
  <1> HIDE DEF u
  <1>2. ASSUME NEW x \in Elems(u) PROVE x \in {o} \cup Elems(t)
    <2>1. PICK k \in 1..Len(u) : x = u[k] BY DEF Elems
    <2>2. CASE k = 1 BY <2>1, <2>2, <1>1
    <2>3. CASE k # 1 BY <2>1, <2>3, <1>1 DEF Elems
    <2> QED BY <2>2, <2>3
  <1>3. ASSUME NEW x \in Elems(t) PROVE x \in Elems(u)
    <2>1. PICK k \in 1..Len(t) : x = t[k] BY DEF Elems
    <2> QED BY <2>1, <1>1 DEF Elems
  <1>4. o \in Elems(u) BY <1>1 DEF Elems
  <1> QED BY <1>2, <1>3, <1>4 DEF u

LEMMA ElemsPop ==
  ASSUME NEW S, NEW t \in Seq(S), t # <<>>
  PROVE  Elems(t) = {Head(t)} \cup Elems(Tail(t))
  <1>1. Head(t) \in S /\ Tail(t) \in Seq(S) BY Popped
  <1>2. <<Head(t)>> \o Tail(t) = t OBVIOUS
  <1> QED BY <1>1, <1>2, ElemsPush

LEMMA ElemsEmpty == Elems(<<>>) = {}
  BY DEF Elems

LEMMA ElemsOps == ASSUME NEW t \in Seq(Ops) PROVE Elems(t) \subseteq Ops
  BY DEF Elems

LEMMA CalmElems ==
  ASSUME NEW t PROVE Calm(t) <=> \A x \in Elems(t) : ~IsLoud(x)
  BY DEF Calm, Elems, IsLoud

LEMMA ApartPush ==
  ASSUME NEW e, NEW t \in Seq(Ops), AllApart(t, e), NEW o \in Ops, Apart(o, t, e)
  PROVE  AllApart(<<o>> \o t, e)
  <1>1. /\ Len(<<o>> \o t) = Len(t) + 1 /\ (<<o>> \o t)[1] = o
        /\ \A k \in 1..Len(t) : (<<o>> \o t)[k + 1] = t[k]
        /\ \A k \in 1..(Len(t) + 1) : k = 1 \/ k - 1 \in 1..Len(t)
    BY Pushed
  <1>2. /\ After(<<o>> \o t, 1) = t
        /\ \A k \in 1..Len(t) : After(<<o>> \o t, k + 1) = After(t, k)
    BY AfterPushed
  <1>3. ASSUME NEW k \in 1..(Len(t) + 1)
        PROVE  Apart((<<o>> \o t)[k], After(<<o>> \o t, k), e)
    <2>1. CASE k = 1 BY <2>1, <1>1, <1>2
    <2>2. CASE k # 1
      <3>1. PICK j \in 1..Len(t) : k = j + 1 BY <1>1, <2>2
      <3>2. (<<o>> \o t)[k] = t[j] /\ After(<<o>> \o t, k) = After(t, j) BY <3>1, <1>1, <1>2
      <3> QED BY <3>2 DEF AllApart
    <2> QED BY <2>1, <2>2
  <1> QED BY <1>1, <1>3 DEF AllApart

LEMMA ApartPop ==
  ASSUME NEW e, NEW t \in Seq(Ops), AllApart(t, e), t # <<>>
  PROVE  AllApart(Tail(t), e) /\ Apart(Head(t), Tail(t), e)
  <1>1. /\ \A k \in 1..Len(Tail(t)) : Tail(t)[k] = t[k + 1] /\ k + 1 \in 1..Len(t)
        /\ Head(t) = t[1] /\ 1 \in 1..Len(t)
    BY Popped
  <1>2. /\ After(t, 1) = Tail(t)
        /\ \A k \in 1..Len(Tail(t)) : After(Tail(t), k) = After(t, k + 1)
    BY AfterPopped
  <1>3. ASSUME NEW k \in 1..Len(Tail(t)) PROVE Apart(Tail(t)[k], After(Tail(t), k), e)
    BY <1>1, <1>2 DEF AllApart
  <1>4. Apart(Head(t), Tail(t), e) BY <1>1, <1>2 DEF AllApart
  <1> QED BY <1>3, <1>4 DEF AllApart

LEMMA ApartEmpty == ASSUME NEW e PROVE AllApart(<<>>, e)
  BY DEF AllApart

\* The rules matter only to a re-evaluation.
LEMMA ApartCalm ==
  ASSUME NEW t \in Seq(Ops), Calm(t), NEW e, NEW f, AllApart(t, e)
  PROVE  AllApart(t, f)
  BY DEF AllApart, Apart, Calm

\* What a press leaves to do is of no release, and apart from what is beneath.
LEMMA PressAdds ==
  ASSUME NEW d \in Devices, NEW i \in AllInputs \cup {NoCode}, NEW rest \in Seq(Ops),
         PressLeaves(d, i, rest), NEW e, AllApart(rest, e)
  PROVE  /\ Elems(rest) \subseteq Elems(todo')
         /\ \A x \in Elems(todo') \ Elems(rest) : x.at \in {"out", "return"} /\ x.dev = d
         /\ AllApart(todo', e)
  <1> DEFINE b == Op("return", d, i)
             r == <<b>> \o rest
  <1>1. /\ b \in Ops /\ b.at = "return" /\ b.dev = d /\ \A t : Apart(b, t, e)
    <2>1. b \in Ops BY OpsThereAre DEF Steps
    <2> QED BY <2>1 DEF Op, Apart
  <1>2. \A key \in BOOLEAN : LET o == CallOut(d, "press", key, TRUE) IN
          o \in Ops /\ o.at = "out" /\ o.dev = d /\ \A t : Apart(o, t, e)
    <2>1. \A key \in BOOLEAN : CallOut(d, "press", key, TRUE) \in Ops BY OpsThereAre
    <2> QED BY <2>1 DEF CallOut, Apart
  <1>3. \/ todo' = rest
        \/ \E key \in BOOLEAN : \/ todo' = <<CallOut(d, "press", key, TRUE)>> \o rest
                                \/ todo' = <<CallOut(d, "press", key, TRUE)>> \o r
    BY DEF PressLeaves
  <1> HIDE DEF b
  <1>4. r \in Seq(Ops) /\ Elems(r) = {b} \cup Elems(rest) /\ AllApart(r, e)
    BY <1>1, Pushed, ElemsPush, ApartPush
  <1> HIDE DEF r
  <1>5. CASE todo' = rest BY <1>5
  <1>6. ASSUME NEW o \in Ops, o.at = "out", o.dev = d, \A t : Apart(o, t, e),
               NEW t \in {rest, r}, todo' = <<o>> \o t
        PROVE  /\ Elems(rest) \subseteq Elems(todo')
               /\ \A x \in Elems(todo') \ Elems(rest) : x.at \in {"out", "return"} /\ x.dev = d
               /\ AllApart(todo', e)
    <2>1. Elems(<<o>> \o t) = {o} \cup Elems(t) BY <1>4, ElemsPush
    <2>2. AllApart(<<o>> \o t, e) BY <1>4, <1>6, ApartPush
    <2> QED BY <1>1, <1>4, <1>6, <2>1, <2>2
  <1>7. CASE todo' # rest
    <2>1. PICK key \in BOOLEAN : \/ todo' = <<CallOut(d, "press", key, TRUE)>> \o rest
                                 \/ todo' = <<CallOut(d, "press", key, TRUE)>> \o r
      BY <1>3, <1>7
    <2> DEFINE o == CallOut(d, "press", key, TRUE)
    <2>2. o \in Ops /\ o.at = "out" /\ o.dev = d /\ \A t : Apart(o, t, e) BY <1>2
    <2>3. \E t \in {rest, r} : todo' = <<o>> \o t BY <2>1
    <2> HIDE DEF o
    <2> QED BY <2>2, <2>3, <1>6
  <1> QED BY <1>5, <1>7

\* What a press does, all told: it is held with what was fed for it.
PressDoes(d, i, rest) ==
  \/ Holds(d, i) /\ todo' = rest /\ UNCHANGED <<held, fed>>
  \/ /\ ~Holds(d, i) /\ Gains(d, i) /\ EntryOK(held'[d][i])
     /\ DOMAIN fed' = DOMAIN fed
     /\ \A c \in DOMAIN fed \ {NoCode} :
          fed'[c] = fed[c] + (IF c \in held'[d][i].mods THEN 1 ELSE 0)
                           + (IF c = held'[d][i].out THEN 1 ELSE 0)

FedCounts == DOMAIN fed = Codes /\ \A c \in Codes \ {NoCode} : fed[c] \in Nat

LEMMA FeedCounts ==
  ASSUME FedCounts, NEW ms, NEW o, Feed(ms, o)
  PROVE  /\ DOMAIN fed' = DOMAIN fed
         /\ \A c \in DOMAIN fed \ {NoCode} :
              fed'[c] = fed[c] + (IF c \in ms THEN 1 ELSE 0) + (IF c = o THEN 1 ELSE 0)
  BY DEF FedCounts, Feed, Plus

LEMMA ProducedOK ==
  ASSUME NEW d, NEW i PROVE EntryOK(Produced(d, i, Decided(d, i)))
  <1> DEFINE r == Decides(rules, d, i)
             e == Decided(d, i)
  <1>1. PICK kind, target : e = Entry(kind, target)
    BY DEF Decided
  <1> HIDE DEF e
  <1>2. /\ e.kind = kind /\ e.target = target /\ e.out = NoCode /\ e.mods = {}
        /\ e = [kind |-> kind, target |-> target, out |-> NoCode, mods |-> {}]
    BY <1>1 DEF Entry
  <1> DEFINE p == Produced(d, i, e)
  <1>3. CASE e.kind = "pass" /\ d \in Keyboards
    <2>1. p = [e EXCEPT !.out = i] BY <1>3 DEF Produced
    <2> QED BY <1>2, <1>3, <2>1 DEF EntryOK, e
  <1>4. CASE e.kind = "key" /\ e.target.code = NoCode
    <2>1. p = [e EXCEPT !.kind = "drop"] BY <1>4 DEF Produced
    <2> QED BY <1>2, <1>4, <2>1 DEF EntryOK, e
  <1>5. CASE e.kind = "key" /\ e.target.code # NoCode
    <2>1. p = [e EXCEPT !.out = e.target.code, !.mods = Needed(e.target.mods)]
      BY <1>5 DEF Produced
    <2>2. p.kind = "key" /\ p.out = e.target.code BY <1>2, <1>5, <2>1
    <2> QED BY <1>5, <2>2 DEF EntryOK, e
  <1>6. CASE e.kind = "button"
    <2>1. p = [e EXCEPT !.out = e.target.code] BY <1>6 DEF Produced
    <2> QED BY <1>2, <1>6, <2>1 DEF EntryOK, e
  <1>7. CASE e.kind \notin {"key", "button"} /\ ~(e.kind = "pass" /\ d \in Keyboards)
    <2>1. p = e BY <1>7 DEF Produced
    <2> QED BY <1>2, <2>1 DEF EntryOK, e
  <1> QED BY <1>3, <1>4, <1>5, <1>6, <1>7

LEMMA PressEffect ==
  ASSUME HeldSets, FedCounts, NEW d \in Devices, NEW i, NEW rest, PressEdge(d, i, rest)
  PROVE  PressDoes(d, i, rest)
  <1>0. DOMAIN held = Devices BY DEF HeldSets
  <1>1. CASE Holds(d, i) BY <1>1 DEF PressEdge, PressDoes
  <1>2. CASE ~Holds(d, i) /\ IsEscape(d, i)
    <2>1. i = Esc /\ Escaped(d, rest) BY <1>2 DEF PressEdge, IsEscape
    <2> DEFINE e == [Entry("key", NoTarget) EXCEPT !.out = Esc, !.mods = Needed({Super})]
    <2>2. e.kind = "key" /\ e.out = Esc /\ Esc # NoCode /\ e.mods = Needed({Super})
      BY RemapAssumption DEF Entry
    <2>3. Hold(d, i, e) /\ Feed(e.mods, e.out) BY <2>1, <2>2 DEF Escaped
    <2>4. EntryOK(e) BY <2>2 DEF EntryOK
    <2> HIDE DEF e
    <2>5. Gains(d, i) /\ held'[d][i] = e BY <1>0, <2>3, HoldGains
    <2> QED BY <1>2, <2>3, <2>4, <2>5, FeedCounts DEF PressDoes
  <1>3. CASE ~Holds(d, i) /\ ~IsEscape(d, i)
    <2> DEFINE e == Produced(d, i, Decided(d, i))
    <2>1. Hold(d, i, e) /\ (IF e.out # NoCode THEN Feed(e.mods, e.out) ELSE FeedNothing)
      BY <1>3 DEF PressEdge, Pressed
    <2>2. EntryOK(e) BY ProducedOK
    <2> HIDE DEF e
    <2>3. Gains(d, i) /\ held'[d][i] = e BY <1>0, <2>1, HoldGains
    <2>4. CASE e.out # NoCode BY <1>3, <2>1, <2>2, <2>3, <2>4, FeedCounts DEF PressDoes
    <2>5. CASE e.out = NoCode
      <3>1. fed' = fed /\ e.mods = {} BY <2>1, <2>2, <2>5 DEF FeedNothing, EntryOK
      <3> QED BY <1>3, <2>2, <2>3, <2>5, <3>1 DEF PressDoes, FedCounts
    <2> QED BY <2>4, <2>5
  <1> QED BY <1>1, <1>2, <1>3

\* What a release does, all told: its key is let go, and the rest is to be done.
ReleaseDoes(d, i, rest, e) ==
  LET f == Op("forget", d, i)
      m == Op("modifiers", d, i)
  IN /\ DOMAIN fed' = DOMAIN fed
     /\ \A c \in DOMAIN fed \ {NoCode} :
          fed'[c] = fed[c] - (IF c = held[d][i].out /\ fed[c] > 0 THEN 1 ELSE 0)
     /\ Elems(rest) \subseteq Elems(todo')
     /\ \A x \in Elems(todo') \ Elems(rest) : x \in {f, m} \/ (x.at = "out" /\ x.dev = d)
     /\ AllApart(todo', e)
     /\ \/ /\ held' = held /\ f \in Elems(todo')
           /\ held[d][i].kind = "key" => m \in Elems(todo')
        \/ held[d][i].out = NoCode /\ Loses(d, i) /\ todo' = rest

LEMMA LiftCounts ==
  ASSUME FedCounts, NEW ks, Lift(ks)
  PROVE  /\ DOMAIN fed' = DOMAIN fed
         /\ \A c \in DOMAIN fed \ {NoCode} :
              fed'[c] = fed[c] - (IF c \in ks /\ fed[c] > 0 THEN 1 ELSE 0)
  BY DEF FedCounts, Lift, Minus

LEMMA ReleasedLeaves ==
  ASSUME NEW d, NEW i, NEW of, NEW rest \in Seq(Ops), Released(d, i, of, rest)
  PROVE  LET f == Op("forget", d, i)
             m == Op("modifiers", d, i)
             key == held[d][i].kind \in {"key", "pass"}
             o == CallOut(d, of, key, FALSE)
         IN \/ /\ held' = held
               /\ \/ held[d][i].kind = "key" /\ todo' = <<o>> \o (<<m>> \o (<<f>> \o rest))
                  \/ held[d][i].kind # "key" /\ todo' = <<o>> \o (<<f>> \o rest)
            \/ held[d][i].out = NoCode /\ held' = Without(d, i) /\ todo' = rest
  <1> DEFINE key == held[d][i].kind \in {"key", "pass"}
             o == CallOut(d, of, key, FALSE)
             f == Op("forget", d, i)
             m == Op("modifiers", d, i)
  <1>1. \/ /\ held' = held
           /\ \/ held[d][i].kind = "key" /\ todo' = (<<o>> \o (<<m>> \o <<f>>)) \o rest
              \/ held[d][i].kind # "key" /\ todo' = (<<o>> \o (<<>> \o <<f>>)) \o rest
        \/ held[d][i].out = NoCode /\ held' = Without(d, i) /\ todo' = <<>> \o rest
    BY DEF Released
  <1> HIDE DEF key, o, f, m
  <1>2. /\ (<<o>> \o (<<m>> \o <<f>>)) \o rest = <<o>> \o (<<m>> \o (<<f>> \o rest))
        /\ (<<o>> \o (<<>> \o <<f>>)) \o rest = <<o>> \o (<<f>> \o rest)
        /\ <<>> \o rest = rest
    <2>1. \A x, y, z : /\ (<<x>> \o (<<y>> \o <<z>>)) \o rest = <<x>> \o (<<y>> \o (<<z>> \o rest))
                       /\ (<<x>> \o (<<>> \o <<z>>)) \o rest = <<x>> \o (<<z>> \o rest)
      OBVIOUS
    <2> QED BY <2>1
  <1>3. \/ /\ held' = held
           /\ \/ held[d][i].kind = "key" /\ todo' = <<o>> \o (<<m>> \o (<<f>> \o rest))
              \/ held[d][i].kind # "key" /\ todo' = <<o>> \o (<<f>> \o rest)
        \/ held[d][i].out = NoCode /\ held' = Without(d, i) /\ todo' = rest
    BY <1>1, <1>2
  <1> QED BY <1>3 DEF key, o, f, m

LEMMA ReleaseEffect ==
  ASSUME HeldSets, FedCounts, NEW d \in Devices, NEW i \in AllInputs \cup {NoCode},
         NEW of \in {"release", "drain"}, NEW rest \in Seq(Ops), NEW e, AllApart(rest, e),
         Op("forget", d, i) \notin Elems(rest), Op("modifiers", d, i) \notin Elems(rest),
         Released(d, i, of, rest)
  PROVE  ReleaseDoes(d, i, rest, e)
  <1> DEFINE key == held[d][i].kind \in {"key", "pass"}
             o == CallOut(d, of, key, FALSE)
             f == Op("forget", d, i)
             m == Op("modifiers", d, i)
             rf == <<f>> \o rest
             rm == <<m>> \o rf
  <1>1. /\ DOMAIN fed' = DOMAIN fed
        /\ \A c \in DOMAIN fed \ {NoCode} :
             fed'[c] = fed[c] - (IF c = held[d][i].out /\ fed[c] > 0 THEN 1 ELSE 0)
    <2>1. CASE held[d][i].out # NoCode
      <3>1. Lift({held[d][i].out}) BY <2>1 DEF Released
      <3> QED BY <3>1, LiftCounts
    <2>2. CASE held[d][i].out = NoCode
      <3>1. fed' = fed BY <2>2 DEF Released, FeedNothing
      <3> QED BY <2>2, <3>1 DEF FedCounts
    <2> QED BY <2>1, <2>2
  <1>2. \/ /\ held' = held
           /\ \/ held[d][i].kind = "key" /\ todo' = <<o>> \o rm
              \/ held[d][i].kind # "key" /\ todo' = <<o>> \o rf
        \/ held[d][i].out = NoCode /\ held' = Without(d, i) /\ todo' = rest
    BY ReleasedLeaves
  <1>3. f \in Ops /\ m \in Ops BY OpsThereAre DEF Steps
  <1>4. Apart(f, rest, e) /\ \A t : Apart(m, t, e) /\ f.at = "forget" /\ m.at = "modifiers"
    BY DEF Apart, Op
  <1>5. o \in Ops /\ o.at = "out" /\ o.dev = d /\ \A t : Apart(o, t, e)
    <2>1. key \in BOOLEAN OBVIOUS
    <2> HIDE DEF key
    <2>2. o \in Ops BY <2>1, OpsThereAre
    <2> QED BY <2>2 DEF CallOut, Apart
  <1> HIDE DEF f, m, o
  <1>6. rf \in Seq(Ops) /\ Elems(rf) = {f} \cup Elems(rest) /\ AllApart(rf, e)
    BY <1>3, <1>4, Pushed, ElemsPush, ApartPush
  <1> HIDE DEF rf
  <1>7. rm \in Seq(Ops) /\ Elems(rm) = {m, f} \cup Elems(rest) /\ AllApart(rm, e)
    <2>1. rm \in Seq(Ops) BY <1>3, <1>6, Pushed
    <2>2. Elems(rm) = {m} \cup Elems(rf) BY <1>3, <1>6, ElemsPush
    <2>3. AllApart(rm, e) BY <1>3, <1>4, <1>6, ApartPush
    <2> QED BY <1>6, <2>1, <2>2, <2>3
  <1> HIDE DEF rm
  <1>8. ASSUME NEW t \in {rf, rm}, todo' = <<o>> \o t
        PROVE  Elems(todo') = {o} \cup Elems(t) /\ AllApart(todo', e)
    <2>1. t \in Seq(Ops) /\ AllApart(t, e) BY <1>6, <1>7
    <2>2. Elems(<<o>> \o t) = {o} \cup Elems(t) BY <1>5, <2>1, ElemsPush
    <2>3. AllApart(<<o>> \o t, e) BY <1>5, <2>1, ApartPush
    <2> QED BY <1>8, <2>2, <2>3
  <1>9. /\ Elems(rest) \subseteq Elems(todo')
        /\ \A x \in Elems(todo') \ Elems(rest) : x \in {f, m} \/ (x.at = "out" /\ x.dev = d)
        /\ AllApart(todo', e)
        /\ \/ /\ held' = held /\ f \in Elems(todo')
              /\ held[d][i].kind = "key" => m \in Elems(todo')
           \/ held[d][i].out = NoCode /\ Loses(d, i) /\ todo' = rest
    <2>1. CASE held' = held /\ held[d][i].kind = "key" /\ todo' = <<o>> \o rm
      BY <1>5, <1>7, <1>8, <2>1
    <2>2. CASE held' = held /\ held[d][i].kind # "key" /\ todo' = <<o>> \o rf
      BY <1>5, <1>6, <1>8, <2>2
    <2>3. CASE held[d][i].out = NoCode /\ held' = Without(d, i) /\ todo' = rest
      BY <2>3, WithoutLoses DEF HeldSets
    <2> QED BY <1>2, <2>1, <2>2, <2>3
  <1> QED BY <1>1, <1>9 DEF ReleaseDoes, f, m

\* Counting what differs in one element.
One(b) == IF b THEN 1 ELSE 0

LEMMA OneDiffers ==
  ASSUME NEW K, NEW L, NEW x, IsFiniteSet(K), \A y : y # x => (y \in L <=> y \in K)
  PROVE  /\ IsFiniteSet(L) /\ Cardinality(K) \in Nat /\ Cardinality(L) \in Nat
         /\ Cardinality(L) = Cardinality(K) + One(x \in L) - One(x \in K)
  <1>0. Cardinality(K) \in Nat BY FS_CardinalityType
  <1>1. CASE x \in K /\ x \in L
    <2>1. L = K BY <1>1
    <2> QED BY <1>0, <1>1, <2>1 DEF One
  <1>2. CASE x \notin K /\ x \notin L
    <2>1. L = K BY <1>2
    <2> QED BY <1>0, <1>2, <2>1 DEF One
  <1>3. CASE x \notin K /\ x \in L
    <2>1. L = K \cup {x} BY <1>3
    <2>2. IsFiniteSet(L) /\ Cardinality(L) = Cardinality(K) + 1 BY <1>3, <2>1, FS_AddElement
    <2> QED BY <1>0, <1>3, <2>2 DEF One
  <1>4. CASE x \in K /\ x \notin L
    <2>1. L = K \ {x} BY <1>4
    <2>2. IsFiniteSet(L) /\ Cardinality(L) = Cardinality(K) - 1 BY <1>4, <2>1, FS_RemoveElement
    <2>3. Cardinality(L) \in Nat BY <2>2, FS_CardinalityType
    <2> QED BY <1>0, <1>4, <2>2, <2>3 DEF One
  <1> QED BY <1>1, <1>2, <1>3, <1>4

\* A step about one press: the others are held, and on their way out, as before.
Only(d, i) ==
  /\ DOMAIN held' = DOMAIN held
  /\ \A c \in Devices : \A j : <<c, j>> # <<d, i>> =>
       /\ j \in DOMAIN held'[c] <=> j \in DOMAIN held[c]
       /\ j \in DOMAIN held[c] => held'[c][j] = held[c][j]
       /\ Pending("forget", c, j)' <=> Pending("forget", c, j)
       /\ Pending("modifiers", c, j)' <=> Pending("modifiers", c, j)

LEMMA OwedParts ==
  ASSUME NEW c, NEW d, NEW i
  PROVE  /\ <<d, i>> \in KeyOwed(c) <=>
              /\ d \in Devices /\ i \in AllInputs /\ i \in DOMAIN held[d]
              /\ held[d][i].out = c /\ ~Pending("forget", d, i)
         /\ <<d, i>> \in ModOwed(c) <=>
              /\ d \in Devices /\ i \in AllInputs /\ i \in DOMAIN held[d]
              /\ c \in held[d][i].mods
              /\ Pending("forget", d, i) => Pending("modifiers", d, i)
  BY DEF KeyOwed, ModOwed, HeldInputs, Holds, AllInputs

LEMMA OwedPairs ==
  ASSUME NEW c, NEW y \in KeyOwed(c) \cup ModOwed(c)
  PROVE  y = <<y[1], y[2]>>
  BY DEF KeyOwed, ModOwed, HeldInputs

\* The books balance as before, where fed changed by what one press gained or lost.
LEMMA LedgerKept ==
  ASSUME Ledger, NEW d \in Devices, NEW i, Only(d, i), DOMAIN fed' = Codes,
         \A c \in Devices : \A j \in DOMAIN held'[c] : EntryOK(held'[c][j]),
         \A c \in Codes \ {NoCode} :
           fed'[c] = fed[c] + One((<<d, i>> \in KeyOwed(c))') - One(<<d, i>> \in KeyOwed(c))
                            + One((<<d, i>> \in ModOwed(c))') - One(<<d, i>> \in ModOwed(c))
  PROVE  Ledger'
  <1>1. ASSUME NEW c \in Codes \ {NoCode}
        PROVE  (/\ IsFiniteSet(KeyOwed(c)) /\ IsFiniteSet(ModOwed(c))
                /\ fed[c] = Cardinality(KeyOwed(c)) + Cardinality(ModOwed(c)))'
    <2>1. \A y : y # <<d, i>> => (y \in KeyOwed(c)' <=> y \in KeyOwed(c))
                              /\ (y \in ModOwed(c)' <=> y \in ModOwed(c))
      <3>1. ASSUME NEW a, NEW b, <<a, b>> # <<d, i>>
            PROVE  (<<a, b>> \in KeyOwed(c)' <=> <<a, b>> \in KeyOwed(c))
                   /\ (<<a, b>> \in ModOwed(c)' <=> <<a, b>> \in ModOwed(c))
        <4>1. (/\ <<a, b>> \in KeyOwed(c) <=>
                    /\ a \in Devices /\ b \in AllInputs /\ b \in DOMAIN held[a]
                    /\ held[a][b].out = c /\ ~Pending("forget", a, b)
               /\ <<a, b>> \in ModOwed(c) <=>
                    /\ a \in Devices /\ b \in AllInputs /\ b \in DOMAIN held[a]
                    /\ c \in held[a][b].mods
                    /\ Pending("forget", a, b) => Pending("modifiers", a, b))'
          BY DEF KeyOwed, ModOwed, HeldInputs, Holds, AllInputs
        <4> QED BY <3>1, <4>1, OwedParts DEF Only
      <3>2. ASSUME NEW y, y \in KeyOwed(c) \cup ModOwed(c) \/ (y \in KeyOwed(c) \cup ModOwed(c))'
            PROVE  y = <<y[1], y[2]>>
        <4>1. (\A z \in KeyOwed(c) \cup ModOwed(c) : z = <<z[1], z[2]>>)'
          BY DEF KeyOwed, ModOwed, HeldInputs
        <4> QED BY <3>2, <4>1, OwedPairs
      <3> QED BY <3>1, <3>2
    <2>2. IsFiniteSet(KeyOwed(c)) /\ IsFiniteSet(ModOwed(c))
          /\ fed[c] = Cardinality(KeyOwed(c)) + Cardinality(ModOwed(c))
      BY DEF Ledger
    <2> DEFINE K == KeyOwed(c)
               L == KeyOwed(c)'
               M == ModOwed(c)
               N == ModOwed(c)'
               x == <<d, i>>
    <2>3. fed'[c] = fed[c] + One(x \in L) - One(x \in K) + One(x \in N) - One(x \in M)
      OBVIOUS
    <2>4. (\A y : y # x => (y \in L <=> y \in K)) /\ (\A y : y # x => (y \in N <=> y \in M))
      BY <2>1
    <2>5. IsFiniteSet(K) /\ IsFiniteSet(M) /\ fed[c] = Cardinality(K) + Cardinality(M) BY <2>2
    <2> HIDE DEF K, L, M, N, x
    <2>6. /\ IsFiniteSet(L) /\ Cardinality(K) \in Nat /\ Cardinality(L) \in Nat
          /\ Cardinality(L) = Cardinality(K) + One(x \in L) - One(x \in K)
      BY <2>4, <2>5, OneDiffers
    <2>7. /\ IsFiniteSet(N) /\ Cardinality(M) \in Nat /\ Cardinality(N) \in Nat
          /\ Cardinality(N) = Cardinality(M) + One(x \in N) - One(x \in M)
      BY <2>4, <2>5, OneDiffers
    <2>8. fed'[c] = Cardinality(L) + Cardinality(N) BY <2>3, <2>5, <2>6, <2>7 DEF One
    <2> QED BY <2>6, <2>7, <2>8 DEF L, N
  <1> QED BY <1>1 DEF Ledger

LEMMA LedgerCounts == ASSUME Ledger PROVE FedCounts
  BY FS_CardinalityType DEF Ledger, FedCounts

\* No release began, got further or ended.
SameReleases ==
  \A place \in {"forget", "modifiers"}, d \in Devices : \A i :
    Pending(place, d, i)' <=> Pending(place, d, i)

LEMMA LedgerSame ==
  ASSUME Ledger, SameReleases, UNCHANGED <<held, fed>>
  PROVE  Ledger'
  <1>1. ASSUME NEW c PROVE KeyOwed(c)' = KeyOwed(c) /\ ModOwed(c)' = ModOwed(c)
    <2>1. HeldInputs' = HeldInputs BY DEF HeldInputs, Holds
    <2>2. ASSUME NEW y \in HeldInputs
          PROVE  /\ Pending("forget", y[1], y[2])' <=> Pending("forget", y[1], y[2])
                 /\ Pending("modifiers", y[1], y[2])' <=> Pending("modifiers", y[1], y[2])
      <3>1. y[1] \in Devices BY DEF HeldInputs
      <3> QED BY <3>1 DEF SameReleases
    <2>3. KeyOwed(c)' = KeyOwed(c)
      <3>1. (KeyOwed(c) = {y \in HeldInputs : held[y[1]][y[2]].out = c
                                               /\ ~Pending("forget", y[1], y[2])})'
        BY DEF KeyOwed
      <3> QED BY <2>1, <2>2, <3>1 DEF KeyOwed
    <2>4. ModOwed(c)' = ModOwed(c)
      <3>1. (ModOwed(c) = {y \in HeldInputs : /\ c \in held[y[1]][y[2]].mods
                                              /\ Pending("forget", y[1], y[2]) =>
                                                   Pending("modifiers", y[1], y[2])})'
        BY DEF ModOwed
      <3> QED BY <2>1, <2>2, <3>1 DEF ModOwed
    <2> QED BY <2>3, <2>4
  <1> QED BY <1>1 DEF Ledger

LEMMA LedgerPress ==
  ASSUME HeldSets, Ledger, HeldInv, NEW d \in Devices, NEW i \in Inputs[d], NEW rest,
         PressDoes(d, i, rest), SameReleases
  PROVE  Ledger'
  <1>1. CASE UNCHANGED <<held, fed>> BY <1>1, LedgerSame
  <1>2. CASE ~(UNCHANGED <<held, fed>>)
    <2>1. /\ i \notin DOMAIN held[d] /\ Gains(d, i) /\ EntryOK(held'[d][i])
          /\ DOMAIN fed' = DOMAIN fed
          /\ \A c \in DOMAIN fed \ {NoCode} :
               fed'[c] = fed[c] + (IF c \in held'[d][i].mods THEN 1 ELSE 0)
                                + (IF c = held'[d][i].out THEN 1 ELSE 0)
      BY <1>2 DEF PressDoes, Holds
    <2>2. Only(d, i) BY <2>1 DEF Only, Gains, SameReleases
    <2>3. DOMAIN fed' = Codes BY <2>1 DEF Ledger
    <2>4. \A c \in Devices : \A j \in DOMAIN held'[c] : EntryOK(held'[c][j])
      BY <2>1 DEF Ledger, Gains
    <2>5. ~Pending("forget", d, i)
      <3>1. Op("forget", d, i).at = "forget" /\ Op("forget", d, i).dev = d
            /\ Op("forget", d, i).in = i
        BY DEF Op
      <3> QED BY <2>1, <3>1 DEF Pending, HeldInv
    <2>6. ASSUME NEW c \in Codes \ {NoCode}
          PROVE  fed'[c] = fed[c] + One((<<d, i>> \in KeyOwed(c))') - One(<<d, i>> \in KeyOwed(c))
                                  + One((<<d, i>> \in ModOwed(c))') - One(<<d, i>> \in ModOwed(c))
      <3>1. <<d, i>> \notin KeyOwed(c) /\ <<d, i>> \notin ModOwed(c) BY <2>1, OwedParts
      <3>2. i \in AllInputs /\ i \in DOMAIN held'[d] BY <2>1 DEF AllInputs, Gains
      <3>3. ~Pending("forget", d, i)' BY <2>5 DEF SameReleases
      <3>4. (/\ <<d, i>> \in KeyOwed(c) <=>
                  /\ d \in Devices /\ i \in AllInputs /\ i \in DOMAIN held[d]
                  /\ held[d][i].out = c /\ ~Pending("forget", d, i)
             /\ <<d, i>> \in ModOwed(c) <=>
                  /\ d \in Devices /\ i \in AllInputs /\ i \in DOMAIN held[d]
                  /\ c \in held[d][i].mods
                  /\ Pending("forget", d, i) => Pending("modifiers", d, i))'
        BY DEF KeyOwed, ModOwed, HeldInputs, Holds, AllInputs
      <3>5. /\ (<<d, i>> \in KeyOwed(c))' <=> c = held'[d][i].out
            /\ (<<d, i>> \in ModOwed(c))' <=> c \in held'[d][i].mods
        BY <3>2, <3>3, <3>4
      <3>6. fed[c] \in Nat BY LedgerCounts DEF FedCounts
      <3>7. fed'[c] = fed[c] + (IF c \in held'[d][i].mods THEN 1 ELSE 0)
                             + (IF c = held'[d][i].out THEN 1 ELSE 0)
        BY <2>1 DEF Ledger
      <3> QED BY <3>1, <3>5, <3>6, <3>7 DEF One
    <2> QED BY <2>2, <2>3, <2>4, <2>6, LedgerKept
  <1> QED BY <1>1, <1>2

\* Where it is one release that goes on.
OneRelease(d, i) ==
  \A place \in {"forget", "modifiers"}, c \in Devices : \A j :
    <<c, j>> # <<d, i>> => (Pending(place, c, j)' <=> Pending(place, c, j))

\* What is owed has been fed.
LEMMA OwedIsFed ==
  ASSUME Ledger, NEW c \in Codes \ {NoCode}, NEW x \in KeyOwed(c) \cup ModOwed(c)
  PROVE  fed[c] \in Nat /\ fed[c] > 0
  <1>1. /\ IsFiniteSet(KeyOwed(c)) /\ IsFiniteSet(ModOwed(c))
        /\ fed[c] = Cardinality(KeyOwed(c)) + Cardinality(ModOwed(c))
    BY DEF Ledger
  <1>2. Cardinality(KeyOwed(c)) \in Nat /\ Cardinality(ModOwed(c)) \in Nat
    BY <1>1, FS_CardinalityType
  <1>3. Cardinality(KeyOwed(c)) # 0 \/ Cardinality(ModOwed(c)) # 0 BY <1>1, FS_EmptySet
  <1> QED BY <1>1, <1>2, <1>3

LEMMA LedgerRelease ==
  ASSUME HeldSets, Ledger, NEW d \in Devices, NEW i, Holds(d, i), NEW rest, NEW e,
         ReleaseDoes(d, i, rest, e), OneRelease(d, i),
         ~Pending("forget", d, i), ~Pending("modifiers", d, i)
  PROVE  Ledger'
  <1>1. i \in DOMAIN held[d] /\ i \in AllInputs /\ EntryOK(held[d][i])
    BY DEF Holds, HeldSets, AllInputs, Ledger
  <1>2. /\ DOMAIN fed' = DOMAIN fed
        /\ \A c \in DOMAIN fed \ {NoCode} :
             fed'[c] = fed[c] - (IF c = held[d][i].out /\ fed[c] > 0 THEN 1 ELSE 0)
        /\ \/ /\ held' = held /\ Pending("forget", d, i)'
              /\ held[d][i].kind = "key" => Pending("modifiers", d, i)'
           \/ held[d][i].out = NoCode /\ Loses(d, i)
    BY DEF ReleaseDoes, Pending
  <1>3. Only(d, i) BY <1>2 DEF Only, Loses, OneRelease
  <1>4. DOMAIN fed' = Codes BY <1>2 DEF Ledger
  <1>5. \A c \in Devices : \A j \in DOMAIN held'[c] : EntryOK(held'[c][j])
    BY <1>2 DEF Ledger, Loses
  <1>6. ASSUME NEW c \in Codes \ {NoCode}
        PROVE  fed'[c] = fed[c] + One((<<d, i>> \in KeyOwed(c))') - One(<<d, i>> \in KeyOwed(c))
                                + One((<<d, i>> \in ModOwed(c))') - One(<<d, i>> \in ModOwed(c))
    <2>1. /\ <<d, i>> \in KeyOwed(c) <=> c = held[d][i].out
          /\ <<d, i>> \in ModOwed(c) <=> c \in held[d][i].mods
      BY <1>1, OwedParts
    <2>2. (/\ <<d, i>> \in KeyOwed(c) <=>
                /\ d \in Devices /\ i \in AllInputs /\ i \in DOMAIN held[d]
                /\ held[d][i].out = c /\ ~Pending("forget", d, i)
           /\ <<d, i>> \in ModOwed(c) <=>
                /\ d \in Devices /\ i \in AllInputs /\ i \in DOMAIN held[d]
                /\ c \in held[d][i].mods
                /\ Pending("forget", d, i) => Pending("modifiers", d, i))'
      BY DEF KeyOwed, ModOwed, HeldInputs, Holds, AllInputs
    <2>3. ~(<<d, i>> \in KeyOwed(c))' BY <1>2, <2>2 DEF Loses
    <2>4. (<<d, i>> \in ModOwed(c))' <=> c \in held[d][i].mods
      <3>1. CASE held' = held /\ Pending("forget", d, i)'
                 /\ (held[d][i].kind = "key" => Pending("modifiers", d, i)')
        BY <1>1, <2>2, <3>1 DEF EntryOK
      <3>2. CASE held[d][i].out = NoCode /\ Loses(d, i)
        BY <1>1, <2>2, <3>2 DEF EntryOK, Loses
      <3> QED BY <1>2, <3>1, <3>2
    <2>5. fed[c] \in Nat BY LedgerCounts DEF FedCounts
    <2>6. c = held[d][i].out => fed[c] > 0 BY <2>1, OwedIsFed
    <2>7. fed'[c] = fed[c] - (IF c = held[d][i].out /\ fed[c] > 0 THEN 1 ELSE 0)
      BY <1>2 DEF Ledger
    <2> QED BY <2>1, <2>3, <2>4, <2>5, <2>6, <2>7 DEF One
  <1> QED BY <1>3, <1>4, <1>5, <1>6, LedgerKept

LEMMA LedgerModifiers ==
  ASSUME HeldSets, Ledger, NEW d \in Devices, NEW i, Holds(d, i), Lift(held[d][i].mods),
         held' = held, OneRelease(d, i), Pending("modifiers", d, i),
         Pending("forget", d, i), Pending("forget", d, i)', ~Pending("modifiers", d, i)'
  PROVE  Ledger'
  <1>1. i \in DOMAIN held[d] /\ i \in AllInputs BY DEF Holds, HeldSets, AllInputs
  <1>2. /\ DOMAIN fed' = DOMAIN fed
        /\ \A c \in DOMAIN fed \ {NoCode} :
             fed'[c] = fed[c] - (IF c \in held[d][i].mods /\ fed[c] > 0 THEN 1 ELSE 0)
    BY LedgerCounts, LiftCounts
  <1>3. Only(d, i) BY DEF Only, OneRelease
  <1>4. DOMAIN fed' = Codes BY <1>2 DEF Ledger
  <1>5. \A c \in Devices : \A j \in DOMAIN held'[c] : EntryOK(held'[c][j]) BY DEF Ledger
  <1>6. ASSUME NEW c \in Codes \ {NoCode}
        PROVE  fed'[c] = fed[c] + One((<<d, i>> \in KeyOwed(c))') - One(<<d, i>> \in KeyOwed(c))
                                + One((<<d, i>> \in ModOwed(c))') - One(<<d, i>> \in ModOwed(c))
    <2>1. /\ <<d, i>> \notin KeyOwed(c)
          /\ <<d, i>> \in ModOwed(c) <=> c \in held[d][i].mods
      BY <1>1, OwedParts
    <2>2. (/\ <<d, i>> \in KeyOwed(c) <=>
                /\ d \in Devices /\ i \in AllInputs /\ i \in DOMAIN held[d]
                /\ held[d][i].out = c /\ ~Pending("forget", d, i)
           /\ <<d, i>> \in ModOwed(c) <=>
                /\ d \in Devices /\ i \in AllInputs /\ i \in DOMAIN held[d]
                /\ c \in held[d][i].mods
                /\ Pending("forget", d, i) => Pending("modifiers", d, i))'
      BY DEF KeyOwed, ModOwed, HeldInputs, Holds, AllInputs
    <2>3. ~(<<d, i>> \in KeyOwed(c))' /\ ~(<<d, i>> \in ModOwed(c))' BY <2>2
    <2>4. fed[c] \in Nat BY LedgerCounts DEF FedCounts
    <2>5. c \in held[d][i].mods => fed[c] > 0 BY <2>1, OwedIsFed
    <2>6. fed'[c] = fed[c] - (IF c \in held[d][i].mods /\ fed[c] > 0 THEN 1 ELSE 0)
      BY <1>2 DEF Ledger
    <2> QED BY <2>1, <2>3, <2>4, <2>5, <2>6 DEF One
  <1> QED BY <1>3, <1>4, <1>5, <1>6, LedgerKept

LEMMA LedgerForget ==
  ASSUME HeldSets, Ledger, NEW d \in Devices, NEW i, Loses(d, i), fed' = fed,
         OneRelease(d, i), Pending("forget", d, i), ~Pending("modifiers", d, i)
  PROVE  Ledger'
  <1>1. Only(d, i) BY DEF Only, OneRelease, Loses
  <1>2. DOMAIN fed' = Codes BY DEF Ledger
  <1>3. \A c \in Devices : \A j \in DOMAIN held'[c] : EntryOK(held'[c][j])
    BY DEF Ledger, Loses
  <1>4. ASSUME NEW c \in Codes \ {NoCode}
        PROVE  fed'[c] = fed[c] + One((<<d, i>> \in KeyOwed(c))') - One(<<d, i>> \in KeyOwed(c))
                                + One((<<d, i>> \in ModOwed(c))') - One(<<d, i>> \in ModOwed(c))
    <2>1. <<d, i>> \notin KeyOwed(c) /\ <<d, i>> \notin ModOwed(c) BY OwedParts
    <2>2. ~(<<d, i>> \in KeyOwed(c))' /\ ~(<<d, i>> \in ModOwed(c))'
      <3>1. i \notin DOMAIN held'[d] BY DEF Loses
      <3> QED BY <3>1 DEF KeyOwed, ModOwed, HeldInputs, Holds
    <2>3. fed[c] \in Nat BY LedgerCounts DEF FedCounts
    <2> QED BY <2>1, <2>2, <2>3 DEF One
  <1> QED BY <1>1, <1>2, <1>3, <1>4, LedgerKept

-----------------------------------------------------------------------------
(* What each step does to the hand, to what is held and to the books.      *)

Books == HandInv /\ HeldInv /\ Ledger

LEMMA OpAgain ==
  ASSUME NEW x \in Ops, x.at \in Steps PROVE x = Op(x.at, x.dev, x.in)
  <1>1. x \in [at : Steps, dev : Devices, in : AllInputs \cup {NoCode}] BY DEF Ops, Steps
  <1> QED BY <1>1 DEF Op

\* Nothing calm is a device on its way out.
LEMMA CalmTop ==
  ASSUME TodoOK', Loud(todo') = {} PROVE ~(~AtLoop /\ Ends(Now))'
  <1> DEFINE t == todo'
  <1>1. t \in Seq(Ops) BY DEF TodoOK, TodoGood
  <1> HIDE DEF t
  <1>2. t # <<>> => Head(t) = t[1] /\ 1 \in 1..Len(t) BY <1>1
  <1>3. t # <<>> /\ Ends(Head(t)) => Head(t) \in Loud(t) BY <1>2 DEF Loud, IsLoud
  <1> QED BY <1>3 DEF t, AtLoop, Now, Ends

\* A press on a device in hand, by a finger or by a notch of a wheel.
LEMMA PressBooks ==
  ASSUME Sets, TodoOK, TodoOK', Books, NEW d \in claimed, NEW i \in Inputs[d],
         NEW rest, TodoGood(rest), Calm(rest), AllApart(rest, rules),
         Elems(todo) \subseteq Elems(rest),
         \A x \in Elems(rest) \ Elems(todo) : x = Op("let go", d, i),
         PressEdge(d, i, rest), UNCHANGED <<claimed, rules>>,
         i \in down'[d] \/ Op("let go", d, i) \in Elems(rest),
         \A c \in Devices : down[c] \subseteq down'[c]
  PROVE  Books'
  <1>1. /\ d \in Devices /\ HeldSets /\ HandInv /\ HeldInv /\ Ledger /\ rest \in Seq(Ops)
        /\ i \in AllInputs \cup {NoCode}
    BY DEF Sets, HeldSets, Books, TodoGood, AllInputs
  <1>2. PressLeaves(d, i, rest) BY <1>1, PressTodo
  <1>3. /\ Elems(rest) \subseteq Elems(todo')
        /\ \A x \in Elems(todo') \ Elems(rest) : x.at \in {"out", "return"} /\ x.dev = d
        /\ AllApart(todo', rules)
    BY <1>1, <1>2, PressAdds
  <1>4. PressDoes(d, i, rest) BY <1>1, LedgerCounts, PressEffect
  <1>5. HandInv'
    <2>1. ASSUME NEW x \in Elems(todo'), ~IsLoud(x) PROVE x.dev \in claimed
      <3>1. CASE x \in Elems(todo) BY <1>1, <2>1, <3>1 DEF HandInv
      <3>2. CASE x \in Elems(rest) \ Elems(todo)
        <4>1. x = Op("let go", d, i) BY <3>2
        <4>2. Op("let go", d, i).dev = d BY DEF Op
        <4> QED BY <4>1, <4>2
      <3>3. CASE x \notin Elems(rest) BY <1>3, <3>3
      <3> QED BY <3>1, <3>2, <3>3
    <2> QED BY <1>3, <2>1 DEF HandInv
  <1>6. SameReleases
    <2>1. ASSUME NEW place \in {"forget", "modifiers"}, NEW c \in Devices, NEW j
          PROVE  Op(place, c, j) \in Elems(todo') <=> Op(place, c, j) \in Elems(todo)
      <3>1. Op(place, c, j).at = place BY DEF Op
      <3>2. Op(place, c, j) # Op("let go", d, i) BY DEF Op
      <3> QED BY <1>3, <3>1, <3>2
    <2> QED BY <2>1 DEF SameReleases, Pending
  <1>7. Ledger' BY <1>1, <1>4, <1>6, LedgerPress
  <1>8. HeldInv'
    <2>1. \/ held' = held
          \/ Gains(d, i)
      BY <1>4 DEF PressDoes
    <2>2. ASSUME NEW c \in Devices, NEW j \in DOMAIN held'[c]
          PROVE  c \in claimed' /\ (j \in down[c] \/ Pending("forget", c, j) \/ Pending("let go", c, j))'
      <3>1. CASE j \in DOMAIN held[c] BY <1>1, <1>3, <3>1 DEF HeldInv, Pending
      <3>2. CASE j \notin DOMAIN held[c]
        <4>1. c = d /\ j = i BY <2>1, <3>2 DEF Gains
        <4> QED BY <1>3, <4>1 DEF Pending
      <3> QED BY <3>1, <3>2
    <2>3. ASSUME NEW x \in Elems(todo'), x.at = "forget" PROVE x.in \in DOMAIN held'[x.dev]
      <3>1. x \in Elems(todo)
        <4>1. Op("let go", d, i).at # "forget" BY DEF Op
        <4>2. x \in Elems(rest) BY <1>3, <2>3
        <4> QED BY <2>3, <4>1, <4>2
      <3>2. x.in \in DOMAIN held[x.dev] /\ x.dev \in Devices
        <4>1. x \in Ops BY <3>1, ElemsOps DEF TodoOK, TodoGood
        <4> QED BY <1>1, <2>3, <3>1, <4>1, OpParts DEF HeldInv
      <3> QED BY <2>1, <3>2 DEF Gains
    <2>4. Loud(todo') = {} BY <1>1, <1>2, PressLoud, LoudCalm
    <2>5. ~(~AtLoop /\ Ends(Now))' BY <2>4, CalmTop
    <2> QED BY <2>2, <2>3, <2>5 DEF HeldInv
  <1> QED BY <1>5, <1>7, <1>8 DEF Books

\* And a release: of a finger, at the end of a notch, or of what a device that is
\* drained still holds.
LEMMA ReleaseBooks ==
  ASSUME Sets, TodoOK, TodoOK', Books, NEW d \in claimed, NEW i \in AllInputs \cup {NoCode},
         NEW of \in {"release", "drain"},
         NEW rest, rest \in Seq(Ops), AllApart(rest, rules),
         Elems(rest) \subseteq Elems(todo),
         \A x \in Elems(todo) \ Elems(rest) : x.at = "let go" /\ x = Op("let go", d, i),
         ~Pending("forget", d, i), ~Pending("modifiers", d, i),
         \/ Holds(d, i) /\ Released(d, i, of, rest)
         \/ ~Holds(d, i) /\ todo' = rest /\ UNCHANGED <<held, fed>>,
         UNCHANGED <<claimed, rules>>,
         \A c \in Devices : \A j \in down[c] : j \in down'[c] \/ (c = d /\ j = i),
         rest = <<>> \/ ~Ends(rest[1])
  PROVE  Books'
  <1>1. d \in Devices /\ HeldSets /\ HandInv /\ HeldInv /\ Ledger
    BY DEF Sets, HeldSets, Books
  <1>2. Op("forget", d, i) \notin Elems(rest) /\ Op("modifiers", d, i) \notin Elems(rest)
    BY DEF Pending
  <1> DEFINE f == Op("forget", d, i)
             m == Op("modifiers", d, i)
  <1>3. \/ Holds(d, i) /\ ReleaseDoes(d, i, rest, rules)
        \/ ~Holds(d, i) /\ todo' = rest /\ UNCHANGED <<held, fed>>
    BY <1>1, <1>2, LedgerCounts, ReleaseEffect
  <1>4. /\ Elems(rest) \subseteq Elems(todo')
        /\ \A x \in Elems(todo') \ Elems(rest) : x \in {f, m} \/ (x.at = "out" /\ x.dev = d)
        /\ AllApart(todo', rules)
    BY <1>3 DEF ReleaseDoes
  <1>5. \/ held' = held /\ (Holds(d, i) => f \in Elems(todo'))
                        /\ (~Holds(d, i) => todo' = rest)
        \/ Loses(d, i) /\ todo' = rest
    BY <1>3 DEF ReleaseDoes
  <1>6. /\ f.at = "forget" /\ f.dev = d /\ f.in = i
        /\ m.at = "modifiers" /\ m.dev = d /\ m.in = i
    BY DEF Op
  <1>7. HandInv'
    <2>1. ASSUME NEW x \in Elems(todo'), ~IsLoud(x) PROVE x.dev \in claimed
      <3>1. CASE x \in Elems(rest) BY <1>1, <2>1, <3>1 DEF HandInv
      <3>2. CASE x \notin Elems(rest) BY <1>4, <1>6, <3>2
      <3> QED BY <3>1, <3>2
    <2> QED BY <1>4, <2>1 DEF HandInv
  <1>8. OneRelease(d, i)
    <2>1. ASSUME NEW place \in {"forget", "modifiers"}, NEW c \in Devices, NEW j,
                 <<c, j>> # <<d, i>>
          PROVE  Op(place, c, j) \in Elems(todo') <=> Op(place, c, j) \in Elems(todo)
      <3>1. Op(place, c, j).at = place /\ Op(place, c, j).dev = c /\ Op(place, c, j).in = j
        BY DEF Op
      <3>2. Op(place, c, j) \notin {f, m} BY <1>6, <2>1, <3>1
      <3> HIDE DEF f, m
      <3> QED BY <1>4, <3>1, <3>2
    <2> QED BY <2>1 DEF OneRelease, Pending
  <1>9. Ledger'
    <2>1. CASE Holds(d, i) BY <1>1, <1>3, <1>8, <2>1, LedgerRelease
    <2>2. CASE ~Holds(d, i)
      <3>1. SameReleases
        <4>1. ASSUME NEW place \in {"forget", "modifiers"}, NEW c \in Devices, NEW j
              PROVE  Op(place, c, j) \in Elems(todo') <=> Op(place, c, j) \in Elems(todo)
          <5>1. Op(place, c, j).at = place BY DEF Op
          <5> QED BY <1>3, <2>2, <5>1
        <4> QED BY <4>1 DEF SameReleases, Pending
      <3> QED BY <1>1, <1>3, <2>2, <3>1, LedgerSame
    <2> QED BY <2>1, <2>2
  <1>10. HeldInv'
    <2>1. ASSUME NEW c \in Devices, NEW j \in DOMAIN held'[c]
          PROVE  c \in claimed' /\ (j \in down[c] \/ Pending("forget", c, j) \/ Pending("let go", c, j))'
      <3>1. j \in DOMAIN held[c] BY <1>5 DEF Loses
      <3>2. c \in claimed /\ (j \in down[c] \/ Pending("forget", c, j) \/ Pending("let go", c, j))
        BY <1>1, <3>1 DEF HeldInv
      <3>3. CASE c = d /\ j = i
        <4>1. Holds(d, i) /\ ~Loses(d, i) BY <3>1, <3>3 DEF Holds, Loses
        <4> QED BY <1>5, <3>2, <3>3, <4>1 DEF Pending
      <3>4. CASE ~(c = d /\ j = i)
        <4>1. Op("forget", c, j).at = "forget" BY DEF Op
        <4>2. Op("let go", c, j) # Op("let go", d, i) BY <3>4 DEF Op
        <4> QED BY <1>4, <3>2, <3>4, <4>1, <4>2 DEF Pending
      <3> QED BY <3>3, <3>4
    <2>2. ASSUME NEW x \in Elems(todo'), x.at = "forget" PROVE x.in \in DOMAIN held'[x.dev]
      <3>1. CASE x \in Elems(rest)
        <4>1. x \in Ops BY <3>1, ElemsOps
        <4>2. x = Op("forget", x.dev, x.in) /\ x.dev \in Devices
          BY <2>2, <4>1, OpAgain, OpParts DEF Steps
        <4>3. ~(x.dev = d /\ x.in = i) BY <1>2, <3>1, <4>2
        <4>4. x.in \in DOMAIN held[x.dev] BY <1>1, <2>2, <3>1 DEF HeldInv
        <4> QED BY <1>5, <4>2, <4>3, <4>4 DEF Loses
      <3>2. CASE x \notin Elems(rest)
        <4>1. x = f BY <1>4, <1>6, <2>2, <3>2
        <4>2. held' = held /\ Holds(d, i) BY <1>5, <3>2
        <4> QED BY <1>6, <4>1, <4>2 DEF Holds
      <3> QED BY <3>1, <3>2
    <2>3. ~(~AtLoop /\ Ends(Now))'
      <3>1. CASE todo' = rest
        <4>1. rest # <<>> => Head(rest) = rest[1] BY Popped
        <4> QED BY <3>1, <4>1 DEF AtLoop, Now, Ends
      <3>2. CASE todo' # rest
        <4>1. Released(d, i, of, rest) BY <3>2
        <4>2. PICK key \in BOOLEAN, t \in Seq(Ops) : todo' = <<CallOut(d, of, key, FALSE)>> \o t
          <5>1. f \in Ops /\ m \in Ops
            BY <1>1, OpsThereAre DEF Steps
          <5>2. ReleaseLeaves(d, i, of, rest) BY <1>1, <4>1, ReleaseTodo
          <5>3. \E key \in BOOLEAN :
                  \/ todo' = <<CallOut(d, of, key, FALSE)>> \o (<<f>> \o rest)
                  \/ todo' = <<CallOut(d, of, key, FALSE)>> \o (<<m>> \o (<<f>> \o rest))
            BY <3>2, <5>2 DEF ReleaseLeaves
          <5> HIDE DEF f, m
          <5>4. <<f>> \o rest \in Seq(Ops) BY <5>1, Pushed
          <5>5. <<m>> \o (<<f>> \o rest) \in Seq(Ops) BY <5>1, <5>4, Pushed
          <5> QED BY <5>3, <5>4, <5>5
        <4>3. CallOut(d, of, key, FALSE).at = "out" BY DEF CallOut
        <4>4. Head(todo') = CallOut(d, of, key, FALSE)
          <5> DEFINE o == CallOut(d, of, key, FALSE)
          <5>1. o \in Ops BY <1>1, OpsThereAre
          <5> HIDE DEF o
          <5>2. Head(<<o>> \o t) = o BY <5>1, HeadPushed
          <5> QED BY <4>2, <5>2 DEF o
        <4> QED BY <4>3, <4>4 DEF AtLoop, Now, Ends
      <3> QED BY <3>1, <3>2
    <2> QED BY <2>1, <2>2, <2>3 DEF HeldInv
  <1> QED BY <1>7, <1>9, <1>10 DEF Books

\* What is left when the innermost thing is done.
LEMMA PopLeaves ==
  ASSUME TodoOK, Books, ~AtLoop, todo' = Does(<<>>)
  PROVE  /\ todo' = Tail(todo) /\ todo' \in Seq(Ops) /\ Now \in Ops
         /\ Elems(todo) = {Now} \cup Elems(todo')
         /\ AllApart(todo', rules) /\ Apart(Now, todo', rules)
         /\ (~AtLoop /\ Ends(Now))' => Now.at = "drain" /\ Now'.dev = Now.dev
  <1>1. /\ todo # <<>> /\ todo \in Seq(Ops) /\ todo' = Tail(todo) /\ Tail(todo) \in Seq(Ops)
        /\ Now \in Ops /\ Rests(Now, Tail(todo)) /\ Allows(Now, Tail(todo))
    BY Top, PopGood
  <1>2. Elems(todo) = {Now} \cup Elems(Tail(todo)) BY <1>1, ElemsPop DEF Now
  <1>3. AllApart(Tail(todo), rules) /\ Apart(Now, Tail(todo), rules)
    BY <1>1, ApartPop DEF Now, Books, HandInv
  <1> DEFINE t == Tail(todo)
  <1>4. t # <<>> => Head(t) = t[1] BY <1>1, Popped
  <1>5. t # <<>> /\ Ends(t[1]) => Now.at = "drain" BY <1>1 DEF Allows
  <1>6. Now.at = "drain" => t[1].dev = Now.dev BY <1>1 DEF Rests
  <1>7. t # <<>> /\ Ends(Head(t)) => Now.at = "drain" /\ Head(t).dev = Now.dev
    BY <1>4, <1>5, <1>6
  <1>8. todo' = t BY <1>1
  <1> HIDE DEF t
  <1>9. (~AtLoop /\ Ends(Now))' => Now.at = "drain" /\ Now'.dev = Now.dev
    BY <1>7, <1>8 DEF AtLoop, Now, Ends
  <1> QED BY <1>1, <1>2, <1>3, <1>9

\* Done with something that neither presses nor releases.
LEMMA PopBooks ==
  ASSUME Sets, TodoOK, Books, ~AtLoop, todo' = Does(<<>>),
         Now.at \notin {"forget", "modifiers", "let go", "drain"},
         UNCHANGED <<held, fed, down, claimed, rules>>
  PROVE  Books'
  <1>1. /\ Elems(todo) = {Now} \cup Elems(todo') /\ AllApart(todo', rules)
        /\ ~(~AtLoop /\ Ends(Now))'
    BY PopLeaves
  <1>2. HandInv' BY <1>1 DEF Books, HandInv
  <1>3. \A place \in {"forget", "modifiers", "let go"} : \A d, i :
          Pending(place, d, i)' <=> Pending(place, d, i)
    <2>1. ASSUME NEW place \in {"forget", "modifiers", "let go"}, NEW d, NEW i
          PROVE  Op(place, d, i) \in Elems(todo') <=> Op(place, d, i) \in Elems(todo)
      <3>1. Op(place, d, i).at = place BY DEF Op
      <3> QED BY <1>1, <3>1
    <2> QED BY <2>1 DEF Pending
  <1>4. Ledger'
    <2>1. SameReleases BY <1>3 DEF SameReleases
    <2> QED BY <2>1, LedgerSame DEF Books
  <1>5. HeldInv' BY <1>1, <1>3 DEF Books, HeldInv
  <1> QED BY <1>2, <1>4, <1>5 DEF Books

LEMMA ModifiersBooks ==
  ASSUME Sets, TodoOK, Books, ReleaseModifiers PROVE Books'
  <1>0. PICK d, i : d = Now.dev /\ i = Now.in OBVIOUS
  <1> DEFINE f == Op("forget", d, i)
             m == Op("modifiers", d, i)
  <1>1. ~AtLoop /\ Now.at = "modifiers" /\ todo' = Does(<<>>)
        /\ UNCHANGED <<held, down, claimed, rules>>
        /\ (IF Holds(d, i) THEN Lift(held[d][i].mods) ELSE FeedNothing)
    BY <1>0 DEF ReleaseModifiers, At
  <1>2. /\ todo' = Tail(todo) /\ todo' \in Seq(Ops) /\ Now \in Ops
        /\ Elems(todo) = {Now} \cup Elems(todo') /\ AllApart(todo', rules)
        /\ ~(~AtLoop /\ Ends(Now))'
    BY <1>1, PopLeaves
  <1>3. d \in Devices /\ Tail(todo) # <<>> /\ Tail(todo)[1] = f BY <1>0, <1>1, Top DEF Rests
  <1>4. Now = m BY <1>0, <1>1, <1>2, OpAgain DEF Steps
  <1>5. /\ Elems(todo') = {f} \cup Elems(Tail(todo')) /\ Tail(todo') \in Seq(Ops)
        /\ Apart(f, Tail(todo'), rules)
    <2> DEFINE t == todo'
    <2>1. t \in Seq(Ops) /\ t # <<>> /\ t[1] = f /\ AllApart(t, rules) BY <1>2, <1>3
    <2> HIDE DEF t
    <2>2. Head(t) = f /\ Tail(t) \in Seq(Ops) BY <2>1, Popped
    <2>3. Elems(t) = {f} \cup Elems(Tail(t)) BY <2>1, <2>2, ElemsPop
    <2>4. Apart(f, Tail(t), rules) BY <2>1, <2>2, ApartPop
    <2> QED BY <2>2, <2>3, <2>4 DEF t
  <1>6. f.at = "forget" /\ f.dev = d /\ f.in = i /\ m.at = "modifiers" BY DEF Op
  <1>7. m \notin Elems(todo')
    <2>1. m \notin Elems(Tail(todo')) BY <1>5, <1>6 DEF Apart
    <2>2. m # f BY DEF Op
    <2> QED BY <1>5, <2>1, <2>2
  <1>8. /\ Pending("modifiers", d, i) /\ ~Pending("modifiers", d, i)'
        /\ Pending("forget", d, i) /\ Pending("forget", d, i)'
    <2> HIDE DEF f, m
    <2>1. m \in Elems(todo) /\ m \notin Elems(todo') /\ f \in Elems(todo) /\ f \in Elems(todo')
      BY <1>2, <1>4, <1>5, <1>7
    <2> QED BY <2>1 DEF Pending, f, m
  <1>9. Holds(d, i) BY <1>6, <1>8 DEF Books, HeldInv, Pending, Holds
  <1>10. \A place \in {"forget", "let go"} : \A c, j : Pending(place, c, j)' <=> Pending(place, c, j)
    <2>1. ASSUME NEW place \in {"forget", "let go"}, NEW c, NEW j
          PROVE  Op(place, c, j) \in Elems(todo') <=> Op(place, c, j) \in Elems(todo)
      <3>1. Op(place, c, j).at = place BY DEF Op
      <3> QED BY <1>1, <1>2, <3>1
    <2> QED BY <2>1 DEF Pending
  <1>11. OneRelease(d, i)
    <2>1. ASSUME NEW c \in Devices, NEW j, <<c, j>> # <<d, i>>
          PROVE  Op("modifiers", c, j) \in Elems(todo') <=> Op("modifiers", c, j) \in Elems(todo)
      <3>1. Op("modifiers", c, j) # m BY <2>1 DEF Op
      <3> HIDE DEF m
      <3> QED BY <1>2, <1>4, <3>1
    <2> QED BY <1>10, <2>1 DEF OneRelease, Pending
  <1>12. Ledger'
    <2>1. HeldSets /\ Ledger BY DEF Sets, HeldSets, Books
    <2>2. Lift(held[d][i].mods) /\ held' = held BY <1>1, <1>9
    <2> QED BY <1>3, <1>8, <1>9, <1>11, <2>1, <2>2, LedgerModifiers
  <1>13. HandInv' BY <1>1, <1>2 DEF Books, HandInv
  <1>14. HeldInv' BY <1>1, <1>2, <1>10 DEF Books, HeldInv
  <1> QED BY <1>12, <1>13, <1>14 DEF Books

LEMMA ForgetBooks ==
  ASSUME Sets, TodoOK, Books, Forget PROVE Books'
  <1> DEFINE d == Now.dev
             i == Now.in
             f == Op("forget", d, i)
             m == Op("modifiers", d, i)
  <1>1. ~AtLoop /\ Now.at = "forget" /\ todo' = Does(<<>>) /\ held' = Without(d, i)
        /\ UNCHANGED <<fed, down, claimed, rules>>
    BY DEF Forget, At
  <1>2. /\ todo' = Tail(todo) /\ todo' \in Seq(Ops) /\ Now \in Ops
        /\ Elems(todo) = {Now} \cup Elems(todo') /\ AllApart(todo', rules)
        /\ Apart(Now, todo', rules) /\ ~(~AtLoop /\ Ends(Now))'
    BY <1>1, PopLeaves
  <1>3. d \in Devices BY <1>1, Top
  <1>4. Now = f BY <1>1, <1>2, OpAgain DEF Steps
  <1>5. f \notin Elems(todo') /\ m \notin Elems(todo') BY <1>1, <1>2 DEF Apart
  <1>6. Loses(d, i) BY <1>1, <1>3, WithoutLoses DEF Sets
  <1>7. m # f /\ f.at = "forget" BY DEF Op
  <1>8. Pending("forget", d, i) /\ ~Pending("modifiers", d, i)
    <2> HIDE DEF f, m
    <2>1. f \in Elems(todo) /\ m \notin Elems(todo) BY <1>2, <1>4, <1>5, <1>7
    <2> QED BY <2>1 DEF Pending, f, m
  <1>9. \A place \in {"forget", "modifiers", "let go"} : \A c, j :
          <<c, j>> # <<d, i>> => (Pending(place, c, j)' <=> Pending(place, c, j))
    <2>1. ASSUME NEW place \in {"forget", "modifiers", "let go"}, NEW c, NEW j,
                 <<c, j>> # <<d, i>>
          PROVE  Op(place, c, j) \in Elems(todo') <=> Op(place, c, j) \in Elems(todo)
      <3>1. Op(place, c, j) # f BY <2>1 DEF Op
      <3> HIDE DEF f
      <3> QED BY <1>2, <1>4, <3>1
    <2> QED BY <2>1 DEF Pending
  <1>10. OneRelease(d, i) BY <1>9 DEF OneRelease
  <1>11. Ledger'
    <2> HIDE DEF d, i
    <2>1. HeldSets /\ Ledger BY DEF Sets, HeldSets, Books
    <2> QED BY <1>1, <1>3, <1>6, <1>8, <1>10, <2>1, LedgerForget
  <1>12. HandInv' BY <1>1, <1>2 DEF Books, HandInv
  <1>13. HeldInv'
    <2> HIDE DEF d, i
    <2>1. ASSUME NEW c \in Devices, NEW j \in DOMAIN held'[c]
          PROVE  c \in claimed' /\ (j \in down[c] \/ Pending("forget", c, j) \/ Pending("let go", c, j))'
      <3>1. j \in DOMAIN held[c] /\ <<c, j>> # <<d, i>> BY <1>6 DEF Loses
      <3>2. c \in claimed /\ (j \in down[c] \/ Pending("forget", c, j) \/ Pending("let go", c, j))
        BY <3>1 DEF Books, HeldInv
      <3> QED BY <1>1, <1>9, <3>1, <3>2
    <2>2. ASSUME NEW x \in Elems(todo'), x.at = "forget" PROVE x.in \in DOMAIN held'[x.dev]
      <3>1. x \in Ops /\ x \in Elems(todo) BY <1>2, ElemsOps
      <3>2. x = Op("forget", x.dev, x.in) /\ x.dev \in Devices
        BY <2>2, <3>1, OpAgain, OpParts DEF Steps
      <3>3. ~(x.dev = d /\ x.in = i) BY <1>5, <3>2
      <3>4. x.in \in DOMAIN held[x.dev] BY <2>2, <3>1 DEF Books, HeldInv
      <3> QED BY <1>6, <3>2, <3>3, <3>4 DEF Loses
    <2> QED BY <1>2, <2>1, <2>2 DEF HeldInv
  <1> QED BY <1>11, <1>12, <1>13 DEF Books

\* The releases in progress.
Releasing(t) == {x \in Elems(t) : x.at \in {"forget", "modifiers", "let go"}}

\* A step that neither presses nor releases.
LEMMA QuietBooks ==
  ASSUME Books, HandInv', UNCHANGED <<held, fed>>,
         \A c \in claimed \ claimed' : DOMAIN held[c] = {},
         \A c \in Devices : \A j \in DOMAIN held[c] : j \in down[c] => j \in down'[c],
         Releasing(todo') = Releasing(todo),
         (~AtLoop /\ Ends(Now) => DOMAIN held[Now.dev] = {})'
  PROVE  Books'
  <1>1. \A place \in {"forget", "modifiers", "let go"} : \A d, i :
          Pending(place, d, i)' <=> Pending(place, d, i)
    <2>1. ASSUME NEW place \in {"forget", "modifiers", "let go"}, NEW d, NEW i
          PROVE  Op(place, d, i) \in Elems(todo') <=> Op(place, d, i) \in Elems(todo)
      <3> DEFINE o == Op(place, d, i)
      <3>1. o.at \in {"forget", "modifiers", "let go"} BY DEF Op
      <3> HIDE DEF o
      <3>2. o \in Elems(todo') <=> o \in Elems(todo) BY <3>1 DEF Releasing
      <3> QED BY <3>2 DEF o
    <2> QED BY <2>1 DEF Pending
  <1>2. Ledger'
    <2>1. SameReleases BY <1>1 DEF SameReleases
    <2> QED BY <2>1, LedgerSame DEF Books
  <1>3. HeldInv'
    <2>1. ASSUME NEW c \in Devices, NEW j \in DOMAIN held'[c]
          PROVE  c \in claimed' /\ (j \in down[c] \/ Pending("forget", c, j) \/ Pending("let go", c, j))'
      <3>1. c \in claimed /\ (j \in down[c] \/ Pending("forget", c, j) \/ Pending("let go", c, j))
        BY DEF Books, HeldInv
      <3> QED BY <1>1, <3>1
    <2>2. ASSUME NEW x \in Elems(todo'), x.at = "forget" PROVE x.in \in DOMAIN held'[x.dev]
      <3>1. x \in Elems(todo) BY <2>2 DEF Releasing
      <3> QED BY <2>2, <3>1 DEF Books, HeldInv
    <2> QED BY <2>1, <2>2 DEF HeldInv
  <1> QED BY <1>2, <1>3 DEF Books

LEMMA StillBooks ==
  ASSUME Books, UNCHANGED <<held, fed, down, rules, todo>>, claimed \subseteq claimed'
  PROVE  Books'
  <1>1. HandInv' BY DEF Books, HandInv
  <1>2. (~AtLoop /\ Ends(Now) => DOMAIN held[Now.dev] = {})'
    BY DEF Books, HeldInv, AtLoop, Now, Ends
  <1>3. Releasing(todo') = Releasing(todo) OBVIOUS
  <1> QED BY <1>1, <1>2, <1>3, QuietBooks

LEMMA OneElem == ASSUME NEW o PROVE Elems(<<o>>) = {o} /\ Elems(<<>>) = {}
  BY DEF Elems

LEMMA TurnBooks ==
  ASSUME Sets, TodoOK, Books, NEW d \in Devices, NEW i, NEW n, Turn(d, i, n)
  PROVE  Books'
  <1> DEFINE o == Op("notch", d, i)
  <1>1. /\ todo = <<>> /\ todo' = <<o>> /\ d \in claimed /\ i \in AllInputs
        /\ UNCHANGED <<held, fed, down, claimed, rules>>
    BY DEF Turn, AllInputs, AtLoop
  <1>2. o.at = "notch" /\ o.dev = d /\ o \in Ops /\ Apart(o, <<>>, rules)
    <2>1. o \in Ops BY <1>1, OpsThereAre DEF Steps
    <2> QED BY <2>1 DEF Op, Apart
  <1>3. Elems(todo') = {o} /\ Elems(todo) = {}
    <2> HIDE DEF o
    <2> QED BY <1>1, OneElem
  <1>4. AllApart(todo', rules)
    <2> HIDE DEF o
    <2>0. <<>> \in Seq(Ops) OBVIOUS
    <2>1. AllApart(<<o>> \o <<>>, rules) BY <1>2, <2>0, ApartEmpty, ApartPush
    <2>2. <<o>> \o <<>> = <<o>> OBVIOUS
    <2> QED BY <1>1, <2>1, <2>2
  <1>5. HandInv' BY <1>1, <1>2, <1>3, <1>4 DEF HandInv
  <1>6. ~(~AtLoop /\ Ends(Now))' BY <1>1, <1>2 DEF Now, Ends
  <1>7. Releasing(todo') = Releasing(todo) BY <1>2, <1>3 DEF Releasing
  <1> QED BY <1>1, <1>5, <1>6, <1>7, QuietBooks

LEMMA UnplugBooks ==
  ASSUME Sets, TodoOK, Books, NEW d \in Devices, Unplug(d)
  PROVE  Books'
  <1> DEFINE g == Op("gone", d, NoCode)
             n == Op("drain", d, NoCode)
  <1>1. /\ todo = <<>> /\ UNCHANGED <<held, fed, down, claimed, rules>>
        /\ \/ d \in claimed /\ todo' = <<n>> \o <<g>>
           \/ d \notin claimed /\ todo' = <<>> \o <<g>>
    BY DEF Unplug, AtLoop
  <1>2. g \in Ops /\ n \in Ops BY OpsThereAre DEF Steps
  <1>3. /\ g.at = "gone" /\ g.dev = d /\ n.at = "drain" /\ n.dev = d /\ IsLoud(g) /\ ~Ends(n)
    BY DEF Op, IsLoud, Ends
  <1>4. Apart(g, <<>>, rules) BY <1>3 DEF Apart
  <1> HIDE DEF g, n
  <1>5. AllApart(<<g>>, rules) /\ <<g>> \in Seq(Ops) /\ Elems(<<g>>) = {g}
    <2>0. <<>> \in Seq(Ops) OBVIOUS
    <2>1. AllApart(<<g>> \o <<>>, rules) BY <1>2, <1>4, <2>0, ApartEmpty, ApartPush
    <2>2. <<g>> \o <<>> = <<g>> OBVIOUS
    <2> QED BY <1>2, <2>1, <2>2, OneElem
  <1>6. Apart(n, <<g>>, rules) BY <1>3, <1>5 DEF Apart, Free
  <1>7. /\ AllApart(<<n>> \o <<g>>, rules) /\ Elems(<<n>> \o <<g>>) = {n, g}
    BY <1>2, <1>5, <1>6, ApartPush, ElemsPush
  <1>8. /\ Head(<<n>> \o <<g>>) = n /\ <<>> \o <<g>> = <<g>> /\ Head(<<g>>) = g
    BY <1>2, <1>5, HeadPushed
  <1>9. HandInv' BY <1>1, <1>3, <1>5, <1>7, <1>8 DEF HandInv
  <1>10. Elems(todo') \subseteq {n, g} /\ Elems(todo) = {} BY <1>1, <1>5, <1>7, <1>8, OneElem
  <1>11. Releasing(todo') = Releasing(todo) BY <1>3, <1>10 DEF Releasing
  <1>12. (~AtLoop /\ Ends(Now) => DOMAIN held[Now.dev] = {})'
    <2>1. d \notin claimed => DOMAIN held[d] = {} BY DEF Books, HeldInv
    <2> QED BY <1>1, <1>3, <1>8, <2>1 DEF Now, Ends
  <1> QED BY <1>1, <1>9, <1>11, <1>12, QuietBooks

\* A change of the rules keeps what is in hand claimed.
LEMMA ChangeBooks ==
  ASSUME "drain" \notin CommandsFrom, ~SelfRemap, Sets, TodoOK, Books, NEW e, Change(e)
  PROVE  Books'
  <1> DEFINE o == Reevaluate(plugged)
  <1>1. Calm(todo) /\ todo \in Seq(Ops) BY ChangeRest DEF Change
  <1>2. o \in Ops BY OpsThereAre DEF Sets
  <1>3. /\ todo' = <<o>> \o todo /\ UNCHANGED <<held, fed, down, claimed>> /\ rules' = e
    BY DEF Change
  <1>4. o.at = "reevaluate" /\ IsLoud(o) /\ ~Ends(o) BY DEF Reevaluate, IsLoud, Ends
  <1> HIDE DEF o
  <1>5. \A x \in Elems(todo) : ~IsLoud(x) => Claims(e, x.dev)
    <2> SUFFICES ASSUME NEW x \in Elems(todo), ~IsLoud(x) PROVE Claims(e, x.dev) OBVIOUS
    <2>1. x.dev \in InHand
      <3>1. PICK k \in 1..Len(todo) : x = todo[k] BY DEF Elems
      <3>2. k \in DOMAIN todo BY <1>1, <3>1
      <3> QED BY <3>1, <3>2 DEF InHand, IsLoud
    <2> QED BY <2>1 DEF Change
  <1>6. Apart(o, todo, e) BY <1>4, <1>5 DEF Apart
  <1>7. AllApart(todo, e) BY <1>1, ApartCalm DEF Books, HandInv
  <1>8. /\ AllApart(<<o>> \o todo, e) /\ Elems(<<o>> \o todo) = {o} \cup Elems(todo)
        /\ Head(<<o>> \o todo) = o
    BY <1>1, <1>2, <1>6, <1>7, ApartPush, ElemsPush, HeadPushed
  <1>9. HandInv' BY <1>3, <1>4, <1>8 DEF Books, HandInv
  <1>10. Releasing(todo') = Releasing(todo) BY <1>3, <1>4, <1>8 DEF Releasing
  <1>11. ~(~AtLoop /\ Ends(Now))' BY <1>3, <1>4, <1>8 DEF Now, Ends
  <1> QED BY <1>3, <1>9, <1>10, <1>11, QuietBooks

LEMMA PressLoopBooks ==
  ASSUME Sets, TodoOK, TodoOK', Books, NEW d \in Devices, NEW i \in Physical(d), Press(d, i)
  PROVE  Books'
  <1>1. /\ todo = <<>> /\ i \in Inputs[d] /\ down' = [down EXCEPT ![d] = @ \cup {i}]
        /\ UNCHANGED <<claimed, rules>>
    BY PhysicalInputs DEF Press, AtLoop
  <1>2. i \in down'[d] /\ \A c \in Devices : down[c] \subseteq down'[c] BY <1>1 DEF Sets
  <1>3. CASE d \in claimed
    <2>1. PressEdge(d, i, <<>>) BY <1>3 DEF Press
    <2>2. TodoGood(<<>>) /\ Calm(<<>>) /\ AllApart(<<>>, rules)
      BY TodoEmpty, CalmEmpty, ApartEmpty
    <2>3. Elems(todo) \subseteq Elems(<<>>) /\ Elems(<<>>) \ Elems(todo) = {} BY <1>1
    <2> QED BY <1>1, <1>2, <1>3, <2>1, <2>2, <2>3, PressBooks
  <1>4. CASE d \notin claimed
    <2>1. UNCHANGED <<held, fed, todo, claimed, rules>> BY <1>4 DEF Press
    <2>2. HandInv' BY <2>1 DEF Books, HandInv
    <2>3. ~(~AtLoop /\ Ends(Now))' BY <1>1, <2>1 DEF AtLoop
    <2>4. Releasing(todo') = Releasing(todo) BY <2>1
    <2> QED BY <1>2, <2>1, <2>2, <2>3, <2>4, QuietBooks
  <1> QED BY <1>3, <1>4

LEMMA ReleaseLoopBooks ==
  ASSUME Sets, TodoOK, TodoOK', Books, NEW d \in Devices, NEW i \in Physical(d), Release(d, i)
  PROVE  Books'
  <1>1. /\ todo = <<>> /\ i \in AllInputs \cup {NoCode} /\ down' = [down EXCEPT ![d] = @ \ {i}]
        /\ UNCHANGED <<claimed, rules>>
    BY PhysicalInputs DEF Release, AtLoop
  <1>2. \A c \in Devices : \A j \in down[c] : j \in down'[c] \/ (c = d /\ j = i)
    BY <1>1 DEF Sets
  <1>3. CASE d \in claimed
    <2>1. ReleaseEdge(d, i, <<>>) BY <1>3 DEF Release
    <2>2. \/ Holds(d, i) /\ Released(d, i, "release", <<>>)
          \/ ~Holds(d, i) /\ todo' = <<>> /\ UNCHANGED <<held, fed>>
      BY <2>1 DEF ReleaseEdge
    <2>3. <<>> \in Seq(Ops) /\ AllApart(<<>>, rules) BY ApartEmpty
    <2>4. Elems(todo) = {} /\ Elems(<<>>) = {} BY <1>1, ElemsEmpty
    <2>5. ~Pending("forget", d, i) /\ ~Pending("modifiers", d, i) BY <2>4 DEF Pending
    <2> QED BY <1>1, <1>2, <1>3, <2>2, <2>3, <2>4, <2>5, ReleaseBooks
  <1>4. CASE d \notin claimed
    <2>1. UNCHANGED <<held, fed, todo, claimed, rules>> BY <1>4 DEF Release
    <2>2. HandInv' BY <2>1 DEF Books, HandInv
    <2>3. ~(~AtLoop /\ Ends(Now))' BY <1>1, <2>1 DEF AtLoop
    <2>4. Releasing(todo') = Releasing(todo) BY <2>1
    <2>5. DOMAIN held[d] = {} BY <1>4 DEF Books, HeldInv
    <2>6. \A c \in Devices : \A j \in DOMAIN held[c] : j \in down[c] => j \in down'[c]
      BY <1>2, <2>5
    <2> QED BY <2>1, <2>2, <2>3, <2>4, <2>6, QuietBooks
  <1> QED BY <1>3, <1>4

LEMMA NowIsThere ==
  ASSUME TodoOK, ~AtLoop PROVE Now \in Elems(todo) /\ Elems(todo) = {Now} \cup Elems(Tail(todo))
  <1>1. todo # <<>> /\ todo \in Seq(Ops) BY Top
  <1> QED BY <1>1, ElemsPop DEF Now

LEMMA NotchBooks ==
  ASSUME Sets, TodoOK, TodoOK', Books, NextNotch PROVE Books'
  <1>1. At("notch") /\ ~AtLoop /\ Now.at = "notch" BY DEF NextNotch, At
  <1>2. PICK d, i : d = Now.dev /\ i = Now.in OBVIOUS
  <1> DEFINE o == Op("let go", d, i)
             rest == <<o>> \o todo
  <1>3. i \in Inputs[d] /\ d \in Devices /\ TodoGood(rest) /\ Calm(rest) /\ i \in AllInputs
    BY <1>1, <1>2, NotchRest
  <1>4. o \in Ops /\ Apart(o, todo, rules) /\ o.at = "let go"
    <2>1. o \in Ops BY <1>3, OpsThereAre DEF Steps
    <2> QED BY <2>1 DEF Op, Apart
  <1>5. todo \in Seq(Ops) /\ AllApart(todo, rules) BY DEF TodoOK, TodoGood, Books, HandInv
  <1>6. UNCHANGED <<down, claimed, rules>>
        /\ (PressEdge(d, i, rest) \/ (todo' = Does(<<>>) /\ UNCHANGED <<held, fed>>))
    BY <1>2 DEF NextNotch
  <1>7. d \in claimed
    <2>1. Now \in Elems(todo) /\ ~IsLoud(Now) BY <1>1, NowIsThere DEF IsLoud, Ends
    <2> QED BY <1>2, <2>1 DEF Books, HandInv
  <1>8. CASE PressEdge(d, i, rest)
    <2> HIDE DEF o
    <2>1. AllApart(rest, rules) /\ Elems(rest) = {o} \cup Elems(todo)
      BY <1>4, <1>5, ApartPush, ElemsPush
    <2> HIDE DEF rest
    <2>2. \A x \in Elems(rest) \ Elems(todo) : x = Op("let go", d, i) BY <2>1 DEF o
    <2>3. Op("let go", d, i) \in Elems(rest) BY <2>1 DEF o
    <2>4. \A c \in Devices : down[c] \subseteq down'[c] BY <1>6
    <2> QED BY <1>3, <1>6, <1>7, <1>8, <2>1, <2>2, <2>3, <2>4, PressBooks
  <1>9. CASE todo' = Does(<<>>) /\ UNCHANGED <<held, fed>>
    BY <1>1, <1>6, <1>9, PopBooks
  <1> QED BY <1>6, <1>8, <1>9

LEMMA LetGoBooks ==
  ASSUME Sets, TodoOK, TodoOK', Books, NotchEnds PROVE Books'
  <1>1. At("let go") /\ ~AtLoop /\ Now.at = "let go" BY DEF NotchEnds, At
  <1>2. PICK d, i : d = Now.dev /\ i = Now.in OBVIOUS
  <1>3. PICK rest : rest = Tail(todo) OBVIOUS
  <1>4. /\ d \in Devices /\ i \in AllInputs \cup {NoCode} /\ rest \in Seq(Ops)
        /\ Len(rest) = 1 /\ rest[1].at = "notch" /\ ~Ends(rest[1])
    BY <1>1, <1>2, <1>3, LetGoRest DEF TodoGood
  <1>5. todo # <<>> /\ todo \in Seq(Ops) /\ Now \in Ops BY <1>1, Top
  <1>6. AllApart(rest, rules) BY <1>3, <1>5, ApartPop DEF Books, HandInv
  <1>7. Elems(todo) = {Now} \cup Elems(rest) /\ Now \in Elems(todo) BY <1>1, <1>3, NowIsThere
  <1>8. Now = Op("let go", d, i) BY <1>1, <1>2, <1>5, OpAgain DEF Steps
  <1>9. \A x \in Elems(rest) : x.at = "notch" BY <1>4 DEF Elems
  <1>10. ~Pending("forget", d, i) /\ ~Pending("modifiers", d, i)
    <2>1. Op("forget", d, i).at = "forget" /\ Op("modifiers", d, i).at = "modifiers" BY DEF Op
    <2>2. \A x \in Elems(todo) : x.at \in {"notch", "let go"} BY <1>1, <1>7, <1>9
    <2> QED BY <2>1, <2>2 DEF Pending
  <1>11. d \in claimed
    <2>1. ~IsLoud(Now) BY <1>1 DEF IsLoud, Ends
    <2> QED BY <1>2, <1>7, <2>1 DEF Books, HandInv
  <1>12. ReleaseEdge(d, i, rest) /\ UNCHANGED <<down, claimed, rules>>
    BY <1>2, <1>3 DEF NotchEnds
  <1>13. \/ Holds(d, i) /\ Released(d, i, "release", rest)
         \/ ~Holds(d, i) /\ todo' = rest /\ UNCHANGED <<held, fed>>
    BY <1>12 DEF ReleaseEdge
  <1>14. /\ Elems(rest) \subseteq Elems(todo)
         /\ \A x \in Elems(todo) \ Elems(rest) : x.at = "let go" /\ x = Op("let go", d, i)
    BY <1>1, <1>7, <1>8
  <1>15. \A c \in Devices : \A j \in down[c] : j \in down'[c] \/ (c = d /\ j = i) BY <1>12
  <1>16. UNCHANGED <<claimed, rules>> BY <1>12
  <1> QED BY <1>4, <1>6, <1>10, <1>11, <1>13, <1>14, <1>15, <1>16, ReleaseBooks

LEMMA DrainBooks ==
  ASSUME Sets, TodoOK, TodoOK', Books, Drain PROVE Books'
  <1>1. At("drain") /\ ~AtLoop /\ Now.at = "drain" BY DEF Drain, At
  <1>2. PICK d : d = Now.dev OBVIOUS
  <1>3. /\ d \in Devices /\ todo # <<>> /\ todo \in Seq(Ops) /\ ~Ends(todo[1])
    BY <1>1, <1>2, DrainRest
  <1>4. AllApart(todo, rules) BY DEF Books, HandInv
  <1>5. Apart(Now, Tail(todo), rules) BY <1>3, <1>4, ApartPop DEF Now
  <1>6. Elems(todo) = {Now} \cup Elems(Tail(todo)) /\ Now \in Elems(todo) BY <1>1, NowIsThere
  <1>7. d \in claimed
    <2>1. ~IsLoud(Now) BY <1>1 DEF IsLoud, Ends
    <2> QED BY <1>2, <1>6, <2>1 DEF Books, HandInv
  <1>8. \A i : ~Pending("forget", d, i) /\ ~Pending("modifiers", d, i)
    <2>1. Free(Tail(todo), d) BY <1>1, <1>2, <1>5 DEF Apart
    <2>2. ASSUME NEW i, NEW place \in {"forget", "modifiers"}
          PROVE  Op(place, d, i) \notin Elems(todo)
      <3>1. Op(place, d, i).at = place /\ Op(place, d, i).dev = d
            /\ ~IsLoud(Op(place, d, i))
        BY DEF Op, IsLoud, Ends
      <3>2. Op(place, d, i) \notin Elems(Tail(todo)) BY <2>1, <3>1 DEF Free
      <3>3. Op(place, d, i) # Now BY <1>1, <3>1
      <3> QED BY <1>6, <3>2, <3>3
    <2> QED BY <2>2 DEF Pending
  <1>9. UNCHANGED <<down, claimed, rules>> BY DEF Drain
  <1>10. ASSUME NEW i \in DOMAIN held[d], Released(d, i, "drain", todo) PROVE Books'
    <2>1. i \in AllInputs \cup {NoCode} BY <1>3 DEF Sets, AllInputs
    <2>2. Holds(d, i) BY DEF Holds
    <2>3. \A c \in Devices : \A j \in down[c] : j \in down'[c] \/ (c = d /\ j = i) BY <1>9
    <2>4. ~Pending("forget", d, i) /\ ~Pending("modifiers", d, i) BY <1>8
    <2>5. PICK rest : rest = todo OBVIOUS
    <2>6. /\ rest \in Seq(Ops) /\ AllApart(rest, rules) /\ ~Ends(rest[1])
          /\ Elems(rest) \subseteq Elems(todo) /\ Elems(todo) \ Elems(rest) = {}
          /\ Released(d, i, "drain", rest)
      BY <1>3, <1>4, <1>10, <2>5
    <2> QED BY <1>7, <1>9, <2>1, <2>2, <2>3, <2>4, <2>6, ReleaseBooks
  <1>11. CASE DOMAIN held[d] = {} /\ todo' = Does(<<>>) /\ UNCHANGED <<held, fed>>
    <2>1. /\ Elems(todo) = {Now} \cup Elems(todo') /\ AllApart(todo', rules)
          /\ (~AtLoop /\ Ends(Now))' => Now'.dev = Now.dev
      BY <1>1, <1>11, PopLeaves
    <2>2. HandInv' BY <1>9, <2>1 DEF Books, HandInv
    <2>3. Releasing(todo') = Releasing(todo) BY <1>1, <2>1 DEF Releasing
    <2>4. (~AtLoop /\ Ends(Now) => DOMAIN held[Now.dev] = {})' BY <1>2, <1>11, <2>1
    <2> QED BY <1>9, <1>11, <2>2, <2>3, <2>4, QuietBooks
  <1> QED BY <1>2, <1>10, <1>11 DEF Drain

LEMMA UnclaimBooks ==
  ASSUME Sets, TodoOK, Books, Unclaim PROVE Books'
  <1>1. /\ ~AtLoop /\ Now.at = "unclaim" /\ Ends(Now) /\ todo' = Does(<<>>)
        /\ UNCHANGED <<held, fed, down, rules>>
    BY DEF Unclaim, At, Ends
  <1>2. PICK d : d = Now.dev OBVIOUS
  <1>3. claimed' = claimed \ {d} BY <1>2 DEF Unclaim
  <1>4. /\ Elems(todo) = {Now} \cup Elems(todo') /\ AllApart(todo', rules)
        /\ Apart(Now, todo', rules) /\ ~(~AtLoop /\ Ends(Now))'
    BY <1>1, PopLeaves
  <1>5. DOMAIN held[d] = {} BY <1>1, <1>2 DEF Books, HeldInv
  <1>6. \A x \in Elems(todo') : ~IsLoud(x) => x.dev # d BY <1>1, <1>2, <1>4 DEF Apart, Free
  <1>7. HandInv' BY <1>1, <1>3, <1>4, <1>6 DEF Books, HandInv
  <1>8. Releasing(todo') = Releasing(todo) BY <1>1, <1>4 DEF Releasing
  <1>9. \A c \in claimed \ claimed' : DOMAIN held[c] = {} BY <1>3, <1>5
  <1> QED BY <1>1, <1>4, <1>7, <1>8, <1>9, QuietBooks

LEMMA GoneBooks ==
  ASSUME Sets, TodoOK, Books, Gone PROVE Books'
  <1>1. /\ ~AtLoop /\ Now.at = "gone" /\ Ends(Now) /\ todo' = Does(<<>>)
        /\ UNCHANGED <<held, fed, rules>>
    BY DEF Gone, At, Ends
  <1>2. PICK d : d = Now.dev OBVIOUS
  <1>3. claimed' = claimed \ {d} /\ down' = [down EXCEPT ![d] = {}] BY <1>2 DEF Gone
  <1>4. Tail(todo) = <<>> /\ todo' = <<>> BY <1>1, Top, PopGood DEF Rests
  <1>5. /\ Elems(todo) = {Now} \cup Elems(todo') /\ AllApart(todo', rules)
    BY <1>1, PopLeaves
  <1>6. Elems(todo') = {} BY <1>4, ElemsEmpty
  <1>7. DOMAIN held[d] = {} BY <1>1, <1>2 DEF Books, HeldInv
  <1>8. HandInv' BY <1>1, <1>5, <1>6 DEF HandInv
  <1>9. Releasing(todo') = Releasing(todo) BY <1>1, <1>5 DEF Releasing
  <1>10. \A c \in claimed \ claimed' : DOMAIN held[c] = {} BY <1>3, <1>7
  <1>11. \A c \in Devices : \A j \in DOMAIN held[c] : j \in down[c] => j \in down'[c]
    BY <1>3, <1>7 DEF Sets
  <1>12. ~(~AtLoop /\ Ends(Now))' BY <1>4 DEF AtLoop
  <1> QED BY <1>1, <1>8, <1>9, <1>10, <1>11, <1>12, QuietBooks

\* Looking at the devices again: one the rules no longer claim is not in hand.
LEMMA ReevaluateBooks ==
  ASSUME Sets, TodoOK, ClaimsInv, Books, ReevaluateNext PROVE Books'
  <1>1. /\ Calm(Tail(todo)) /\ Tail(todo) \in Seq(Ops) /\ Now.devices \in SUBSET Devices
        /\ Now.at = "reevaluate" /\ ~AtLoop /\ todo # <<>> /\ todo \in Seq(Ops)
    BY ReevaluateTodo
  <1>2. PICK t, ds : t = Tail(todo) /\ ds = Now.devices OBVIOUS
  <1>3. /\ t \in Seq(Ops) /\ Elems(todo) = {Now} \cup Elems(t)
        /\ AllApart(t, rules) /\ Apart(Now, t, rules)
    BY <1>1, <1>2, NowIsThere, ApartPop DEF Now, Books, HandInv
  <1>4. /\ \A x \in Elems(t) : ~IsLoud(x)
        /\ \A x \in Elems(t) : Claims(rules, x.dev) /\ x.dev \in claimed
    <2>1. \A x \in Elems(t) : ~IsLoud(x) BY <1>1, <1>2, CalmElems
    <2> QED BY <1>1, <1>3, <2>1 DEF Apart, Books, HandInv
  <1>5. UNCHANGED <<held, fed, down, rules>> BY DEF ReevaluateNext
  <1>6. \A c : Claims(rules, c) \in BOOLEAN BY DEF Claims
  <1>12. ASSUME NEW a, NEW b, NEW c
         PROVE  <<a, b, c>> \o t = <<a>> \o (<<b>> \o (<<c>> \o t))
    <2>1. t \in Seq(Ops) BY <1>3
    <2>2. <<a, b, c>> \o t = <<a>> \o (<<b>> \o (<<c>> \o t)) BY <2>1, ThreePushed, SMTT(40)
    <2> QED BY <2>2
  <1> DEFINE Wrong == {c \in ds : Claims(rules, c) # (c \in claimed)}
  <1>7. \/ todo' = Does(<<>>) /\ UNCHANGED claimed
        \/ \E d \in Wrong :
             \/ /\ claimed' = claimed \cup {d}
                /\ todo' = <<Reevaluate(ds \ {d})>> \o t
             \/ /\ d \in claimed /\ UNCHANGED claimed
                /\ todo' = <<Op("drain", d, NoCode), Op("unclaim", d, NoCode),
                             Reevaluate(ds \ {d})>> \o t
    BY <1>2 DEF ReevaluateNext, Does
  <1>8. CASE todo' = Does(<<>>) /\ UNCHANGED claimed BY <1>1, <1>5, <1>8, PopBooks
  <1>9. ASSUME NEW d \in Wrong
        PROVE  LET r == Reevaluate(ds \ {d}) IN
               /\ r \in Ops /\ r.at = "reevaluate" /\ IsLoud(r) /\ ~Ends(r)
               /\ <<r>> \o t \in Seq(Ops) /\ AllApart(<<r>> \o t, rules)
               /\ Elems(<<r>> \o t) = {r} \cup Elems(t) /\ Head(<<r>> \o t) = r
    <2> DEFINE r == Reevaluate(ds \ {d})
    <2>1. r \in Ops BY <1>1, <1>2, OpsThereAre
    <2>2. r.at = "reevaluate" /\ IsLoud(r) /\ ~Ends(r) BY DEF Reevaluate, IsLoud, Ends
    <2> HIDE DEF r
    <2>3. Apart(r, t, rules) BY <1>4, <2>2 DEF Apart
    <2>4. <<r>> \o t \in Seq(Ops) BY <1>3, <2>1, Pushed
    <2>5. AllApart(<<r>> \o t, rules) BY <1>3, <2>1, <2>3, ApartPush
    <2>6. Elems(<<r>> \o t) = {r} \cup Elems(t) BY <1>3, <2>1, ElemsPush
    <2>7. Head(<<r>> \o t) = r BY <1>3, <2>1, HeadPushed
    <2> QED BY <2>1, <2>2, <2>4, <2>5, <2>6, <2>7 DEF r
  <1>10. ASSUME NEW d \in Wrong, claimed' = claimed \cup {d},
                todo' = <<Reevaluate(ds \ {d})>> \o t
         PROVE  Books'
    <2> DEFINE r == Reevaluate(ds \ {d})
    <2>1. /\ r.at = "reevaluate" /\ IsLoud(r) /\ ~Ends(r) /\ AllApart(todo', rules)
          /\ Elems(todo') = {r} \cup Elems(t) /\ Head(todo') = r
      BY <1>9, <1>10
    <2> HIDE DEF r
    <2>2. HandInv' BY <1>4, <1>5, <1>10, <2>1 DEF HandInv
    <2>3. Releasing(todo') = Releasing(todo) BY <1>1, <1>3, <2>1 DEF Releasing
    <2>4. ~(~AtLoop /\ Ends(Now))' BY <2>1 DEF Now, Ends
    <2> QED BY <1>5, <1>10, <2>2, <2>3, <2>4, QuietBooks
  <1>11. ASSUME NEW d \in Wrong, d \in claimed, UNCHANGED claimed,
                todo' = <<Op("drain", d, NoCode), Op("unclaim", d, NoCode),
                          Reevaluate(ds \ {d})>> \o t
         PROVE  Books'
    <2> DEFINE r == Reevaluate(ds \ {d})
               u == Op("unclaim", d, NoCode)
               n == Op("drain", d, NoCode)
               t1 == <<r>> \o t
               t2 == <<u>> \o t1
    <2>1. /\ r \in Ops /\ r.at = "reevaluate" /\ IsLoud(r) /\ t1 \in Seq(Ops)
          /\ AllApart(t1, rules) /\ Elems(t1) = {r} \cup Elems(t)
      BY <1>9
    <2>2. u \in Ops /\ n \in Ops BY <1>1, <1>2, OpsThereAre DEF Steps
    <2>3. /\ u.at = "unclaim" /\ u.dev = d /\ IsLoud(u) /\ n.at = "drain" /\ n.dev = d
          /\ ~IsLoud(n) /\ ~Ends(n)
      BY DEF Op, IsLoud, Ends
    <2>4. todo' = <<n, u, r>> \o t BY <1>11
    <2> HIDE DEF r, u, n
    <2>5. ~Claims(rules, d) BY <1>6, <1>11
    <2>6. Free(t1, d) BY <1>4, <2>1, <2>5 DEF Free
    <2>7. Apart(u, t1, rules) BY <2>3, <2>6 DEF Apart
    <2> HIDE DEF t1
    <2>8. t2 \in Seq(Ops) /\ AllApart(t2, rules) /\ Elems(t2) = {u} \cup Elems(t1)
      <3>1. t2 \in Seq(Ops) BY <2>1, <2>2, Pushed
      <3>2. AllApart(t2, rules) BY <2>1, <2>2, <2>7, ApartPush
      <3>3. Elems(t2) = {u} \cup Elems(t1) BY <2>1, <2>2, ElemsPush
      <3> QED BY <3>1, <3>2, <3>3
    <2>9. Free(t2, d) BY <2>3, <2>6, <2>8 DEF Free
    <2>10. Apart(n, t2, rules) BY <2>3, <2>9 DEF Apart
    <2>11. <<n, u, r>> \o t = <<n>> \o t2
      <3>1. <<n, u, r>> \o t = <<n>> \o (<<u>> \o (<<r>> \o t)) BY <1>12
      <3> QED BY <3>1 DEF t1
    <2> HIDE DEF t2
    <2>12. /\ AllApart(<<n>> \o t2, rules) /\ Elems(<<n>> \o t2) = {n} \cup Elems(t2)
           /\ Head(<<n>> \o t2) = n
      BY <2>2, <2>8, <2>10, ApartPush, ElemsPush, HeadPushed
    <2>13. /\ AllApart(todo', rules) /\ Elems(todo') = {n, u, r} \cup Elems(t)
           /\ Head(todo') = n
      BY <2>1, <2>4, <2>8, <2>11, <2>12
    <2>14. HandInv' BY <1>4, <1>5, <1>11, <2>1, <2>3, <2>13 DEF HandInv
    <2>15. Releasing(todo') = Releasing(todo)
      BY <1>1, <1>3, <2>1, <2>3, <2>13 DEF Releasing
    <2>16. ~(~AtLoop /\ Ends(Now))' BY <2>3, <2>13 DEF Now, Ends
    <2> QED BY <1>5, <1>11, <2>14, <2>15, <2>16, QuietBooks
  <1> QED BY <1>7, <1>8, <1>10, <1>11

LEMMA BooksNext ==
  ASSUME "drain" \notin CommandsFrom, ~SelfRemap, ClaimsInductive, Books, [Next]_vars
  PROVE  Books'
  <1>1. Sets /\ TodoOK /\ ClaimsInv /\ TodoOK' BY ClaimsStep DEF ClaimsInductive
  <1>2. ASSUME NEW d \in Devices, Plug(d) PROVE Books' BY <1>2, StillBooks DEF Plug
  <1>3. ASSUME NEW d \in Devices, Unplug(d) PROVE Books' BY <1>1, <1>3, UnplugBooks
  <1>4. ASSUME NEW d \in Devices, NEW i \in Physical(d), Press(d, i) PROVE Books'
    BY <1>1, <1>4, PressLoopBooks
  <1>5. ASSUME NEW d \in Devices, NEW i \in Physical(d), Release(d, i) PROVE Books'
    BY <1>1, <1>5, ReleaseLoopBooks
  <1>6. ASSUME NEW d \in Devices, NEW i, NEW n, Turn(d, i, n) PROVE Books'
    BY <1>1, <1>6, TurnBooks
  <1>7. CASE NextNotch BY <1>1, <1>7, NotchBooks
  <1>8. CASE NotchEnds BY <1>1, <1>8, LetGoBooks
  <1>9. CASE OutReturns \/ PressReturns
    <2>1. /\ ~AtLoop /\ todo' = Does(<<>>) /\ Now.at \in {"out", "return"}
          /\ UNCHANGED <<held, fed, down, claimed, rules>>
      BY <1>9 DEF OutReturns, PressReturns, At
    <2> QED BY <1>1, <2>1, PopBooks
  <1>10. CASE ReleaseModifiers BY <1>1, <1>10, ModifiersBooks
  <1>11. CASE Forget BY <1>1, <1>11, ForgetBooks
  <1>12. CASE Drain BY <1>1, <1>12, DrainBooks
  <1>13. CASE Unclaim BY <1>1, <1>13, UnclaimBooks
  <1>14. CASE Gone BY <1>1, <1>14, GoneBooks
  <1>15. CASE ReevaluateNext BY <1>1, <1>15, ReevaluateBooks
  <1>16. CASE Changes BY <1>1, <1>16, ChangesRules, ChangeBooks
  <1>17. CASE Lock \/ Unlock \/ UNCHANGED vars
    <2>1. UNCHANGED <<held, fed, down, rules, todo, claimed>> BY <1>17 DEF Lock, Unlock, vars
    <2> QED BY <2>1, StillBooks
  <1> QED BY <1>2, <1>3, <1>4, <1>5, <1>6, <1>7, <1>8, <1>9, <1>10, <1>11, <1>12, <1>13, <1>14,
             <1>15, <1>16, <1>17
          DEF Next, Changes

LEMMA BooksInit == Init => Books
  <1> SUFFICES ASSUME Init PROVE Books OBVIOUS
  <1>1. todo = <<>> /\ held = [d \in Devices |-> <<>>] /\ fed = [c \in Codes |-> 0] BY DEF Init
  <1>2. Elems(todo) = {} /\ AllApart(todo, rules) BY <1>1, ElemsEmpty, ApartEmpty
  <1>3. \A d \in Devices : DOMAIN held[d] = {} BY <1>1
  <1>4. HandInv BY <1>2 DEF HandInv
  <1>5. HeldInv BY <1>1, <1>2, <1>3 DEF HeldInv, AtLoop
  <1>6. Ledger
    <2>1. HeldInputs = {} BY <1>3 DEF HeldInputs, Holds
    <2>2. \A c : KeyOwed(c) = {} /\ ModOwed(c) = {} BY <2>1 DEF KeyOwed, ModOwed
    <2>3. IsFiniteSet({}) /\ Cardinality({}) = 0 BY FS_EmptySet
    <2>4. ASSUME NEW c \in Codes \ {NoCode}
          PROVE  /\ IsFiniteSet(KeyOwed(c)) /\ IsFiniteSet(ModOwed(c))
                 /\ fed[c] = Cardinality(KeyOwed(c)) + Cardinality(ModOwed(c))
      <3>1. fed[c] = 0 BY <1>1
      <3>2. KeyOwed(c) = {} /\ ModOwed(c) = {} BY <2>2
      <3> QED BY <2>3, <3>1, <3>2
    <2>5. DOMAIN fed = Codes BY <1>1
    <2> QED BY <1>3, <2>4, <2>5 DEF Ledger
  <1> QED BY <1>4, <1>5, <1>6 DEF Books

\* Nothing is left pressed when an event is over: every key, button and modifier fed is
\* owed by inputs that are still down on a claimed device, as often as it was pressed,
\* whatever rules were added, removed or reloaded while it was held (apply_press(),
\* apply_release(), remap_device_release()).
THEOREM EveryPressIsReleased ==
  "drain" \notin CommandsFrom /\ ~SelfRemap => (Spec => []NothingIsStuck)
  <1> SUFFICES ASSUME "drain" \notin CommandsFrom, ~SelfRemap PROVE Spec => []NothingIsStuck
    OBVIOUS
  <1> DEFINE IInv == ClaimsInductive /\ Books
  <1>1. Init => IInv BY ClaimsInit, BooksInit
  <1>2. IInv /\ [Next]_vars => IInv' BY ClaimsStep, BooksNext
  <1>3. IInv => NothingIsStuck
    <2> SUFFICES ASSUME IInv, AtLoop
                 PROVE  /\ \A c \in Codes \ {NoCode} :
                             fed[c] = Cardinality(FedAsKey(c)) + Cardinality(FedAsModifier(c))
                        /\ \A d \in Devices :
                             DOMAIN held[d] \subseteq IF d \in claimed THEN down[d] ELSE {}
      BY DEF NothingIsStuck
    <2>1. Elems(todo) = {} BY ElemsEmpty DEF AtLoop
    <2>2. \A c : KeyOwed(c) = FedAsKey(c) /\ ModOwed(c) = FedAsModifier(c)
      BY <2>1 DEF KeyOwed, ModOwed, FedAsKey, FedAsModifier, Pending
    <2>3. Ledger /\ HeldInv BY DEF Books
    <2>4. \A d \in Devices : \A i \in DOMAIN held[d] : d \in claimed /\ i \in down[d]
      BY <2>1, <2>3 DEF HeldInv, Pending
    <2> QED BY <2>2, <2>3, <2>4 DEF Ledger
  <1> QED BY <1>1, <1>2, <1>3, PTL DEF Spec

-----------------------------------------------------------------------------
(* What the rules decide.                                                  *)

LEMMA LeastOf ==
  ASSUME NEW T \in SUBSET Nat, T # {}
  PROVE  Min(T) \in T
  <1>1. PICK n \in T : \A k \in T : ~(<<k, n>> \in OpToRel(<, Nat))
    BY NatLessThanWellFounded, WFMin
  <1>2. \A k \in T : ~(k < n) BY <1>1 DEF OpToRel
  <1>3. \E m \in T : \A k \in T : m <= k BY <1>2
  <1> QED BY <1>3 DEF Min

\* What an engine may be.
Engines == [config : Seq(Rules), runtime : Seq(Rules), enabled : BOOLEAN]

\* What decides an input is a rule that matches the device.
LEMMA DecidesMatching ==
  ASSUME NEW e \in Engines, NEW d, NEW i, Decides(e, d, i) # NoRule
  PROVE  Decides(e, d, i) \in Rules /\ d \in Matches[Decides(e, d, i)]
  <1> DEFINE b == e.config \o e.runtime
             p == ByPriority(e)
             Of == Matching(e, d)
             Mapping == {k \in Of : i \in DOMAIN Map[p[k]]}
             T == IF Mapping # {} THEN Mapping ELSE Of
  <1>1. Of # {} /\ Decides(e, d, i) = p[Min(T)] BY DEF Decides, Claims
  <1>2. b \in Seq(Rules) BY DEF Engines
  <1>3. DOMAIN p = 1..Len(b) /\ \A k \in DOMAIN p : p[k] \in Rules
    <2>1. p = [k \in 1..Len(b) |-> b[(Len(b) - k) + 1]] BY DEF ByPriority, Reverse
    <2> HIDE DEF b, p
    <2>2. \A k \in 1..Len(b) : (Len(b) - k) + 1 \in 1..Len(b) BY <1>2
    <2> QED BY <1>2, <2>1, <2>2
  <1>4. Of \subseteq DOMAIN p /\ \A k \in Of : d \in Matches[p[k]] BY DEF Matching, InForce
  <1>5. T # {} /\ T \subseteq Of BY <1>1
  <1> HIDE DEF p, Of, T, b
  <1>6. DOMAIN p \in SUBSET Nat BY <1>2, <1>3
  <1>7. Min(T) \in T BY <1>4, <1>5, <1>6, LeastOf
  <1> QED BY <1>1, <1>3, <1>4, <1>5, <1>7

LEMMA DroppedFirst ==
  ASSUME NEW list \in Seq(Rules), NEW name, Named(list, name) # {}
  PROVE  DropFirst(list, Named(list, name)) \in Seq(Rules)
  <1> DEFINE ks == Named(list, name)
             k == Min(ks)
  <1>1. ks \subseteq 1..Len(list) /\ Len(list) \in Nat BY DEF Named
  <1>2. ks \in SUBSET Nat BY <1>1
  <1> HIDE DEF ks
  <1>3. k \in ks BY <1>2, LeastOf DEF ks
  <1>4. k \in 1..Len(list) BY <1>1, <1>3
  <1> HIDE DEF k
  <1>5. SubSeq(list, 1, k - 1) \in Seq(Rules) /\ SubSeq(list, k + 1, Len(list)) \in Seq(Rules)
    BY <1>1, <1>4
  <1> QED BY <1>5 DEF DropFirst, RemoveAt, k, ks

LEMMA EnginesNext ==
  ASSUME rules \in Engines, [Next]_vars PROVE rules' \in Engines
  <1> DEFINE e == rules
  <1>0. e \in Engines OBVIOUS
  <1>1. /\ \A list \in Seq(Rules) : [e EXCEPT !.config = list] \in Engines
        /\ \A list \in Seq(Rules) : [e EXCEPT !.runtime = list] \in Engines
        /\ \A on \in BOOLEAN : [e EXCEPT !.enabled = on] \in Engines
        /\ e.config \in Seq(Rules) /\ e.runtime \in Seq(Rules)
    BY <1>0 DEF Engines
  <1>2. ASSUME NEW r \in Addable, Add(r) PROVE rules' \in Engines
    <2> DEFINE Old == Named(e.runtime, NameOf[r])
               Rest == IF Old = {} THEN e.runtime ELSE DropFirst(e.runtime, Old)
    <2>1. r \in Rules BY RemapAssumption
    <2>2. Rest \in Seq(Rules) BY <1>1, DroppedFirst
    <2>3. rules' = [e EXCEPT !.runtime = Append(Rest, r)] BY <1>2 DEF Add, Change, AddRule
    <2> HIDE DEF Rest, e
    <2>4. Append(Rest, r) \in Seq(Rules) BY <2>1, <2>2
    <2> QED BY <1>1, <2>3, <2>4
  <1>3. ASSUME NEW r \in Addable, RemoveNamed(NameOf[r]) PROVE rules' \in Engines
    <2> DEFINE Run == Named(e.runtime, NameOf[r])
               Conf == Named(e.config, NameOf[r])
    <2>1. rules' = RemoveRule(e, NameOf[r]) BY <1>3 DEF RemoveNamed, Change
    <2>2. CASE Run # {}
      <3>1. rules' = [e EXCEPT !.runtime = DropFirst(e.runtime, Run)]
        BY <2>1, <2>2 DEF RemoveRule
      <3> QED BY <1>1, <2>2, <3>1, DroppedFirst
    <2>3. CASE Run = {} /\ Conf # {}
      <3>1. rules' = [e EXCEPT !.config = DropFirst(e.config, Conf)]
        BY <2>1, <2>3 DEF RemoveRule
      <3> QED BY <1>1, <2>3, <3>1, DroppedFirst
    <2>4. CASE Run = {} /\ Conf = {} BY <2>1, <2>4 DEF RemoveRule
    <2> QED BY <2>2, <2>3, <2>4
  <1>4. CASE Clear
    <2>1. rules' = [e EXCEPT !.runtime = <<>>] /\ <<>> \in Seq(Rules)
      BY <1>4 DEF Clear, Change, ClearRules
    <2> QED BY <1>1, <2>1
  <1>5. ASSUME NEW l \in ConfigLists, Reload(l) PROVE rules' \in Engines
    <2>1. rules' = [e EXCEPT !.config = l] /\ l \in Seq(Rules)
      BY <1>5, RemapAssumption DEF Reload, Change, LoadRules
    <2> QED BY <1>1, <2>1
  <1>6. ASSUME NEW on \in BOOLEAN, Enable(on) PROVE rules' \in Engines
    <2>1. rules' = [e EXCEPT !.enabled = on] BY <1>6 DEF Enable, Change, SwitchRules
    <2> QED BY <1>1, <2>1
  <1>7. CASE ~Changes
    <2>1. rules' = rules
      <3>1. ASSUME NEW d \in Devices, NEW i, Plug(d) \/ Unplug(d) \/ Press(d, i) \/ Release(d, i)
            PROVE rules' = rules
        BY <3>1 DEF Plug, Unplug, Press, Release
      <3>2. ASSUME NEW d, NEW i, NEW n, Turn(d, i, n) PROVE rules' = rules BY <3>2 DEF Turn
      <3>3. CASE NextNotch \/ NotchEnds \/ OutReturns \/ PressReturns \/ ReleaseModifiers \/ Forget
        BY <3>3 DEF NextNotch, NotchEnds, OutReturns, PressReturns, ReleaseModifiers, Forget
      <3>4. CASE Drain \/ Unclaim \/ Gone \/ ReevaluateNext
        BY <3>4 DEF Drain, Unclaim, Gone, ReevaluateNext
      <3>5. CASE Lock \/ Unlock \/ UNCHANGED vars BY <3>5 DEF Lock, Unlock, vars
      <3> QED BY <1>7, <3>1, <3>2, <3>3, <3>4, <3>5 DEF Next, Changes
    <2> QED BY <2>1
  <1> QED BY <1>2, <1>3, <1>4, <1>5, <1>6, <1>7 DEF Changes

-----------------------------------------------------------------------------
(* The escape hatch.                                                       *)

HasSuper(d) == d \in Keyboards /\ Super \in Inputs[d]

\* No keyboard but the one with Super has modifiers.
OneHasModifiers ==
  \A d \in Keyboards : HasSuper(d) => \A k \in Keyboards \ {d} : Inputs[k] \cap Modifiers = {}

\* No rule makes a key or a button of another device hold Super; a wheel may, whose
\* presses end with the event.
OthersLeaveSuper ==
  \A r \in Rules : \A d \in Devices \cap Matches[r] : ~HasSuper(d) =>
    \A i \in Physical(d) \cap DOMAIN Map[r] :
      Map[r][i].code # Super /\ Super \notin Map[r][i].mods

IsSuper(e) == e.out = Super \/ Super \in e.mods

\* Another device does not hold Super between events.
SuperAtHome ==
  \A d \in Devices : ~HasSuper(d) =>
    \A i \in DOMAIN held[d] : i \in Wheels \/ ~IsSuper(held[d][i])

\* A fed Super is in force.
SuperInForce == fed[Super] > 0 => Super \in mods

DownPhysical == \A d \in Devices : down[d] \subseteq Physical(d)

LEMMA SuperIsCode == Super \in Codes \ {NoCode} /\ Esc \in Codes \ {NoCode} /\ Super # Esc
  <1>0. Super \in Modifiers BY RemapAssumption
  <1>1. Super \in Codes /\ Esc \in Codes
    <2> DEFINE A == UNION {Inputs[d] : d \in Devices}
               B == {t.code : t \in UNION {Targets(r) : r \in Rules}}
    <2>1. Codes = A \cup Modifiers \cup {Esc} \cup B BY DEF Codes
    <2> HIDE DEF A, B
    <2> QED BY <1>0, <2>1
  <1>2. Super # NoCode /\ Esc # NoCode /\ Super # Esc BY RemapAssumption
  <1> QED BY <1>1, <1>2

LEMMA DownPhysicalNext ==
  ASSUME DownSets, DownPhysical, [Next]_vars PROVE DownPhysical'
  <1> USE DEF DownPhysical, DownSets
  <1>1. ASSUME NEW d \in Devices, NEW i \in Physical(d), Press(d, i) \/ Release(d, i)
        PROVE  DownPhysical'
    <2>1. \/ down' = [down EXCEPT ![d] = @ \cup {i}]
          \/ down' = [down EXCEPT ![d] = @ \ {i}]
      BY <1>1 DEF Press, Release
    <2> QED BY <2>1 DEF Physical
  <1>2. ASSUME NEW d \in Devices, Plug(d) \/ Unplug(d) PROVE DownPhysical'
    BY <1>2 DEF Plug, Unplug, Physical
  <1>3. ASSUME NEW d, NEW i, NEW n, Turn(d, i, n) PROVE DownPhysical' BY <1>3 DEF Turn, Physical
  <1>4. CASE Gone
    <2>1. down' = [down EXCEPT ![Now.dev] = {}] BY <1>4 DEF Gone
    <2> QED BY <2>1 DEF Physical
  <1>5. CASE NextNotch \/ NotchEnds \/ OutReturns \/ PressReturns \/ ReleaseModifiers \/ Forget
    <2>1. down' = down
      BY <1>5 DEF NextNotch, NotchEnds, OutReturns, PressReturns, ReleaseModifiers, Forget
    <2> QED BY <2>1 DEF Physical
  <1>6. CASE Drain \/ Unclaim \/ ReevaluateNext
    <2>1. down' = down BY <1>6 DEF Drain, Unclaim, ReevaluateNext
    <2> QED BY <2>1 DEF Physical
  <1>7. CASE Changes
    <2>1. PICK e : Change(e) BY <1>7, ChangesRules
    <2> QED BY <2>1 DEF Change, Physical
  <1>8. CASE Lock \/ Unlock \/ UNCHANGED vars BY <1>8 DEF Lock, Unlock, vars, Physical
  <1> QED BY <1>1, <1>2, <1>3, <1>4, <1>5, <1>6, <1>7, <1>8 DEF Next, Changes

\* What a press of another device is to have on record.
LEMMA ProducedHome ==
  ASSUME OthersLeaveSuper, rules \in Engines, NEW d \in Devices, ~HasSuper(d),
         NEW i \in Physical(d)
  PROVE  ~IsSuper(Produced(d, i, Decided(d, i)))
  <1> DEFINE r == Decides(rules, d, i)
             e == Decided(d, i)
             p == Produced(d, i, e)
  <1>1. Super # NoCode /\ (d \in Keyboards => i # Super)
    BY PhysicalInputs, RemapAssumption DEF HasSuper
  <1>2. PICK kind, target :
          /\ e = Entry(kind, target)
          /\ \/ target = NoTarget /\ kind # "key" /\ kind # "button"
             \/ r # NoRule /\ i \in DOMAIN Map[r] /\ target = Map[r][i]
    BY DEF Decided
  <1>3. target.code # Super /\ Super \notin target.mods
    <2>1. CASE target = NoTarget BY <1>1, <2>1 DEF NoTarget
    <2>2. CASE r # NoRule /\ i \in DOMAIN Map[r] /\ target = Map[r][i]
      <3>1. r \in Rules /\ d \in Matches[r] BY <2>2, DecidesMatching
      <3> HIDE DEF r
      <3> QED BY <2>2, <3>1 DEF OthersLeaveSuper
    <2> QED BY <1>2, <2>1, <2>2
  <1> HIDE DEF e, r
  <1>4. /\ e.kind = kind /\ e.target = target
        /\ e = [kind |-> kind, target |-> target, out |-> NoCode, mods |-> {}]
    BY <1>2 DEF Entry
  <1>5. \/ p.out = NoCode /\ p.mods = {}
        \/ p.out = i /\ p.mods = {} /\ d \in Keyboards
        \/ p.out = target.code /\ p.mods \subseteq target.mods
    <2>1. CASE e.kind = "pass" /\ d \in Keyboards
      <3>1. p = [e EXCEPT !.out = i] BY <2>1 DEF Produced
      <3> QED BY <1>4, <2>1, <3>1
    <2>2. CASE e.kind = "key" /\ e.target.code = NoCode
      <3>1. p = [e EXCEPT !.kind = "drop"] BY <2>2 DEF Produced
      <3> QED BY <1>4, <3>1
    <2>3. CASE e.kind = "key" /\ e.target.code # NoCode
      <3>1. p = [e EXCEPT !.out = e.target.code, !.mods = Needed(e.target.mods)]
        BY <2>3 DEF Produced
      <3> QED BY <1>4, <3>1 DEF Needed
    <2>4. CASE e.kind = "button"
      <3>1. p = [e EXCEPT !.out = e.target.code] BY <2>4 DEF Produced
      <3> QED BY <1>4, <3>1
    <2>5. CASE e.kind \notin {"key", "button"} /\ ~(e.kind = "pass" /\ d \in Keyboards)
      <3>1. p = e BY <2>5 DEF Produced
      <3> QED BY <1>4, <3>1
    <2> QED BY <2>1, <2>2, <2>3, <2>4, <2>5
  <1> HIDE DEF p
  <1>6. ~IsSuper(p) BY <1>1, <1>3, <1>5 DEF IsSuper
  <1> QED BY <1>6 DEF p, e

LEMMA PressHome ==
  ASSUME OthersLeaveSuper, rules \in Engines, HeldSets, DownSets, SuperAtHome,
         NEW d \in Devices, NEW i \in Inputs[d], NEW rest, PressEdge(d, i, rest)
  PROVE  SuperAtHome'
  <1>0. DOMAIN held = Devices BY DEF HeldSets
  <1>1. CASE held' = held BY <1>1 DEF SuperAtHome, HasSuper
  <1>2. ASSUME Gains(d, i), HasSuper(d) \/ i \in Wheels \/ ~IsSuper(held'[d][i])
        PROVE  SuperAtHome'
    BY <1>0, <1>2 DEF Gains, SuperAtHome, HasSuper
  <1>3. CASE ~Holds(d, i) /\ IsEscape(d, i)
    <2>1. HasSuper(d) BY <1>3 DEF IsEscape, DownSets, HasSuper
    <2>2. held' = held \/ Gains(d, i) BY <1>0, PressHeld
    <2> QED BY <1>1, <1>2, <2>1, <2>2
  <1>4. CASE ~Holds(d, i) /\ ~IsEscape(d, i)
    <2> DEFINE e == Produced(d, i, Decided(d, i))
    <2>1. Hold(d, i, e) BY <1>4 DEF PressEdge, Pressed
    <2>2. HasSuper(d) \/ i \in Wheels \/ ~IsSuper(e) BY ProducedHome DEF Physical
    <2> HIDE DEF e
    <2>3. Gains(d, i) /\ held'[d][i] = e BY <1>0, <2>1, HoldGains
    <2> QED BY <1>2, <2>2, <2>3
  <1>5. CASE Holds(d, i) BY <1>1, <1>5 DEF PressEdge
  <1> QED BY <1>3, <1>4, <1>5

LEMMA LosesHome ==
  ASSUME HeldSets, SuperAtHome, NEW d \in Devices, NEW i, held' = held \/ Loses(d, i)
  PROVE  SuperAtHome'
  BY DEF HeldSets, SuperAtHome, Loses, HasSuper

LEMMA HomeNext ==
  ASSUME OthersLeaveSuper, rules \in Engines, HeldSets, DownSets, TodoOK, SuperAtHome, [Next]_vars
  PROVE  SuperAtHome'
  <1>0. DOMAIN held = Devices BY DEF HeldSets
  <1>1. CASE held' = held BY <1>1 DEF SuperAtHome, HasSuper
  <1>2. ASSUME NEW d \in Devices, NEW i \in Physical(d), Press(d, i) PROVE SuperAtHome'
    <2>1. held' = held \/ PressEdge(d, i, <<>>) BY <1>2 DEF Press
    <2> QED BY <1>1, <2>1, PhysicalInputs, PressHome
  <1>3. ASSUME NEW d \in Devices, NEW i \in Physical(d), Release(d, i) PROVE SuperAtHome'
    <2>1. held' = held \/ ReleaseEdge(d, i, <<>>) BY <1>3 DEF Release
    <2> QED BY <1>0, <2>1, ReleaseHeld, LosesHome
  <1>4. CASE NextNotch
    <2>1. Now.in \in Inputs[Now.dev] /\ Now.dev \in Devices BY <1>4, NotchRest DEF NextNotch
    <2> DEFINE rest == <<Op("let go", Now.dev, Now.in)>> \o todo
    <2>2. held' = held \/ PressEdge(Now.dev, Now.in, rest) BY <1>4 DEF NextNotch
    <2> HIDE DEF rest
    <2> QED BY <1>1, <2>1, <2>2, PressHome
  <1>5. CASE NotchEnds
    <2>1. Now.dev \in Devices /\ ReleaseEdge(Now.dev, Now.in, Tail(todo))
      BY <1>5, LetGoRest DEF NotchEnds
    <2> QED BY <1>0, <2>1, ReleaseHeld, LosesHome
  <1>6. CASE Forget
    <2>1. ~AtLoop /\ Now.at = "forget" /\ held' = Without(Now.dev, Now.in) BY <1>6 DEF Forget, At
    <2>2. Now.dev \in Devices BY <2>1, Top
    <2> QED BY <1>0, <2>1, <2>2, WithoutLoses, LosesHome
  <1>7. CASE Drain
    <2>1. Now.dev \in Devices BY <1>7, DrainRest DEF Drain
    <2>2. held' = held \/ \E i : Released(Now.dev, i, "drain", todo) BY <1>7 DEF Drain
    <2>3. held' = held \/ \E i : Loses(Now.dev, i) BY <1>0, <2>1, <2>2, ReleasedHeld
    <2> QED BY <2>1, <2>3, LosesHome
  <1>8. ASSUME NEW d \in Devices, NEW i, NEW n, Plug(d) \/ Unplug(d) \/ Turn(d, i, n)
        PROVE  SuperAtHome'
    BY <1>1, <1>8 DEF Plug, Unplug, Turn
  <1>9. CASE OutReturns \/ PressReturns \/ ReleaseModifiers \/ Unclaim \/ Gone \/ ReevaluateNext
    BY <1>1, <1>9 DEF OutReturns, PressReturns, ReleaseModifiers, Unclaim, Gone, ReevaluateNext
  <1>10. CASE Changes
    <2>1. PICK e : Change(e) BY <1>10, ChangesRules
    <2> QED BY <1>1, <2>1 DEF Change
  <1>11. CASE Lock \/ Unlock \/ UNCHANGED vars BY <1>1, <1>11 DEF Lock, Unlock, vars
  <1> QED BY <1>2, <1>3, <1>4, <1>5, <1>6, <1>7, <1>8, <1>9, <1>10, <1>11 DEF Next, Changes

\* Feeding and lifting keys keep a fed Super in force.
LEMMA FeedForce ==
  ASSUME FedCounts, SuperInForce, NEW ms, NEW c, Feed(ms, c) PROVE SuperInForce'
  <1>0. Super \in Modifiers BY RemapAssumption
  <1>1. fed[Super] \in Nat /\ Super \in DOMAIN fed BY SuperIsCode DEF FedCounts
  <1>2. fed'[Super] = fed[Super] + (IF Super \in ms THEN 1 ELSE 0) + (IF Super = c THEN 1 ELSE 0)
    BY <1>1, SuperIsCode, FeedCounts
  <1>3. mods' = mods \cup {k \in (ms \cup {c}) \cap Modifiers : fed[k] = 0}
    BY DEF Feed, PressMods
  <1> QED BY <1>0, <1>1, <1>2, <1>3 DEF SuperInForce

LEMMA LiftForce ==
  ASSUME FedCounts, SuperInForce, NEW ks, Lift(ks) PROVE SuperInForce'
  <1>1. fed[Super] \in Nat /\ Super \in DOMAIN fed BY SuperIsCode DEF FedCounts
  <1>2. fed'[Super] = fed[Super] - (IF Super \in ks /\ fed[Super] > 0 THEN 1 ELSE 0)
    BY <1>1, SuperIsCode, LiftCounts
  <1>3. mods' = mods \ {k \in ks \cap Modifiers : fed[k] = 1} BY DEF Lift, ReleaseMods
  <1> QED BY <1>1, <1>2, <1>3 DEF SuperInForce

\* So does whatever lets go of modifiers that are not fed only.
LEMMA FedForce ==
  ASSUME SuperInForce, fed' = fed, NEW T, \A k \in T : fed[k] = 0, mods \ T \subseteq mods'
  PROVE  SuperInForce'
  BY DEF SuperInForce

LEMMA LeavesForce ==
  ASSUME SuperInForce, fed' = fed, NEW d, Leaves(d) PROVE SuperInForce'
  <1> DEFINE T == {k \in (IF d \in Keyboards THEN down[d] \cap Modifiers ELSE {}) :
                     fed[k] = 0 /\ \A g \in Group \ {d} : k \notin down[g]}
  <1>1. mods' = mods \ T /\ \A k \in T : fed[k] = 0 BY DEF Leaves
  <1> HIDE DEF T
  <1> QED BY <1>1, FedForce

LEMMA PressForce ==
  ASSUME FedCounts, SuperInForce, NEW d, NEW i, NEW rest, PressEdge(d, i, rest)
  PROVE  SuperInForce'
  <1>1. \/ UNCHANGED <<fed, mods>>
        \/ \E ms, c : Feed(ms, c)
    <2>1. CASE Holds(d, i) BY <2>1 DEF PressEdge
    <2>2. CASE ~Holds(d, i) /\ IsEscape(d, i) BY <2>2 DEF PressEdge, Escaped
    <2>3. CASE ~Holds(d, i) /\ ~IsEscape(d, i) BY <2>3 DEF PressEdge, Pressed, FeedNothing
    <2> QED BY <2>1, <2>2, <2>3
  <1> QED BY <1>1, FeedForce DEF SuperInForce

LEMMA ReleasedForce ==
  ASSUME FedCounts, SuperInForce, NEW d, NEW i, NEW of, NEW rest, Released(d, i, of, rest)
  PROVE  SuperInForce'
  <1>1. UNCHANGED <<fed, mods>> \/ \E ks : Lift(ks) BY DEF Released, FeedNothing
  <1> QED BY <1>1, LiftForce DEF SuperInForce

LEMMA ReleaseForce ==
  ASSUME FedCounts, SuperInForce, NEW d, NEW i, NEW rest, ReleaseEdge(d, i, rest)
  PROVE  SuperInForce'
  <1>1. Released(d, i, "release", rest) \/ UNCHANGED <<fed, mods>> BY DEF ReleaseEdge
  <1> QED BY <1>1, ReleasedForce DEF SuperInForce

\* The keyboard with Super is in the group, so nobody has fed it between events.
LEMMA NobodyFedSuper ==
  ASSUME OneHasModifiers, Sets, DownPhysical, SuperAtHome, HeldInv, Ledger, AtLoop,
         NEW g \in Keyboards \ claimed, Inputs[g] \cap Modifiers # {}
  PROVE  fed[Super] = 0
  <1>1. Elems(todo) = {} BY ElemsEmpty DEF AtLoop
  <1>2. \A d \in Devices : \A i \in DOMAIN held[d] : d \in claimed /\ i \in down[d]
    BY <1>1 DEF HeldInv, Pending
  <1>3. ASSUME NEW d \in Devices, NEW i \in DOMAIN held[d] PROVE ~IsSuper(held[d][i])
    <2>1. d \in claimed /\ i \notin Wheels BY <1>2 DEF DownPhysical, Physical
    <2>2. ~HasSuper(d)
      <3> SUFFICES ASSUME HasSuper(d) PROVE FALSE OBVIOUS
      <3>1. d \in Keyboards /\ g \in Keyboards \ {d} BY <2>1 DEF HasSuper
      <3> QED BY <3>1 DEF OneHasModifiers
    <2> QED BY <2>1, <2>2 DEF SuperAtHome
  <1>4. KeyOwed(Super) = {} /\ ModOwed(Super) = {}
    BY <1>3 DEF KeyOwed, ModOwed, HeldInputs, Holds, IsSuper
  <1>5. Cardinality({}) = 0 BY FS_EmptySet
  <1> QED BY <1>4, <1>5, SuperIsCode DEF Ledger

LEMMA LoopForce ==
  ASSUME OneHasModifiers, Sets, DownPhysical, SuperAtHome, HeldInv, Ledger, SuperInForce,
         NEW d \in Devices, NEW i \in Physical(d), Press(d, i) \/ Release(d, i)
  PROVE  SuperInForce'
  <1>0. FedCounts BY LedgerCounts
  <1>1. CASE d \in claimed
    BY <1>0, <1>1, PressForce, ReleaseForce DEF Press, Release
  <1>2. CASE d \notin claimed
    <2>1. Copied(d, i) /\ fed' = fed /\ AtLoop BY <1>2 DEF Press, Release
    <2>2. CASE d \in Keyboards /\ i \in Modifiers
      <3>1. Inputs[d] \cap Modifiers # {} BY <2>2, PhysicalInputs
      <3>2. fed[Super] = 0 BY <1>2, <2>1, <2>2, <3>1, NobodyFedSuper
      <3> QED BY <2>1, <3>2 DEF SuperInForce
    <2>3. CASE ~(d \in Keyboards /\ i \in Modifiers)
      BY <2>1, <2>3 DEF Copied, SuperInForce
    <2> QED BY <2>2, <2>3
  <1> QED BY <1>1, <1>2

LEMMA ForceNext ==
  ASSUME OneHasModifiers, Sets, DownPhysical, SuperAtHome, HeldInv, Ledger, SuperInForce,
         [Next]_vars
  PROVE  SuperInForce'
  <1>0. FedCounts BY LedgerCounts
  <1>1. CASE UNCHANGED <<fed, mods>> BY <1>1 DEF SuperInForce
  <1>2. ASSUME NEW d \in Devices, NEW i \in Physical(d), Press(d, i) \/ Release(d, i)
        PROVE  SuperInForce'
    BY <1>2, LoopForce
  <1>3. ASSUME NEW d \in Devices, NEW i, NEW n, Plug(d) \/ Unplug(d) \/ Turn(d, i, n)
        PROVE  SuperInForce'
    BY <1>1, <1>3 DEF Plug, Unplug, Turn
  <1>4. CASE NextNotch
    <2> DEFINE rest == <<Op("let go", Now.dev, Now.in)>> \o todo
    <2>1. UNCHANGED <<fed, mods>> \/ PressEdge(Now.dev, Now.in, rest) BY <1>4 DEF NextNotch
    <2> HIDE DEF rest
    <2> QED BY <1>0, <1>1, <2>1, PressForce
  <1>5. CASE NotchEnds BY <1>0, <1>5, ReleaseForce DEF NotchEnds
  <1>6. CASE ReleaseModifiers
    <2>1. UNCHANGED <<fed, mods>> \/ \E ks : Lift(ks) BY <1>6 DEF ReleaseModifiers, FeedNothing
    <2> QED BY <1>0, <1>1, <2>1, LiftForce
  <1>7. CASE Drain
    <2>1. UNCHANGED <<fed, mods>> \/ \E i : Released(Now.dev, i, "drain", todo)
      BY <1>7 DEF Drain
    <2> QED BY <1>0, <1>1, <2>1, ReleasedForce
  <1>8. CASE Unclaim BY <1>8 DEF Unclaim, Joins, SuperInForce
  <1>9. CASE Gone
    <2>1. fed' = fed /\ Leaves(Now.dev) BY <1>9 DEF Gone
    <2> QED BY <2>1, LeavesForce
  <1>10. CASE ReevaluateNext
    <2>1. fed' = fed /\ (mods' = mods \/ \E d : Leaves(d)) BY <1>10 DEF ReevaluateNext
    <2> QED BY <1>1, <2>1, LeavesForce
  <1>11. CASE OutReturns \/ PressReturns \/ Forget
    BY <1>1, <1>11 DEF OutReturns, PressReturns, Forget
  <1>12. CASE Changes
    <2>1. PICK e : Change(e) BY <1>12, ChangesRules
    <2> QED BY <1>1, <2>1 DEF Change
  <1>13. CASE Lock \/ Unlock \/ UNCHANGED vars BY <1>1, <1>13 DEF Lock, Unlock, vars
  <1> QED BY <1>2, <1>3, <1>4, <1>5, <1>6, <1>7, <1>8, <1>9, <1>10, <1>11, <1>12, <1>13
          DEF Next, Changes

\* Only its own press puts a key down.
LEMMA DownGrows ==
  ASSUME DownSets, NEW d \in Devices, NEW i, [Next]_vars, i \notin down[d], i \in down'[d]
  PROVE  Press(d, i)
  <1> USE DEF DownSets
  <1>1. ASSUME NEW c \in Devices, NEW j \in Physical(c), Press(c, j) PROVE Press(d, i)
    <2>1. down' = [down EXCEPT ![c] = @ \cup {j}] BY <1>1 DEF Press
    <2>2. c = d /\ j = i BY <2>1
    <2> QED BY <1>1, <2>2
  <1>2. ASSUME NEW c \in Devices, NEW j, Release(c, j) PROVE FALSE
    <2>1. down' = [down EXCEPT ![c] = @ \ {j}] BY <1>2 DEF Release
    <2> QED BY <2>1
  <1>3. ASSUME NEW c \in Devices, NEW j, NEW n, Plug(c) \/ Unplug(c) \/ Turn(c, j, n) PROVE FALSE
    BY <1>3 DEF Plug, Unplug, Turn
  <1>4. CASE Gone
    <2>1. down' = [down EXCEPT ![Now.dev] = {}] BY <1>4 DEF Gone
    <2> QED BY <2>1
  <1>5. CASE NextNotch \/ NotchEnds \/ OutReturns \/ PressReturns \/ ReleaseModifiers \/ Forget
    BY <1>5 DEF NextNotch, NotchEnds, OutReturns, PressReturns, ReleaseModifiers, Forget
  <1>6. CASE Drain \/ Unclaim \/ ReevaluateNext BY <1>6 DEF Drain, Unclaim, ReevaluateNext
  <1>7. CASE Changes
    <2>1. PICK e : Change(e) BY <1>7, ChangesRules
    <2> QED BY <2>1 DEF Change
  <1>8. CASE Lock \/ Unlock \/ UNCHANGED vars BY <1>8 DEF Lock, Unlock, vars
  <1> QED BY <1>1, <1>2, <1>3, <1>4, <1>5, <1>6, <1>7, <1>8 DEF Next, Changes

\* What the hatch does, whatever the rules say; Super is lost only to a keyboard of the
\* group that has it down, or to a Super that was fed before.
Hatch(d) ==
  /\ fed'[Esc] > fed[Esc] /\ Now' = CallOut(d, "press", TRUE, TRUE)
  /\ Super \in mods' \/ Super \in GroupKeys \/ fed[Super] > 0
  /\ mods \subseteq mods'

LEMMA HatchOpens ==
  ASSUME Sets, HeldInv, Ledger, NEW d \in Keyboards, Escapes(d), [Next]_vars
  PROVE  Hatch(d)
  <1>0. FedCounts /\ d \in Devices /\ DownSets BY LedgerCounts, SetsParts DEF Devices
  <1>1. Press(d, Esc) BY <1>0, DownGrows DEF Escapes
  <1>2. AtLoop /\ PressEdge(d, Esc, <<>>) BY <1>1 DEF Press, Escapes
  <1>3. Elems(todo) = {} BY <1>2, ElemsEmpty DEF AtLoop
  <1>4. ~Holds(d, Esc) BY <1>0, <1>3 DEF HeldInv, Holds, Pending, Escapes
  <1>5. Escaped(d, <<>>) BY <1>2, <1>4 DEF PressEdge, IsEscape, Escapes
  <1> DEFINE o == CallOut(d, "press", TRUE, TRUE)
  <1>6. Feed(Needed({Super}), Esc) /\ todo' = <<o>> \o <<>> BY <1>5 DEF Escaped, Entry
  <1>7. Now' = o
    <2>1. Head(<<o>> \o <<>>) = o OBVIOUS
    <2> QED BY <1>6, <2>1 DEF Now
  <1>8. fed[Esc] \in Nat /\ fed[Super] \in Nat /\ Esc \in DOMAIN fed
    BY <1>0, SuperIsCode DEF FedCounts
  <1>9. fed'[Esc] = fed[Esc] + (IF Esc \in Needed({Super}) THEN 1 ELSE 0) + 1
    BY <1>0, <1>6, <1>8, SuperIsCode, FeedCounts
  <1>10. mods' = mods \cup {k \in (Needed({Super}) \cup {Esc}) \cap Modifiers : fed[k] = 0}
    BY <1>6 DEF Feed, PressMods
  <1>11. Super \in mods' \/ Super \in GroupKeys \/ fed[Super] > 0
    BY <1>8, <1>10, RemapAssumption DEF Needed
  <1> QED BY <1>7, <1>8, <1>9, <1>10, <1>11 DEF Hatch

EscapeInductive ==
  /\ ClaimsInductive /\ Books
  /\ rules \in Engines /\ DownPhysical /\ SuperAtHome /\ SuperInForce

LEMMA EscapeInit == Init => EscapeInductive
  <1> SUFFICES ASSUME Init PROVE EscapeInductive OBVIOUS
  <1>1. ClaimsInductive /\ Books BY ClaimsInit, BooksInit
  <1>2. rules \in Engines
    <2>1. PICK l \in ConfigLists : rules = FromConfig(l) BY DEF Init
    <2>2. l \in Seq(Rules) /\ <<>> \in Seq(Rules) BY RemapAssumption
    <2> QED BY <2>1, <2>2 DEF FromConfig, Engines
  <1>3. DownPhysical BY DEF Init, DownPhysical
  <1>4. SuperAtHome
    <2>1. \A d \in Devices : DOMAIN held[d] = {} BY DEF Init
    <2> QED BY <2>1 DEF SuperAtHome
  <1>5. SuperInForce
    <2>1. fed[Super] = 0 BY SuperIsCode DEF Init
    <2> QED BY <2>1 DEF SuperInForce
  <1> QED BY <1>1, <1>2, <1>3, <1>4, <1>5 DEF EscapeInductive

LEMMA EscapeStep ==
  ASSUME "drain" \notin CommandsFrom, ~SelfRemap, OneHasModifiers, OthersLeaveSuper,
         EscapeInductive, [Next]_vars
  PROVE  EscapeInductive'
  <1>1. /\ ClaimsInductive /\ Books /\ rules \in Engines
        /\ DownPhysical /\ SuperAtHome /\ SuperInForce
    BY DEF EscapeInductive
  <1>2. Sets /\ TodoOK /\ HeldSets /\ DownSets BY <1>1, SetsParts DEF ClaimsInductive
  <1>3. HeldInv /\ Ledger BY <1>1 DEF Books
  <1>4. ClaimsInductive' /\ Books' BY <1>1, ClaimsStep, BooksNext
  <1>5. rules' \in Engines BY <1>1, EnginesNext
  <1>6. DownPhysical' BY <1>1, <1>2, DownPhysicalNext
  <1>7. SuperAtHome' BY <1>1, <1>2, HomeNext
  <1>8. SuperInForce' BY <1>1, <1>2, <1>3, ForceNext
  <1>9. Engines' = Engines BY DEF Engines
  <1> QED BY <1>4, <1>5, <1>6, <1>7, <1>8, <1>9 DEF EscapeInductive

\* Super+Escape on a claimed keyboard is fed as Escape, whatever the rules make of it and
\* whichever keyboards there are; Super fails to be in force with it only where a keyboard
\* of the group has it down, or a device has it fed already (handle_edge()).
THEOREM HatchIsOpen ==
  "drain" \notin CommandsFrom /\ ~SelfRemap
    => (Spec => [][\A d \in Keyboards : Escapes(d) => Hatch(d)]_vars)
  <1> SUFFICES ASSUME "drain" \notin CommandsFrom, ~SelfRemap
               PROVE  Spec => [][\A d \in Keyboards : Escapes(d) => Hatch(d)]_vars
    OBVIOUS
  <1> DEFINE IInv == ClaimsInductive /\ Books
  <1>1. Init => IInv BY ClaimsInit, BooksInit
  <1>2. IInv /\ [Next]_vars => IInv' BY ClaimsStep, BooksNext
  <1>3. IInv /\ [Next]_vars => [\A d \in Keyboards : Escapes(d) => Hatch(d)]_vars
    BY HatchOpens DEF ClaimsInductive, Books
  <1> QED BY <1>1, <1>2, <1>3, PTL DEF Spec

\* Super+Escape on a claimed keyboard reaches the compositor as Super and Escape, where
\* one keyboard has the modifiers and no rule makes another device's key hold Super: then
\* the group never copies modifiers over a Super that is fed.
THEOREM EscapeAlwaysWorks ==
  "drain" \notin CommandsFrom /\ ~SelfRemap /\ OneHasModifiers /\ OthersLeaveSuper
    => (Spec => EscapeWorks)
  <1> SUFFICES ASSUME "drain" \notin CommandsFrom, ~SelfRemap, OneHasModifiers, OthersLeaveSuper
               PROVE  Spec => EscapeWorks
    OBVIOUS
  <1>1. Init => EscapeInductive BY EscapeInit
  <1>2. EscapeInductive /\ [Next]_vars => EscapeInductive' BY EscapeStep
  <1>3. ASSUME EscapeInductive, [Next]_vars, NEW d \in Keyboards, Escapes(d)
        PROVE  Super \in mods' /\ fed'[Esc] > fed[Esc] /\ Now' = CallOut(d, "press", TRUE, TRUE)
    <2>1. Sets /\ HeldInv /\ Ledger /\ SuperInForce
      BY <1>3 DEF EscapeInductive, ClaimsInductive, Books
    <2>2. Hatch(d) BY <1>3, <2>1, HatchOpens
    <2>3. d \in Devices /\ d \in claimed /\ Super \in down[d] BY <1>3 DEF Escapes, Devices
    <2>4. HasSuper(d) BY <2>1, <2>3 DEF Sets, HasSuper
    <2>5. Super \notin GroupKeys
      <3> SUFFICES ASSUME NEW k \in Group, Super \in down[k] PROVE FALSE BY DEF GroupKeys
      <3>1. k \in Keyboards \ {d} BY <2>3 DEF Group
      <3>2. Super \in Inputs[k] BY <2>1, <3>1 DEF Sets, Devices
      <3> QED BY <2>4, <3>1, <3>2, RemapAssumption DEF OneHasModifiers
    <2> QED BY <2>1, <2>2, <2>5 DEF Hatch, SuperInForce
  <1>4. EscapeInductive /\ [Next]_vars
          => [\A d \in Keyboards :
                Escapes(d) => /\ Super \in mods' /\ fed'[Esc] > fed[Esc]
                              /\ Now' = CallOut(d, "press", TRUE, TRUE)]_vars
    BY <1>3
  <1> QED BY <1>1, <1>2, <1>4, PTL DEF Spec, EscapeWorks

-----------------------------------------------------------------------------
(* Types.                                                                  *)

\* What a step does to the group's state, if anything.
MarksStep ==
  \/ fed' = fed /\ mods' \subseteq mods \cup Modifiers
  \/ \E ms, c : Feed(ms, c)
  \/ \E ks : Lift(ks)

LEMMA EdgeMarks ==
  ASSUME NEW d, NEW i, NEW of, NEW rest,
         PressEdge(d, i, rest) \/ ReleaseEdge(d, i, rest) \/ Released(d, i, of, rest)
  PROVE  MarksStep
  <1> USE DEF MarksStep
  <1>1. ASSUME NEW p, Released(d, i, p, rest) PROVE MarksStep
    BY <1>1 DEF Released, FeedNothing
  <1>2. CASE ReleaseEdge(d, i, rest) BY <1>1, <1>2 DEF ReleaseEdge
  <1>3. CASE PressEdge(d, i, rest)
    <2>1. CASE Holds(d, i) BY <1>3, <2>1 DEF PressEdge
    <2>2. CASE ~Holds(d, i) /\ IsEscape(d, i) BY <1>3, <2>2 DEF PressEdge, Escaped
    <2>3. CASE ~Holds(d, i) /\ ~IsEscape(d, i)
      BY <1>3, <2>3 DEF PressEdge, Pressed, FeedNothing
    <2> QED BY <2>1, <2>2, <2>3
  <1> QED BY <1>1, <1>2, <1>3

LEMMA MarksNext ==
  ASSUME [Next]_vars PROVE MarksStep
  <1>1. CASE UNCHANGED <<fed, mods>> BY <1>1 DEF MarksStep
  <1>2. ASSUME NEW d \in Devices, NEW i \in Physical(d), Press(d, i) \/ Release(d, i)
        PROVE  MarksStep
    <2>1. \/ PressEdge(d, i, <<>>) \/ ReleaseEdge(d, i, <<>>)
          \/ fed' = fed /\ Copied(d, i)
      BY <1>2 DEF Press, Release
    <2>2. Copied(d, i) => mods' \subseteq mods \cup Modifiers BY DEF Copied
    <2> QED BY <2>1, <2>2, EdgeMarks DEF MarksStep
  <1>3. ASSUME NEW d \in Devices, NEW i, NEW n, Plug(d) \/ Unplug(d) \/ Turn(d, i, n)
        PROVE  MarksStep
    BY <1>1, <1>3 DEF Plug, Unplug, Turn
  <1>4. CASE NextNotch
    <2> DEFINE rest == <<Op("let go", Now.dev, Now.in)>> \o todo
    <2>1. UNCHANGED <<fed, mods>> \/ PressEdge(Now.dev, Now.in, rest) BY <1>4 DEF NextNotch
    <2> HIDE DEF rest
    <2> QED BY <1>1, <2>1, EdgeMarks
  <1>5. CASE NotchEnds BY <1>5, EdgeMarks DEF NotchEnds
  <1>6. CASE ReleaseModifiers
    BY <1>6 DEF ReleaseModifiers, FeedNothing, MarksStep
  <1>7. CASE Drain
    <2>1. UNCHANGED <<fed, mods>> \/ \E i : Released(Now.dev, i, "drain", todo)
      BY <1>7 DEF Drain
    <2> QED BY <1>1, <2>1, EdgeMarks
  <1>8. CASE Unclaim BY <1>8 DEF Unclaim, Joins, MarksStep
  <1>9. CASE Gone BY <1>9 DEF Gone, Leaves, MarksStep
  <1>10. CASE ReevaluateNext
    <2>1. fed' = fed /\ (mods' = mods \/ \E d : Leaves(d)) BY <1>10 DEF ReevaluateNext
    <2> QED BY <2>1 DEF Leaves, MarksStep
  <1>11. CASE OutReturns \/ PressReturns \/ Forget
    BY <1>1, <1>11 DEF OutReturns, PressReturns, Forget
  <1>12. CASE Changes
    <2>1. PICK e : Change(e) BY <1>12, ChangesRules
    <2> QED BY <1>1, <2>1 DEF Change
  <1>13. CASE Lock \/ Unlock \/ UNCHANGED vars BY <1>1, <1>13 DEF Lock, Unlock, vars
  <1> QED BY <1>2, <1>3, <1>4, <1>5, <1>6, <1>7, <1>8, <1>9, <1>10, <1>11, <1>12, <1>13
          DEF Next, Changes

MarksOK == fed \in [Codes -> Nat] /\ mods \subseteq Modifiers

LEMMA MarksKept ==
  ASSUME MarksOK, [Next]_vars PROVE MarksOK'
  <1>0. Codes' = Codes BY DEF Codes
  <1>1. ASSUME NEW ms, NEW c, Feed(ms, c) PROVE MarksOK'
    <2>1. \A f \in [Codes -> Nat] : \A ks : Plus(f, ks) \in [Codes -> Nat] BY DEF Plus
    <2>2. fed' \in [Codes -> Nat] BY <1>1, <2>1 DEF Feed, MarksOK
    <2>3. mods' \subseteq Modifiers BY <1>1 DEF Feed, PressMods, MarksOK
    <2> QED BY <1>0, <2>2, <2>3 DEF MarksOK
  <1>2. ASSUME NEW ks, Lift(ks) PROVE MarksOK'
    <2>1. fed' \in [Codes -> Nat] BY <1>2 DEF Lift, Minus, MarksOK
    <2>2. mods' \subseteq Modifiers BY <1>2 DEF Lift, ReleaseMods, MarksOK
    <2> QED BY <1>0, <2>1, <2>2 DEF MarksOK
  <1>3. CASE fed' = fed /\ mods' \subseteq mods \cup Modifiers BY <1>0, <1>3 DEF MarksOK
  <1> QED BY <1>1, <1>2, <1>3, MarksNext DEF MarksStep

\* A wheel keeps a whole notch or more only while its notches are pressed.
Turns(t) == {x.dev : x \in {x \in Elems(t) : x.at = "notch"}}
TravelOK ==
  /\ travel \in [Devices -> Int]
  /\ \A d \in Devices : d \in Turns(todo) \/ travel[d] \in (1 - Notch) .. (Notch - 1)

LEMMA TurnsBelow ==
  ASSUME NEW S, NEW s \in Seq(S), NEW T, NEW t \in Seq(T)
  PROVE  Turns(t) \subseteq Turns(s \o t)
  <1> DEFINE U == S \cup T
             u == s \o t
  <1>1. s \in Seq(U) /\ t \in Seq(U) OBVIOUS
  <1>2. Len(u) = Len(s) + Len(t) /\ Len(s) \in Nat /\ Len(t) \in Nat BY <1>1
  <1>3. \A k \in 1..Len(t) : u[Len(s) + k] = t[k] BY <1>1
  <1> HIDE DEF u
  <1>4. \A k \in 1..Len(t) : Len(s) + k \in 1..Len(u) BY <1>2
  <1>5. Elems(t) \subseteq Elems(u) BY <1>3, <1>4 DEF Elems
  <1>6. Turns(t) \subseteq Turns(u) BY <1>5 DEF Turns
  <1> QED BY <1>6 DEF u


LEMMA PushKeeps ==
  ASSUME NEW T, NEW rest \in Seq(T),
         \/ todo' = rest
         \/ \E o : todo' = <<o>> \o rest
         \/ \E o, p : todo' = <<o>> \o (<<p>> \o rest)
         \/ \E o, p, q : todo' = <<o>> \o (<<p>> \o (<<q>> \o rest))
  PROVE  Turns(rest) \subseteq Turns(todo')
  <1>0. PICK o, p, q : \/ todo' = rest
                       \/ todo' = <<o>> \o rest
                       \/ todo' = <<o>> \o (<<p>> \o rest)
                       \/ todo' = <<o>> \o (<<p>> \o (<<q>> \o rest))
    OBVIOUS
  <1> DEFINE U == T \cup {o, p, q}
  <1>1. ASSUME NEW t \in Seq(U), NEW x \in U
        PROVE  <<x>> \o t \in Seq(U) /\ Turns(t) \subseteq Turns(<<x>> \o t)
    <2>1. <<x>> \in Seq(U) BY <1>1
    <2> HIDE DEF U
    <2> QED BY <2>1, TurnsBelow, Pushed
  <1>2. rest \in Seq(U) /\ o \in U /\ p \in U /\ q \in U OBVIOUS
  <1> HIDE DEF U
  <1> QED BY <1>0, <1>1, <1>2

LEMMA EdgeKeeps ==
  ASSUME NEW d, NEW i, NEW of, NEW rest \in Seq(Ops),
         PressEdge(d, i, rest) \/ ReleaseEdge(d, i, rest) \/ Released(d, i, of, rest)
  PROVE  Turns(rest) \subseteq Turns(todo')
  <1>1. CASE PressEdge(d, i, rest)
    <2>1. PressLeaves(d, i, rest) BY <1>1, PressTodo
    <2>2. \/ todo' = rest
          \/ \E o : todo' = <<o>> \o rest
          \/ \E o, p : todo' = <<o>> \o (<<p>> \o rest)
      BY <2>1 DEF PressLeaves
    <2> QED BY <2>2, PushKeeps
  <1>2. ASSUME NEW p, Released(d, i, p, rest) PROVE Turns(rest) \subseteq Turns(todo')
    <2>1. ReleaseLeaves(d, i, p, rest) BY <1>2, ReleaseTodo
    <2> QED BY <2>1, PushKeeps DEF ReleaseLeaves
  <1>3. CASE ReleaseEdge(d, i, rest)
    <2>1. todo' = rest \/ Released(d, i, "release", rest) BY <1>3 DEF ReleaseEdge
    <2> QED BY <1>2, <2>1
  <1> QED BY <1>1, <1>2, <1>3

LEMMA PopKeeps ==
  ASSUME TodoOK, ~AtLoop, Now.at # "notch"
  PROVE  Turns(Tail(todo)) = Turns(todo) /\ Tail(todo) \in Seq(Ops) /\ todo \in Seq(Ops)
  <1>1. todo \in Seq(Ops) /\ todo # <<>> /\ Tail(todo) \in Seq(Ops) BY Top
  <1>2. Elems(todo) = {Now} \cup Elems(Tail(todo)) BY <1>1, ElemsPop DEF Now
  <1> QED BY <1>1, <1>2 DEF Turns

LEMMA TravelSame ==
  ASSUME TravelOK, travel' = travel, Turns(todo) \subseteq Turns(todo') PROVE TravelOK'
  BY DEF TravelOK

LEMMA NotchTravel ==
  ASSUME TodoOK, TravelOK, NextNotch PROVE TravelOK'
  <1> DEFINE d == Now.dev
             i == Now.in
             rest == <<Op("let go", d, i)>> \o todo
             IsFull == travel[d] >= Notch \/ travel[d] <= -Notch
  <1>0. At("notch") /\ ~AtLoop BY DEF NextNotch, At
  <1>1. /\ d \in Devices /\ i \in AllInputs /\ Tail(todo) = <<>>
        /\ todo \in Seq(Ops) /\ todo # <<>> /\ Now.at = "notch"
    BY <1>0, NotchRest, Top DEF At
  <1>2. Elems(todo) = {Now} BY <1>1, ElemsPop, ElemsEmpty DEF Now
  <1>3. Turns(todo) = {d} BY <1>1, <1>2 DEF Turns
  <1>4. Notch \in Nat \ {0} /\ travel[d] \in Int BY <1>1, RemapAssumption DEF TravelOK
  <1>5. CASE IsFull
    <2>1. /\ travel' = [travel EXCEPT ![d] = IF @ > 0 THEN @ - Notch ELSE @ + Notch]
          /\ PressEdge(d, i, rest)
      BY <1>5 DEF NextNotch
    <2>2. Op("let go", d, i) \in Ops BY <1>1, OpsThereAre DEF Steps
    <2>3. rest \in Seq(Ops) /\ Turns(todo) \subseteq Turns(rest)
      <3> DEFINE o == Op("let go", d, i)
      <3>1. o \in Ops BY <2>2
      <3> HIDE DEF o
      <3>2. <<o>> \in Seq(Ops) BY <3>1
      <3>3. <<o>> \o todo \in Seq(Ops) /\ Turns(todo) \subseteq Turns(<<o>> \o todo)
        BY <1>1, <3>1, <3>2, Pushed, TurnsBelow
      <3> QED BY <3>3 DEF o
    <2> HIDE DEF rest
    <2>4. d \in Turns(todo') BY <1>3, <2>1, <2>3, EdgeKeeps
    <2> HIDE DEF d
    <2>5. travel' \in [Devices -> Int] /\ \A c \in Devices \ {d} : travel'[c] = travel[c]
      BY <1>1, <1>4, <2>1 DEF TravelOK
    <2> QED BY <1>3, <2>4, <2>5 DEF TravelOK
  <1>6. CASE ~IsFull
    <2>1. travel' = travel BY <1>6 DEF NextNotch
    <2>2. travel[d] \in (1 - Notch) .. (Notch - 1) BY <1>4, <1>6
    <2> HIDE DEF d
    <2> QED BY <1>3, <2>1, <2>2 DEF TravelOK
  <1> QED BY <1>5, <1>6

LEMMA TravelNext ==
  ASSUME Sets, TodoOK, TravelOK, [Next]_vars PROVE TravelOK'
  <1>0. AtLoop => Turns(todo) = {} BY ElemsEmpty DEF AtLoop, Turns
  <1>1. ASSUME travel' = travel, AtLoop PROVE TravelOK' BY <1>0, <1>1, TravelSame
  <1>2. ASSUME NEW d \in Devices, NEW i,
               Plug(d) \/ Unplug(d) \/ Press(d, i) \/ Release(d, i)
        PROVE  TravelOK'
    BY <1>1, <1>2 DEF Plug, Unplug, Press, Release
  <1>3. ASSUME NEW d \in Devices, NEW i, NEW n \in Deltas, Turn(d, i, n) PROVE TravelOK'
    <2>1. AtLoop /\ todo' = <<Op("notch", d, i)>> BY <1>3 DEF Turn
    <2>2. d \in Turns(todo')
      <3>1. Elems(todo') = {Op("notch", d, i)} BY <2>1, OneElem
      <3> QED BY <3>1 DEF Turns, Op
    <2>3. n \in Int /\ -n \in Int /\ travel[d] \in Int BY RemapAssumption DEF TravelOK
    <2>4. PICK k, m : /\ k \in {0, travel[d]} /\ m \in {n, -n}
                      /\ travel' = [travel EXCEPT ![d] = k + m]
      BY <1>3 DEF Turn
    <2>5. k + m \in Int BY <2>3, <2>4
    <2>6. travel' \in [Devices -> Int] /\ \A c \in Devices \ {d} : travel'[c] = travel[c]
      BY <2>4, <2>5 DEF TravelOK
    <2> QED BY <1>0, <2>1, <2>2, <2>6 DEF TravelOK
  <1>4. CASE NextNotch BY <1>4, NotchTravel
  <1>5. CASE NotchEnds
    <2>1. /\ travel' = travel /\ ~AtLoop /\ Now.at = "let go"
          /\ ReleaseEdge(Now.dev, Now.in, Tail(todo))
      BY <1>5 DEF NotchEnds, At
    <2>2. Turns(Tail(todo)) = Turns(todo) /\ Tail(todo) \in Seq(Ops) BY <2>1, PopKeeps
    <2> QED BY <2>1, <2>2, EdgeKeeps, TravelSame
  <1>6. CASE OutReturns \/ PressReturns \/ ReleaseModifiers \/ Forget \/ Unclaim \/ Gone
    <2>1. travel' = travel /\ ~AtLoop /\ Now.at # "notch" /\ todo' = <<>> \o Tail(todo)
      BY <1>6 DEF OutReturns, PressReturns, ReleaseModifiers, Forget, Unclaim, Gone, At, Does
    <2>2. Turns(Tail(todo)) = Turns(todo) /\ Tail(todo) \in Seq(Ops) BY <2>1, PopKeeps
    <2>3. todo' = Tail(todo) BY <2>1, <2>2
    <2> QED BY <2>1, <2>2, <2>3, TravelSame
  <1>7. CASE Drain
    <2>1. ~AtLoop /\ Now.at = "drain" /\ Now.dev \in Devices BY <1>7, DrainRest DEF Drain, At
    <2>2. Turns(Tail(todo)) = Turns(todo) /\ Tail(todo) \in Seq(Ops) /\ todo \in Seq(Ops)
      BY <2>1, PopKeeps
    <2>3. CASE \E i : Released(Now.dev, i, "drain", todo) /\ travel' = travel
      BY <2>2, <2>3, EdgeKeeps, TravelSame
    <2>4. CASE travel' = [travel EXCEPT ![Now.dev] = 0] /\ todo' = <<>> \o Tail(todo)
      <3>1. todo' = Tail(todo) BY <2>2, <2>4
      <3>2. 0 \in (1 - Notch) .. (Notch - 1) BY RemapAssumption
      <3> QED BY <2>1, <2>2, <2>4, <3>1, <3>2 DEF TravelOK
    <2> QED BY <1>7, <2>3, <2>4 DEF Drain, Does
  <1>8. CASE ReevaluateNext
    <2>1. travel' = travel /\ ~AtLoop /\ Now.at = "reevaluate" BY <1>8 DEF ReevaluateNext, At
    <2>2. Turns(Tail(todo)) = Turns(todo) /\ Tail(todo) \in Seq(Ops) BY <2>1, PopKeeps
    <2>3. \/ todo' = <<>> \o Tail(todo)
          \/ \E r : todo' = <<r>> \o Tail(todo)
          \/ \E n, u, r : todo' = <<n, u, r>> \o Tail(todo)
      BY <1>8 DEF ReevaluateNext, Does
    <2>4. ASSUME NEW S, NEW s \in Seq(S), todo' = s \o Tail(todo)
          PROVE  Turns(todo) \subseteq Turns(todo')
      BY <2>2, <2>4, TurnsBelow
    <2>5. ASSUME NEW n, NEW u, NEW r
          PROVE  <<>> \in Seq({n}) /\ <<r>> \in Seq({r}) /\ <<n, u, r>> \in Seq({n, u, r})
      OBVIOUS
    <2>6. Turns(todo) \subseteq Turns(todo')
      <3>1. CASE todo' = <<>> \o Tail(todo) BY <2>4, <2>5, <3>1
      <3>2. ASSUME NEW r, todo' = <<r>> \o Tail(todo) PROVE Turns(todo) \subseteq Turns(todo')
        BY <2>4, <2>5, <3>2
      <3>3. ASSUME NEW n, NEW u, NEW r, todo' = <<n, u, r>> \o Tail(todo)
            PROVE  Turns(todo) \subseteq Turns(todo')
        <4> DEFINE s == <<n, u, r>>
                   S == {n, u, r}
        <4>1. s \in Seq(S) /\ todo' = s \o Tail(todo) BY <3>3
        <4> HIDE DEF s, S
        <4> QED BY <2>4, <4>1
      <3> QED BY <2>3, <3>1, <3>2, <3>3
    <2> QED BY <2>1, <2>6, TravelSame
  <1>9. CASE Changes
    <2>1. PICK e : Change(e) BY <1>9, ChangesRules
    <2>2. travel' = travel /\ todo' = <<Reevaluate(plugged)>> \o todo BY <2>1 DEF Change
    <2>3. todo \in Seq(Ops) BY DEF TodoOK, TodoGood
    <2> QED BY <2>2, <2>3, PushKeeps, TravelSame
  <1>10. CASE Lock \/ Unlock \/ UNCHANGED vars
    <2>1. UNCHANGED <<travel, todo>> BY <1>10 DEF Lock, Unlock, vars
    <2> QED BY <2>1, TravelSame
  <1> QED BY <1>2, <1>3, <1>4, <1>5, <1>6, <1>7, <1>8, <1>9, <1>10 DEF Next, Changes

FlagsOK == locked \in BOOLEAN /\ feeding \in BOOLEAN

LEMMA FlagsNext ==
  ASSUME FlagsOK, [Next]_vars PROVE FlagsOK'
  <1> USE DEF FlagsOK
  <1>1. ASSUME NEW d, NEW i, NEW of, NEW rest,
               PressEdge(d, i, rest) \/ ReleaseEdge(d, i, rest) \/ Released(d, i, of, rest)
        PROVE  feeding' \in BOOLEAN
    <2>1. ASSUME NEW p, Released(d, i, p, rest) PROVE feeding' \in BOOLEAN
      BY <2>1 DEF Released
    <2> QED BY <1>1, <2>1 DEF PressEdge, ReleaseEdge, Pressed, Escaped
  <1>2. ASSUME NEW d, NEW i, Press(d, i) \/ Release(d, i) PROVE FlagsOK'
    BY <1>1, <1>2 DEF Press, Release
  <1>3. CASE NextNotch \/ NotchEnds \/ Drain BY <1>1, <1>3 DEF NextNotch, NotchEnds, Drain
  <1>4. ASSUME NEW d, NEW i, NEW n, Plug(d) \/ Unplug(d) \/ Turn(d, i, n) PROVE FlagsOK'
    BY <1>4 DEF Plug, Unplug, Turn
  <1>5. CASE OutReturns BY <1>5 DEF OutReturns
  <1>6. CASE PressReturns \/ ReleaseModifiers \/ Forget \/ Unclaim \/ Gone \/ ReevaluateNext
    BY <1>6 DEF PressReturns, ReleaseModifiers, Forget, Unclaim, Gone, ReevaluateNext
  <1>7. CASE Changes
    <2>1. PICK e : Change(e) BY <1>7, ChangesRules
    <2> QED BY <2>1 DEF Change
  <1>8. CASE Lock \/ Unlock \/ UNCHANGED vars BY <1>8 DEF Lock, Unlock, vars
  <1> QED BY <1>2, <1>3, <1>4, <1>5, <1>6, <1>7, <1>8 DEF Next, Changes

\* Every variable keeps a value the program can store; between events a wheel has
\* travelled less than a notch, whatever its events add up to
\* (gowl_input_remap_core_axis()).
THEOREM TypeCorrect ==
  "drain" \notin CommandsFrom => (Spec => []TypeOK)
  <1> SUFFICES ASSUME "drain" \notin CommandsFrom PROVE Spec => []TypeOK
    OBVIOUS
  <1> DEFINE IInv == ClaimsInductive /\ rules \in Engines /\ MarksOK /\ TravelOK /\ FlagsOK
  <1>1. Init => IInv
    <2> SUFFICES ASSUME Init PROVE IInv OBVIOUS
    <2>1. ClaimsInductive /\ rules \in Engines BY ClaimsInit, EscapeInit DEF EscapeInductive
    <2>2. MarksOK BY DEF Init, MarksOK
    <2>3. TravelOK
      <3>1. 0 \in (1 - Notch) .. (Notch - 1) BY RemapAssumption
      <3> QED BY <3>1 DEF Init, TravelOK
    <2>4. FlagsOK BY DEF Init, FlagsOK
    <2> QED BY <2>1, <2>2, <2>3, <2>4
  <1>2. IInv /\ [Next]_vars => IInv'
    <2> SUFFICES ASSUME IInv, [Next]_vars PROVE IInv' OBVIOUS
    <2>1. Sets /\ TodoOK BY DEF ClaimsInductive
    <2>2. ClaimsInductive' BY ClaimsStep
    <2>3. (rules \in Engines)' BY EnginesNext DEF Engines
    <2> QED BY <2>1, <2>2, <2>3, MarksKept, TravelNext, FlagsNext
  <1>3. IInv => TypeOK
    <2> SUFFICES ASSUME IInv PROVE TypeOK OBVIOUS
    <2>1. Sets /\ TodoOK BY DEF ClaimsInductive
    <2>2. \A d \in Devices : AtLoop => travel[d] \in (1 - Notch) .. (Notch - 1)
      BY ElemsEmpty DEF TravelOK, Turns, AtLoop
    <2>3. rules.enabled \in BOOLEAN BY DEF Engines
    <2>4. \A k \in DOMAIN todo : todo[k].at # "reevaluate" => todo[k].dev \in Devices
      <3>1. todo \in Seq(Ops) BY <2>1 DEF TodoOK, TodoGood
      <3>2. \A k \in DOMAIN todo : todo[k] \in Ops BY <3>1
      <3> QED BY <3>2, OpParts
    <2> QED BY <2>1, <2>2, <2>3, <2>4 DEF Sets, MarksOK, FlagsOK, TypeOK
  <1> QED BY <1>1, <1>2, <1>3, PTL DEF Spec

=============================================================================
