---------------------------- MODULE Power_proofs ----------------------------
(***************************************************************************)
(* Proofs about the two components that decide what the machine does when  *)
(* nobody uses it: Displays (blanking, the lid, the outputs and the        *)
(* windows on them) and Logind (the lock before a suspend, the delay       *)
(* inhibitor).  The two share no variable and no definition.               *)
(***************************************************************************)
EXTENDS Displays, Logind, SequenceTheorems, WellFoundedInduction, TLAPS

-----------------------------------------------------------------------------
(* Displays: the record that the handlers work on.                         *)

State ==
  [mons : Seq(Outputs), layout : SUBSET Outputs, lit : SUBSET Outputs,
   off : SUBSET Outputs, idleOff : BOOLEAN, grace : BOOLEAN,
   selmon : Outputs \cup {None}, win : [Windows -> Outputs \cup {None, Away}],
   video : SUBSET Windows, inhibited : BOOLEAN, armed : BOOLEAN]

\* TypeOK of a record.
Sound(d) ==
  /\ d \in State /\ IsInjective(d.mons)
  /\ d.layout \subseteq Range(d.mons) /\ d.lit \subseteq Range(d.mons)
  /\ d.off \subseteq Range(d.mons)
  /\ d.selmon \in Range(d.mons) \cup {None}
  /\ \A w \in Windows : d.win[w] \in Range(d.mons) \cup {None, Away}
  /\ \A w \in d.video : d.win[w] # Away

\* The blank timer rests while somebody inhibits, and the manager's answer does
\* not miss a window that does.
Rests(d) == d.inhibited => ~d.armed
Heard(d) == Rests(d) /\ ((\E w \in Windows : Counts(d, w)) => d.inhibited)

\* All but what the idle manager keeps.
SameScreens(e, d) ==
  /\ e.mons = d.mons /\ e.layout = d.layout /\ e.lit = d.lit /\ e.off = d.off
  /\ e.idleOff = d.idleOff /\ e.grace = d.grace /\ e.selmon = d.selmon
  /\ e.win = d.win /\ e.video = d.video

LEMMA SoundFields ==
  ASSUME NEW d, NEW e, Sound(d), e \in State, SameScreens(e, d)
  PROVE  Sound(e)
  BY DEF Sound, SameScreens

LEMMA ArrangeIs ==
  ASSUME NEW d \in State
  PROVE  /\ Arrange(d) \in State
         /\ SameScreens(Arrange(d), d)
         /\ Rests(d) => Heard(Arrange(d))
  <1> DEFINE now == \E w \in Windows : Counts(d, w)
             e == [d EXCEPT !.inhibited = now]
             f == [e EXCEPT !.armed = ~e.inhibited]
  <1>1. CASE now = d.inhibited
    <2>1. Arrange(d) = d
      BY <1>1, Zenon DEF Arrange
    <2> QED BY <1>1, <2>1 DEF SameScreens, Heard
  <1>2. CASE now # d.inhibited
    <2>1. Arrange(d) = f
      BY <1>2, Zenon DEF Arrange, Rearm
    <2>2. now \in BOOLEAN
      OBVIOUS
    <2> HIDE DEF now
    <2>3. e \in State /\ e.inhibited = now /\ SameScreens(e, d)
      BY <2>2 DEF State, SameScreens
    <2>4. f \in State /\ f.inhibited = e.inhibited /\ f.armed = ~e.inhibited /\ SameScreens(f, e)
      BY <2>3 DEF State, SameScreens
    <2> HIDE DEF e, f
    <2>5. SameScreens(f, d)
      BY <2>3, <2>4 DEF SameScreens
    <2>6. (\E w \in Windows : Counts(f, w)) => f.inhibited
      BY <2>3, <2>4, <2>5 DEF SameScreens, Counts, now
    <2> QED BY <2>1, <2>4, <2>5, <2>6 DEF Heard, Rests
  <1> QED BY <1>1, <1>2

\* Fewer windows inhibit: nothing was missed before, nothing is now.
LEMMA HeardLess ==
  ASSUME NEW d, NEW e, Heard(d), e.inhibited = d.inhibited, e.armed = d.armed,
         \A w \in Windows : Counts(e, w) => Counts(d, w)
  PROVE  Heard(e)
  BY DEF Heard, Rests

-----------------------------------------------------------------------------
(* Displays: what each of the compositor's functions does to the record.   *)

LEMMA SetEnabledIs ==
  ASSUME NEW d, Sound(d), NEW m \in Range(d.mons), NEW on \in BOOLEAN
  PROVE  /\ Sound(SetEnabled(d, m, on))
         /\ SetEnabled(d, m, on).lit = IF on THEN d.lit \cup {m} ELSE d.lit \ {m}
         /\ SetEnabled(d, m, on) = [d EXCEPT !.lit = SetEnabled(d, m, on).lit]
         /\ ~on /\ Heard(d) => Heard(SetEnabled(d, m, on))
         /\ Rests(d) => Rests(SetEnabled(d, m, on))
  <1> DEFINE new == IF on THEN d.lit \cup {m} ELSE d.lit \ {m}
             e == [d EXCEPT !.lit = new]
  <1>1. SetEnabled(d, m, on) = e
    BY DEF SetEnabled
  <1>2. d \in State /\ m \in Outputs
    BY DEF Sound, State, Range
  <1>3. new \subseteq Outputs /\ new \subseteq Range(d.mons)
    BY <1>2 DEF State, Sound
  <1>4. ~on => new \subseteq d.lit
    OBVIOUS
  <1> HIDE DEF new
  <1>5. /\ e \in State /\ e.lit = new
        /\ e.mons = d.mons /\ e.layout = d.layout /\ e.off = d.off /\ e.selmon = d.selmon
        /\ e.win = d.win /\ e.video = d.video /\ e.inhibited = d.inhibited
        /\ e.armed = d.armed
    BY <1>2, <1>3 DEF State
  <1> HIDE DEF e
  <1>6. Sound(e)
    BY <1>3, <1>5 DEF Sound
  <1>7. ~on /\ Heard(d) => Heard(e)
    BY <1>4, <1>5 DEF Heard, Rests, Counts
  <1>8. Rests(d) => Rests(e)
    BY <1>5 DEF Rests
  <1> QED BY <1>1, <1>5, <1>6, <1>7, <1>8 DEF e, new

\* setmon() of some windows: they are on m, and an arrange follows if one moved.
LEMMA SetMonPuts ==
  ASSUME NEW d \in State, NEW ws \in SUBSET Windows, NEW m \in Outputs \cup {None}
  PROVE  /\ SetMon(d, ws, m) \in State
         /\ SameScreens(SetMon(d, ws, m),
              [d EXCEPT !.win = [w \in Windows |-> IF w \in ws THEN m ELSE d.win[w]]])
         /\ Heard(d) => Heard(SetMon(d, ws, m))
  <1> DEFINE new == [w \in Windows |-> IF w \in ws THEN m ELSE d.win[w]]
             e == [d EXCEPT !.win = new]
  <1>1. new \in [Windows -> Outputs \cup {None, Away}]
    BY DEF State
  <1>2. e \in State /\ e.win = new /\ e.inhibited = d.inhibited /\ e.armed = d.armed
    BY <1>1 DEF State
  <1>3. CASE \A w \in ws : d.win[w] = m
    <2>1. SetMon(d, ws, m) = d
      BY <1>3, Zenon DEF SetMon
    <2>2. d.win = new
      BY <1>3 DEF State
    <2>3. SameScreens(d, e)
      BY <2>2 DEF State, SameScreens
    <2> QED BY <2>1, <2>3
  <1>4. CASE ~ \A w \in ws : d.win[w] = m
    <2>1. SetMon(d, ws, m) = Arrange(e)
      BY <1>4 DEF SetMon
    <2>2. Arrange(e) \in State /\ SameScreens(Arrange(e), e) /\ (Rests(e) => Heard(Arrange(e)))
      BY <1>2, ArrangeIs
    <2>3. Heard(d) => Rests(e)
      BY <1>2 DEF Heard, Rests
    <2> QED BY <2>1, <2>2, <2>3
  <1> QED BY <1>3, <1>4

LEMMA SetMonIs ==
  ASSUME NEW d, Sound(d), NEW ws \in SUBSET Windows, NEW m \in Range(d.mons) \cup {None}
  PROVE  /\ Sound(SetMon(d, ws, m))
         /\ SameScreens(SetMon(d, ws, m),
              [d EXCEPT !.win = [w \in Windows |-> IF w \in ws THEN m ELSE d.win[w]]])
         /\ Heard(d) => Heard(SetMon(d, ws, m))
  <1> DEFINE new == [w \in Windows |-> IF w \in ws THEN m ELSE d.win[w]]
             e == [d EXCEPT !.win = new]
  <1>1. d \in State /\ m \in Outputs \cup {None} /\ Away \notin Outputs \cup {None}
    BY DisplaysAssumption DEF Sound, State, Range
  <1>2. /\ SetMon(d, ws, m) \in State /\ SameScreens(SetMon(d, ws, m), e)
        /\ Heard(d) => Heard(SetMon(d, ws, m))
    BY <1>1, SetMonPuts
  <1>3. new \in [Windows -> Outputs \cup {None, Away}]
    BY <1>1 DEF State
  <1>4. /\ e \in State /\ e.win = new /\ e.lit = d.lit
        /\ e.mons = d.mons /\ e.layout = d.layout /\ e.off = d.off /\ e.selmon = d.selmon
        /\ e.video = d.video
    BY <1>1, <1>3 DEF State
  <1>5. \A w \in Windows : new[w] \in {d.win[w], m}
    OBVIOUS
  <1>6. Sound(e)
    <2>1. \A w \in Windows : new[w] \in Range(d.mons) \cup {None, Away}
      BY <1>5 DEF Sound
    <2>2. \A w \in d.video : w \in Windows
      BY <1>1 DEF State
    <2>3. \A w \in d.video : new[w] # Away
      BY <1>1, <1>5, <2>2 DEF Sound
    <2> QED BY <1>4, <2>1, <2>3 DEF Sound
  <1> QED BY <1>2, <1>6, SoundFields

LEMMA LeastNat ==
  ASSUME NEW T \in SUBSET Nat, T # {}
  PROVE  \E n \in T : \A k \in T : n <= k
  <1>1. PICK n \in T : \A k \in T : ~(<<k, n>> \in OpToRel(<, Nat))
    BY NatLessThanWellFounded, WFMin
  <1>2. \A k \in T : ~(k < n)
    BY <1>1 DEF OpToRel
  <1>3. \A k \in T : n <= k
    BY <1>2
  <1> QED BY <1>3

\* The first enabled output but m, if there is one.
LEMMA NextEnabledIs ==
  ASSUME NEW d, Sound(d), NEW m
  PROVE  /\ Range(d.mons) \cap (d.lit \ {m}) # {} => NextEnabled(d, m) \in d.lit \ {m}
         /\ NextEnabled(d, m) \in (d.lit \ {m}) \cup {None}
         /\ NextEnabled(d, m) \in Range(d.mons) \cup {None}
  <1> DEFINE I == {i \in 1..Len(d.mons) : d.mons[i] # m /\ d.mons[i] \in d.lit}
  <1>1. Len(d.mons) \in Nat /\ DOMAIN d.mons = 1..Len(d.mons)
    BY DEF Sound, State
  <1>2. CASE I = {}
    <2>1. NextEnabled(d, m) = None
      BY <1>2 DEF NextEnabled, SelectInSeq
    <2>2. Range(d.mons) \cap (d.lit \ {m}) = {}
      BY <1>1, <1>2 DEF Range
    <2> QED BY <2>1, <2>2
  <1>3. CASE I # {}
    <2>1. Min(I) \in I
      <3> HIDE DEF I
      <3>1. I \subseteq Nat
        BY <1>1 DEF I
      <3>2. \E n \in I : \A k \in I : n <= k
        BY <1>3, <3>1, LeastNat
      <3> QED BY <3>2 DEF Min
    <2>2. Min(I) # 0
      BY <1>1, <2>1
    <2>3. NextEnabled(d, m) = d.mons[Min(I)]
      BY <1>3, <2>2 DEF NextEnabled, SelectInSeq
    <2> QED BY <1>1, <2>1, <2>3 DEF Range
  <1> QED BY <1>2, <1>3

\* The panel goes dark, and what was on it goes to the selection.
TakenOut(e, d, m) ==
  /\ e.mons = d.mons /\ e.layout = d.layout \ {m} /\ e.lit = d.lit \ {m}
  /\ e.off = d.off /\ e.idleOff = d.idleOff /\ e.grace = d.grace /\ e.video = d.video
  /\ d.selmon # m => e.selmon = d.selmon
  /\ d.selmon = m /\ d.lit \ {m} # {} => e.selmon \in d.lit \ {m}
  /\ \A w \in Windows : e.win[w] = IF d.win[w] = m THEN e.selmon ELSE d.win[w]

LEMMA TakeOutIs ==
  ASSUME NEW d, Sound(d), NEW m \in Range(d.mons)
  PROVE  /\ Sound(TakeOut(d, m))
         /\ TakenOut(TakeOut(d, m), d, m)
         /\ Heard(d) => Heard(TakeOut(d, m))
  <1> DEFINE cut == SetEnabled(d, m, FALSE)
             dark == [cut EXCEPT !.layout = @ \ {m}]
             sel == IF dark.selmon = m THEN NextEnabled(dark, m) ELSE dark.selmon
             res == [dark EXCEPT !.selmon = IF @ = m THEN NextEnabled(dark, m) ELSE @]
             moved == SetMon(res, On(res, m), res.selmon)
  <1>1. d \in State /\ m \in Outputs
    BY DEF Sound, State, Range
  <1>2. /\ Sound(cut) /\ cut.lit = d.lit \ {m}
        /\ cut = [d EXCEPT !.lit = d.lit \ {m}]
        /\ Heard(d) => Heard(cut)
    BY SetEnabledIs
  <1>3. /\ cut.mons = d.mons /\ cut.layout = d.layout /\ cut.off = d.off
        /\ cut.idleOff = d.idleOff /\ cut.grace = d.grace /\ cut.video = d.video
        /\ cut.selmon = d.selmon /\ cut.win = d.win
    BY <1>1, <1>2 DEF State
  <1> HIDE DEF cut
  <1>4. /\ dark \in State /\ dark.layout = d.layout \ {m}
        /\ dark.mons = d.mons /\ dark.off = d.off /\ dark.lit = cut.lit
        /\ dark.idleOff = d.idleOff /\ dark.grace = d.grace /\ dark.video = d.video
        /\ dark.selmon = d.selmon /\ dark.win = d.win
        /\ dark.inhibited = cut.inhibited /\ dark.armed = cut.armed
    BY <1>2, <1>3 DEF Sound, State
  <1> HIDE DEF dark
  <1>5. Sound(dark)
    BY <1>2, <1>3, <1>4 DEF Sound
  <1>6. Heard(cut) => Heard(dark)
    BY <1>3, <1>4 DEF Heard, Rests, Counts
  <1>7. /\ Range(d.mons) \cap (d.lit \ {m}) # {} => NextEnabled(dark, m) \in d.lit \ {m}
        /\ NextEnabled(dark, m) \in Range(d.mons) \cup {None}
    BY <1>2, <1>4, <1>5, NextEnabledIs
  <1>8. d.lit \subseteq Range(d.mons) /\ Range(d.mons) \subseteq Outputs
    BY <1>1 DEF Sound, State, Range
  <1>9. sel \in Range(d.mons) \cup {None}
    BY <1>4, <1>7 DEF Sound
  <1>10. /\ d.selmon # m => sel = d.selmon
         /\ d.selmon = m /\ d.lit \ {m} # {} => sel \in d.lit \ {m}
    BY <1>4, <1>7, <1>8
  <1>11. res = [dark EXCEPT !.selmon = sel]
    BY <1>4 DEF State
  <1> HIDE DEF sel, res
  <1>12. /\ res \in State /\ res.selmon = sel /\ res.layout = dark.layout
         /\ res.mons = d.mons /\ res.off = d.off /\ res.lit = cut.lit
         /\ res.idleOff = d.idleOff /\ res.grace = d.grace /\ res.video = d.video
         /\ res.win = d.win /\ res.inhibited = dark.inhibited /\ res.armed = dark.armed
    BY <1>4, <1>8, <1>9, <1>11 DEF State
  <1>13. Sound(res)
    BY <1>4, <1>5, <1>9, <1>12 DEF Sound
  <1>14. Heard(dark) => Heard(res)
    BY <1>4, <1>12 DEF Heard, Rests, Counts
  <1>15. On(res, m) = {w \in Windows : d.win[w] = m}
    BY <1>12 DEF On
  <1> DEFINE there == {w \in Windows : d.win[w] = m}
             new == [w \in Windows |-> IF w \in there THEN sel ELSE res.win[w]]
             put == [res EXCEPT !.win = new]
  <1>16. /\ Sound(moved) /\ SameScreens(moved, put) /\ (Heard(res) => Heard(moved))
    <2>1. there \in SUBSET Windows /\ res.selmon \in Range(res.mons) \cup {None}
      BY <1>9, <1>12
    <2> HIDE DEF there
    <2> QED BY <1>13, <1>12, <1>15, <2>1, SetMonIs DEF there
  <1>17. /\ put.win = new /\ put.mons = d.mons /\ put.layout = dark.layout /\ put.lit = cut.lit
         /\ put.off = d.off /\ put.idleOff = d.idleOff /\ put.grace = d.grace
         /\ put.video = d.video /\ put.selmon = sel
    BY <1>12 DEF State
  <1>18. \A w \in Windows : new[w] = IF d.win[w] = m THEN sel ELSE d.win[w]
    BY <1>12
  <1> HIDE DEF moved, put, new
  <1>19. TakenOut(moved, d, m)
    BY <1>2, <1>4, <1>10, <1>16, <1>17, <1>18 DEF TakenOut, SameScreens
  <1>20. /\ Sound(Arrange(moved)) /\ SameScreens(Arrange(moved), moved)
         /\ Heard(moved) => Heard(Arrange(moved))
    BY <1>16, ArrangeIs, SoundFields DEF Sound, Heard
  <1>21. TakenOut(Arrange(moved), d, m)
    BY <1>19, <1>20 DEF TakenOut, SameScreens
  <1>22. TakeOut(d, m) = moved \/ TakeOut(d, m) = Arrange(moved)
    BY DEF TakeOut, moved, res, dark, cut
  <1> QED BY <1>2, <1>6, <1>14, <1>16, <1>19, <1>20, <1>21, <1>22

\* The panel comes back, and is selected if nothing was.
BroughtBack(e, d, m) ==
  /\ e.mons = d.mons /\ e.layout = d.layout \cup {m} /\ e.lit = d.lit \cup {m}
  /\ e.off = d.off /\ e.idleOff = d.idleOff /\ e.grace = d.grace /\ e.video = d.video
  /\ e.selmon = IF d.selmon = None THEN m ELSE d.selmon
  /\ e.win = d.win

LEMMA BringBackIs ==
  ASSUME NEW d, Sound(d), NEW m \in Range(d.mons)
  PROVE  /\ Sound(BringBack(d, m))
         /\ BroughtBack(BringBack(d, m), d, m)
         /\ Rests(d) => Heard(BringBack(d, m))
  <1> DEFINE on == SetEnabled(d, m, TRUE)
             e == [on EXCEPT !.layout = @ \cup {m}, !.selmon = IF @ = None THEN m ELSE @]
  <1>1. d \in State /\ m \in Outputs
    BY DEF Sound, State, Range
  <1>2. /\ Sound(on) /\ on.lit = d.lit \cup {m} /\ on = [d EXCEPT !.lit = d.lit \cup {m}]
        /\ Rests(d) => Rests(on)
    BY SetEnabledIs
  <1>3. /\ on.mons = d.mons /\ on.layout = d.layout /\ on.off = d.off
        /\ on.idleOff = d.idleOff /\ on.grace = d.grace /\ on.video = d.video
        /\ on.selmon = d.selmon /\ on.win = d.win
    BY <1>1, <1>2 DEF State
  <1> HIDE DEF on
  <1>4. /\ e \in State /\ BroughtBack(e, d, m)
        /\ e.inhibited = on.inhibited /\ e.armed = on.armed
    BY <1>1, <1>2, <1>3 DEF Sound, State, BroughtBack
  <1> HIDE DEF e
  <1>5. Sound(e)
    BY <1>1, <1>4 DEF Sound, BroughtBack
  <1>6. Rests(on) => Rests(e)
    BY <1>4 DEF Rests
  <1>7. /\ Arrange(e) \in State /\ SameScreens(Arrange(e), e)
        /\ Rests(e) => Heard(Arrange(e))
    BY <1>4, ArrangeIs
  <1>8. BroughtBack(Arrange(e), d, m)
    BY <1>4, <1>7 DEF BroughtBack, SameScreens
  <1>9. BringBack(d, m) = Arrange(e)
    BY DEF BringBack, e, on
  <1> QED BY <1>2, <1>5, <1>6, <1>7, <1>8, <1>9, SoundFields

-----------------------------------------------------------------------------
(* Displays: the walk of update_lid_outputs().                             *)

LidWalk(f, d, want, n) ==
  f = [i \in 0..n |-> IF i = 0 THEN d ELSE LidStep(f[i - 1], d.mons[i], want)]

LEMMA LidWalkExists ==
  ASSUME NEW d, NEW want, NEW n \in Nat
  PROVE  \E f : LidWalk(f, d, want, n)
  <1> DEFINE Bad == {k \in Nat : ~ \E f : LidWalk(f, d, want, k)}
  <1> SUFFICES ASSUME Bad # {} PROVE FALSE
    OBVIOUS
  <1>1. \E k \in Bad : \A j \in Bad : k <= j
    BY LeastNat
  <1>2. PICK k \in Bad : \A j \in Bad : k <= j
    BY <1>1
  <1>3. k # 0
    <2>1. LidWalk([i \in 0..0 |-> d], d, want, 0)
      BY DEF LidWalk
    <2> QED BY <2>1
  <1>4. k - 1 \in Nat /\ k - 1 \notin Bad
    BY <1>2, <1>3
  <1>5. PICK f : LidWalk(f, d, want, k - 1)
    BY <1>4
  <1> DEFINE g == [i \in 0..k |-> IF i = k THEN LidStep(f[k - 1], d.mons[k], want) ELSE f[i]]
  <1>6. ASSUME NEW i \in 0..k
        PROVE  g[i] = IF i = 0 THEN d ELSE LidStep(g[i - 1], d.mons[i], want)
    <2>1. CASE i = k
      BY <1>3, <1>4, <2>1
    <2>2. CASE i # k
      <3>1. i \in 0..(k - 1) /\ (i # 0 => i - 1 \in 0..k /\ i - 1 # k)
        BY <1>4, <2>2
      <3>2. f[i] = IF i = 0 THEN d ELSE LidStep(f[i - 1], d.mons[i], want)
        BY <1>5, <3>1 DEF LidWalk
      <3> QED BY <2>2, <3>1, <3>2
    <2> QED BY <2>1, <2>2
  <1>7. LidWalk(g, d, want, k)
    <2>1. g = [i \in 0..k |-> g[i]]
      OBVIOUS
    <2> HIDE DEF g
    <2> QED BY <1>6, <2>1 DEF LidWalk
  <1> QED BY <1>7

\* What the walk leaves alone.
LidKeeps(e, d) ==
  /\ Sound(e) /\ e.mons = d.mons /\ e.off = d.off /\ e.idleOff = d.idleOff
  /\ e.grace = d.grace /\ e.video = d.video
  /\ Heard(d) => Heard(e)
  /\ \A o : o \notin Internal =>
       (o \in e.lit <=> o \in d.lit) /\ (o \in e.layout <=> o \in d.layout)

\* Where the panels are wanted.
LidOpens(e, d) ==
  /\ d.lit \subseteq e.lit /\ d.layout \subseteq e.layout /\ e.win = d.win
  /\ e.selmon = d.selmon \/ (d.selmon = None /\ e.selmon \in e.layout)

\* Where they are not, and another display is lit: neither the selection nor a
\* window is left on an output that was taken out.  It may be on a panel that is to be
\* taken out later in the walk, which somebody lit outside the layout.
There(d) == d.layout \cup d.lit
LidMoves(e, d) ==
  /\ d.selmon \in There(d) => e.selmon \in There(e)
  /\ d.selmon = None => e.selmon = None
  /\ \A w \in Windows :
       /\ d.win[w] \in There(d) \cup {d.selmon} => e.win[w] \in There(e) \cup {e.selmon}
       /\ d.win[w] = None => e.win[w] = None

\* After the first i turns of the loop.
LidAfter(e, d, want, i) ==
  /\ LidKeeps(e, d)
  /\ \A j \in 1..i : d.mons[j] \in Internal =>
       IF want THEN d.mons[j] \in e.lit /\ d.mons[j] \in e.layout
       ELSE d.mons[j] \notin e.lit /\ d.mons[j] \notin e.layout
  /\ want => LidOpens(e, d)
  /\ ~want => e.lit \subseteq d.lit /\ e.layout \subseteq d.layout
  /\ ~want /\ d.lit \ Internal # {} => LidMoves(e, d)

LEMMA LidAfterNone ==
  ASSUME NEW d, Sound(d), NEW want \in BOOLEAN
  PROVE  LidAfter(d, d, want, 0)
  <1>1. 1..0 = {}
    OBVIOUS
  <1> QED BY <1>1 DEF LidAfter, LidKeeps, LidOpens, LidMoves

LEMMA LidAfterNext ==
  ASSUME NEW d, Sound(d), NEW want \in BOOLEAN, NEW i \in 1..Len(d.mons), NEW e,
         LidAfter(e, d, want, i - 1)
  PROVE  LidAfter(LidStep(e, d.mons[i], want), d, want, i)
  <1> DEFINE m == d.mons[i]
             f == LidStep(e, m, want)
  <1>1. Len(d.mons) \in Nat /\ DOMAIN d.mons = 1..Len(d.mons)
    BY DEF Sound, State
  <1>2. Sound(e) /\ e.mons = d.mons /\ m \in Range(e.mons)
    BY <1>1 DEF LidAfter, LidKeeps, Range
  <1>3. \A j \in 1..i : j \in 1..(i - 1) \/ d.mons[j] = m
    BY <1>1
  <1>4. LidKeeps(e, d)
    BY DEF LidAfter
  <1> HIDE DEF m
  <1>5. CASE m \notin Internal
    <2>1. f = e
      BY <1>5 DEF LidStep
    <2> QED BY <1>3, <1>5, <2>1 DEF LidAfter, m
  <1>6. CASE m \in Internal /\ want
    <2>1. CASE m \in e.lit /\ m \in e.layout
      <3>1. f = e
        BY <1>6, <2>1 DEF LidStep
      <3> QED BY <1>3, <1>6, <2>1, <3>1 DEF LidAfter, m
    <2>2. CASE ~(m \in e.lit /\ m \in e.layout)
      <3>1. f = BringBack(e, m)
        BY <1>6, <2>2 DEF LidStep
      <3>2. Sound(f) /\ BroughtBack(f, e, m) /\ (Heard(e) => Heard(f))
        BY <1>2, <3>1, BringBackIs DEF Heard
      <3> HIDE DEF f
      <3>3. LidKeeps(f, d)
        BY <1>4, <1>6, <3>2 DEF LidKeeps, BroughtBack
      <3>4. LidOpens(f, d)
        BY <1>6, <3>2 DEF LidAfter, LidOpens, BroughtBack
      <3>5. \A j \in 1..i : d.mons[j] \in Internal => d.mons[j] \in f.lit /\ d.mons[j] \in f.layout
        BY <1>3, <1>6, <3>2 DEF LidAfter, BroughtBack
      <3> QED BY <1>6, <3>3, <3>4, <3>5 DEF LidAfter, f, m
    <2> QED BY <2>1, <2>2
  <1>7. CASE m \in Internal /\ ~want
    <2>1. CASE m \notin e.lit /\ m \notin e.layout
      <3>1. f = e
        BY <1>7, <2>1 DEF LidStep
      <3> QED BY <1>3, <1>7, <2>1, <3>1 DEF LidAfter, m
    <2>2. CASE m \in e.lit \/ m \in e.layout
      <3>1. f = TakeOut(e, m)
        BY <1>7, <2>2 DEF LidStep
      <3>2. Sound(f) /\ TakenOut(f, e, m) /\ (Heard(e) => Heard(f))
        BY <1>2, <3>1, TakeOutIs
      <3> HIDE DEF f
      <3>3. LidKeeps(f, d)
        BY <1>4, <1>7, <3>2 DEF LidKeeps, TakenOut
      <3>4. f.lit \subseteq d.lit /\ f.layout \subseteq d.layout
        BY <1>7, <3>2 DEF LidAfter, TakenOut
      <3>5. \A j \in 1..i : d.mons[j] \in Internal =>
              d.mons[j] \notin f.lit /\ d.mons[j] \notin f.layout
        BY <1>3, <1>7, <3>2 DEF LidAfter, TakenOut
      <3>6. ASSUME d.lit \ Internal # {} PROVE LidMoves(f, d)
        <4>1. LidMoves(e, d)
          BY <1>7, <3>6 DEF LidAfter
        <4>2. e.lit \ {m} # {}
          BY <1>4, <1>7, <3>6 DEF LidKeeps
        <4>3. There(f) = There(e) \ {m}
          BY <3>2 DEF TakenOut, There
        <4>4. e.selmon \in There(e) => f.selmon \in There(f)
          BY <3>2, <4>2, <4>3 DEF TakenOut, There
        <4>5. m # None
          BY <1>2, DisplaysAssumption DEF Sound, State, Range
        <4>6. e.selmon = None => f.selmon = None
          BY <3>2, <4>5 DEF TakenOut
        <4>7. \A w \in Windows :
                /\ e.win[w] \in There(e) \cup {e.selmon} => f.win[w] \in There(f) \cup {f.selmon}
                /\ e.win[w] = None => f.win[w] = None
          BY <3>2, <4>3, <4>5 DEF TakenOut
        <4> QED BY <4>1, <4>4, <4>6, <4>7 DEF LidMoves
      <3> QED BY <1>7, <3>3, <3>4, <3>5, <3>6 DEF LidAfter, f, m
    <2> QED BY <2>1, <2>2
  <1> QED BY <1>5, <1>6, <1>7

LEMMA LidWalkIs ==
  ASSUME NEW d, Sound(d), NEW want \in BOOLEAN, NEW f, LidWalk(f, d, want, Len(d.mons)),
         NEW n \in 0..Len(d.mons)
  PROVE  LidAfter(f[n], d, want, n)
  <1> DEFINE Bad == {k \in 0..Len(d.mons) : ~LidAfter(f[k], d, want, k)}
  <1> SUFFICES ASSUME Bad # {} PROVE FALSE
    OBVIOUS
  <1>1. Len(d.mons) \in Nat
    BY DEF Sound, State
  <1>2. Bad \subseteq Nat
    BY <1>1
  <1>3. \E k \in Bad : \A j \in Bad : k <= j
    BY <1>2, LeastNat
  <1>4. PICK k \in Bad : \A j \in Bad : k <= j
    BY <1>3
  <1>5. f[0] = d
    BY <1>1 DEF LidWalk
  <1>6. k # 0
    BY <1>5, LidAfterNone
  <1>7. k - 1 \in 0..Len(d.mons) /\ k - 1 \notin Bad /\ k \in 1..Len(d.mons)
    BY <1>1, <1>4, <1>6
  <1>8. LidAfter(f[k - 1], d, want, k - 1)
    BY <1>7
  <1>9. f[k] = LidStep(f[k - 1], d.mons[k], want)
    BY <1>1, <1>6, <1>7 DEF LidWalk
  <1>10. LidAfter(LidStep(f[k - 1], d.mons[k], want), d, want, k)
    BY <1>7, <1>8, LidAfterNext
  <1>11. LidAfter(f[k], d, want, k)
    BY <1>9, <1>10
  <1> QED BY <1>11

\* The panels are wanted unless the lid is shut and another display is lit.
Wanted(d, shut) == ~shut \/ (Range(d.mons) \ Internal) \cap d.lit = {}

\* After the whole loop.
LEMMA UpdateLidIs ==
  ASSUME NEW d, Sound(d), NEW shut \in BOOLEAN
  PROVE  LidAfter(UpdateLid(d, shut), d, Wanted(d, shut), Len(d.mons))
  <1> DEFINE want == Wanted(d, shut)
             n == Len(d.mons)
             f == CHOOSE f : LidWalk(f, d, want, n)
  <1>1. n \in Nat
    BY DEF Sound, State
  <1>2. want \in BOOLEAN
    BY DEF Wanted
  <1>3. want = ShouldEnable(shut, (Range(d.mons) \ Internal) \cap d.lit)
    BY DEF Wanted, ShouldEnable
  <1>4. UpdateLid(d, shut) = f[n]
    BY <1>3, Zenon DEF UpdateLid, LidWalk
  <1> HIDE DEF want
  <1>5. LidWalk(f, d, want, n)
    BY <1>1, LidWalkExists
  <1> HIDE DEF f
  <1>6. LidAfter(f[n], d, want, n)
    BY <1>1, <1>2, <1>5, LidWalkIs
  <1> QED BY <1>4, <1>6 DEF want

-----------------------------------------------------------------------------
(* Displays: power, and its walk over the outputs.                         *)

\* What switching power leaves alone.  An output goes dark only to be marked, and
\* loses its mark only to be lit.
PowerKeeps(e, d) ==
  /\ Sound(e) /\ e.mons = d.mons /\ e.layout = d.layout /\ e.selmon = d.selmon
  /\ e.win = d.win /\ e.video = d.video
  /\ Heard(d) => Heard(e)
  /\ d.lit \cup d.off \subseteq e.lit \cup e.off

LEMMA SetPoweredIs ==
  ASSUME NEW d, Sound(d), NEW m \in Range(d.mons), NEW on \in BOOLEAN
  PROVE  /\ PowerKeeps(SetPowered(d, m, on), d)
         /\ on => d.lit \subseteq SetPowered(d, m, on).lit
         /\ on /\ m \in d.layout => m \in SetPowered(d, m, on).lit
  <1> DEFINE e == SetEnabled(d, m, on)
             lighter == [e EXCEPT !.off = @ \ {m}]
             darker == [e EXCEPT !.off = @ \cup {m}]
  <1>1. /\ Sound(e) /\ e = [d EXCEPT !.lit = e.lit]
        /\ e.lit = IF on THEN d.lit \cup {m} ELSE d.lit \ {m}
        /\ ~on /\ Heard(d) => Heard(e)
        /\ Rests(d) => Rests(e)
    BY SetEnabledIs
  <1>2. d \in State /\ e \in State
    BY <1>1 DEF Sound
  <1>3. /\ e.mons = d.mons /\ e.layout = d.layout /\ e.selmon = d.selmon /\ e.off = d.off
        /\ e.win = d.win /\ e.video = d.video
    BY <1>1, <1>2 DEF State
  <1> HIDE DEF e
  <1>4. CASE m \notin d.layout \/ (on = (m \notin d.off) /\ on = (m \in d.lit))
    <2>1. SetPowered(d, m, on) = d
      BY <1>4 DEF SetPowered
    <2>2. PowerKeeps(d, d)
      BY DEF PowerKeeps
    <2> QED BY <1>4, <2>1, <2>2
  <1>5. CASE m \in d.layout /\ ~(on = (m \notin d.off) /\ on = (m \in d.lit)) /\ on
    <2>1. SetPowered(d, m, on) = Arrange(lighter)
      BY <1>5 DEF SetPowered, e
    <2>2. /\ lighter \in State /\ lighter.mons = d.mons /\ lighter.layout = d.layout
          /\ lighter.selmon = d.selmon /\ lighter.win = d.win /\ lighter.video = d.video
          /\ lighter.lit = d.lit \cup {m} /\ lighter.off = d.off \ {m}
          /\ lighter.inhibited = e.inhibited /\ lighter.armed = e.armed
      BY <1>1, <1>2, <1>3, <1>5 DEF State
    <2> HIDE DEF lighter
    <2>3. Sound(lighter)
      BY <2>2, <1>1, <1>3 DEF Sound
    <2>4. Rests(e) => Rests(lighter)
      BY <2>2 DEF Rests
    <2>5. /\ Arrange(lighter) \in State /\ SameScreens(Arrange(lighter), lighter)
          /\ Rests(lighter) => Heard(Arrange(lighter))
      BY <2>2, ArrangeIs
    <2>6. Sound(Arrange(lighter))
      BY <2>3, <2>5, SoundFields
    <2>7. Heard(d) => Rests(d)
      BY DEF Heard
    <2>8. PowerKeeps(Arrange(lighter), d)
      BY <1>1, <1>5, <2>2, <2>4, <2>5, <2>6, <2>7 DEF PowerKeeps, SameScreens
    <2> QED BY <2>1, <2>2, <2>5, <2>8 DEF SameScreens
  <1>6. CASE m \in d.layout /\ ~(on = (m \notin d.off) /\ on = (m \in d.lit)) /\ ~on
    <2>1. SetPowered(d, m, on) = darker
      BY <1>6 DEF SetPowered, e
    <2>2. /\ darker \in State /\ darker.mons = d.mons /\ darker.layout = d.layout
          /\ darker.selmon = d.selmon /\ darker.win = d.win /\ darker.video = d.video
          /\ darker.lit = d.lit \ {m} /\ darker.off = d.off \cup {m}
          /\ darker.inhibited = e.inhibited /\ darker.armed = e.armed
          /\ darker.lit = e.lit
      <3>1. m \in Outputs
        BY <1>2 DEF State, Range
      <3> QED BY <1>1, <1>2, <1>3, <1>6, <3>1 DEF State
    <2> HIDE DEF darker
    <2>3. Sound(darker)
      BY <2>2, <1>1, <1>3 DEF Sound
    <2>4. Heard(e) => Heard(darker)
      BY <1>3, <2>2 DEF Heard, Rests, Counts
    <2>5. PowerKeeps(darker, d)
      BY <1>1, <1>6, <2>2, <2>3, <2>4 DEF PowerKeeps
    <2> QED BY <1>6, <2>1, <2>5
  <1> QED BY <1>4, <1>5, <1>6

PowerStep(e, m, ms, on) == IF m \in ms THEN SetPowered(e, m, on) ELSE e

PowerWalk(f, d, ms, on, n) ==
  f = [i \in 0..n |-> IF i = 0 THEN d ELSE PowerStep(f[i - 1], d.mons[i], ms, on)]

LEMMA PowerWalkExists ==
  ASSUME NEW d, NEW ms, NEW on, NEW n \in Nat
  PROVE  \E f : PowerWalk(f, d, ms, on, n)
  <1> DEFINE Bad == {k \in Nat : ~ \E f : PowerWalk(f, d, ms, on, k)}
  <1> SUFFICES ASSUME Bad # {} PROVE FALSE
    OBVIOUS
  <1>1. \E k \in Bad : \A j \in Bad : k <= j
    BY LeastNat
  <1>2. PICK k \in Bad : \A j \in Bad : k <= j
    BY <1>1
  <1>3. k # 0
    <2>1. PowerWalk([i \in 0..0 |-> d], d, ms, on, 0)
      BY DEF PowerWalk
    <2> QED BY <2>1
  <1>4. k - 1 \in Nat /\ k - 1 \notin Bad
    BY <1>2, <1>3
  <1>5. PICK f : PowerWalk(f, d, ms, on, k - 1)
    BY <1>4
  <1> DEFINE
    g == [i \in 0..k |-> IF i = k THEN PowerStep(f[k - 1], d.mons[k], ms, on) ELSE f[i]]
  <1>6. ASSUME NEW i \in 0..k
        PROVE  g[i] = IF i = 0 THEN d ELSE PowerStep(g[i - 1], d.mons[i], ms, on)
    <2>1. CASE i = k
      BY <1>3, <1>4, <2>1
    <2>2. CASE i # k
      <3>1. i \in 0..(k - 1) /\ (i # 0 => i - 1 \in 0..k /\ i - 1 # k)
        BY <1>4, <2>2
      <3>2. f[i] = IF i = 0 THEN d ELSE PowerStep(f[i - 1], d.mons[i], ms, on)
        BY <1>5, <3>1 DEF PowerWalk
      <3> QED BY <2>2, <3>1, <3>2
    <2> QED BY <2>1, <2>2
  <1>7. PowerWalk(g, d, ms, on, k)
    <2>1. g = [i \in 0..k |-> g[i]]
      OBVIOUS
    <2> HIDE DEF g
    <2> QED BY <1>6, <2>1 DEF PowerWalk
  <1> QED BY <1>7

\* After the first i turns of the loop.
PowerAfter(e, d, ms, on, i) ==
  /\ PowerKeeps(e, d)
  /\ on => d.lit \subseteq e.lit
  /\ on => \A j \in 1..i : d.mons[j] \in ms \cap d.layout => d.mons[j] \in e.lit

LEMMA PowerAfterNext ==
  ASSUME NEW d, Sound(d), NEW ms, NEW on \in BOOLEAN, NEW i \in 1..Len(d.mons), NEW e,
         PowerAfter(e, d, ms, on, i - 1)
  PROVE  PowerAfter(PowerStep(e, d.mons[i], ms, on), d, ms, on, i)
  <1> DEFINE m == d.mons[i]
             f == PowerStep(e, m, ms, on)
  <1>1. Len(d.mons) \in Nat /\ DOMAIN d.mons = 1..Len(d.mons)
    BY DEF Sound, State
  <1>2. Sound(e) /\ e.mons = d.mons /\ m \in Range(e.mons)
    BY <1>1 DEF PowerAfter, PowerKeeps, Range
  <1>3. \A j \in 1..i : j \in 1..(i - 1) \/ d.mons[j] = m
    BY <1>1
  <1> HIDE DEF m
  <1>4. CASE m \notin ms
    <2>1. f = e
      BY <1>4 DEF PowerStep
    <2> QED BY <1>3, <1>4, <2>1 DEF PowerAfter, m
  <1>5. CASE m \in ms
    <2>1. f = SetPowered(e, m, on)
      BY <1>5 DEF PowerStep
    <2>2. PowerKeeps(f, e) /\ (on => e.lit \subseteq f.lit) /\ (on /\ m \in e.layout => m \in f.lit)
      BY <1>2, <2>1, SetPoweredIs
    <2> HIDE DEF f
    <2>3. PowerKeeps(f, d)
      BY <2>2 DEF PowerAfter, PowerKeeps
    <2>4. on => d.lit \subseteq f.lit
      BY <2>2 DEF PowerAfter
    <2>5. on => \A j \in 1..i : d.mons[j] \in ms \cap d.layout => d.mons[j] \in f.lit
      BY <1>3, <2>2 DEF PowerAfter, PowerKeeps
    <2> QED BY <2>3, <2>4, <2>5 DEF PowerAfter, f, m
  <1> QED BY <1>4, <1>5

LEMMA PowerWalkIs ==
  ASSUME NEW d, Sound(d), NEW ms, NEW on \in BOOLEAN, NEW f,
         PowerWalk(f, d, ms, on, Len(d.mons)), NEW n \in 0..Len(d.mons)
  PROVE  PowerAfter(f[n], d, ms, on, n)
  <1> DEFINE Bad == {k \in 0..Len(d.mons) : ~PowerAfter(f[k], d, ms, on, k)}
  <1> SUFFICES ASSUME Bad # {} PROVE FALSE
    OBVIOUS
  <1>1. Len(d.mons) \in Nat
    BY DEF Sound, State
  <1>2. Bad \subseteq Nat
    BY <1>1
  <1>3. \E k \in Bad : \A j \in Bad : k <= j
    BY <1>2, LeastNat
  <1>4. PICK k \in Bad : \A j \in Bad : k <= j
    BY <1>3
  <1>5. f[0] = d
    BY <1>1 DEF PowerWalk
  <1>6. k # 0
    <2>1. PowerAfter(d, d, ms, on, 0)
      BY DEF PowerAfter, PowerKeeps
    <2> QED BY <1>4, <1>5, <2>1
  <1>7. k - 1 \in 0..Len(d.mons) /\ k - 1 \notin Bad /\ k \in 1..Len(d.mons)
    BY <1>1, <1>4, <1>6
  <1>8. PowerAfter(f[k - 1], d, ms, on, k - 1)
    BY <1>7
  <1>9. f[k] = PowerStep(f[k - 1], d.mons[k], ms, on)
    BY <1>1, <1>6, <1>7 DEF PowerWalk
  <1>10. PowerAfter(PowerStep(f[k - 1], d.mons[k], ms, on), d, ms, on, k)
    BY <1>7, <1>8, PowerAfterNext
  <1>11. PowerAfter(f[k], d, ms, on, k)
    BY <1>9, <1>10
  <1> QED BY <1>11

\* After the whole loop.
LEMMA SetEachPoweredIs ==
  ASSUME NEW d, Sound(d), NEW ms, NEW on \in BOOLEAN
  PROVE  PowerAfter(SetEachPowered(d, ms, on), d, ms, on, Len(d.mons))
  <1> DEFINE n == Len(d.mons)
             f == CHOOSE f : PowerWalk(f, d, ms, on, n)
  <1>1. n \in Nat
    BY DEF Sound, State
  <1>2. SetEachPowered(d, ms, on) = f[n]
    BY Zenon DEF SetEachPowered, PowerWalk, PowerStep
  <1>3. PowerWalk(f, d, ms, on, n)
    BY <1>1, PowerWalkExists
  <1> HIDE DEF f
  <1>4. n \in 0..n
    BY <1>1
  <1>5. PowerAfter(f[n], d, ms, on, n)
    BY <1>3, <1>4, PowerWalkIs, Zenon
  <1> QED BY <1>2, <1>5

-----------------------------------------------------------------------------
(* Displays: the invariant, and the handlers that the lid policy ends.     *)

\* Every external display is in the layout, and with none every panel is.
Shown(d) ==
  \A m \in Range(d.mons) :
    m \notin Internal \/ Range(d.mons) \subseteq Internal => m \in d.layout

\* An output of the layout is lit, or blanked, or somebody disabled it.
Explained(d, disabled) == d.layout \subseteq d.lit \cup d.off \cup disabled

ScreensInv ==
  /\ Sound(Now) /\ Shown(Now) /\ Explained(Now, refused)
  /\ refused \subseteq Plugged /\ lid \in BOOLEAN

\* A step leads to the record e, with these outputs disabled on the way.  What the idle
\* manager heard is right where monitor.configure enables nothing.
Leads(e, disabled) ==
  /\ BecomeWithout(e, disabled) /\ lid' \in BOOLEAN
  /\ Sound(e) /\ Shown(e) /\ Explained(e, refused \cup disabled)
  /\ Heard(Now) /\ TRUE \notin IpcEnables => Heard(e)

\* What the record e has of the selection and the windows that were shown.
SelectionStays(e) == selmon \in layout => e.selmon \in e.layout
WindowsFollow(e) ==
  \A w \in Windows : win[w] \in layout => e.win[w] \in e.layout \cup {Away, e.selmon}

LEMMA NowIs ==
  /\ Now.mons = mons /\ Now.layout = layout /\ Now.lit = lit /\ Now.off = off
  /\ Now.idleOff = idleOff /\ Now.grace = grace /\ Now.selmon = selmon /\ Now.win = win
  /\ Now.video = video /\ Now.inhibited = inhibited /\ Now.armed = armed
  BY DEF Now

LEMMA Lands ==
  ASSUME NEW e \in State, NEW disabled, BecomeWithout(e, disabled)
  PROVE  /\ Now' = e
         /\ refused' = ((refused \cup disabled) \cap Range(e.mons)) \ e.lit
  BY DEF BecomeWithout, Now, State

LEMMA LeadsOn ==
  ASSUME NEW e, NEW disabled, Leads(e, disabled)
  PROVE  /\ ScreensInv'
         /\ Heard(Now) /\ TRUE \notin IpcEnables => Heard(Now)'
  <1>1. e \in State
    BY DEF Leads, Sound
  <1>2. /\ Now' = e
        /\ refused' = ((refused \cup disabled) \cap Range(e.mons)) \ e.lit
    BY <1>1, Lands DEF Leads
  <1>3. Plugged' = Range(e.mons)
    BY <1>1, <1>2 DEF Now, State, Plugged
  <1>4. e.layout \subseteq Range(e.mons)
    BY DEF Leads, Sound
  <1>5. Explained(e, refused')
    BY <1>2, <1>4 DEF Leads, Explained
  <1> QED BY <1>2, <1>3, <1>5 DEF Leads, ScreensInv

LEMMA SameShown ==
  ASSUME NEW d, NEW e, NEW some, Shown(d), Explained(d, some), e.mons = d.mons,
         e.layout = d.layout, d.lit \cup d.off \subseteq e.lit \cup e.off
  PROVE  Shown(e) /\ Explained(e, some)
  BY DEF Shown, Explained

\* The lid policy asks of its caller only that the external displays are in order.
LEMMA UpdateLidShows ==
  ASSUME NEW d, Sound(d), NEW shut \in BOOLEAN, NEW some,
         \A m \in Range(d.mons) \ Internal : m \in d.layout,
         \A m \in d.layout \ Internal : m \in d.lit \cup d.off \cup some
  PROVE  /\ Sound(UpdateLid(d, shut))
         /\ Shown(UpdateLid(d, shut))
         /\ Explained(UpdateLid(d, shut), some)
         /\ Heard(d) => Heard(UpdateLid(d, shut))
  <1> DEFINE e == UpdateLid(d, shut)
             want == Wanted(d, shut)
  <1>1. LidAfter(e, d, want, Len(d.mons))
    BY UpdateLidIs
  <1>2. \A m \in Range(d.mons) : \E j \in 1..Len(d.mons) : d.mons[j] = m
    BY DEF Sound, State, Range
  <1>3. Range(d.mons) \subseteq Internal => want
    BY DEF Wanted
  <1> HIDE DEF e, want
  <1>4. LidKeeps(e, d)
    BY <1>1 DEF LidAfter
  <1>5. \A m \in Range(d.mons) \cap Internal :
          IF want THEN m \in e.lit /\ m \in e.layout ELSE m \notin e.lit /\ m \notin e.layout
    BY <1>1, <1>2 DEF LidAfter
  <1>6. Sound(e) /\ e.mons = d.mons /\ (Heard(d) => Heard(e))
    BY <1>4 DEF LidKeeps
  <1>7. Shown(e)
    BY <1>3, <1>4, <1>5, <1>6 DEF Shown, LidKeeps
  <1>8. Explained(e, some)
    <2> SUFFICES ASSUME NEW m \in e.layout PROVE m \in e.lit \cup e.off \cup some
      BY DEF Explained
    <2>1. m \in Range(d.mons)
      BY <1>6 DEF Sound
    <2>2. CASE m \in Internal
      BY <1>5, <2>1, <2>2
    <2>3. CASE m \notin Internal
      BY <1>4, <2>3 DEF LidKeeps
    <2> QED BY <2>2, <2>3
  <1> QED BY <1>6, <1>7, <1>8 DEF e

LEMMA UpdateLidMoves ==
  ASSUME NEW d, Sound(d), NEW shut \in BOOLEAN,
         \A m \in Range(d.mons) \ Internal : m \in d.layout
  PROVE  LET e == UpdateLid(d, shut) IN
         /\ d.selmon \in d.layout => e.selmon \in e.layout
         /\ \A w \in Windows :
              /\ d.win[w] \in d.layout \/ (d.win[w] = d.selmon /\ d.selmon # None)
                   => e.win[w] \in e.layout \cup {e.selmon}
              /\ d.win[w] = None => e.win[w] = None
  <1> DEFINE e == UpdateLid(d, shut)
             want == Wanted(d, shut)
  <1>1. LidAfter(e, d, want, Len(d.mons))
    BY UpdateLidIs
  <1>2. \A m \in Range(d.mons) : \E j \in 1..Len(d.mons) : d.mons[j] = m
    BY DEF Sound, State, Range
  <1>3. ~want => d.lit \ Internal # {}
    BY DEF Wanted
  <1>4. want \in BOOLEAN
    BY DEF Wanted
  <1> HIDE DEF e, want
  <1>5. CASE want
    <2>1. LidOpens(e, d)
      BY <1>1, <1>5 DEF LidAfter
    <2>2. d.selmon # None => e.selmon = d.selmon
      BY <2>1 DEF LidOpens
    <2>3. d.selmon \in d.layout => e.selmon \in e.layout
      BY <2>1 DEF LidOpens
    <2> QED BY <2>1, <2>2, <2>3 DEF LidOpens, e
  <1>6. CASE ~want
    <2>1. LidMoves(e, d) /\ LidKeeps(e, d)
      BY <1>1, <1>3, <1>6 DEF LidAfter
    <2>2. \A m \in Range(d.mons) \cap Internal : m \notin e.lit
      BY <1>1, <1>2, <1>6 DEF LidAfter
    <2>3. \A m \in e.lit : m \in Range(d.mons)
      BY <2>1 DEF LidKeeps, Sound
    <2>4. There(e) = e.layout
      BY <2>1, <2>2, <2>3 DEF LidKeeps, There
    <2>5. d.layout \subseteq There(d)
      BY DEF There
    <2> QED BY <2>1, <2>4, <2>5 DEF LidMoves, e
  <1> QED BY <1>4, <1>5, <1>6

LEMMA LidHandler ==
  ASSUME ScreensInv, NEW shut \in BOOLEAN, Become(UpdateLid(Now, shut)), lid' \in BOOLEAN
  PROVE  \E e, disabled :
           Leads(e, disabled) /\ SelectionStays(e) /\ WindowsFollow(e)
  <1> DEFINE e == UpdateLid(Now, shut)
  <1>1. /\ \A m \in Range(Now.mons) \ Internal : m \in Now.layout
        /\ \A m \in Now.layout \ Internal : m \in Now.lit \cup Now.off \cup refused
    BY DEF ScreensInv, Shown, Explained
  <1>2. Sound(Now)
    BY DEF ScreensInv
  <1>3. Sound(e) /\ Shown(e) /\ Explained(e, refused) /\ (Heard(Now) => Heard(e))
    BY <1>1, <1>2, UpdateLidShows
  <1>4. /\ Now.selmon \in Now.layout => e.selmon \in e.layout
        /\ \A w \in Windows :
             Now.win[w] \in Now.layout => e.win[w] \in e.layout \cup {e.selmon}
    BY <1>1, <1>2, UpdateLidMoves
  <1> HIDE DEF e
  <1>5. SelectionStays(e) /\ WindowsFollow(e)
    BY <1>4, NowIs DEF SelectionStays, WindowsFollow
  <1>6. BecomeWithout(e, {})
    BY DEF Become, e
  <1>7. Explained(e, refused \cup {})
    BY <1>3
  <1>8. Leads(e, {})
    BY <1>3, <1>6, <1>7 DEF Leads
  <1> QED BY <1>5, <1>8

LEMMA LidSteps ==
  ASSUME ScreensInv, LidToggle \/ LidSwitchFound
  PROVE  \E e, disabled :
           Leads(e, disabled) /\ SelectionStays(e) /\ WindowsFollow(e)
  <1>1. lid \in BOOLEAN
    BY DEF ScreensInv
  <1>2. lid' \in BOOLEAN /\ Become(UpdateLid(Now, lid'))
    BY <1>1 DEF LidToggle, LidSwitchFound
  <1> QED BY <1>2, LidHandler

-----------------------------------------------------------------------------
(* Displays: an output comes, an output goes.                              *)

LEMMA PlugStep ==
  ASSUME ScreensInv, NEW m \in Outputs, Plug(m)
  PROVE  \E e, disabled :
           Leads(e, disabled) /\ SelectionStays(e) /\ WindowsFollow(e)
  <1>1. m \notin Range(mons)
    BY DEF Plug, Plugged
  <1> DEFINE new == [Now EXCEPT !.mons = Append(@, m), !.layout = @ \cup {m},
                                !.selmon = IF @ = None THEN m ELSE @]
  <1>2. PICK ok \in BOOLEAN :
          /\ ok \/ (m \in Flaky /\ lid)
          /\ BecomeWithout(UpdateLid(SetEnabled(new, m, ok /\ m \notin ConfigOff), lid),
                           IF ok /\ ~(ok /\ m \notin ConfigOff) THEN {m} ELSE {})
    BY Zenon DEF Plug
  <1> DEFINE on == ok /\ m \notin ConfigOff
             disabled == IF ok /\ ~on THEN {m} ELSE {}
             d == SetEnabled(new, m, on)
             e == UpdateLid(d, lid)
  <1>3. /\ Sound(Now) /\ Now \in State /\ mons \in Seq(Outputs) /\ IsInjective(mons)
        /\ lid \in BOOLEAN
    BY NowIs DEF ScreensInv, Sound, State
  <1>4. /\ Append(mons, m) \in Seq(Outputs)
        /\ Len(Append(mons, m)) = Len(mons) + 1 /\ Len(mons) \in Nat
        /\ \A i \in 1..Len(mons) : Append(mons, m)[i] = mons[i]
        /\ Append(mons, m)[Len(mons) + 1] = m
        /\ DOMAIN mons = 1..Len(mons) /\ DOMAIN Append(mons, m) = 1..(Len(mons) + 1)
    BY <1>3
  <1>5. Range(Append(mons, m)) = Range(mons) \cup {m}
    <2>1. \A x \in Range(Append(mons, m)) : x \in Range(mons) \cup {m}
      <3> SUFFICES ASSUME NEW i \in 1..(Len(mons) + 1)
                   PROVE  Append(mons, m)[i] \in Range(mons) \cup {m}
        BY <1>4 DEF Range
      <3>1. i \in 1..Len(mons) \/ i = Len(mons) + 1
        BY <1>4
      <3> QED BY <1>4, <3>1 DEF Range
    <2>2. \A x \in Range(mons) : x \in Range(Append(mons, m))
      <3> SUFFICES ASSUME NEW i \in 1..Len(mons) PROVE mons[i] \in Range(Append(mons, m))
        BY <1>4 DEF Range
      <3>1. i \in 1..(Len(mons) + 1) /\ Append(mons, m)[i] = mons[i]
        BY <1>4
      <3> QED BY <1>4, <3>1 DEF Range
    <2>3. m \in Range(Append(mons, m))
      <3>1. Len(mons) + 1 \in 1..(Len(mons) + 1)
        BY <1>4
      <3> QED BY <1>4, <3>1 DEF Range
    <2> QED BY <2>1, <2>2, <2>3
  <1>6. IsInjective(Append(mons, m))
    <2> SUFFICES ASSUME NEW i \in 1..(Len(mons) + 1), NEW j \in 1..(Len(mons) + 1),
                        Append(mons, m)[i] = Append(mons, m)[j]
                 PROVE  i = j
      BY <1>4 DEF IsInjective
    <2>1. \A k \in 1..Len(mons) : mons[k] # m
      BY <1>1, <1>4 DEF Range
    <2> QED BY <1>3, <1>4, <2>1 DEF IsInjective
  <1>7. None \notin Outputs
    BY DisplaysAssumption
  <1> DEFINE sel == IF selmon = None THEN m ELSE selmon
             longer == Append(mons, m)
  <1>8. /\ new.mons = longer /\ new.layout = layout \cup {m} /\ new.selmon = sel
        /\ new.lit = lit /\ new.off = off /\ new.win = win /\ new.video = video
        /\ new.inhibited = inhibited /\ new.armed = armed
        /\ sel \in Outputs \cup {None}
        /\ new \in State
    <2>1. /\ layout \cup {m} \in SUBSET Outputs /\ sel \in Outputs \cup {None}
          /\ longer \in Seq(Outputs)
      BY <1>3, <1>4, NowIs DEF State
    <2>2. new = [Now EXCEPT !.mons = longer, !.layout = layout \cup {m}, !.selmon = sel]
      BY NowIs
    <2> HIDE DEF longer, sel, new
    <2>3. /\ new.mons = longer /\ new.layout = layout \cup {m} /\ new.selmon = sel
          /\ new.lit = Now.lit /\ new.off = Now.off /\ new.win = Now.win
          /\ new.video = Now.video
          /\ new.inhibited = Now.inhibited /\ new.armed = Now.armed
          /\ new \in State
      BY <1>3, <2>1, <2>2 DEF State
    <2> QED BY <2>1, <2>3, NowIs DEF longer, sel
  <1>9. Sound(new)
    <2>1. /\ layout \subseteq Range(mons) /\ lit \subseteq Range(mons)
          /\ off \subseteq Range(mons) /\ selmon \in Range(mons) \cup {None}
          /\ \A w \in Windows : win[w] \in Range(mons) \cup {None, Away}
          /\ \A w \in video : win[w] # Away
      BY <1>3, NowIs DEF Sound
    <2> HIDE DEF new
    <2> QED BY <1>5, <1>6, <1>8, <2>1 DEF Sound
  <1>10. m \in Range(new.mons) /\ on \in BOOLEAN
    BY <1>5, <1>8
  <1> HIDE DEF new
  <1>11. /\ Sound(d) /\ d.lit = (IF on THEN lit \cup {m} ELSE lit \ {m})
         /\ d = [new EXCEPT !.lit = d.lit]
    BY <1>8, <1>9, <1>10, SetEnabledIs
  <1>12. /\ d.mons = longer /\ d.layout = layout \cup {m} /\ d.selmon = sel /\ d.off = off
         /\ d.win = win /\ d.video = video /\ d.inhibited = inhibited /\ d.armed = armed
    BY <1>8, <1>11 DEF State
  <1> HIDE DEF d
  <1>13. m \notin Internal => ok
    BY <1>2, DisplaysAssumption
  <1>14. \A o \in Range(d.mons) \ Internal : o \in d.layout
    BY <1>5, <1>12, NowIs DEF ScreensInv, Shown
  <1>15. \A o \in d.layout \ Internal : o \in d.lit \cup d.off \cup (refused \cup disabled)
    <2>1. \A o \in layout : o \in lit \cup off \cup refused
      BY NowIs DEF ScreensInv, Explained
    <2>2. m \notin Internal => m \in d.lit \cup disabled
      BY <1>11, <1>13
    <2>3. \A o \in lit : o # m
      BY <1>1, <1>3, NowIs DEF Sound
    <2> QED BY <1>11, <1>12, <2>1, <2>2, <2>3
  <1>16. Heard(Now) => Heard(d)
    <2>1. \A w \in Windows : win[w] # m
      <3>1. m # None /\ m # Away
        BY DisplaysAssumption
      <3> QED BY <1>1, <1>3, <3>1, NowIs DEF Sound
    <2>2. \A w \in Windows : Counts(d, w) => Counts(Now, w)
      BY <1>11, <1>12, <2>1, NowIs DEF Counts
    <2> QED BY <1>12, <2>2, NowIs, HeardLess
  <1>17. /\ Sound(e) /\ Shown(e) /\ Explained(e, refused \cup disabled)
         /\ Heard(d) => Heard(e)
    BY <1>3, <1>11, <1>14, <1>15, UpdateLidShows
  <1>18. /\ d.selmon \in d.layout => e.selmon \in e.layout
         /\ \A w \in Windows : d.win[w] \in d.layout => e.win[w] \in e.layout \cup {e.selmon}
    BY <1>3, <1>11, <1>14, UpdateLidMoves
  <1>19. BecomeWithout(e, disabled) /\ lid' \in BOOLEAN
    BY <1>2, <1>3 DEF Plug, d
  <1> HIDE DEF e
  <1>20. Leads(e, disabled)
    BY <1>16, <1>17, <1>19 DEF Leads
  <1>21. selmon \in layout => d.selmon \in d.layout
    <2>1. None \notin layout
      BY <1>3, <1>7, NowIs DEF State
    <2> QED BY <1>12, <2>1
  <1>22. SelectionStays(e) /\ WindowsFollow(e)
    BY <1>12, <1>18, <1>21 DEF SelectionStays, WindowsFollow
  <1> QED BY <1>20, <1>22

LEMMA RemoveFirstIs ==
  ASSUME NEW s \in Seq(Outputs), IsInjective(s), NEW m \in Range(s)
  PROVE  /\ RemoveFirst(s, m) \in Seq(Outputs)
         /\ IsInjective(RemoveFirst(s, m))
         /\ Range(RemoveFirst(s, m)) = Range(s) \ {m}
  <1> DEFINE I == {i \in 1..Len(s) : s[i] = m}
             k == Min(I)
             r == SubSeq(s, 1, k - 1) \o SubSeq(s, k + 1, Len(s))
  <1>1. Len(s) \in Nat /\ DOMAIN s = 1..Len(s)
    OBVIOUS
  <1>2. I # {} /\ I \subseteq Nat
    BY <1>1 DEF Range
  <1>3. k \in I
    <2>1. \E n \in I : \A j \in I : n <= j
      <3> HIDE DEF I
      <3> QED BY <1>2, LeastNat
    <2> QED BY <2>1 DEF Min
  <1>4. RemoveFirst(s, m) = r
    <2>1. \E i \in 1..Len(s) : s[i] = m
      BY <1>2
    <2> QED BY <1>2, <2>1 DEF RemoveFirst, RemoveAt, SelectInSeq
  <1>5. k \in 1..Len(s) /\ s[k] = m
    BY <1>3
  <1> HIDE DEF k
  <1> DEFINE front == SubSeq(s, 1, k - 1)
             back == SubSeq(s, k + 1, Len(s))
  <1>6. /\ front \in Seq(Outputs) /\ Len(front) = k - 1
        /\ \A i \in 1..(k - 1) : front[i] = s[i]
    <2>1. \A i \in 1..(k - 1) : s[i] \in Outputs
      BY <1>1, <1>5
    <2>2. k - 1 \in Int /\ 1 \in Int
      BY <1>5
    <2> HIDE DEF I
    <2>3. /\ front \in Seq(Outputs)
          /\ Len(front) = IF 1 <= k - 1 THEN (k - 1) - 1 + 1 ELSE 0
          /\ \A i \in 1..((k - 1) - 1 + 1) : front[i] = s[1 + i - 1]
      BY ONLY <2>1, <2>2, SubSeqProperties
    <2>4. (k - 1) - 1 + 1 = k - 1 /\ (~(1 <= k - 1) => k - 1 = 0)
      BY <1>5
    <2>5. \A i \in 1..(k - 1) : 1 + i - 1 = i
      OBVIOUS
    <2> HIDE DEF front
    <2> QED BY <2>3, <2>4, <2>5
  <1>7. /\ back \in Seq(Outputs) /\ Len(back) = Len(s) - k
        /\ \A i \in 1..(Len(s) - k) : back[i] = s[i + k]
    <2>1. \A i \in (k + 1)..Len(s) : s[i] \in Outputs
      BY <1>1, <1>5
    <2>2. k + 1 \in Int /\ Len(s) \in Int
      BY <1>1, <1>5
    <2> HIDE DEF I
    <2>3. /\ back \in Seq(Outputs)
          /\ Len(back) = IF k + 1 <= Len(s) THEN Len(s) - (k + 1) + 1 ELSE 0
          /\ \A i \in 1..(Len(s) - (k + 1) + 1) : back[i] = s[(k + 1) + i - 1]
      BY ONLY <2>1, <2>2, SubSeqProperties
    <2>4. Len(s) - (k + 1) + 1 = Len(s) - k /\ (~(k + 1 <= Len(s)) => Len(s) - k = 0)
      <3>1. k \in Nat /\ Len(s) \in Nat /\ k <= Len(s)
        BY <1>1, <1>5
      <3> QED BY ONLY <3>1
    <2>5. \A i \in 1..(Len(s) - k) : (k + 1) + i - 1 = i + k
      BY <1>5
    <2> HIDE DEF back
    <2> QED BY <2>3, <2>4, <2>5
  <1> HIDE DEF front, back
  <1>8. /\ r \in Seq(Outputs) /\ Len(r) = Len(s) - 1 /\ DOMAIN r = 1..(Len(s) - 1)
        /\ \A i \in 1..(Len(s) - 1) : r[i] = IF i < k THEN s[i] ELSE s[i + 1]
    <2> DEFINE fb == front \o back
    <2>1. /\ fb \in Seq(Outputs) /\ Len(fb) = Len(front) + Len(back)
          /\ \A i \in 1..(Len(front) + Len(back)) :
               fb[i] = IF i <= Len(front) THEN front[i] ELSE back[i - Len(front)]
      BY ONLY <1>6, <1>7, ConcatProperties
    <2>2. r = fb
      BY DEF front, back
    <2> HIDE DEF r, fb
    <2>3. Len(r) = Len(s) - 1
      <3>1. k \in Nat /\ Len(s) \in Nat
        BY <1>1, <1>5
      <3>2. Len(r) = (k - 1) + (Len(s) - k)
        BY <1>6, <1>7, <2>1, <2>2
      <3> QED BY ONLY <3>1, <3>2
    <2>4. ASSUME NEW i \in 1..(Len(s) - 1)
          PROVE  r[i] = IF i < k THEN s[i] ELSE s[i + 1]
      <3>0. r[i] = IF i <= k - 1 THEN front[i] ELSE back[i - (k - 1)]
        BY <1>1, <1>5, <1>6, <1>7, <2>1, <2>2
      <3>1. CASE i < k
        <4>1. i \in 1..(k - 1)
          BY <1>5, <3>1
        <4> QED BY <1>6, <3>0, <3>1, <4>1
      <3>2. CASE ~(i < k)
        <4>1. i - (k - 1) \in 1..(Len(s) - k) /\ (i - (k - 1)) + k = i + 1
          BY <1>1, <1>5, <3>2
        <4>2. ~(i <= k - 1)
          BY <1>5, <3>2
        <4> QED BY <1>7, <3>0, <3>2, <4>1, <4>2
      <3> QED BY <3>1, <3>2
    <2> QED BY <2>1, <2>2, <2>3, <2>4
  <1> HIDE DEF r
  <1>9. IsInjective(r)
    <2> SUFFICES ASSUME NEW i \in 1..(Len(s) - 1), NEW j \in 1..(Len(s) - 1), r[i] = r[j]
                 PROVE  i = j
      BY <1>8 DEF IsInjective
    <2>1. \A a \in 1..Len(s) : \A b \in 1..Len(s) : s[a] = s[b] => a = b
      BY <1>1 DEF IsInjective
    <2>2. i \in 1..Len(s) /\ i + 1 \in 1..Len(s) /\ j \in 1..Len(s) /\ j + 1 \in 1..Len(s)
      BY <1>1
    <2> QED BY <1>5, <1>8, <2>1, <2>2
  <1>10. \A x \in Range(r) : x \in Range(s) \ {m}
    <2> SUFFICES ASSUME NEW i \in 1..(Len(s) - 1) PROVE r[i] \in Range(s) \ {m}
      BY <1>8 DEF Range
    <2>1. \A a \in 1..Len(s) : s[a] = m => a = k
      BY <1>1, <1>5 DEF IsInjective
    <2>2. i \in 1..Len(s) /\ i + 1 \in 1..Len(s)
      BY <1>1
    <2>3. (r[i] = s[i] /\ i # k) \/ (r[i] = s[i + 1] /\ i + 1 # k)
      BY <1>1, <1>5, <1>8
    <2> QED BY <1>1, <2>1, <2>2, <2>3 DEF Range
  <1>11. \A x \in Range(s) \ {m} : x \in Range(r)
    <2> SUFFICES ASSUME NEW i \in 1..Len(s), s[i] # m PROVE s[i] \in Range(r)
      BY <1>1 DEF Range
    <2>1. CASE i < k
      <3>1. i \in 1..(Len(s) - 1) /\ r[i] = s[i]
        BY <1>1, <1>5, <1>8, <2>1
      <3> QED BY <1>8, <3>1 DEF Range
    <2>2. CASE ~(i < k)
      <3>1. i # k
        BY <1>5
      <3>2. i - 1 \in 1..(Len(s) - 1) /\ r[i - 1] = s[i]
        BY <1>1, <1>5, <1>8, <2>2, <3>1
      <3> QED BY <1>8, <3>2 DEF Range
    <2> QED BY <2>1, <2>2
  <1> QED BY <1>4, <1>8, <1>9, <1>10, <1>11

\* The windows of an unplugged output follow the selection.
LEMMA UnplugStep ==
  ASSUME ScreensInv, NEW m \in Outputs, Unplug(m)
  PROVE  \E e, disabled :
           /\ Leads(e, disabled)
           /\ selmon # m => SelectionStays(e)
           /\ \A w \in Windows : win[w] \in layout =>
                \/ e.win[w] \in e.layout \cup {Away, e.selmon}
                \/ e.win[w] = None /\ selmon = None
  <1> DEFINE rest == RemoveFirst(mons, m)
             sel == IF selmon # m THEN selmon ELSE IF rest = <<>> THEN None ELSE Head(rest)
             gone == [Now EXCEPT !.mons = rest, !.layout = @ \ {m}, !.lit = @ \ {m},
                                 !.off = @ \ {m}, !.selmon = sel]
             d == SetMon(gone, On(gone, m), sel)
             e == UpdateLid(d, lid)
  <1>1. m \in Range(mons) /\ Become(e) /\ lid' = lid
    BY DEF Unplug, Plugged
  <1>2. /\ Sound(Now) /\ Now \in State /\ mons \in Seq(Outputs) /\ IsInjective(mons)
        /\ lid \in BOOLEAN
    BY NowIs DEF ScreensInv, Sound, State
  <1>3. rest \in Seq(Outputs) /\ IsInjective(rest) /\ Range(rest) = Range(mons) \ {m}
    BY <1>1, <1>2, RemoveFirstIs
  <1> HIDE DEF rest
  <1>4. rest # <<>> => Head(rest) \in Range(rest)
    <2> SUFFICES ASSUME rest # <<>> PROVE Head(rest) \in Range(rest)
      OBVIOUS
    <2>1. 1 \in 1..Len(rest) /\ Head(rest) = rest[1] /\ DOMAIN rest = 1..Len(rest)
      BY <1>3
    <2> QED BY <2>1 DEF Range
  <1>5. sel \in Range(rest) \cup {None} /\ (selmon # m => sel = selmon)
    BY <1>2, <1>3, <1>4, NowIs DEF Sound
  <1>6. selmon = m /\ sel = None => rest = <<>>
    BY <1>3, <1>4, DisplaysAssumption DEF Range
  <1> HIDE DEF sel
  <1>7. /\ gone.mons = rest /\ gone.layout = layout \ {m} /\ gone.lit = lit \ {m}
        /\ gone.off = off \ {m} /\ gone.selmon = sel /\ gone.win = win
        /\ gone.video = video /\ gone.inhibited = inhibited /\ gone.armed = armed
        /\ gone \in State
    <2>1. Range(rest) \subseteq Outputs
      BY <1>3 DEF Range
    <2>2. sel \in Outputs \cup {None}
      BY <1>5, <2>1
    <2> QED BY <1>2, <1>3, <2>2, NowIs DEF State
  <1> HIDE DEF gone
  <1> DEFINE there == On(gone, m)
             new == [w \in Windows |-> IF w \in there THEN sel ELSE gone.win[w]]
             put == [gone EXCEPT !.win = new]
  <1>8. there = {w \in Windows : win[w] = m}
    BY <1>7 DEF On
  <1> HIDE DEF there
  <1>9. new \in [Windows -> Outputs \cup {None, Away}]
    <2>1. sel \in Outputs \cup {None, Away}
      BY <1>7 DEF State
    <2> QED BY <1>7, <2>1 DEF State
  <1>10. \A w \in Windows : new[w] = IF win[w] = m THEN sel ELSE win[w]
    BY <1>7, <1>8
  <1> HIDE DEF new
  <1>11. /\ put.mons = rest /\ put.layout = layout \ {m} /\ put.lit = lit \ {m}
         /\ put.off = off \ {m} /\ put.selmon = sel /\ put.win = new
         /\ put.video = video /\ put.inhibited = inhibited /\ put.armed = armed
         /\ put \in State
    BY <1>7, <1>9 DEF State
  <1> HIDE DEF put
  <1>12. /\ layout \subseteq Range(mons) /\ lit \subseteq Range(mons)
         /\ off \subseteq Range(mons) /\ selmon \in Range(mons) \cup {None}
         /\ \A w \in Windows : win[w] \in Range(mons) \cup {None, Away}
         /\ \A w \in video : win[w] # Away /\ w \in Windows
    BY <1>2, NowIs DEF Sound, State
  <1>13. Away \notin Outputs \cup {None} /\ None \notin Outputs
    BY DisplaysAssumption
  <1>14. Sound(put)
    <2>1. \A w \in Windows : new[w] \in Range(rest) \cup {None, Away}
      BY <1>3, <1>5, <1>10, <1>12
    <2>2. Range(rest) \subseteq Outputs
      BY <1>3 DEF Range
    <2>3. \A w \in video : new[w] # Away
      BY <1>5, <1>10, <1>12, <1>13, <2>2
    <2> QED BY <1>3, <1>5, <1>11, <1>12, <2>1, <2>3 DEF Sound
  <1>15. Heard(Now) => Heard(gone)
    <2>1. \A w \in Windows : Counts(gone, w) => Counts(Now, w)
      BY <1>7, NowIs DEF Counts
    <2> QED BY <1>7, <2>1, NowIs, HeardLess
  <1>16. /\ d \in State /\ SameScreens(d, put) /\ (Heard(Now) => Heard(d))
    <2>1. there \in SUBSET Windows /\ sel \in Outputs \cup {None}
      BY <1>7, <1>8 DEF State
    <2> QED BY <1>7, <1>15, <2>1, SetMonPuts DEF put, new, there
  <1> HIDE DEF d
  <1>17. /\ Sound(d) /\ d.mons = rest /\ d.layout = layout \ {m} /\ d.lit = lit \ {m}
         /\ d.off = off \ {m} /\ d.selmon = sel /\ d.win = new
    <2>1. Sound(d)
      BY <1>14, <1>16, SoundFields
    <2> QED BY <1>11, <1>16, <2>1 DEF SameScreens
  <1>18. \A o \in Range(d.mons) \ Internal : o \in d.layout
    BY <1>3, <1>17, NowIs DEF ScreensInv, Shown
  <1>19. \A o \in d.layout \ Internal : o \in d.lit \cup d.off \cup refused
    BY <1>17, NowIs DEF ScreensInv, Explained
  <1>20. Sound(e) /\ Shown(e) /\ Explained(e, refused) /\ (Heard(d) => Heard(e))
    BY <1>2, <1>17, <1>18, <1>19, UpdateLidShows
  <1>21. /\ d.selmon \in d.layout => e.selmon \in e.layout
         /\ \A w \in Windows :
              /\ d.win[w] \in d.layout \/ (d.win[w] = d.selmon /\ d.selmon # None)
                   => e.win[w] \in e.layout \cup {e.selmon}
              /\ d.win[w] = None => e.win[w] = None
    BY <1>2, <1>17, <1>18, UpdateLidMoves
  <1>22. BecomeWithout(e, {}) /\ lid' \in BOOLEAN
    BY <1>1, <1>2 DEF Become
  <1>23. LidKeeps(e, d)
    BY <1>2, <1>17, UpdateLidIs DEF LidAfter
  <1> HIDE DEF e
  <1>24. Explained(e, refused \cup {})
    BY <1>20
  <1>25. Leads(e, {})
    BY <1>16, <1>20, <1>22, <1>24 DEF Leads
  <1>26. selmon # m => SelectionStays(e)
    BY <1>5, <1>17, <1>21 DEF SelectionStays
  <1>27. ASSUME NEW w \in Windows, win[w] \in layout
         PROVE  \/ e.win[w] \in e.layout \cup {Away, e.selmon}
                \/ e.win[w] = None /\ selmon = None
    <2>1. CASE win[w] # m
      <3>1. d.win[w] \in d.layout
        BY <1>10, <1>17, <1>27, <2>1
      <3> QED BY <1>21, <3>1
    <2>2. CASE win[w] = m /\ sel # None
      <3>1. d.win[w] = d.selmon /\ d.selmon # None
        BY <1>10, <1>17, <2>2
      <3> QED BY <1>21, <3>1
    <2>3. CASE win[w] = m /\ sel = None
      <3>1. e.mons = rest
        BY <1>17, <1>23 DEF LidKeeps
      <3>2. d.win[w] = None
        BY <1>10, <1>17, <2>3
      <3>3. e.win[w] = None
        BY <1>21, <3>2
      <3>4. selmon = None \/ rest = <<>>
        BY <1>5, <1>6, <2>3
      <3>5. rest = <<>> => e.selmon = None
        <4>1. rest = <<>> => Range(rest) = {}
          BY DEF Range
        <4> QED BY <1>20, <3>1, <4>1 DEF Sound
      <3> QED BY <3>3, <3>4, <3>5
    <2> QED BY <2>1, <2>2, <2>3
  <1> QED BY <1>25, <1>26, <1>27
-----------------------------------------------------------------------------
(* Displays: the steps that leave the outputs and the layout as they are.  *)

Still(e) ==
  /\ Become(e) /\ lid' = lid /\ Sound(e) /\ e.mons = mons /\ e.layout = layout
  /\ lit \cup off \subseteq e.lit \cup e.off
  /\ Heard(Now) => Heard(e)

LEMMA StillLeads ==
  ASSUME ScreensInv, NEW e, Still(e)
  PROVE  Leads(e, {})
  <1>1. lid' \in BOOLEAN
    BY DEF ScreensInv, Still
  <1>2. Shown(e) /\ Explained(e, refused)
    BY NowIs, SameShown DEF ScreensInv, Still
  <1>3. Explained(e, refused \cup {})
    BY <1>2
  <1>4. BecomeWithout(e, {})
    BY DEF Still, Become
  <1> QED BY <1>1, <1>2, <1>3, <1>4 DEF Leads, Still

LEMMA PowerKeepsOn ==
  ASSUME NEW c, NEW d, NEW e, PowerKeeps(d, c), PowerKeeps(e, d)
  PROVE  PowerKeeps(e, c)
  BY DEF PowerKeeps

\* The idle manager's own fields, and the bookkeeping of an explicit off.
LEMMA FlagsKeep ==
  ASSUME NEW d, Sound(d), NEW e \in State,
         e.mons = d.mons, e.layout = d.layout, e.lit = d.lit, e.off = d.off,
         e.selmon = d.selmon, e.win = d.win, e.video = d.video, e.inhibited = d.inhibited,
         e.armed = d.armed \/ e.armed = FALSE \/ e.armed = ~e.inhibited
  PROVE  PowerKeeps(e, d)
  <1>1. Sound(e)
    BY DEF Sound
  <1>2. Heard(d) => Heard(e)
    BY DEF Heard, Rests, Counts
  <1> QED BY <1>1, <1>2 DEF PowerKeeps

LEMMA ArrangeKeeps ==
  ASSUME NEW d, Sound(d)
  PROVE  PowerKeeps(Arrange(d), d)
  <1>1. /\ Arrange(d) \in State /\ SameScreens(Arrange(d), d)
        /\ Rests(d) => Heard(Arrange(d))
    BY ArrangeIs DEF Sound
  <1>2. Sound(Arrange(d))
    BY <1>1, SoundFields
  <1> QED BY <1>1, <1>2 DEF PowerKeeps, SameScreens, Heard

LEMMA RearmKeeps ==
  ASSUME NEW d, Sound(d)
  PROVE  PowerKeeps(Rearm(d), d)
  <1> DEFINE e == [d EXCEPT !.armed = ~d.inhibited]
  <1>1. d \in State /\ Rearm(d) = e
    BY DEF Sound, Rearm
  <1>2. /\ e \in State /\ e.mons = d.mons /\ e.layout = d.layout /\ e.lit = d.lit
        /\ e.off = d.off /\ e.selmon = d.selmon /\ e.win = d.win /\ e.video = d.video
        /\ e.inhibited = d.inhibited /\ e.armed = ~e.inhibited
    BY <1>1 DEF State
  <1> HIDE DEF e
  <1> QED BY <1>1, <1>2, FlagsKeep

LEMMA NoteOffKeeps ==
  ASSUME NEW d, Sound(d), NEW on \in BOOLEAN
  PROVE  PowerKeeps(NoteOff(d, on), d)
  <1> DEFINE e == [d EXCEPT !.grace = TRUE, !.idleOff = FALSE]
  <1>1. d \in State
    BY DEF Sound
  <1>2. /\ e \in State /\ e.mons = d.mons /\ e.layout = d.layout /\ e.lit = d.lit
        /\ e.off = d.off /\ e.selmon = d.selmon /\ e.win = d.win /\ e.video = d.video
        /\ e.inhibited = d.inhibited /\ e.armed = d.armed
    BY <1>1 DEF State
  <1> HIDE DEF e
  <1>3. PowerKeeps(e, d) /\ PowerKeeps(d, d)
    BY <1>1, <1>2, FlagsKeep
  <1> QED BY <1>3 DEF NoteOff, e

LEMMA IdleOffKeeps ==
  ASSUME NEW d, Sound(d), NEW b \in BOOLEAN
  PROVE  PowerKeeps([d EXCEPT !.idleOff = b], d)
  <1> DEFINE e == [d EXCEPT !.idleOff = b]
  <1>1. d \in State
    BY DEF Sound
  <1>2. /\ e \in State /\ e.mons = d.mons /\ e.layout = d.layout /\ e.lit = d.lit
        /\ e.off = d.off /\ e.selmon = d.selmon /\ e.win = d.win /\ e.video = d.video
        /\ e.inhibited = d.inhibited /\ e.armed = d.armed
    BY <1>1 DEF State
  <1> HIDE DEF e
  <1>3. PowerKeeps(e, d)
    BY <1>1, <1>2, FlagsKeep
  <1> QED BY <1>3 DEF e

LEMMA EachPoweredKeeps ==
  ASSUME NEW d, Sound(d), NEW ms, NEW on \in BOOLEAN
  PROVE  PowerKeeps(SetEachPowered(d, ms, on), d)
  BY SetEachPoweredIs DEF PowerAfter

LEMMA WakeOutputsKeeps ==
  ASSUME NEW d, Sound(d)
  PROVE  PowerKeeps(WakeOutputs(d), d)
  <1> DEFINE e == SetEachPowered(d, d.off, TRUE)
             f == [e EXCEPT !.idleOff = FALSE]
  <1>1. CASE ~d.idleOff /\ d.grace
    <2>1. WakeOutputs(d) = d
      BY <1>1 DEF WakeOutputs
    <2> QED BY <2>1 DEF PowerKeeps
  <1>2. CASE ~(~d.idleOff /\ d.grace)
    <2>1. WakeOutputs(d) = f
      BY <1>2 DEF WakeOutputs
    <2>2. PowerKeeps(e, d)
      BY EachPoweredKeeps
    <2> HIDE DEF e
    <2>3. PowerKeeps(f, e)
      BY <2>2, IdleOffKeeps DEF PowerKeeps
    <2> QED BY <2>1, <2>2, <2>3, PowerKeepsOn
  <1> QED BY <1>1, <1>2

\* on_dpms_timer(): what it leads to.
TimedOut ==
  [SetEachPowered([Now EXCEPT !.armed = FALSE], lit \ off, FALSE) EXCEPT
    !.idleOff = @ \/ lit \ off # {}]

LEMMA TimedOutKeeps ==
  ASSUME Sound(Now)
  PROVE  PowerKeeps(TimedOut, Now)
  <1> DEFINE d == [Now EXCEPT !.armed = FALSE]
             e == SetEachPowered(d, lit \ off, FALSE)
             b == e.idleOff \/ lit \ off # {}
  <1>1. Now \in State
    BY DEF Sound
  <1>2. /\ d \in State /\ d.mons = Now.mons /\ d.layout = Now.layout /\ d.lit = Now.lit
        /\ d.off = Now.off /\ d.selmon = Now.selmon /\ d.win = Now.win
        /\ d.video = Now.video /\ d.inhibited = Now.inhibited /\ d.armed = FALSE
    BY <1>1 DEF State
  <1>3. TimedOut = [e EXCEPT !.idleOff = b]
    BY DEF TimedOut
  <1> HIDE DEF d, e, b
  <1>4. PowerKeeps(d, Now)
    BY <1>2, FlagsKeep
  <1>5. PowerKeeps(e, d)
    BY <1>4, EachPoweredKeeps DEF PowerKeeps, e
  <1>6. b \in BOOLEAN /\ Sound(e)
    BY <1>5 DEF b, PowerKeeps, Sound, State
  <1>7. PowerKeeps([e EXCEPT !.idleOff = b], e)
    BY <1>6, IdleOffKeeps
  <1> QED BY <1>3, <1>4, <1>5, <1>7, PowerKeepsOn

\* A step of the user, of a client or of the idle manager on power.
PowerSteps ==
  \/ \E on \in BOOLEAN : PowerAll(on)
  \/ PowerToggle
  \/ \E m \in Outputs, on \in BOOLEAN : PowerOne(m, on)
  \/ \E m \in Outputs, on \in BOOLEAN : ConfigurePower(m, on)
  \/ GraceEnds
  \/ DpmsTimer
  \/ Input
  \/ Retile

LEMMA PowerStays ==
  ASSUME ScreensInv, PowerSteps
  PROVE  \E e : Still(e) /\ e.selmon = selmon /\ e.win = win
  <1>1. Sound(Now) /\ PowerKeeps(Now, Now)
    BY DEF ScreensInv, PowerKeeps
  <1> SUFFICES \E e : PowerKeeps(e, Now) /\ Become(e) /\ lid' = lid
    <2>1. ASSUME NEW e, PowerKeeps(e, Now), Become(e), lid' = lid
          PROVE  Still(e) /\ e.selmon = selmon /\ e.win = win
      BY <2>1, NowIs DEF PowerKeeps, Still
    <2> QED BY <2>1
  <1>2. \A on \in BOOLEAN : PowerAll(on) =>
          \E e : PowerKeeps(e, Now) /\ Become(e) /\ lid' = lid
    <2> SUFFICES ASSUME NEW on \in BOOLEAN, PowerAll(on)
                 PROVE  \E e : PowerKeeps(e, Now) /\ Become(e) /\ lid' = lid
      OBVIOUS
    <2> DEFINE d == NoteOff(Now, on)
               e == SetEachPowered(d, Plugged, on)
    <2>1. PowerKeeps(d, Now)
      BY <1>1, NoteOffKeeps
    <2>2. PowerKeeps(e, d)
      BY <2>1, EachPoweredKeeps DEF PowerKeeps
    <2>3. Become(e) /\ lid' = lid
      BY DEF PowerAll
    <2> QED BY <2>1, <2>2, <2>3, PowerKeepsOn
  <1>3. CASE PowerToggle
    <2>1. (off # {}) \in BOOLEAN
      OBVIOUS
    <2> QED BY <1>2, <1>3, <2>1 DEF PowerToggle
  <1>4. ASSUME NEW m \in Outputs, NEW on \in BOOLEAN, PowerOne(m, on)
        PROVE  \E e : PowerKeeps(e, Now) /\ Become(e) /\ lid' = lid
    <2> DEFINE d == NoteOff(Now, on)
               e == SetPowered(d, m, on)
    <2>1. PowerKeeps(d, Now)
      BY <1>1, NoteOffKeeps
    <2>2. m \in Range(d.mons) /\ Sound(d)
      BY <1>4, <2>1, NowIs DEF PowerOne, Plugged, PowerKeeps
    <2>3. Become(e) /\ lid' = lid
      BY <1>4 DEF PowerOne
    <2> HIDE DEF d
    <2>4. PowerKeeps(e, d)
      BY <2>2, SetPoweredIs
    <2> QED BY <2>1, <2>3, <2>4, PowerKeepsOn
  <1>5. ASSUME NEW m \in Outputs, NEW on \in BOOLEAN, ConfigurePower(m, on)
        PROVE  \E e : PowerKeeps(e, Now) /\ Become(e) /\ lid' = lid
    <2>1. m \in Range(Now.mons)
      BY <1>5, NowIs DEF ConfigurePower, Plugged
    <2>2. PowerKeeps(SetPowered(Now, m, on), Now)
      BY <1>1, <2>1, SetPoweredIs
    <2> QED BY <1>5, <2>2 DEF ConfigurePower
  <1>6. CASE GraceEnds
    <2> DEFINE e == [Now EXCEPT !.grace = FALSE]
    <2>1. /\ e \in State /\ e.mons = Now.mons /\ e.layout = Now.layout /\ e.lit = Now.lit
          /\ e.off = Now.off /\ e.selmon = Now.selmon /\ e.win = Now.win
          /\ e.video = Now.video /\ e.inhibited = Now.inhibited /\ e.armed = Now.armed
      BY <1>1 DEF Sound, State
    <2>2. Become(e) /\ lid' = lid
      BY <1>6 DEF GraceEnds
    <2> HIDE DEF e
    <2>3. PowerKeeps(e, Now)
      BY <1>1, <2>1, FlagsKeep
    <2> QED BY <2>2, <2>3
  <1>7. CASE DpmsTimer
    <2>1. Become(TimedOut) /\ lid' = lid
      BY <1>7 DEF DpmsTimer, TimedOut
    <2> QED BY <1>1, <2>1, TimedOutKeeps
  <1>8. CASE Input
    <2>1. PowerKeeps(WakeOutputs(Now), Now)
      BY <1>1, WakeOutputsKeeps
    <2>2. PowerKeeps(Rearm(WakeOutputs(Now)), WakeOutputs(Now))
      BY <2>1, RearmKeeps DEF PowerKeeps
    <2> QED BY <1>8, <2>1, <2>2, PowerKeepsOn DEF Input
  <1>9. CASE Retile
    BY <1>1, <1>9, ArrangeKeeps DEF Retile
  <1> QED BY <1>2, <1>3, <1>4, <1>5, <1>6, <1>7, <1>8, <1>9 DEF PowerSteps

-----------------------------------------------------------------------------
(* Displays: outputs configured, the selection, the windows.               *)

LEMMA ApplyStep ==
  ASSUME ScreensInv, NEW m \in Outputs, NEW on \in BOOLEAN, ApplyOutput(m, on)
  PROVE  \E e, disabled : /\ Leads(e, disabled) /\ e.selmon = selmon /\ e.win = win
                          /\ layout \subseteq e.layout
  <1> DEFINE c == SetEnabled(Now, m, on)
             d == [c EXCEPT !.layout = @ \cup {m}]
  <1>1. Sound(Now) /\ m \in Range(Now.mons) /\ m \in Range(mons)
    BY NowIs DEF ScreensInv, ApplyOutput, Plugged
  <1>2. /\ Sound(c) /\ c = [Now EXCEPT !.lit = c.lit]
        /\ c.lit = IF on THEN lit \cup {m} ELSE lit \ {m}
        /\ ~on /\ Heard(Now) => Heard(c)
        /\ Rests(Now) => Rests(c)
    BY <1>1, SetEnabledIs, NowIs
  <1>3. Now \in State /\ c \in State /\ lid \in BOOLEAN
    BY <1>1, <1>2 DEF Sound, ScreensInv
  <1>4. /\ IF on THEN Become(Arrange(d)) ELSE BecomeWithout(c, {m})
        /\ lid' \in BOOLEAN
    BY <1>3 DEF ApplyOutput
  <1>5. Shown(Now) /\ Explained(Now, refused)
    BY DEF ScreensInv
  <1> HIDE DEF c
  <1>6. /\ c.mons = mons /\ c.layout = layout /\ c.off = off /\ c.selmon = selmon
        /\ c.win = win /\ c.inhibited = inhibited /\ c.armed = armed /\ c.video = video
    BY <1>2, <1>3, NowIs DEF State
  <1>7. CASE ~on
    <2>1. Shown(c)
      BY <1>5, <1>6, NowIs DEF Shown
    <2>2. Explained(c, refused \cup {m})
      BY <1>2, <1>5, <1>6, <1>7, NowIs DEF Explained
    <2>3. Leads(c, {m})
      BY <1>2, <1>4, <1>7, <2>1, <2>2 DEF Leads
    <2> QED BY <1>6, <2>3
  <1>8. CASE on
    <2>1. /\ d \in State /\ d.mons = mons /\ d.layout = layout \cup {m}
          /\ d.lit = lit \cup {m} /\ d.off = off /\ d.selmon = selmon /\ d.win = win
          /\ d.video = video /\ d.inhibited = inhibited /\ d.armed = armed
      <3>1. layout \cup {m} \in SUBSET Outputs
        BY <1>3, NowIs DEF State
      <3>2. d = [c EXCEPT !.layout = layout \cup {m}]
        BY <1>6
      <3> HIDE DEF d
      <3> QED BY <1>2, <1>3, <1>6, <1>8, <3>1, <3>2 DEF State
    <2> HIDE DEF d
    <2>2. Sound(d)
      BY <1>1, <1>2, <1>6, <2>1, NowIs DEF Sound
    <2>3. Shown(d)
      BY <1>5, <2>1, NowIs DEF Shown
    <2>4. Explained(d, refused)
      BY <1>5, <2>1, NowIs DEF Explained
    <2>5. /\ SameScreens(Arrange(d), d) /\ Sound(Arrange(d))
          /\ Heard(Now) => Heard(Arrange(d))
      <3>1. Heard(Now) => Rests(d)
        BY <2>1, NowIs DEF Heard, Rests
      <3> QED BY <2>1, <2>2, <3>1, ArrangeIs, SoundFields
    <2>6. Shown(Arrange(d)) /\ Explained(Arrange(d), refused \cup {})
      BY <2>3, <2>4, <2>5 DEF SameScreens, Shown, Explained
    <2>7. BecomeWithout(Arrange(d), {})
      BY <1>4, <1>8 DEF Become
    <2>8. Leads(Arrange(d), {})
      BY <1>4, <2>5, <2>6, <2>7 DEF Leads
    <2> QED BY <2>1, <2>5, <2>8 DEF SameScreens
  <1> QED BY <1>7, <1>8

LEMMA ConfigureStep ==
  ASSUME ScreensInv, NEW m \in Outputs, NEW on \in BOOLEAN, ConfigureOutput(m, on)
  PROVE  \E e, disabled : /\ Leads(e, disabled) /\ e.selmon = selmon /\ e.win = win
                          /\ e.layout = layout
  <1> DEFINE c == SetEnabled(Now, m, on)
             disabled == IF on THEN {} ELSE {m}
  <1>1. Sound(Now) /\ m \in Range(Now.mons) /\ m \in Range(mons)
    BY NowIs DEF ScreensInv, ConfigureOutput, Plugged
  <1>2. /\ Sound(c) /\ c = [Now EXCEPT !.lit = c.lit]
        /\ c.lit = IF on THEN lit \cup {m} ELSE lit \ {m}
        /\ ~on /\ Heard(Now) => Heard(c)
    BY <1>1, SetEnabledIs, NowIs
  <1>3. Now \in State /\ c \in State /\ lid \in BOOLEAN
    BY <1>1, <1>2 DEF Sound, ScreensInv
  <1>4. BecomeWithout(c, disabled) /\ lid' \in BOOLEAN /\ on \in IpcEnables
    BY <1>3 DEF ConfigureOutput
  <1>5. Shown(Now) /\ Explained(Now, refused)
    BY DEF ScreensInv
  <1> HIDE DEF c
  <1>6. /\ c.mons = mons /\ c.layout = layout /\ c.off = off /\ c.selmon = selmon
        /\ c.win = win
    BY <1>2, <1>3, NowIs DEF State
  <1>7. Shown(c)
    BY <1>5, <1>6, NowIs DEF Shown
  <1>8. Explained(c, refused \cup disabled)
    BY <1>2, <1>5, <1>6, NowIs DEF Explained
  <1>9. TRUE \notin IpcEnables => ~on
    BY <1>4
  <1>10. Leads(c, disabled)
    BY <1>2, <1>4, <1>7, <1>8, <1>9 DEF Leads
  <1> QED BY <1>6, <1>10

\* Another output is selected.
LEMMA SelectStays ==
  ASSUME ScreensInv, NEW m \in Plugged \cup {None}, Become([Now EXCEPT !.selmon = m]),
         lid' = lid
  PROVE  \E e : Still(e) /\ e.selmon = m /\ e.win = win
  <1> DEFINE e == [Now EXCEPT !.selmon = m]
  <1>1. Sound(Now) /\ Now \in State
    BY DEF ScreensInv, Sound
  <1>2. m \in Outputs \cup {None} /\ m \in Range(mons) \cup {None}
    BY <1>1, NowIs DEF Plugged, State, Range
  <1>3. /\ e \in State /\ e.mons = Now.mons /\ e.layout = Now.layout /\ e.lit = Now.lit
        /\ e.off = Now.off /\ e.selmon = m /\ e.win = Now.win
        /\ e.video = Now.video /\ e.inhibited = Now.inhibited /\ e.armed = Now.armed
    BY <1>1, <1>2 DEF State
  <1>4. Become(e)
    OBVIOUS
  <1> HIDE DEF e
  <1>5. Sound(e)
    BY <1>1, <1>2, <1>3, NowIs DEF Sound
  <1>6. Heard(Now) => Heard(e)
    BY <1>3 DEF Heard, Rests, Counts
  <1> QED BY <1>3, <1>4, <1>5, <1>6, NowIs DEF Still

LEMMA NeighboursAre == ASSUME ScreensInv PROVE Neighbours \subseteq Plugged
  <1> DEFINE n == Len(mons)
             i == CHOOSE k \in 1..n : mons[k] = selmon
  <1>1. CASE selmon \notin Plugged
    BY <1>1 DEF Neighbours
  <1>2. CASE selmon \in Plugged
    <2>1. n \in Nat /\ DOMAIN mons = 1..n
      BY NowIs DEF ScreensInv, Sound, State
    <2>2. i \in 1..n
      BY <1>2, <2>1 DEF Plugged, Range
    <2>3. Neighbours = {mons[(i % n) + 1], mons[((i + n - 2) % n) + 1]}
      BY <1>2 DEF Neighbours
    <2> HIDE DEF n, i
    <2>4. \A k \in Int : k % n \in 0..(n - 1)
      BY <2>1, <2>2
    <2>5. (i % n) + 1 \in 1..n /\ ((i + n - 2) % n) + 1 \in 1..n
      <3>1. i \in Int /\ i + n - 2 \in Int
        BY <2>1, <2>2
      <3>2. i % n \in 0..(n - 1) /\ (i + n - 2) % n \in 0..(n - 1)
        BY <2>4, <3>1
      <3> HIDE DEF n
      <3> QED BY <2>1, <3>2
    <2> QED BY <2>1, <2>3, <2>5 DEF Plugged, Range
  <1> QED BY <1>1, <1>2

LEMMA SelectSteps ==
  ASSUME ScreensInv,
         FocusMonitor \/ (\E m \in Outputs : PointerTo(m)) \/ (\E w \in Windows : FocusWindow(w))
  PROVE  \E e : /\ Still(e) /\ e.win = win
                /\ FocusMonitor \/ (\E w \in Windows : FocusWindow(w)) \/ e.selmon \in layout
  <1>1. CASE FocusMonitor
    <2>1. PICK m \in Neighbours : Become([Now EXCEPT !.selmon = m]) /\ lid' = lid
      BY <1>1 DEF FocusMonitor
    <2>2. m \in Plugged \cup {None}
      BY NeighboursAre
    <2> QED BY <1>1, <2>1, <2>2, SelectStays
  <1>2. ASSUME NEW m \in Outputs, PointerTo(m)
        PROVE  \E e : Still(e) /\ e.win = win /\ e.selmon \in layout
    <2>1. m \in layout /\ Become([Now EXCEPT !.selmon = m]) /\ lid' = lid
      BY <1>2 DEF PointerTo
    <2>2. m \in Plugged \cup {None}
      BY <2>1, NowIs DEF ScreensInv, Sound, Plugged
    <2> QED BY <2>1, <2>2, SelectStays
  <1>3. ASSUME NEW w \in Windows, FocusWindow(w)
        PROVE  \E e : Still(e) /\ e.win = win
    <2>1. Become([Now EXCEPT !.selmon = win[w]]) /\ lid' = lid /\ win[w] # Away
      BY <1>3 DEF FocusWindow, Mapped
    <2>2. win[w] \in Plugged \cup {None}
      BY <2>1, NowIs DEF ScreensInv, Sound, Plugged
    <2> QED BY <2>1, <2>2, SelectStays
  <1>4. CASE \E w \in Windows : FocusWindow(w)
    BY <1>3, <1>4
  <1>5. CASE \E m \in Outputs : PointerTo(m)
    BY <1>2, <1>5
  <1> QED BY <1>1, <1>4, <1>5

\* What the record of a window that moves, comes or goes keeps.
LEMMA SetMonStays ==
  ASSUME ScreensInv, NEW w \in Windows, NEW m \in Plugged \cup {None},
         Become(SetMon(Now, {w}, m)), lid' = lid
  PROVE  \E e : /\ Still(e) /\ e.selmon = selmon
                /\ \A v \in Windows : e.win[v] = IF v = w THEN m ELSE win[v]
  <1> DEFINE e == SetMon(Now, {w}, m)
             new == [v \in Windows |-> IF v \in {w} THEN m ELSE Now.win[v]]
             put == [Now EXCEPT !.win = new]
  <1>1. Sound(Now) /\ Now \in State /\ m \in Range(Now.mons) \cup {None}
    BY NowIs DEF ScreensInv, Sound, Plugged
  <1>2. /\ Sound(e) /\ SameScreens(e, put) /\ (Heard(Now) => Heard(e))
    BY <1>1, SetMonIs
  <1>3. new \in [Windows -> Outputs \cup {None, Away}]
    <2>1. m \in Outputs \cup {None, Away}
      BY <1>1 DEF State, Range
    <2> QED BY <1>1, <2>1 DEF State
  <1>4. \A v \in Windows : new[v] = IF v = w THEN m ELSE win[v]
    BY NowIs
  <1> HIDE DEF new, e
  <1>5. /\ put.mons = mons /\ put.layout = layout /\ put.lit = lit /\ put.off = off
        /\ put.selmon = selmon /\ put.win = new
    BY <1>1, <1>3, NowIs DEF State
  <1> HIDE DEF put
  <1>6. Still(e)
    BY <1>2, <1>5 DEF Still, SameScreens, e
  <1> QED BY <1>2, <1>4, <1>5, <1>6 DEF SameScreens

LEMMA ArrangeStays ==
  ASSUME ScreensInv, NEW d, Sound(d), Become(Arrange(d)), lid' = lid,
         d.mons = mons, d.layout = layout, d.lit = lit, d.off = off, d.selmon = selmon,
         d.inhibited = inhibited, d.armed = armed
  PROVE  \E e : Still(e) /\ e.selmon = selmon /\ e.win = d.win
  <1> DEFINE e == Arrange(d)
  <1>1. e \in State /\ SameScreens(e, d) /\ (Rests(d) => Heard(e))
    BY ArrangeIs DEF Sound
  <1>2. Heard(Now) => Rests(d)
    BY NowIs DEF Heard, Rests
  <1>3. Sound(e)
    BY <1>1, SoundFields
  <1>4. Become(e)
    OBVIOUS
  <1> HIDE DEF e
  <1>5. Still(e)
    BY <1>1, <1>2, <1>3, <1>4 DEF Still, SameScreens
  <1> QED BY <1>1, <1>5 DEF SameScreens

LEMMA WindowSteps ==
  ASSUME ScreensInv,
         \/ MoveToMonitor
         \/ \E w \in Windows : MapWindow(w) \/ UnmapWindow(w) \/ Play(w) \/ Pause(w)
  PROVE  \E e : /\ Still(e) /\ e.selmon = selmon
                /\ MoveToMonitor \/ \A v \in Windows : e.win[v] \in {win[v], Away, selmon}
  <1>1. /\ Sound(Now) /\ Now \in State /\ selmon \in Plugged \cup {None}
        /\ None \notin Outputs /\ Away \notin Outputs \cup {None}
        /\ \A w \in Windows : win[w] \in Range(mons) \cup {None, Away}
        /\ \A w \in video : w \in Windows /\ win[w] # Away
    BY NowIs, DisplaysAssumption DEF ScreensInv, Sound, Plugged, State
  <1>2. CASE MoveToMonitor
    <2>1. PICK m \in Neighbours, w \in On(Now, selmon) :
            Become(SetMon(Now, {w}, m)) /\ lid' = lid
      BY <1>2 DEF MoveToMonitor
    <2>2. m \in Plugged \cup {None} /\ w \in Windows
      BY NeighboursAre DEF On
    <2> QED BY <1>2, <2>1, <2>2, SetMonStays
  <1>3. ASSUME NEW w \in Windows, MapWindow(w)
        PROVE  \E e : /\ Still(e) /\ e.selmon = selmon
                      /\ \A v \in Windows : e.win[v] \in {win[v], Away, selmon}
    <2>1. Become(SetMon(Now, {w}, selmon)) /\ lid' = lid
      BY <1>3 DEF MapWindow
    <2> QED BY <1>1, <2>1, SetMonStays
  <1>4. ASSUME NEW w \in Windows, UnmapWindow(w)
        PROVE  \E e : /\ Still(e) /\ e.selmon = selmon
                      /\ \A v \in Windows : e.win[v] \in {win[v], Away, selmon}
    <2> DEFINE d == [Now EXCEPT !.win[w] = Away, !.video = @ \ {w}]
    <2>1. Become(Arrange(d)) /\ lid' = lid
      BY <1>4 DEF UnmapWindow
    <2>2. /\ d \in State /\ d.mons = mons /\ d.layout = layout /\ d.lit = lit /\ d.off = off
          /\ d.selmon = selmon /\ d.inhibited = inhibited /\ d.armed = armed
          /\ d.video = video \ {w}
          /\ \A v \in Windows : d.win[v] = IF v = w THEN Away ELSE win[v]
      BY <1>1, NowIs DEF State
    <2> HIDE DEF d
    <2>3. Sound(d)
      BY <1>1, <2>2, NowIs DEF Sound
    <2>4. PICK e : Still(e) /\ e.selmon = selmon /\ e.win = d.win
      BY <2>1, <2>2, <2>3, ArrangeStays
    <2> QED BY <2>2, <2>4
  <1>5. ASSUME NEW w \in Windows, Play(w) \/ Pause(w)
        PROVE  \E e : /\ Still(e) /\ e.selmon = selmon
                      /\ \A v \in Windows : e.win[v] \in {win[v], Away, selmon}
    <2> DEFINE s == IF Play(w) THEN video \cup {w} ELSE video \ {w}
               d == [Now EXCEPT !.video = s]
    <2>1. Become(Arrange(d)) /\ lid' = lid
      BY <1>5, NowIs DEF Play, Pause
    <2>2. s \subseteq Windows /\ \A v \in s : win[v] # Away
      BY <1>1, <1>5 DEF Play, Mapped
    <2> HIDE DEF s
    <2>3. /\ d \in State /\ d.mons = mons /\ d.layout = layout /\ d.lit = lit /\ d.off = off
          /\ d.selmon = selmon /\ d.inhibited = inhibited /\ d.armed = armed
          /\ d.video = s /\ d.win = win
      BY <1>1, <2>2, NowIs DEF State
    <2> HIDE DEF d
    <2>4. Sound(d)
      BY <1>1, <2>2, <2>3, NowIs DEF Sound
    <2>5. PICK e : Still(e) /\ e.selmon = selmon /\ e.win = d.win
      BY <2>1, <2>3, <2>4, ArrangeStays
    <2> QED BY <2>3, <2>5
  <1> QED BY <1>2, <1>3, <1>4, <1>5

-----------------------------------------------------------------------------
(* Displays: every step keeps the invariant.                               *)

\* Who may take the selection out of the layout, and a window.
SelectionAllowed(e) ==
  selmon \in layout =>
    e.selmon \in e.layout \/ FocusMonitor \/ (\E w \in Windows : FocusWindow(w))
      \/ \E m \in Outputs : Unplug(m) /\ m = selmon
WindowsAllowed(e) ==
  \A w \in Windows : win[w] \in layout =>
    e.win[w] \in e.layout \cup {Away, e.selmon} \/ MoveToMonitor
      \/ (e.win[w] = None /\ selmon = None)

Done ==
  \E e, disabled :
    Leads(e, disabled) /\ SelectionAllowed(e) /\ WindowsAllowed(e)

LEMMA StepDone == ASSUME ScreensInv, Next PROVE Done
  <1>1. ASSUME \E e, disabled :
                 Leads(e, disabled) /\ SelectionStays(e) /\ WindowsFollow(e)
        PROVE  Done
    BY <1>1 DEF Done, SelectionStays, WindowsFollow, SelectionAllowed, WindowsAllowed
  <1>2. ASSUME \E e, disabled : /\ Leads(e, disabled) /\ e.selmon = selmon /\ e.win = win
                                /\ layout \subseteq e.layout
        PROVE  Done
    <2>1. ASSUME NEW e, e.selmon = selmon, e.win = win, layout \subseteq e.layout
          PROVE  SelectionStays(e) /\ WindowsFollow(e)
      BY <2>1 DEF SelectionStays, WindowsFollow
    <2> QED BY <1>1, <1>2, <2>1
  <1>3. CASE \E m \in Outputs : Plug(m)
    BY <1>1, <1>3, PlugStep
  <1>4. CASE \E m \in Outputs : Unplug(m)
    <2>1. PICK m \in Outputs : Unplug(m)
      BY <1>4
    <2>2. PICK e, disabled :
            /\ Leads(e, disabled)
            /\ selmon # m => SelectionStays(e)
            /\ \A w \in Windows : win[w] \in layout =>
                 \/ e.win[w] \in e.layout \cup {Away, e.selmon}
                 \/ e.win[w] = None /\ selmon = None
      BY <2>1, UnplugStep
    <2>3. SelectionAllowed(e)
      BY <2>1, <2>2 DEF SelectionStays, SelectionAllowed
    <2>4. WindowsAllowed(e)
      BY <2>2 DEF WindowsAllowed
    <2> QED BY <2>2, <2>3, <2>4 DEF Done
  <1>5. CASE LidToggle \/ LidSwitchFound
    BY <1>1, <1>5, LidSteps
  <1>6. CASE \E m \in Outputs, on \in BOOLEAN : ApplyOutput(m, on)
    BY <1>2, <1>6, ApplyStep
  <1>7. CASE \E m \in Outputs, on \in BOOLEAN : ConfigureOutput(m, on)
    <2>1. \E e, disabled : /\ Leads(e, disabled) /\ e.selmon = selmon /\ e.win = win
                           /\ e.layout = layout
      BY <1>7, ConfigureStep
    <2> QED BY <1>2, <2>1
  <1>8. CASE PowerSteps
    <2>1. PICK e : Still(e) /\ e.selmon = selmon /\ e.win = win
      BY <1>8, PowerStays
    <2>2. Leads(e, {}) /\ layout \subseteq e.layout
      BY <2>1, StillLeads DEF Still
    <2> QED BY <1>2, <2>1, <2>2
  <1>9. CASE FocusMonitor \/ (\E m \in Outputs : PointerTo(m))
               \/ (\E w \in Windows : FocusWindow(w))
    <2>1. PICK e : /\ Still(e) /\ e.win = win
                   /\ FocusMonitor \/ (\E w \in Windows : FocusWindow(w)) \/ e.selmon \in layout
      BY <1>9, SelectSteps
    <2>2. Leads(e, {})
      BY <2>1, StillLeads
    <2>3. SelectionAllowed(e) /\ WindowsAllowed(e)
      BY <2>1 DEF Still, SelectionAllowed, WindowsAllowed
    <2> QED BY <2>2, <2>3 DEF Done
  <1>10. CASE \/ MoveToMonitor
              \/ \E w \in Windows : MapWindow(w) \/ UnmapWindow(w) \/ Play(w) \/ Pause(w)
    <2>1. PICK e : /\ Still(e) /\ e.selmon = selmon
                   /\ MoveToMonitor \/ \A v \in Windows : e.win[v] \in {win[v], Away, selmon}
      BY <1>10, WindowSteps
    <2>2. Leads(e, {})
      BY <2>1, StillLeads
    <2>3. SelectionAllowed(e) /\ WindowsAllowed(e)
      BY <2>1 DEF Still, SelectionAllowed, WindowsAllowed
    <2> QED BY <2>2, <2>3 DEF Done
  <1> QED BY <1>3, <1>4, <1>5, <1>6, <1>7, <1>8, <1>9, <1>10 DEF Next, PowerSteps

LEMMA DisplaysStart == Init => ScreensInv /\ Heard(Now)
  <1> SUFFICES ASSUME Init PROVE ScreensInv /\ Heard(Now)
    OBVIOUS
  <1>1. /\ mons = FirstPlugged /\ layout = Range(mons) /\ lit = Range(mons) /\ off = {}
        /\ refused = {} /\ lid = FALSE /\ idleOff = FALSE /\ grace = FALSE
        /\ selmon = Head(mons) /\ win = [w \in Windows |-> Away] /\ video = {}
        /\ inhibited = FALSE /\ armed = TRUE
    BY DEF Init, Plugged
  <1>2. mons \in Seq(Outputs) /\ IsInjective(mons) /\ mons # <<>>
    BY <1>1, DisplaysAssumption
  <1>3. Head(mons) \in Range(mons) /\ Range(mons) \subseteq Outputs
    <2>1. 1 \in 1..Len(mons) /\ Head(mons) = mons[1] /\ DOMAIN mons = 1..Len(mons)
      BY <1>2
    <2> QED BY <1>2, <2>1 DEF Range
  <1>4. win \in [Windows -> Outputs \cup {None, Away}]
    BY <1>1
  <1>5. Now \in State
    BY <1>1, <1>2, <1>3, <1>4 DEF Now, State
  <1>6. Sound(Now)
    BY <1>1, <1>2, <1>3, <1>5, NowIs DEF Sound
  <1>7. Shown(Now) /\ Explained(Now, refused)
    BY <1>1, NowIs DEF Shown, Explained
  <1>8. Heard(Now)
    BY <1>1, NowIs DEF Heard, Rests, Counts
  <1> QED BY <1>1, <1>6, <1>7, <1>8 DEF ScreensInv

LEMMA ScreensStep ==
  ASSUME ScreensInv, [Next]_vars
  PROVE  /\ ScreensInv'
         /\ Heard(Now) /\ TRUE \notin IpcEnables => Heard(Now)'
  <1>1. CASE Next
    <2>1. PICK e, disabled : Leads(e, disabled)
      BY <1>1, StepDone DEF Done
    <2> QED BY <2>1, LeadsOn
  <1>2. CASE UNCHANGED vars
    <2>1. Now' = Now /\ refused' = refused /\ Plugged' = Plugged /\ lid' = lid
      BY <1>2 DEF vars, Now, Plugged
    <2> QED BY <2>1 DEF ScreensInv
  <1> QED BY <1>1, <1>2

\* Whatever the order of lid, plug, unplug, power and configuration, every external
\* display has its place in the layout, every panel has where there is no other, and
\* an output of the layout that is dark was blanked or disabled.
THEOREM ScreensExplained == Spec => []ScreensInv
  <1>1. Init => ScreensInv
    BY DisplaysStart
  <1>2. ScreensInv /\ [Next]_vars => ScreensInv'
    BY ScreensStep
  <1> QED BY <1>1, <1>2, PTL DEF Spec

\* The state of the screens holds values of its C types, and what is said of an output
\* is said of one in self->monitors.
THEOREM DisplaysTypeCorrect == Spec => []TypeOK
  <1>1. ScreensInv => TypeOK
    BY NowIs DEF ScreensInv, Sound, State, TypeOK, Plugged, Mapped
  <1> QED BY <1>1, ScreensExplained, PTL

\* update_lid_outputs() "never blacks out the only screen": a machine with an output
\* shows something, or an output of the layout was blanked or disabled.
THEOREM SomethingShows == Spec => []NeverBlind
  <1>1. ScreensInv => NeverBlind
    <2> SUFFICES ASSUME ScreensInv, mons # <<>>
                 PROVE  layout \cap (lit \cup off \cup refused) # {}
      BY DEF NeverBlind
    <2>1. \E m \in Range(mons) : TRUE
      <3>1. mons \in Seq(Outputs)
        BY NowIs DEF ScreensInv, Sound, State
      <3>2. 1 \in 1..Len(mons) /\ DOMAIN mons = 1..Len(mons)
        BY <3>1
      <3> QED BY <3>2 DEF Range
    <2>2. \E m \in Range(mons) : m \in layout
      BY <2>1, NowIs DEF ScreensInv, Shown
    <2> QED BY <2>2, NowIs DEF ScreensInv, Explained
  <1> QED BY <1>1, ScreensExplained, PTL

LEMMA InputLights == ASSUME ScreensInv, Input PROVE InputWakes
  <1> SUFFICES ASSUME ~(~idleOff /\ grace) PROVE layout' \subseteq lit' \cup refused'
    BY DEF InputWakes
  <1> DEFINE d == SetEachPowered(Now, off, TRUE)
             f == [d EXCEPT !.idleOff = FALSE]
             e == [f EXCEPT !.armed = ~f.inhibited]
  <1>1. Sound(Now)
    BY DEF ScreensInv
  <1>2. PowerAfter(d, Now, off, TRUE, Len(mons))
    BY <1>1, SetEachPoweredIs, NowIs
  <1>3. Become(e)
    BY NowIs DEF Input, Rearm, WakeOutputs
  <1> HIDE DEF d
  <1>4. d \in State
    BY <1>2 DEF PowerAfter, PowerKeeps, Sound
  <1>5. e \in State /\ e.mons = d.mons /\ e.layout = d.layout /\ e.lit = d.lit
    BY <1>4 DEF State
  <1> HIDE DEF e
  <1>6. /\ Now' = e
        /\ refused' = ((refused \cup {}) \cap Range(e.mons)) \ e.lit
    BY <1>3, <1>5, Lands DEF Become
  <1>7. mons' = mons /\ layout' = layout /\ lit' = e.lit
    BY <1>2, <1>3, <1>5, NowIs DEF PowerAfter, PowerKeeps, Become, BecomeWithout
  <1>8. \A m \in layout : m \in lit \cup off \cup refused /\ m \in Range(mons)
    BY NowIs DEF ScreensInv, Explained, Sound
  <1>9. \A m \in Range(mons) : \E j \in 1..Len(mons) : mons[j] = m
    BY <1>1, NowIs DEF Sound, State, Range
  <1>10. \A m \in layout : m \in lit \cup off => m \in e.lit
    BY <1>2, <1>5, <1>8, <1>9, NowIs DEF PowerAfter
  <1>11. e.mons = mons
    BY <1>2, <1>5, NowIs DEF PowerAfter, PowerKeeps
  <1> QED BY <1>6, <1>7, <1>8, <1>10, <1>11

\* After an input every output of the layout is lit that nobody disabled for good,
\* whatever monitor.configure is asked.
THEOREM InputLightsScreens == Spec => [][InputWakes]_vars
  <1>1. Init => ScreensInv
    BY DisplaysStart
  <1>2. ScreensInv /\ [Next]_vars => ScreensInv'
    BY ScreensStep
  <1>3. ScreensInv => InputWakes
    BY InputLights DEF InputWakes
  <1>4. ScreensInv => [InputWakes]_vars
    BY <1>3
  <1> QED BY <1>1, <1>2, <1>4, PTL DEF Spec

\* After an input only an output that was disabled for good is dark, and the timer
\* blanks nothing while a window that inhibits is on a lit output.  The second needs
\* that monitor.configure lights no output: it would arrange nothing.
THEOREM BlankingIsRight ==
  ASSUME TRUE \notin IpcEnables
  PROVE  Spec => BlankingFollowsUse
  <1>1. Init => ScreensInv /\ Heard(Now)
    BY DisplaysStart
  <1>2. ScreensInv /\ Heard(Now) /\ [Next]_vars => (ScreensInv /\ Heard(Now))'
    BY ScreensStep
  <1>3. ScreensInv => InputWakes
    BY InputLights DEF InputWakes
  <1>4. Heard(Now) => VideoKeepsAwake
    BY NowIs DEF Heard, Rests, VideoKeepsAwake, DpmsTimer
  <1>5. ScreensInv /\ Heard(Now) => [InputWakes /\ VideoKeepsAwake]_vars
    BY <1>3, <1>4
  <1> QED BY <1>1, <1>2, <1>5, PTL DEF Spec, BlankingFollowsUse

\* The selection and the windows leave the layout only by a command that says so, with
\* the last output, or as SelectsShutPanel and FocusWindow have it.
THEOREM WindowsAreShown == Spec => WindowsStayShown
  <1> DEFINE Selection ==
               selmon \in layout =>
                 selmon' \in layout' \/ FocusMonitor \/ (\E w \in Windows : FocusWindow(w))
                   \/ SelectsShutPanel \/ mons' = <<>>
             TheWindows ==
               \A w \in Windows : win[w] \in layout =>
                 win'[w] \in layout' \cup {Away} \/ MoveToMonitor
                   \/ (win'[w] = selmon' /\ selmon' \notin layout')
                   \/ (win'[w] = None /\ selmon = None)
  <1>1. Init => ScreensInv
    BY DisplaysStart
  <1>2. ScreensInv /\ [Next]_vars => ScreensInv'
    BY ScreensStep
  <1>3. ScreensInv /\ [Next]_vars => [Selection /\ TheWindows]_vars
    <2> SUFFICES ASSUME ScreensInv, Next PROVE Selection /\ TheWindows
      BY Zenon
    <2>1. PICK e, disabled : Leads(e, disabled) /\ SelectionAllowed(e) /\ WindowsAllowed(e)
      BY StepDone DEF Done
    <2>2. layout' = e.layout /\ selmon' = e.selmon /\ win' = e.win
      BY <2>1 DEF Leads, BecomeWithout
    <2>3. Selection
      BY <2>1, <2>2 DEF SelectionAllowed, SelectsShutPanel
    <2>4. TheWindows
      BY <2>1, <2>2 DEF WindowsAllowed
    <2> QED BY <2>3, <2>4
  <1> QED BY <1>1, <1>2, <1>3, PTL DEF Spec, WindowsStayShown

-----------------------------------------------------------------------------
(* Logind: type correctness, for every length of the wait and of the       *)
(* signal queue, any number of starts, and every setting.                  *)

Signals == {"lock", "unlock", "sleep", "wake"}
QueueOK == signals \in Seq(Signals)
CountsOK == polls \in 0..MaxPolls /\ started \in 0..MaxStarts
FlagsOK ==
  /\ bus \in BusStates /\ inhibitor \in BOOLEAN
  /\ requests \subseteq {"lock", "unlock"} /\ taken \subseteq {"lock", "unlock"}
  /\ wake \in BOOLEAN /\ lockedFlag \in BOOLEAN /\ stopping \in BOOLEAN
  /\ quitQueued \in BOOLEAN /\ hintQueued \in BOOLEAN
  /\ comp \in {"down", "loop", "woken", "running", "restarting", "quitting", "gone"}
  /\ wakeSource \in BOOLEAN /\ screen \in {"open", "starting", "locked"}
  /\ power \in {"awake", "preparing", "asleep"} /\ lockedHint \in BOOLEAN
  /\ lastPosted \in {"none", "lock", "unlock"}
  /\ leftover \in BOOLEAN /\ hintMissed \in BOOLEAN /\ ungranted \in BOOLEAN

\* Sequences, numbers and flags ask for different provers.
LEMMA TypeParts == LogindTypeOK <=> QueueOK /\ CountsOK /\ FlagsOK
  BY Zenon DEF LogindTypeOK, QueueOK, CountsOK, FlagsOK, Signals

LEMMA AfterLockType ==
  ASSUME FlagsOK, screen' \in AfterLock(screen)
  PROVE  screen' \in {"open", "starting", "locked"}
  BY LogindAssumption DEF FlagsOK, AfterLock, LogindAssumption

LEMMA TakeInhibitorType ==
  ASSUME FlagsOK, TakeInhibitor
  PROVE  inhibitor' \in BOOLEAN /\ ungranted' \in BOOLEAN
  <1>1. CASE InhibitSleep /\ ~inhibitor
    <2>1. PICK granted \in BOOLEAN : inhibitor' = granted /\ ungranted' = ~granted
      BY <1>1, Zenon DEF TakeInhibitor
    <2> QED BY <2>1
  <1>2. CASE ~(InhibitSleep /\ ~inhibitor)
    BY <1>2, Zenon DEF TakeInhibitor, FlagsOK
  <1> QED BY <1>1, <1>2

LEMMA BusState == FlagsOK /\ BusStep => FlagsOK'
  <1> SUFFICES ASSUME FlagsOK, BusStep PROVE FlagsOK'
    OBVIOUS
  <1> USE DEF BusStates, sharedVars, compVars, logindVars, historyVars
  <1>1. CASE BusConnect
    <2>1. bus' \in {"arming", "exited"}
      BY <1>1, Zenon DEF BusConnect
    <2> QED BY <1>1, <2>1 DEF BusConnect, FlagsOK
  <1>2. CASE BusArm
    <2>1. inhibitor' \in BOOLEAN /\ ungranted' \in BOOLEAN
      BY <1>2, TakeInhibitorType DEF BusArm
    <2> QED BY <1>2, <2>1 DEF BusArm, FlagsOK
  <1>3. CASE BusCheckStopping BY <1>3 DEF BusCheckStopping, FlagsOK
  <1>4. CASE BusEnterLoop BY <1>4 DEF BusEnterLoop, FlagsOK
  <1>5. CASE OnPrepareForSleep
    <2>1. inhibitor' \in BOOLEAN
      BY <1>5, Zenon DEF OnPrepareForSleep, FlagsOK
    <2>2. \/ UNCHANGED <<bus, requests, lastPosted>>
          \/ bus' = "alerting" /\ requests' = requests \cup {"lock"} /\ lastPosted' = "lock"
      BY <1>5, Zenon DEF OnPrepareForSleep, SetRequest
    <2>3. UNCHANGED <<wake, lockedFlag, stopping, quitQueued, hintQueued, compVars,
                      logindVars, leftover, hintMissed, ungranted>>
      BY <1>5, Zenon DEF OnPrepareForSleep
    <2>4. bus' \in BusStates /\ requests' \subseteq {"lock", "unlock"}
          /\ lastPosted' \in {"none", "lock", "unlock"}
      BY <2>2 DEF FlagsOK
    <2> QED BY <2>1, <2>3, <2>4 DEF FlagsOK
  <1>6. CASE OnResumed
    <2>1. inhibitor' \in BOOLEAN /\ ungranted' \in BOOLEAN
      BY <1>6, TakeInhibitorType DEF OnResumed
    <2> QED BY <1>6, <2>1 DEF OnResumed, FlagsOK
  <1>7. CASE OnSessionLockSignal
    <2>1. PICK r \in {"lock", "unlock"} : requests' = requests \cup {r} /\ lastPosted' = r
      BY <1>7, Zenon DEF OnSessionLockSignal, SetRequest
    <2>2. /\ bus' = "posting"
          /\ UNCHANGED <<inhibitor, wake, lockedFlag, stopping, quitQueued, hintQueued,
                         compVars, logindVars, leftover, hintMissed, ungranted>>
      BY <1>7, Zenon DEF OnSessionLockSignal
    <2> QED BY <2>1, <2>2 DEF FlagsOK
  <1>8. CASE WriteWake BY <1>8 DEF WriteWake, FlagsOK
  <1>9. CASE PollLocked
    <2>1. inhibitor' \in BOOLEAN
      BY <1>9, Zenon DEF PollLocked, FlagsOK
    <2> QED BY <1>9, <2>1 DEF PollLocked, FlagsOK
  <1>10. CASE SendLockedHint
    <2>1. hintQueued' \in BOOLEAN /\ hintMissed' \in BOOLEAN /\ lockedHint' = lockedFlag
      BY <1>10, Zenon DEF SendLockedHint
    <2> QED BY <1>10, <2>1 DEF SendLockedHint, busVars, FlagsOK
  <1>11. CASE QuitLoop
    <2>1. quitQueued' \in BOOLEAN
      BY <1>11, Zenon DEF QuitLoop
    <2> QED BY <1>11, <2>1 DEF QuitLoop, FlagsOK
  <1>12. CASE BusWindDown
    <2>1. /\ inhibitor' \in BOOLEAN /\ quitQueued' \in BOOLEAN /\ hintQueued' \in BOOLEAN
          /\ lockedHint' \in BOOLEAN /\ hintMissed' \in BOOLEAN
      BY <1>12, Zenon DEF BusWindDown, FlagsOK
    <2> QED BY <1>12, <2>1 DEF BusWindDown, FlagsOK
  <1> QED
    BY <1>1, <1>2, <1>3, <1>4, <1>5, <1>6, <1>7, <1>8, <1>9, <1>10, <1>11, <1>12
    DEF BusStep, OnSignal

LEMMA CompState == FlagsOK /\ CompStep => FlagsOK'
  <1> SUFFICES ASSUME FlagsOK, CompStep PROVE FlagsOK'
    OBVIOUS
  <1> USE DEF BusStates, busVars, sharedVars, logindVars, historyVars
  <1>1. CASE CompositorStart
    <2>1. stopping' \in BOOLEAN /\ wake' \in BOOLEAN /\ wakeSource' \in BOOLEAN
      BY <1>1, Zenon DEF CompositorStart, StartThread
    <2> QED BY <1>1, <2>1 DEF CompositorStart, StartThread, FlagsOK
  <1>2. CASE OnWakeRead
    <2>1. wake' \in BOOLEAN
      BY <1>2, Zenon DEF OnWakeRead
    <2> QED BY <1>2, <2>1 DEF OnWakeRead, FlagsOK
  <1>3. CASE OnWakeTake
    <2>1. leftover' \in BOOLEAN
      BY <1>3, Zenon DEF OnWakeTake
    <2> QED BY <1>3, <2>1 DEF OnWakeTake, FlagsOK
  <1>4. CASE OnWakeLock
    BY <1>4, AfterLockType DEF OnWakeLock, NotifyLocked, FlagsOK
  <1>5. CASE OnWakeUnlock
    BY <1>5 DEF OnWakeUnlock, NotifyLocked, AfterUnlock, FlagsOK
  <1>6. CASE OnWakeReturn BY <1>6 DEF OnWakeReturn, FlagsOK
  <1>7. CASE ScreenChanges
    BY <1>7, AfterLockType DEF ScreenChanges, NotifyLocked, FlagsOK
  <1>8. ASSUME NEW next \in {"restarting", "quitting"}, StopBegin(next) PROVE FlagsOK'
    BY <1>8 DEF StopBegin, FlagsOK
  <1>9. CASE StopFinish
    <2>1. /\ quitQueued' \in BOOLEAN /\ hintQueued' \in BOOLEAN
          /\ wake' \in BOOLEAN /\ wakeSource' \in BOOLEAN /\ stopping' \in BOOLEAN
      BY <1>9, Zenon DEF StopFinish, StartThread, FlagsOK
    <2> QED BY <1>9, <2>1 DEF StopFinish, StartThread, FlagsOK
  <1> QED
    BY <1>1, <1>2, <1>3, <1>4, <1>5, <1>6, <1>7, <1>8, <1>9 DEF CompStep, OnWake

LEMMA EnvironmentState == FlagsOK /\ LogindStep => FlagsOK'
  <1> SUFFICES ASSUME FlagsOK, LogindStep PROVE FlagsOK'
    OBVIOUS
  <1> USE DEF sharedVars, compVars, logindVars, historyVars
  <1>1. ASSUME NEW s \in {"lock", "unlock"}, SendLockSignal(s) PROVE FlagsOK'
    BY <1>1 DEF SendLockSignal, FlagsOK
  <1>2. CASE PrepareForSleep BY <1>2 DEF PrepareForSleep, FlagsOK
  <1>3. CASE GoToSleep BY <1>3 DEF GoToSleep, busVars, FlagsOK
  <1>4. CASE Resume BY <1>4 DEF Resume, FlagsOK
  <1> QED BY <1>1, <1>2, <1>3, <1>4 DEF LogindStep

\* A step leaves the queue alone, takes its head, adds to it or clears it; and
\* only the bus thread shortens it.
LEMMA QueueSteps ==
  ASSUME [LogindNext]_agentVars
  PROVE  \/ UNCHANGED signals
         \/ signals # <<>> /\ signals' = Tail(signals)
         \/ signals' = <<>>
         \/ \E s \in Signals : Deliver(s)
  <1> USE DEF sharedVars, compVars, logindVars, historyVars, busVars, Signals
  <1>1. CASE BusStep
    BY <1>1 DEF BusStep, BusConnect, BusArm, BusCheckStopping, BusEnterLoop, OnSignal,
      OnPrepareForSleep, OnResumed, OnSessionLockSignal, WriteWake, PollLocked,
      SendLockedHint, QuitLoop, BusWindDown
  <1>2. CASE CompStep
    BY <1>2 DEF CompStep, CompositorStart, OnWake, OnWakeRead, OnWakeTake, OnWakeLock,
      OnWakeUnlock, OnWakeReturn, ScreenChanges, StopBegin, StopFinish
  <1>3. CASE LogindStep
    BY <1>3 DEF LogindStep, SendLockSignal, PrepareForSleep, GoToSleep, Resume
  <1>4. CASE UNCHANGED agentVars BY <1>4 DEF agentVars
  <1> QED BY <1>1, <1>2, <1>3, <1>4 DEF LogindNext

LEMMA QueueStep == QueueOK /\ [LogindNext]_agentVars => QueueOK'
  <1> SUFFICES ASSUME signals \in Seq(Signals), [LogindNext]_agentVars
               PROVE  signals' \in Seq(Signals)
    BY DEF QueueOK
  <1>1. ASSUME NEW s \in Signals, Deliver(s) PROVE signals' \in Seq(Signals)
    BY <1>1 DEF Deliver
  <1>2. signals # <<>> => Tail(signals) \in Seq(Signals)
    OBVIOUS
  <1>3. <<>> \in Seq(Signals)
    OBVIOUS
  <1> QED BY <1>1, <1>2, <1>3, QueueSteps

\* A wait stops at MaxPolls, and no thread is started more than MaxStarts times.
LEMMA CountsStep == CountsOK /\ [LogindNext]_agentVars => CountsOK'
  <1> SUFFICES ASSUME CountsOK, [LogindNext]_agentVars PROVE CountsOK'
    OBVIOUS
  <1> USE LogindAssumption DEF LogindAssumption, CountsOK,
      sharedVars, compVars, logindVars, historyVars, busVars
  <1>1. CASE BusStep
    <2>1. CASE PollLocked BY <2>1 DEF PollLocked
    <2>2. CASE WriteWake BY <2>2 DEF WriteWake
    <2>3. CASE ~PollLocked /\ ~WriteWake
      BY <1>1, <2>3 DEF BusStep, BusConnect, BusArm, BusCheckStopping, BusEnterLoop,
        OnSignal, OnPrepareForSleep, OnResumed, OnSessionLockSignal, SendLockedHint,
        QuitLoop, BusWindDown
    <2> QED BY <2>1, <2>2, <2>3
  <1>2. CASE CompStep
    BY <1>2 DEF CompStep, CompositorStart, OnWake, OnWakeRead, OnWakeTake, OnWakeLock,
      OnWakeUnlock, OnWakeReturn, ScreenChanges, StopBegin, StopFinish, StartThread
  <1>3. CASE LogindStep
    BY <1>3 DEF LogindStep, SendLockSignal, PrepareForSleep, GoToSleep, Resume
  <1>4. CASE UNCHANGED agentVars BY <1>4 DEF agentVars
  <1> QED BY <1>1, <1>2, <1>3, <1>4 DEF LogindNext

LEMMA TypeStep == LogindTypeOK /\ [LogindNext]_agentVars => LogindTypeOK'
  <1>1. UNCHANGED agentVars /\ FlagsOK => FlagsOK'
    BY DEF agentVars, busVars, sharedVars, compVars, logindVars, historyVars, FlagsOK
  <1>2. FlagsOK /\ [LogindNext]_agentVars => FlagsOK'
    BY <1>1, BusState, CompState, EnvironmentState DEF LogindNext
  <1>3. LogindTypeOK' <=> QueueOK' /\ CountsOK' /\ FlagsOK'
    BY TypeParts, PTL
  <1> QED BY <1>2, <1>3, TypeParts, QueueStep, CountsStep

LEMMA InitType == LogindInit => LogindTypeOK
  <1>1. LogindInit => QueueOK BY DEF LogindInit, QueueOK
  <1>2. LogindInit => CountsOK
    BY LogindAssumption DEF LogindInit, CountsOK, LogindAssumption
  <1>3. LogindInit => FlagsOK BY DEF LogindInit, FlagsOK, BusStates
  <1> QED BY <1>1, <1>2, <1>3, TypeParts

\* Every variable of the two threads keeps a value its thread can store.
THEOREM LogindTypeCorrect == LogindSpec => []LogindTypeOK
  BY InitType, TypeStep, PTL DEF LogindSpec


-----------------------------------------------------------------------------
(* Logind: the eventfd between the threads.                                *)

\* The thread lives only while its descriptor is open, and nobody has asked for
\* anything before the first start.
ThreadsOK ==
  /\ comp \in {"down", "gone"} => bus = "none" /\ ~wakeSource
  /\ comp \notin {"down", "gone"} => wakeSource
  /\ comp = "down" => requests = {}

WakeInv == ThreadsOK /\ NoLostWakeup

LEMMA WakeStep == WakeInv /\ [LogindNext]_agentVars => WakeInv'
  <1> SUFFICES ASSUME WakeInv, [LogindNext]_agentVars PROVE WakeInv'
    OBVIOUS
  <1> USE DEF WakeInv, ThreadsOK, NoLostWakeup
  <1>1. CASE BusStep
    <2> USE DEF compVars, historyVars, sharedVars
    <2>1. comp \notin {"down", "gone"}
      BY <1>1 DEF BusStep, BusConnect, BusArm, BusCheckStopping, BusEnterLoop, OnSignal,
        OnPrepareForSleep, OnResumed, OnSessionLockSignal, WriteWake, PollLocked,
        SendLockedHint, QuitLoop, BusWindDown
    <2>2. CASE OnPrepareForSleep BY <2>1, <2>2 DEF OnPrepareForSleep, SetRequest
    <2>3. CASE OnSessionLockSignal BY <2>1, <2>3 DEF OnSessionLockSignal, SetRequest
    <2>4. CASE WriteWake BY <2>1, <2>4 DEF WriteWake
    <2>5. CASE ~OnPrepareForSleep /\ ~OnSessionLockSignal /\ ~WriteWake
      <3>1. /\ UNCHANGED <<comp, wakeSource, requests, wake, leftover>>
            /\ bus \notin {"posting", "alerting"}
        BY <1>1, <2>5 DEF BusStep, BusConnect, BusArm, BusCheckStopping, BusEnterLoop,
          OnSignal, OnResumed, PollLocked, SendLockedHint, QuitLoop, BusWindDown
      <3> QED BY <2>1, <3>1
    <2> QED BY <2>2, <2>3, <2>4, <2>5
  <1>2. CASE CompStep
    <2> USE DEF busVars, historyVars, sharedVars
    <2>1. CASE CompositorStart BY <2>1 DEF CompositorStart, StartThread
    <2>2. CASE OnWakeRead BY <2>2 DEF OnWakeRead
    <2>3. CASE OnWakeTake BY <2>3 DEF OnWakeTake
    <2>4. CASE OnWakeLock BY <2>4 DEF OnWakeLock, NotifyLocked
    <2>5. CASE OnWakeUnlock BY <2>5 DEF OnWakeUnlock, NotifyLocked
    <2>6. CASE OnWakeReturn BY <2>6 DEF OnWakeReturn
    <2>7. CASE ScreenChanges BY <2>7 DEF ScreenChanges, NotifyLocked
    <2>8. ASSUME NEW next \in {"restarting", "quitting"}, StopBegin(next) PROVE WakeInv'
      BY <2>8 DEF StopBegin
    <2>9. CASE StopFinish BY <2>9 DEF StopFinish, StartThread
    <2> QED
      BY <1>2, <2>1, <2>2, <2>3, <2>4, <2>5, <2>6, <2>7, <2>8, <2>9 DEF CompStep, OnWake
  <1>3. CASE LogindStep
    BY <1>3 DEF LogindStep, SendLockSignal, PrepareForSleep, GoToSleep, Resume, compVars,
      busVars, sharedVars, historyVars
  <1>4. CASE UNCHANGED agentVars
    BY <1>4 DEF agentVars, busVars, sharedVars, compVars, historyVars
  <1> QED BY <1>1, <1>2, <1>3, <1>4 DEF LogindNext

LEMMA WakeInvariant == LogindSpec => []WakeInv
  <1>1. LogindInit => WakeInv BY DEF LogindInit, WakeInv, ThreadsOK, NoLostWakeup
  <1> QED BY <1>1, WakeStep, PTL DEF LogindSpec

\* A request of the bus thread is never left with nobody to wake the compositor
\* for it: post_request()'s two halves against on_wake(), start and stop.
THEOREM WakeupsKept == LogindSpec => []NoLostWakeup
  <1>1. WakeInv => NoLostWakeup BY DEF WakeInv
  <1> QED BY <1>1, WakeInvariant, PTL

\* stop() takes the eventfd away only after the join, so the bus thread never
\* writes a descriptor that is closed or belongs to somebody else.
THEOREM WakeFdOutlivesThread == LogindSpec => []WakeFdIsOpen
  <1>1. WakeInv => WakeFdIsOpen
    BY DEF WakeInv, ThreadsOK, WakeFdIsOpen, BusAlive
  <1> QED BY <1>1, WakeInvariant, PTL

-----------------------------------------------------------------------------
(* Logind: what logind is told.                                            *)

\* HintAgrees wherever the bus thread is: a hint that differs is queued, or was
\* queued for a thread that had left.
HintInv ==
  /\ lockedFlag <=> screen = "locked"
  /\ OwnSession /\ ~hintQueued /\ ~hintMissed => lockedHint = lockedFlag

\* The compositor tells of every change of its lock.
LEMMA NotifyKeepsHint ==
  ASSUME FlagsOK, HintInv, NotifyLocked(screen' = "locked"), lockedHint' = lockedHint
  PROVE  HintInv'
  <1>1. lockedFlag' <=> screen' = "locked" BY DEF NotifyLocked
  <1>2. CASE ~OwnSession BY <1>1, <1>2 DEF HintInv
  <1>3. CASE OwnSession /\ (hintQueued \/ hintMissed)
    BY <1>1, <1>3 DEF HintInv, NotifyLocked
  <1>4. CASE OwnSession /\ ~hintQueued /\ ~hintMissed
    BY <1>1, <1>4 DEF HintInv, NotifyLocked, FlagsOK
  <1> QED BY <1>2, <1>3, <1>4

LEMMA HintStep == FlagsOK /\ HintInv /\ [LogindNext]_agentVars => HintInv'
  <1> SUFFICES ASSUME FlagsOK, HintInv, [LogindNext]_agentVars PROVE HintInv'
    OBVIOUS
  <1> USE DEF sharedVars, compVars, busVars, logindVars, historyVars
  <1>1. CASE SendLockedHint BY <1>1 DEF SendLockedHint, HintInv
  <1>2. CASE BusWindDown BY <1>2 DEF BusWindDown, HintInv
  <1>3. CASE OnWakeLock BY <1>3, NotifyKeepsHint DEF OnWakeLock
  <1>4. CASE OnWakeUnlock BY <1>4, NotifyKeepsHint DEF OnWakeUnlock
  <1>5. CASE ScreenChanges BY <1>5, NotifyKeepsHint DEF ScreenChanges
  <1>6. CASE StopFinish BY <1>6 DEF StopFinish, HintInv
  <1>7. CASE UNCHANGED <<lockedFlag, screen, hintQueued, hintMissed, lockedHint>>
    BY <1>7 DEF HintInv
  <1>8. \/ SendLockedHint \/ BusWindDown \/ OnWakeLock \/ OnWakeUnlock \/ ScreenChanges
        \/ StopFinish \/ UNCHANGED <<lockedFlag, screen, hintQueued, hintMissed, lockedHint>>
    <2>1. CASE BusStep
      BY <2>1 DEF BusStep, BusConnect, BusArm, BusCheckStopping, BusEnterLoop, OnSignal,
        OnPrepareForSleep, OnResumed, OnSessionLockSignal, WriteWake, PollLocked, QuitLoop
    <2>2. CASE CompStep
      BY <2>2 DEF CompStep, CompositorStart, OnWake, OnWakeRead, OnWakeTake, OnWakeReturn,
        StopBegin
    <2>3. CASE LogindStep
      BY <2>3 DEF LogindStep, SendLockSignal, PrepareForSleep, GoToSleep, Resume
    <2> QED BY <2>1, <2>2, <2>3 DEF LogindNext, agentVars
  <1> QED BY <1>1, <1>2, <1>3, <1>4, <1>5, <1>6, <1>7, <1>8

\* logind's LockedHint is never stale once the bus thread has nothing queued.
THEOREM HintIsRight == LogindSpec => []HintAgrees
  <1>1. LogindInit => HintInv BY DEF LogindInit, HintInv
  <1>2. HintInv => HintAgrees BY DEF HintInv, HintAgrees
  <1>3. LogindTypeOK => FlagsOK BY TypeParts
  <1> QED BY <1>1, <1>2, <1>3, HintStep, LogindTypeCorrect, PTL DEF LogindSpec

-----------------------------------------------------------------------------
(* Logind: the delay inhibitor.                                            *)

HasWake(q) == \E i \in 1..Len(q) : q[i] = "wake"

\* Every suspend in the queue was followed by its resume.
Settled(q) ==
  \A i \in 1..Len(q) : q[i] = "sleep" => \E j \in (i + 1)..Len(q) : q[j] = "wake"

LEMMA TailSettled ==
  ASSUME NEW q \in Seq(Signals), q # <<>>, Settled(q)
  PROVE  /\ Settled(Tail(q))
         /\ Head(q) = "sleep" => HasWake(Tail(q))
         /\ Head(q) # "wake" /\ HasWake(q) => HasWake(Tail(q))
  <1>1. /\ Len(q) \in Nat \ {0} /\ Len(Tail(q)) = Len(q) - 1
        /\ Head(q) = q[1]
        /\ \A i \in 1..Len(Tail(q)) : Tail(q)[i] = q[i + 1]
    OBVIOUS
  <1>2. Settled(Tail(q))
    <2> SUFFICES ASSUME NEW i \in 1..Len(Tail(q)), Tail(q)[i] = "sleep"
                 PROVE  \E j \in (i + 1)..Len(Tail(q)) : Tail(q)[j] = "wake"
      BY DEF Settled
    <2>1. PICK j \in (i + 2)..Len(q) : q[j] = "wake"
      BY <1>1 DEF Settled
    <2>2. j - 1 \in (i + 1)..Len(Tail(q)) /\ Tail(q)[j - 1] = q[j]
      BY <1>1, <2>1
    <2> QED BY <2>1, <2>2
  <1>3. ASSUME NEW j \in 2..Len(q), q[j] = "wake" PROVE HasWake(Tail(q))
    <2>1. j - 1 \in 1..Len(Tail(q)) /\ Tail(q)[j - 1] = q[j]
      BY <1>1
    <2> QED BY <1>3, <2>1 DEF HasWake
  <1>4. Head(q) = "sleep" => HasWake(Tail(q))
    <2> SUFFICES ASSUME q[1] = "sleep" PROVE HasWake(Tail(q))
      BY <1>1
    <2>1. PICK j \in 2..Len(q) : q[j] = "wake" BY <1>1 DEF Settled
    <2> QED BY <2>1, <1>3
  <1>5. Head(q) # "wake" /\ HasWake(q) => HasWake(Tail(q))
    BY <1>1, <1>3 DEF HasWake
  <1> QED BY <1>2, <1>4, <1>5

LEMMA AppendSettled ==
  ASSUME NEW q \in Seq(Signals), NEW x \in Signals \ {"sleep"}, Settled(q)
  PROVE  Settled(Append(q, x)) /\ (HasWake(q) => HasWake(Append(q, x)))
  <1>1. /\ Len(q) \in Nat /\ Len(Append(q, x)) = Len(q) + 1
        /\ Append(q, x)[Len(q) + 1] = x
        /\ \A i \in 1..Len(q) : Append(q, x)[i] = q[i]
    OBVIOUS
  <1>2. Settled(Append(q, x))
    <2> SUFFICES ASSUME NEW i \in 1..(Len(q) + 1), Append(q, x)[i] = "sleep"
                 PROVE  \E j \in (i + 1)..(Len(q) + 1) : Append(q, x)[j] = "wake"
      BY <1>1 DEF Settled
    <2>1. i \in 1..Len(q) /\ q[i] = "sleep" BY <1>1
    <2>2. PICK j \in (i + 1)..Len(q) : q[j] = "wake" BY <2>1 DEF Settled
    <2> QED BY <1>1, <2>1, <2>2
  <1>3. HasWake(q) => HasWake(Append(q, x)) BY <1>1 DEF HasWake
  <1> QED BY <1>2, <1>3

LEMMA AppendWake ==
  ASSUME NEW q \in Seq(Signals)
  PROVE  HasWake(Append(q, "wake")) /\ Settled(Append(q, "wake"))
  <1>1. /\ Len(q) \in Nat /\ Len(Append(q, "wake")) = Len(q) + 1
        /\ Append(q, "wake")[Len(q) + 1] = "wake"
    OBVIOUS
  <1> QED BY <1>1 DEF HasWake, Settled

\* With the machine awake the bus thread has seen, or has queued, the resume of
\* every suspend it has seen; with none queued it holds what logind granted.
ArmedInv ==
  /\ ~Subscribed /\ bus # "winding" => signals = <<>>
  /\ Subscribed /\ power = "awake" => Settled(signals)
  /\ Subscribed /\ bus # "arming" /\ power = "awake" /\ ~HasWake(signals) =>
       bus \notin {"alerting", "waiting"} /\ (InhibitSleep => inhibitor \/ ungranted)

LEMMA EmptySettled == Settled(<<>>) /\ ~HasWake(<<>>)
  BY DEF Settled, HasWake

LEMMA TakeInhibitorArms ==
  ASSUME FlagsOK, TakeInhibitor
  PROVE  InhibitSleep => inhibitor' \/ ungranted'
  <1> SUFFICES ASSUME InhibitSleep PROVE inhibitor' \/ ungranted'
    OBVIOUS
  <1>1. CASE inhibitor BY <1>1, Zenon DEF TakeInhibitor
  <1>2. CASE ~inhibitor
    <2>1. PICK granted \in BOOLEAN : inhibitor' = granted /\ ungranted' = ~granted
      BY <1>2, Zenon DEF TakeInhibitor
    <2> QED BY <2>1
  <1> QED BY <1>1, <1>2

LEMMA ArmedStep == LogindTypeOK /\ WakeInv /\ ArmedInv /\ [LogindNext]_agentVars => ArmedInv'
  <1> SUFFICES ASSUME signals \in Seq(Signals), FlagsOK, WakeInv, ArmedInv, [LogindNext]_agentVars
               PROVE  ArmedInv'
    BY TypeParts DEF QueueOK
  <1>1. CASE BusStep
    <2> USE DEF sharedVars, compVars, logindVars, historyVars, Subscribed
    <2>1. CASE BusConnect BY <2>1, EmptySettled DEF BusConnect, ArmedInv
    <2>2. CASE BusArm BY <2>2, TakeInhibitorArms DEF BusArm, ArmedInv
    <2>3. CASE BusCheckStopping BY <2>3 DEF BusCheckStopping, ArmedInv
    <2>4. CASE BusEnterLoop BY <2>4 DEF BusEnterLoop, ArmedInv
    <2>5. CASE OnPrepareForSleep
      BY <2>5, TailSettled DEF OnPrepareForSleep, ArmedInv
    <2>6. CASE OnResumed
      BY <2>6, TailSettled, TakeInhibitorArms DEF OnResumed, ArmedInv
    <2>7. CASE OnSessionLockSignal
      BY <2>7, TailSettled DEF OnSessionLockSignal, ArmedInv
    <2>8. CASE WriteWake BY <2>8 DEF WriteWake, ArmedInv
    <2>9. CASE PollLocked BY <2>9 DEF PollLocked, ArmedInv
    <2>10. CASE SendLockedHint BY <2>10 DEF SendLockedHint, busVars, ArmedInv
    <2>11. CASE QuitLoop BY <2>11 DEF QuitLoop, ArmedInv
    <2>12. CASE BusWindDown BY <2>12 DEF BusWindDown, ArmedInv
    <2> QED
      BY <1>1, <2>1, <2>2, <2>3, <2>4, <2>5, <2>6, <2>7, <2>8, <2>9, <2>10, <2>11, <2>12
      DEF BusStep, OnSignal
  <1>2. CASE CompStep
    <2>1. \/ UNCHANGED <<bus, signals, power, inhibitor, ungranted>>
          \/ /\ bus \in {"none", "exited"} /\ bus' \in {"none", "connecting"}
             /\ UNCHANGED <<signals, power, inhibitor, ungranted>>
      BY <1>2 DEF CompStep, CompositorStart, WakeInv, ThreadsOK, OnWake, OnWakeRead, OnWakeTake, OnWakeLock, OnWakeUnlock,
        OnWakeReturn, ScreenChanges, StopBegin, StopFinish, StartThread, busVars,
        logindVars, historyVars
    <2> QED BY <2>1 DEF ArmedInv, Subscribed
  <1>3. CASE LogindStep
    <2> USE DEF sharedVars, compVars, historyVars, Subscribed, Signals
    <2>1. ASSUME NEW s \in {"lock", "unlock"}, SendLockSignal(s) PROVE ArmedInv'
      BY <2>1, AppendSettled DEF SendLockSignal, Deliver, logindVars, ArmedInv
    <2>2. CASE PrepareForSleep
      BY <2>2 DEF PrepareForSleep, Deliver, ArmedInv
    <2>3. CASE GoToSleep BY <2>3 DEF GoToSleep, busVars, ArmedInv
    <2>4. CASE Resume BY <2>4, AppendWake DEF Resume, Deliver, ArmedInv
    <2> QED BY <1>3, <2>1, <2>2, <2>3, <2>4 DEF LogindStep
  <1>4. CASE UNCHANGED agentVars
    BY <1>4 DEF agentVars, busVars, logindVars, historyVars, ArmedInv, Subscribed
  <1> QED BY <1>1, <1>2, <1>3, <1>4 DEF LogindNext

\* After a suspend, a cancelled one or a restart, the thread that sits in its loop
\* on a machine that is awake holds the delay inhibitor, unless logind refused it.
THEOREM SleepStaysArmed == LogindSpec => []SleepIsArmed
  <1>1. LogindInit => ArmedInv
    BY EmptySettled DEF LogindInit, ArmedInv, Subscribed
  <1>2. ArmedInv => SleepIsArmed
    BY EmptySettled DEF ArmedInv, SleepIsArmed, Subscribed
  <1> QED BY <1>1, <1>2, ArmedStep, LogindTypeCorrect, WakeInvariant, PTL DEF LogindSpec

LEMMA ReleaseStep ==
  ASSUME FlagsOK, [LogindNext]_agentVars, inhibitor, ~inhibitor'
  PROVE  lockedFlag \/ polls = MaxPolls \/ bus = "winding"
  <1> USE DEF sharedVars, compVars, busVars, historyVars, logindVars
  <1>1. ~TakeInhibitor BY DEF TakeInhibitor
  <1>2. CASE BusStep
    BY <1>1, <1>2 DEF BusStep, BusConnect, BusArm, BusCheckStopping, BusEnterLoop, OnSignal,
      OnPrepareForSleep, OnResumed, OnSessionLockSignal, WriteWake, PollLocked,
      SendLockedHint, QuitLoop, BusWindDown
  <1>3. inhibitor' = inhibitor \/ BusStep
    BY DEF LogindNext, agentVars, CompStep, CompositorStart, OnWake, OnWakeRead, OnWakeTake,
      OnWakeLock, OnWakeUnlock, OnWakeReturn, ScreenChanges, StopBegin, StopFinish,
      LogindStep, SendLockSignal, PrepareForSleep, GoToSleep, Resume
  <1> QED BY <1>2, <1>3

\* The machine is let go to sleep only behind the lock, after the bounded wait
\* for it, or by a thread that is on its way out.
THEOREM ReleasedBehindTheLock == LogindSpec => ReleasedWhenLocked
  <1>1. LogindTypeOK /\ [LogindNext]_agentVars =>
          (inhibitor /\ ~inhibitor' => lockedFlag \/ polls = MaxPolls \/ bus = "winding")
    BY ReleaseStep, TypeParts
  <1> QED BY <1>1, LogindTypeCorrect, PTL DEF LogindSpec, ReleasedWhenLocked

=============================================================================
