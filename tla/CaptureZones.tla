----------------------------- MODULE CaptureZones -----------------------------
(***************************************************************************)
(* Which pointer barriers a capture session may set: the validation of     *)
(* src/core/gowl-input-capture.c, and what its comment says it decides.    *)
(* A zone is an output's rectangle; a barrier is a segment with an id.     *)
(***************************************************************************)
EXTENDS Integers, Sequences, FiniteSetsExt

\* What the outputs and the requests give: a GowlCaptureZone, a GowlCaptureBarrier.
ZoneType == [name : STRING, x : Int, y : Int, w : Nat \ {0}, h : Nat \ {0}]
BarrierType == [id : Nat, x1 : Int, y1 : Int, x2 : Int, y2 : Int]

\* No two zones show the same point: outputs that are beside each other.
Apart(z, o) == z.x + z.w <= o.x \/ z.y + z.h <= o.y
IsTiling(zones) == \A z, o \in zones : z = o \/ Apart(z, o) \/ Apart(o, z)

\* The horizontal case is the vertical one with the axes swapped.
TurnZone(z) == [z EXCEPT !.x = z.y, !.y = z.x, !.w = z.h, !.h = z.w]
Turn(b) == [b EXCEPT !.x1 = b.y1, !.y1 = b.x1, !.x2 = b.y2, !.y2 = b.x2]

Vertical(b) == b.id # 0 /\ b.x1 = b.x2 /\ b.y1 # b.y2

Span(b) == <<Min({b.y1, b.y2}), Max({b.y1, b.y2})>>

\* Another zone overlaps the span and has its own edge on the same line.
ZoneOnFarSide(zones, owner, b, ownersLeft) ==
  \E z \in zones \ {owner} :
    /\ z.y + z.h > Span(b)[1] /\ z.y < Span(b)[2]
    /\ b.x1 = IF ownersLeft THEN z.x + z.w ELSE z.x

VerticalIsValid(zones, b) ==
  /\ Vertical(b)
  /\ \E z \in zones :
       /\ z.y <= Span(b)[1] /\ Span(b)[2] <= z.y + z.h
       /\ b.x1 \in {z.x, z.x + z.w}
       /\ ~ZoneOnFarSide(zones, z, b, b.x1 = z.x)

BarrierIsValid(zones, b) ==
  \/ VerticalIsValid(zones, b)
  \/ VerticalIsValid({TurnZone(z) : z \in zones}, Turn(b))

\* What set_barriers() takes of a request: of one id, the first valid barrier.
Accepted(zones, request) ==
  {request[i] : i \in {j \in DOMAIN request :
     /\ BarrierIsValid(zones, request[j])
     /\ \A k \in 1..(j - 1) :
          BarrierIsValid(zones, request[k]) => request[k].id # request[j].id}}

(***************************************************************************)
(* The reference: "on the outer boundary of the zone union".  Along its    *)
(* whole length a barrier has the screen on one side, and on the other     *)
(* nothing that any output shows.                                          *)
(***************************************************************************)

Shown(zones, x, y) ==
  \E z \in zones : z.x <= x /\ x < z.x + z.w /\ z.y <= y /\ y < z.y + z.h

VerticalIsOuter(zones, b) ==
  /\ Vertical(b)
  /\ \E inside \in {b.x1 - 1, b.x1} :
       \A y \in Span(b)[1]..(Span(b)[2] - 1), x \in {b.x1 - 1, b.x1} :
         Shown(zones, x, y) <=> x = inside

IsOuter(zones, b) ==
  \/ VerticalIsOuter(zones, b)
  \/ VerticalIsOuter({TurnZone(z) : z \in zones}, Turn(b))

=============================================================================
