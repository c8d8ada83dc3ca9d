---------------------------- MODULE MCInputCapture ----------------------------
(* Instances of InputCapture for TLC. *)
EXTENDS InputCapture, TLC

CONSTANTS s1, s2, w1, w2, k1

MCSessions == {s1, s2}
MCWindows == {w1, w2}
MCSymmetry == Permutations(MCSessions) \cup Permutations(MCWindows)

Zone(name, x, y, w, h) == [name |-> name, x |-> x, y |-> y, w |-> w, h |-> h]
Barrier(id, x1, y1, x2, y2) == [id |-> id, x1 |-> x1, y1 |-> y1, x2 |-> x2, y2 |-> y2]

Left == Zone("left", 0, 0, 2, 2)
Beside == Zone("other", 2, 0, 2, 2)
Below == Zone("other", 0, 2, 2, 2)

\* One display; a second one beside it, or below it.  The one beside may sleep.
MCLayouts == {{Left}, {Left, Beside}, {Left, Below}}
MCBlankable == {Beside}

RightEdge == Barrier(1, 2, 0, 2, 2)
FarEdge == Barrier(1, 4, 0, 4, 2)
BottomEdge == Barrier(2, 0, 2, 2, 2)

\* Of the three, those on an edge that two lit displays share, or off the lit
\* displays, are refused; the first and the last have one id, of which the first
\* valid counts.
MCRequests == {<<FarEdge, BottomEdge, RightEdge>>}

=============================================================================
