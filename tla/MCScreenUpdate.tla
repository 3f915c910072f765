---------------------------- MODULE MCScreenUpdate ----------------------------
(* Instances of ScreenUpdate for TLC.  The pointer is drawn in neither the  *)
(* last column nor the last row, so the screen has two columns and a        *)
(* pointer of one pixel moves in the first.                                 *)
EXTENDS ScreenUpdate

Line(n) == [xl |-> 0, xr |-> W, yb |-> n, yt |-> n + 1]
AllDamage == {Line(n) : n \in 0..H-1}
Top == {{p \in Pixels : p[2] = 0}}
TopAndAll == Top \union {Pixels}
Left == {<<0, 0>>, <<0, H-1>>}

\* Pointers of the same size and hot spot.
SameBoxes == [i \in Images |-> [w |-> 1, h |-> 1, x |-> 0, y |-> 0]]
=============================================================================
