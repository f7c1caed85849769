---------------------------- MODULE MCGdevMgr ----------------------------
(* Instances of GdevMgr for TLC: cards of two crtcs and up to two screens.  *)
EXTENDS GdevMgr, TLC

CONSTANTS k1, k2

CardSymmetry == Permutations(Cards)

\* A connector with nothing connected; a screen that the crtc x drives (0: none)
\* and that the crtcs e can drive.
Absent == [on |-> FALSE, cur |-> 0, encs |-> <<>>]
Screen(x, e) == [on |-> TRUE, cur |-> x, encs |-> <<e>>]

\* Boards with both screens, or the second alone, shown on the console.
LitBoards(x, y) ==
    {[crtcs |-> <<x, y>>, cons |-> cons] : cons \in
        {<<Absent, Screen(x, {x, y})>>, <<Screen(x, {x}), Screen(y, {x, y})>>}}

\* Boards that show nothing on the second screen, or have two screens that
\* only the first crtc can drive, or have no screen.
DarkBoards(x, y) ==
    {[crtcs |-> <<x, y>>, cons |-> cons] : cons \in
        {<<Screen(x, {x}), Screen(0, {x, y})>>, <<Screen(0, {x}), Screen(0, {x})>>,
         <<Absent, Absent>>}}

\* Boards of one make number their crtcs alike, those of another differently.
OneMake == LitBoards(1, 2)
TwoMakes == LitBoards(1, 2) \cup DarkBoards(1, 2) \cup LitBoards(3, 4)
==========================================================================
