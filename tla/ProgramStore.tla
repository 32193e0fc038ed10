---------------------------- MODULE ProgramStore ----------------------------
(***************************************************************************)
(* What the updater promises of program flash: it holds one complete image *)
(* or none.  An image appears as a whole, only where there is none, and    *)
(* disappears as a whole; it is never altered or replaced in place.        *)
(***************************************************************************)
CONSTANTS Images, NoImage

VARIABLE installed

Init == installed = NoImage

Install(x) ==
  /\ installed = NoImage
  /\ installed' = x

Wipe ==
  /\ installed # NoImage
  /\ installed' = NoImage

Next == Wipe \/ \E x \in Images : Install(x)

Spec == Init /\ [][Next]_installed
=============================================================================
