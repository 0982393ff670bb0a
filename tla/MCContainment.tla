--------------------------- MODULE MCContainment ---------------------------
(* The image as it is: two slots, of which the observer drives the first.  *)
EXTENDS Containment

MCSlots == {A, B}
=============================================================================
