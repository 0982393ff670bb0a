--------------------------- MODULE MCReplacement ---------------------------
(* The two workers of the image, with counters that end at UMAX.           *)
EXTENDS Replacement

MCSlots == {A, B}
=============================================================================
