------------------------------ MODULE MCSerial ------------------------------
(* A printable that is the submit command, a digit, an erasing character   *)
(* and a line end; a ring and FIFOs of two, so that they overflow and fill.*)
EXTENDS Serial

MCAlphabet == {"submit", "1", "bs", "cr"}
=============================================================================
