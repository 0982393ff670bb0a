------------------------------ MODULE MCEditor ------------------------------
(* Eleven characters, of each kind the code tells apart; twelve is the     *)
(* largest number, so that two digits can overflow it.                     *)
EXTENDS Editor

MCKeys == {"cr", "lf", "intr", "bs", "esc", "tab", "submit", "read", "0", "1", "3"}
=============================================================================
