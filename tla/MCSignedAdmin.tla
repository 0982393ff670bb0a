--------------------------- MODULE MCSignedAdmin ---------------------------
(* Model-checking instance of SignedAdmin.                                   *)
EXTENDS SignedAdmin

MCCommand(n, g, op, s) ==
  [sequence |-> n, expected_generation |-> g, op |-> op, subject |-> s,
   object |-> IF op = "GRANT" THEN TCS_OBJECT ELSE 0,
   rights |-> IF op = "GRANT" THEN TCS_READ ELSE 0]

(* Every well-formed command in every context, signed; and packets that are  *)
(* unsigned, foreign or malformed.                                           *)
MCPackets ==
  {[domain_ok |-> TRUE, context |-> x, command |-> MCCommand(n, g, op, s), signed |-> TRUE] :
     x \in Contexts, n \in U64, g \in U64, op \in Controls \cup {"GRANT"}, s \in Subjects}
  \cup
  {[domain_ok |-> d, context |-> x, command |-> MCCommand(n, 0, op, Client), signed |-> ~d] :
     d \in BOOLEAN, x \in Contexts, n \in U64, op \in {"GRANT", "CHECK"}}

MCReadRequests ==
  {[op |-> "CHECK", subject |-> Client, object |-> TCS_OBJECT, rights |-> TCS_READ,
    generation |-> 1]}
=============================================================================
