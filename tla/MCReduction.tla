---------------------------- MODULE MCReduction ----------------------------
(* Model-checking instance of ReductionSpec.  MCLifecycle submits every      *)
(* event in the name of every actor; here each well-formed event comes from  *)
(* an actor that may send it, and the worker tries to admit itself.          *)
EXTENDS ReductionSpec, TLC

MCActor(op) == CHOOSE a \in LcActors : permitted(a, op)

MCEvents == {e \in LcEvent : e.slot \in Slots /\ e.op \in LcOps /\ FieldsValid(e)}

MCCalls ==
  {[actor |-> MCActor(e.op), event |-> e, audit_ok |-> TRUE] : e \in MCEvents}
  \cup
  {[actor |-> a, event |-> e, audit_ok |-> FALSE] :
     a \in {"ADMIN", "WORKER"}, e \in {f \in MCEvents : f.op \in {"RESERVE", "ACTIVATE"}}}

(* Slots differ only in name: every definition treats them alike.           *)
SlotSymmetry == Permutations(Slots)
=============================================================================
