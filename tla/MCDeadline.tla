---------------------------- MODULE MCDeadline -----------------------------
(* Model-checking instance of DeadlineSpec, with the calls of MCReduction.   *)
EXTENDS DeadlineSpec, TLC

MCActor(op) == CHOOSE a \in LcActors : permitted(a, op)

(* At most one work item completes; MCReduction and MCLifecycle go further. *)
MCEvents == {e \in LcEvent : /\ e.slot \in Slots /\ e.op \in LcOps
                             /\ e.sequence <= 1 /\ FieldsValid(e)}

(* Only RESERVE and ACTIVATE read the audit answer, and only RESERVE takes   *)
(* a duration; one event of each kind breaks that rule.                      *)
MCCalls ==
  {[actor |-> MCActor(e.op), event |-> e, audit_ok |-> TRUE, duration |-> 0] :
     e \in MCEvents}
  \cup
  {[actor |-> "ADMIN", event |-> e, audit_ok |-> a, duration |-> d] :
     e \in {f \in MCEvents : f.op = "RESERVE"}, a \in BOOLEAN, d \in 1..UMAX}
  \cup
  {[actor |-> "SUPERVISOR", event |-> e, audit_ok |-> TRUE, duration |-> 1] :
     e \in {f \in MCEvents : f.op = "STARTED"}}

MCRequests == {{}, {UnknownBit}} \cup {{i} : i \in Slots}

MCReadings == [tick : U64, ok : {TRUE}] \cup {[tick |-> 0, ok |-> FALSE]}

(* Slots differ only in name: every definition treats them alike.           *)
SlotSymmetry == Permutations(Slots)
=============================================================================
