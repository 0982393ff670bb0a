------------------------------- MODULE OneUse -------------------------------
(***************************************************************************)
(* What the slot libraries promise their owner, with nothing of how they   *)
(* do it: a slot is occupied at most once, a new slot is occupied only     *)
(* while every other one is fresh or retired, a closed slot never reopens, *)
(* and it retires only on two independent pieces of evidence that were     *)
(* both given after it closed.  Closing may ride on any other step: a poll *)
(* of requests or of the clock precedes every event.                       *)
(***************************************************************************)
CONSTANT Slots

VARIABLES phase, evidence

vars == <<phase, evidence>>

Phases == {"fresh", "live", "closed", "retired"}
Evidence == {"stop", "drain"}

TypeOK ==
  /\ phase \in [Slots -> Phases]
  /\ evidence \in [Slots -> SUBSET Evidence]

Init ==
  /\ phase = [i \in Slots |-> "fresh"]
  /\ evidence = [i \in Slots |-> {}]

(* The phases once the live slots of C are closed.                         *)
Closed(C) == [i \in Slots |-> IF i \in C THEN "closed" ELSE phase[i]]

Close(C) ==
  /\ phase' = Closed(C)
  /\ UNCHANGED evidence

Occupy(C, i) ==
  /\ \A j \in Slots : Closed(C)[j] \in {"fresh", "retired"}
  /\ Closed(C)[i] = "fresh"
  /\ phase' = [Closed(C) EXCEPT ![i] = "live"]
  /\ UNCHANGED evidence

Confirm(C, i, k) ==
  /\ Closed(C)[i] = "closed"
  /\ k \notin evidence[i]
  /\ evidence' = [evidence EXCEPT ![i] = @ \cup {k}]
  /\ phase' = IF evidence[i] \cup {k} = Evidence
              THEN [Closed(C) EXCEPT ![i] = "retired"] ELSE Closed(C)

Next ==
  \E C \in SUBSET {i \in Slots : phase[i] = "live"} :
     \/ Close(C)
     \/ \E i \in Slots : Occupy(C, i)
     \/ \E i \in Slots, k \in Evidence : Confirm(C, i, k)

Spec == Init /\ [][Next]_vars
=============================================================================
