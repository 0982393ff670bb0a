----------------------------- MODULE Lifecycle -----------------------------
(***************************************************************************)
(* The one-use slot lifecycle of lib/lifecycle.c, as operators on its      *)
(* state.  The library is a pure function from a state and an event to a   *)
(* result and a state; LifecycleSpec turns it into a state machine.        *)
(*                                                                         *)
(* Slots is the set of slot indices (two in the code), UMAX is UINT64_MAX. *)
(* stopped and drained, 0 or 1 in the code, are BOOLEAN.                   *)
(***************************************************************************)
EXTENDS Integers

CONSTANTS Slots, NoSlot, UMAX

ASSUME SlotsAssumption == NoSlot \notin Slots
ASSUME UMAXAssumption == UMAX \in Nat \ {0}

U64 == 0..UMAX

LcStates == {"UNUSED", "STARTING", "READY", "ACTIVE", "CLOSING", "RETIRED"}
LiveStates == {"STARTING", "READY", "ACTIVE"}
OccupiedStates == LiveStates \cup {"CLOSING"}

LcActors == {"UNKNOWN", "ADMIN", "SUPERVISOR", "BROKER", "DETECTOR", "WORKER"}

(* The last operation stands for every value outside the enumeration.      *)
LcOps == {"RESERVE", "STARTED", "ACTIVATE", "BEGIN", "COMPLETE", "CONTAIN",
          "STOPPED", "DRAINED"}
NoOp == "UNDEFINED"

LcSlot == [state : LcStates, incarnation : U64, issued : U64, pending : U64,
           stopped : BOOLEAN, drained : BOOLEAN]
LcLife == [last_incarnation : U64, slots : [Slots -> LcSlot]]
LcEvent == [op : LcOps \cup {NoOp}, slot : Slots \cup {NoSlot},
            incarnation : U64, sequence : U64]

UnusedSlot == [state |-> "UNUSED", incarnation |-> 0, issued |-> 0,
               pending |-> 0, stopped |-> FALSE, drained |-> FALSE]
ZeroLife == [last_incarnation |-> 0, slots |-> [i \in Slots |-> UnusedSlot]]

-----------------------------------------------------------------------------
(* tcs_lc_valid, slot by slot and then across slots.                       *)

SlotValid(s, last) ==
  \/ s = UnusedSlot
  \/ /\ s.state # "UNUSED"
     /\ s.incarnation \in 1..last
     /\ s.pending \in {0, s.issued}
     /\ s.state \in {"STARTING", "READY"} => s.issued = 0 /\ s.pending = 0
     /\ s.state \in LiveStates => ~s.stopped /\ ~s.drained
     /\ s.drained => s.pending = 0
     /\ s.state = "CLOSING" => ~(s.stopped /\ s.drained)
     /\ s.state = "RETIRED" => s.stopped /\ s.drained /\ s.pending = 0

DistinctIncarnations(slots) ==
  \A i, j \in Slots :
     i # j /\ slots[i].state # "UNUSED" => slots[i].incarnation # slots[j].incarnation

AtMostOneOccupied(slots) ==
  \A i, j \in Slots :
     slots[i].state \in OccupiedStates /\ slots[j].state \in OccupiedStates => i = j

tcs_lc_valid(life) ==
  /\ \A i \in Slots : SlotValid(life.slots[i], life.last_incarnation)
  /\ DistinctIncarnations(life.slots)
  /\ AtMostOneOccupied(life.slots)

tcs_lc_allows(life, slot, incarnation) ==
  /\ tcs_lc_valid(life)
  /\ slot \in Slots
  /\ incarnation # 0
  /\ life.slots[slot].state = "ACTIVE"
  /\ life.slots[slot].incarnation = incarnation

-----------------------------------------------------------------------------
(* tcs_lc_apply: the early returns in their order, then the new slot.      *)

permitted(actor, op) ==
  actor \in CASE op \in {"RESERVE", "ACTIVATE"}          -> {"ADMIN"}
              [] op \in {"STARTED", "STOPPED"}           -> {"SUPERVISOR"}
              [] op \in {"BEGIN", "COMPLETE", "DRAINED"} -> {"BROKER"}
              [] op = "CONTAIN" -> {"ADMIN", "SUPERVISOR", "DETECTOR"}
              [] OTHER -> {}

FieldsValid(e) ==
  /\ e.op \notin {"COMPLETE", "STOPPED", "DRAINED"} => e.sequence = 0
  /\ e.op = "COMPLETE" => e.sequence # 0
  /\ (e.op = "RESERVE") <=> (e.incarnation = 0)

(* Mutant: a slot that is only closing counts as out of the way.           *)
QuiescentMutant(slots) == \A i \in Slots : slots[i].state \notin LiveStates

Quiescent(slots) == \A i \in Slots : slots[i].state \in {"UNUSED", "RETIRED"}

(* Mutant: the exhaustion test comes one step late.                        *)
ExhaustedMutant(counter) == counter > UMAX

(* The counter tests of RESERVE and BEGIN: neither counter ever wraps.     *)
Exhausted(counter) == counter = UMAX

(* The switch of tcs_lc_apply: what decides whether the slot may move.     *)
PhaseStatus(life, e, audit_ok) ==
  LET s == life.slots[e.slot]
      InState(S) == IF s.state \in S THEN "OK" ELSE "BAD_STATE"
      Audited(status) == IF status = "OK" /\ ~audit_ok THEN "AUDIT_REQUIRED" ELSE status
  IN CASE e.op = "RESERVE" ->
            IF s.state # "UNUSED" \/ ~Quiescent(life.slots) THEN "BAD_STATE"
            ELSE IF Exhausted(life.last_incarnation) THEN "EXHAUSTED"
            ELSE Audited("OK")
       [] e.op = "STARTED"  -> InState({"STARTING"})
       [] e.op = "ACTIVATE" -> Audited(InState({"READY"}))
       [] e.op = "BEGIN" ->
            IF s.state # "ACTIVE" \/ s.pending # 0 THEN "BAD_STATE"
            ELSE IF Exhausted(s.issued) THEN "EXHAUSTED" ELSE "OK"
       [] e.op = "COMPLETE" ->
            IF s.state # "ACTIVE" THEN "BAD_STATE"
            ELSE IF s.pending # e.sequence THEN "STALE" ELSE "OK"
       [] e.op = "CONTAIN" -> InState(LiveStates)
       [] e.op \in {"STOPPED", "DRAINED"} ->
            IF s.state # "CLOSING" THEN "BAD_STATE"
            ELSE IF e.sequence # s.issued THEN "STALE"
            ELSE IF (IF e.op = "STOPPED" THEN s.stopped ELSE s.drained) THEN "BAD_STATE"
            ELSE "OK"
       [] OTHER -> "INVALID"

LcStatus(life, actor, e, audit_ok) ==
  IF ~tcs_lc_valid(life) \/ e.slot \notin Slots \/ e.op \notin LcOps THEN "INVALID"
  ELSE IF ~permitted(actor, e.op) THEN "DENIED"
  ELSE IF ~FieldsValid(e) THEN "INVALID"
  ELSE IF e.op # "RESERVE" /\ e.incarnation # life.slots[e.slot].incarnation THEN "STALE"
  ELSE PhaseStatus(life, e, audit_ok)

(* Mutants: one confirmation is enough; a stop also discharges the work.   *)
SettleEarlyMutant(s) == IF s.stopped \/ s.drained THEN [s EXCEPT !.state = "RETIRED"] ELSE s
SettleDischargeMutant(s) ==
  IF s.stopped /\ s.drained THEN [s EXCEPT !.state = "RETIRED"] ELSE [s EXCEPT !.pending = 0]

(* A closing slot retires on the second of its two confirmations.          *)
Settle(s) == IF s.stopped /\ s.drained THEN [s EXCEPT !.state = "RETIRED"] ELSE s

NextSlot(life, e) ==
  LET s == life.slots[e.slot]
  IN CASE e.op = "RESERVE"  -> [s EXCEPT !.state = "STARTING",
                                         !.incarnation = life.last_incarnation + 1]
       [] e.op = "STARTED"  -> [s EXCEPT !.state = "READY"]
       [] e.op = "ACTIVATE" -> [s EXCEPT !.state = "ACTIVE"]
       [] e.op = "BEGIN"    -> [s EXCEPT !.issued = @ + 1, !.pending = s.issued + 1]
       [] e.op = "COMPLETE" -> [s EXCEPT !.pending = 0]
       [] e.op = "CONTAIN"  -> [s EXCEPT !.state = "CLOSING"]
       [] e.op = "STOPPED"  -> Settle([s EXCEPT !.stopped = TRUE])
       [] e.op = "DRAINED"  -> Settle([s EXCEPT !.drained = TRUE, !.pending = 0])

LcEffect(life, e) ==
  [last_incarnation |-> IF e.op = "RESERVE" THEN life.last_incarnation + 1
                                            ELSE life.last_incarnation,
   slots |-> [life.slots EXCEPT ![e.slot] = NextSlot(life, e)]]

(* The state tcs_lc_apply leaves: a refused event changes nothing.         *)
tcs_lc_apply(life, actor, e, audit_ok) ==
  IF LcStatus(life, actor, e, audit_ok) = "OK" THEN LcEffect(life, e) ELSE life

-----------------------------------------------------------------------------
(* How a slot looks to the abstract one-use slots of OneUse.               *)
PhaseOf(state) == CASE state = "UNUSED"  -> "fresh"
                    [] state \in LiveStates -> "live"
                    [] state = "CLOSING" -> "closed"
                    [] state = "RETIRED" -> "retired"

EvidenceOf(s) == {k \in {"stop", "drain"} : IF k = "stop" THEN s.stopped ELSE s.drained}
=============================================================================
