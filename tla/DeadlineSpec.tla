---------------------------- MODULE DeadlineSpec ----------------------------
(***************************************************************************)
(* The deadline wrapper driven by its single owner.  The clock adapter may *)
(* hand it any reading: equal ticks, jumps, regressions, failures.  The    *)
(* mailbox of ReductionSpec is folded into the requests of each call.      *)
(*                                                                         *)
(* latest and failed are history: whether some reading failed or ran       *)
(* backwards, and the highest tick read before the first that did.         *)
(***************************************************************************)
EXTENDS Deadline

CONSTANTS DlCalls,      \* the events the owner may be handed, with their evidence
          Requests,     \* the request words sampled before a poll
          Readings      \* the clock readings

ASSUME DlCallsAssumption ==
  DlCalls \subseteq [actor : LcActors, event : LcEvent, audit_ok : BOOLEAN, duration : U64]
ASSUME InputsAssumption == Requests \subseteq Words /\ Readings \subseteq DlReading

VARIABLES owner, latest, failed

DlVars == <<owner, latest, failed>>

DlTypeOK ==
  /\ owner \in DlOwner
  /\ latest \in U64
  /\ failed \in BOOLEAN

DlInit ==
  /\ owner = ZeroOwner
  /\ latest = 0
  /\ failed = FALSE

Observe(reading) ==
  /\ failed' = (failed \/ ~reading.ok \/ reading.tick < latest)
  /\ latest' = IF failed' THEN latest ELSE reading.tick

DlPoll(requests, reading) ==
  /\ owner' = tcs_dl_poll(owner, requests, reading)
  /\ Observe(reading)

DlApply(requests, reading, c) ==
  /\ owner' = tcs_dl_apply(owner, requests, reading, c)
  /\ Observe(reading)

DlNext ==
  \E requests \in Requests, reading \in Readings :
     \/ DlPoll(requests, reading)
     \/ \E c \in DlCalls : DlApply(requests, reading, c)

DlSpec == DlInit /\ [][DlNext]_DlVars

-----------------------------------------------------------------------------
(* The private state always passes tcs_dl_valid, so no sequence of         *)
(* readings, requests and events makes a poll answer INVALID_STATE.        *)
DlValid == tcs_dl_valid(owner)

(* Time is not given back: once a reading reached the end of a slot, or    *)
(* any reading failed or ran backwards, the slot is inhibited, is not live *)
(* and is allowed nothing, whatever later readings say.                    *)
DeadlineHolds ==
  \A i \in Slots :
     failed \/ i \in Expired(owner, latest)
     => /\ i \in owner.control.inhibited
        /\ owner.control.life.slots[i].state \notin LiveStates
        /\ \A n \in U64 : ~tcs_dl_allows(owner, i, n)

(* A lifetime is fixed by the one accepted reservation of its slot: no     *)
(* event extends, renews or clears it, and faults and inhibitions are      *)
(* never lifted.                                                           *)
NeverRelaxed ==
  [][ /\ \A i \in Slots : owner.end[i] # 0 => owner'.end[i] = owner.end[i]
      /\ owner.control.inhibited \subseteq owner'.control.inhibited
      /\ owner.clock_fault => owner'.clock_fault
      /\ owner.control.input_fault => owner'.control.input_fault ]_DlVars

-----------------------------------------------------------------------------
(* The refinement mapping to the abstract one-use slots.                   *)
DlAbstract == INSTANCE OneUse WITH
  phase    <- [i \in Slots |-> PhaseOf(owner.control.life.slots[i].state)],
  evidence <- [i \in Slots |-> EvidenceOf(owner.control.life.slots[i])]

(* The wrapper implements the abstract one-use slots.                      *)
DlRefines == DlAbstract!Spec
=============================================================================
