------------------------------ MODULE Reduction ------------------------------
(***************************************************************************)
(* The reduction latch of lib/reduction.c, as operators on its state.      *)
(* The code's 64-bit request words are sets: bit i is the slot i, and      *)
(* UnknownBit stands for every bit outside TCS_RD_ALL.                     *)
(***************************************************************************)
EXTENDS Lifecycle

CONSTANT UnknownBit

ASSUME UnknownBitAssumption == UnknownBit \notin Slots

Words == SUBSET (Slots \cup {UnknownBit})

RdControl == [life : LcLife, inhibited : SUBSET Slots, input_fault : BOOLEAN]

ZeroControl == [life |-> ZeroLife, inhibited |-> {}, input_fault |-> FALSE]

NoneInhibitedLive(life, inhibited) ==
  \A i \in inhibited : life.slots[i].state \notin LiveStates

tcs_rd_valid(control) ==
  /\ tcs_lc_valid(control.life)
  /\ control.input_fault => control.inhibited = Slots
  /\ NoneInhibitedLive(control.life, control.inhibited)

(* Mutants: the range of live states is one too short, or takes in the     *)
(* retired slots.                                                          *)
ContainAllShortMutant(life, inhibited) ==
  [life EXCEPT !.slots =
     [i \in Slots |->
        IF i \in inhibited /\ life.slots[i].state \in {"STARTING", "READY"}
        THEN [life.slots[i] EXCEPT !.state = "CLOSING"] ELSE life.slots[i]]]
ContainAllRetiredMutant(life, inhibited) ==
  [life EXCEPT !.slots =
     [i \in Slots |->
        IF i \in inhibited /\ life.slots[i].state \in LiveStates \cup {"RETIRED"}
        THEN [life.slots[i] EXCEPT !.state = "CLOSING"] ELSE life.slots[i]]]

(* The loop of tcs_rd_poll.  Each iteration is the CONTAIN event of        *)
(* tcs_lc_apply by the detector on a live slot, which is always accepted;  *)
(* the iterations touch different slots.                                   *)
ContainAll(life, inhibited) ==
  [life EXCEPT !.slots =
     [i \in Slots |->
        IF i \in inhibited /\ life.slots[i].state \in LiveStates
        THEN NextSlot(life, [op |-> "CONTAIN", slot |-> i,
                             incarnation |-> life.slots[i].incarnation, sequence |-> 0])
        ELSE life.slots[i]]]

Malformed(sample) == UnknownBit \in sample

(* Mutant: an unknown bit is stored as it came.                            *)
RequestedMutant(sample) == sample

(* What a sample asks for: everything, when it has an unknown bit.         *)
Requested(sample) == IF Malformed(sample) THEN Slots ELSE sample

(* Mutant: the latch follows the sample instead of accumulating.           *)
PollOverwriteMutant(control, sample) ==
  IF ~tcs_rd_valid(control) THEN control
  ELSE [life |-> ContainAll(control.life, Requested(sample)),
        inhibited |-> Requested(sample),
        input_fault |-> control.input_fault \/ Malformed(sample)]

(* tcs_rd_poll: requests accumulate, and an unknown bit latches the fault. *)
tcs_rd_poll(control, sample) ==
  LET inhibited == control.inhibited \cup Requested(sample)
  IN IF ~tcs_rd_valid(control) THEN control
     ELSE [life |-> ContainAll(control.life, inhibited),
           inhibited |-> inhibited,
           input_fault |-> control.input_fault \/ Malformed(sample)]

(* The status of the event alone, once the poll has been committed.        *)
RdStatus(polled, actor, e, audit_ok) ==
  IF ~tcs_rd_valid(polled) THEN "INVALID"
  ELSE IF e.slot \in polled.inhibited /\ e.op \in {"RESERVE", "ACTIVATE"} THEN "DENIED"
  ELSE LcStatus(polled.life, actor, e, audit_ok)

(* Mutant: the event first, then the poll.                                 *)
ApplyLateMutant(control, sample, actor, e, audit_ok) ==
  LET applied == IF RdStatus(control, actor, e, audit_ok) = "OK"
                 THEN [control EXCEPT !.life = LcEffect(control.life, e)] ELSE control
  IN tcs_rd_poll(applied, sample)

(* tcs_rd_apply: poll first, keep what the poll did, then the event.       *)
tcs_rd_apply(control, sample, actor, e, audit_ok) ==
  LET polled == tcs_rd_poll(control, sample)
  IN IF RdStatus(polled, actor, e, audit_ok) = "OK"
     THEN [polled EXCEPT !.life = LcEffect(polled.life, e)] ELSE polled

(* Mutant: a drained slot need not be stopped any more.                    *)
StopMaskMutant(control) ==
  IF ~tcs_rd_valid(control) THEN Slots
  ELSE {i \in Slots : /\ control.life.slots[i].state = "CLOSING"
                      /\ ~control.life.slots[i].drained}

tcs_rd_stop_mask(control) ==
  IF ~tcs_rd_valid(control) THEN Slots
  ELSE {i \in Slots : /\ control.life.slots[i].state = "CLOSING"
                      /\ ~control.life.slots[i].stopped}

tcs_rd_allows(control, slot, incarnation) ==
  /\ tcs_rd_valid(control)
  /\ slot \notin control.inhibited
  /\ tcs_lc_allows(control.life, slot, incarnation)

(* tcs_rd_publish: atomic OR of a well-formed word, else no effect.        *)
tcs_rd_publish(mailbox, requests) ==
  IF Malformed(requests) THEN mailbox ELSE mailbox \cup requests
=============================================================================
