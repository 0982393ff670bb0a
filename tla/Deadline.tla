------------------------------ MODULE Deadline ------------------------------
(***************************************************************************)
(* The deadline wrapper of lib/deadline.c, as operators on its state: a    *)
(* reduction latch plus the last clock reading and, per slot, the end of   *)
(* its fixed lifetime (0 until the slot is reserved).                      *)
(***************************************************************************)
EXTENDS Reduction

DlReading == [tick : U64, ok : BOOLEAN]

DlOwner == [control : RdControl, last_tick : U64, clock_fault : BOOLEAN,
            end : [Slots -> U64]]

ZeroOwner == [control |-> ZeroControl, last_tick |-> 0, clock_fault |-> FALSE,
              end |-> [i \in Slots |-> 0]]

(* The slots whose end a tick has reached.                                 *)
Expired(owner, tick) == {i \in Slots : owner.end[i] # 0 /\ tick >= owner.end[i]}

tcs_dl_valid(owner) ==
  /\ tcs_rd_valid(owner.control)
  /\ owner.clock_fault => owner.control.inhibited = Slots
  /\ \A i \in Slots : (owner.control.life.slots[i].state = "UNUSED") <=> (owner.end[i] = 0)
  /\ Expired(owner, owner.last_tick) \subseteq owner.control.inhibited

(* A poll with its fault test and its due slots given.                     *)
PollWith(owner, requests, reading, fault, due) ==
  IF ~tcs_dl_valid(owner) THEN owner
  ELSE [control |-> tcs_rd_poll(owner.control, requests \cup due),
        last_tick |-> IF fault THEN owner.last_tick ELSE reading.tick,
        clock_fault |-> fault,
        end |-> owner.end]

(* Mutants: the deadlines are compared with the reading before; a clock    *)
(* that runs backwards is believed; a fault is forgiven.                   *)
PollStaleMutant(owner, requests, reading) ==
  LET fault == owner.clock_fault \/ ~reading.ok \/ reading.tick < owner.last_tick
  IN PollWith(owner, requests, reading, fault,
              IF fault THEN Slots ELSE Expired(owner, owner.last_tick))
PollBackwardsMutant(owner, requests, reading) ==
  LET fault == owner.clock_fault \/ ~reading.ok
  IN PollWith(owner, requests, reading, fault,
              IF fault THEN Slots ELSE Expired(owner, reading.tick))
PollForgivesMutant(owner, requests, reading) ==
  LET fault == ~reading.ok \/ reading.tick < owner.last_tick
  IN PollWith(owner, requests, reading, fault,
              IF fault THEN Slots ELSE Expired(owner, reading.tick))

(* tcs_dl_poll: a failed or regressing reading is a sticky fault, which    *)
(* asks for every slot and freezes last_tick; otherwise the reading asks   *)
(* for the slots it expires.                                               *)
tcs_dl_poll(owner, requests, reading) ==
  LET fault == owner.clock_fault \/ ~reading.ok \/ reading.tick < owner.last_tick
  IN PollWith(owner, requests, reading, fault,
              IF fault THEN Slots ELSE Expired(owner, reading.tick))

(* Mutant: the end of a lifetime may overflow.                             *)
DurationMutant(polled, c) == (c.event.op = "RESERVE") <=> (c.duration # 0)

(* A reservation needs a positive duration that fits; nothing else may     *)
(* carry one.                                                              *)
DurationValid(polled, c) ==
  IF c.event.op = "RESERVE" THEN c.duration # 0 /\ c.duration <= UMAX - polled.last_tick
                            ELSE c.duration = 0

DlStatus(polled, c) ==
  IF ~tcs_dl_valid(polled) \/ ~DurationValid(polled, c) THEN "INVALID"
  ELSE RdStatus(tcs_rd_poll(polled.control, {}), c.actor, c.event, c.audit_ok)

(* tcs_dl_apply on the call c (actor, event, audit_ok, duration): poll     *)
(* first and keep what the poll did, then the event.                       *)
tcs_dl_apply(owner, requests, reading, c) ==
  LET polled == tcs_dl_poll(owner, requests, reading)
  IN IF DlStatus(polled, c) # "OK" THEN polled
     ELSE [polled EXCEPT
             !.control = tcs_rd_apply(polled.control, {}, c.actor, c.event, c.audit_ok),
             !.end = IF c.event.op = "RESERVE"
                     THEN [polled.end EXCEPT ![c.event.slot] = polled.last_tick + c.duration]
                     ELSE polled.end]

tcs_dl_stop_mask(owner) ==
  IF tcs_dl_valid(owner) THEN tcs_rd_stop_mask(owner.control) ELSE Slots

tcs_dl_allows(owner, slot, incarnation) ==
  tcs_dl_valid(owner) /\ tcs_rd_allows(owner.control, slot, incarnation)
=============================================================================
