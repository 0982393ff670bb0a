---------------------------- MODULE ReductionSpec ----------------------------
(***************************************************************************)
(* The reduction latch between its single owner and the writers of the     *)
(* shared mailbox.  The owner loads the mailbox word (Sample) and only     *)
(* later acts on the copy in its hand, so writers run between the two.     *)
(* After the poll that consumes the sample the owner may apply further     *)
(* events with an empty sample, as the containment supervisor does.        *)
(*                                                                         *)
(* asked is history: the slots some sample has asked to reduce.            *)
(***************************************************************************)
EXTENDS Reduction

CONSTANT RdCalls        \* the events the owner may be handed, with their evidence

ASSUME RdCallsAssumption ==
  RdCalls \subseteq [actor : LcActors, event : LcEvent, audit_ok : BOOLEAN]

VARIABLES control, mailbox, hand, pc, asked

RdVars == <<control, mailbox, hand, pc, asked>>

RdTypeOK ==
  /\ control \in RdControl
  /\ mailbox \in Words
  /\ hand \in Words
  /\ pc \in {"start", "sampled", "polled"}
  /\ asked \in SUBSET Slots

RdInit ==
  /\ control = ZeroControl
  /\ mailbox = {}
  /\ hand = {}
  /\ pc = "start"
  /\ asked = {}

-----------------------------------------------------------------------------
(* The writers.  Overwrite is a plain store into the shared page by a      *)
(* writer that does not go through the library: it can withdraw requests   *)
(* and leave unknown bits.                                                 *)
Publish(requests) ==
  /\ mailbox' = tcs_rd_publish(mailbox, requests)
  /\ UNCHANGED <<control, hand, pc, asked>>

Overwrite(word) ==
  /\ mailbox' = word
  /\ UNCHANGED <<control, hand, pc, asked>>

(* The owner: tcs_rd_sample, then tcs_rd_poll or tcs_rd_apply.             *)
Sample ==
  /\ pc # "sampled"
  /\ hand' = mailbox
  /\ asked' = asked \cup (IF Malformed(mailbox) THEN Slots ELSE mailbox)
  /\ pc' = "sampled"
  /\ UNCHANGED <<control, mailbox>>

RdPoll ==
  /\ pc = "sampled"
  /\ control' = tcs_rd_poll(control, hand)
  /\ hand' = {}
  /\ pc' = "polled"
  /\ UNCHANGED <<mailbox, asked>>

RdApply(c) ==
  /\ pc # "start"
  /\ control' = tcs_rd_apply(control, hand, c.actor, c.event, c.audit_ok)
  /\ hand' = {}
  /\ pc' = "polled"
  /\ UNCHANGED <<mailbox, asked>>

RdNext ==
  \/ \E word \in Words : Publish(word) \/ Overwrite(word)
  \/ Sample
  \/ RdPoll
  \/ \E c \in RdCalls : RdApply(c)

RdSpec == RdInit /\ [][RdNext]_RdVars

-----------------------------------------------------------------------------
(* The private state always passes tcs_rd_valid: neither a hostile word    *)
(* nor any event makes a poll answer INVALID_STATE.  In particular no      *)
(* inhibited slot is ever live.                                            *)
RdValid == tcs_rd_valid(control)

(* A request outlives its withdrawal: once a sample has asked for a slot   *)
(* and that sample has been polled, the slot is not live and not allowed,  *)
(* whatever the writers do to the mailbox afterwards.                      *)
LatchHolds ==
  \A i \in asked :
     pc = "polled" => /\ i \in control.inhibited
                      /\ control.life.slots[i].state \notin LiveStates
                      /\ \A n \in U64 : ~tcs_rd_allows(control, i, n)

(* The admission race: no step carries a slot forward (reserved, started,  *)
(* activated, or given work) once a sample the owner holds or held asks    *)
(* for it, even when the event and that sample arrive in the same call.    *)
NoProgressOnceAsked ==
  [][\A i \in asked :
       LET s == control.life.slots[i]
           t == control'.life.slots[i]
       IN /\ t.incarnation = s.incarnation
          /\ t.issued = s.issued
          /\ t.state # s.state => t.state \in {"CLOSING", "RETIRED"}
     ]_RdVars

(* A stop the latch intends is intended until it is confirmed: nothing but *)
(* an accepted STOPPED takes a slot out of the stop mask.                  *)
StopIntentKept ==
  [][\A i \in tcs_rd_stop_mask(control) :
        i \in tcs_rd_stop_mask(control)' \/ control'.life.slots[i].stopped]_RdVars

-----------------------------------------------------------------------------
(* The refinement mapping to the abstract one-use slots.                   *)
RdAbstract == INSTANCE OneUse WITH
  phase    <- [i \in Slots |-> PhaseOf(control.life.slots[i].state)],
  evidence <- [i \in Slots |-> EvidenceOf(control.life.slots[i])]

(* The latch, with a poll riding on every event, still implements the      *)
(* abstract one-use slots.                                                 *)
RdRefines == RdAbstract!Spec
=============================================================================
