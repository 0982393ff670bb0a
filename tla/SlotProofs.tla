----------------------------- MODULE SlotProofs -----------------------------
(***************************************************************************)
(* The properties of the one-use slots at their three levels: the          *)
(* lifecycle library, the reduction latch over it, and the deadline        *)
(* wrapper over that, for every set of slots, every UMAX and every set of  *)
(* calls, request words and clock readings.                                *)
(***************************************************************************)
EXTENDS LifecycleSpec, ReductionSpec, DeadlineSpec, SlotLemmas

-----------------------------------------------------------------------------
(***************************************************************************)
(* The properties of LifecycleSpec, for every set of slots and every UMAX. *)
(*                                                                         *)
(* The argument: a call either changes nothing or applies one accepted     *)
(* event (StepCases).  Validity is inductive by LcEffectValid.  The token  *)
(* properties need TokenInv: every token handed out belongs to the one     *)
(* incarnation its slot will ever have, and a pending number is the one    *)
(* token of its slot that is not finished.                                 *)
(***************************************************************************)

(* One accepted event, as LifecycleSpec applies it.                        *)
Step(e, audit_ok) ==
  /\ Accepted(life, e, audit_ok)
  /\ life' = LcEffect(life, e)
  /\ handed' = IF e.op = "BEGIN" THEN handed \cup {WorkToken(e)} ELSE handed
  /\ finished' = IF e.op = "COMPLETE" THEN finished \cup {WorkToken(e)} ELSE finished

(* A step of the specification changes nothing or applies one event that   *)
(* passed every check of tcs_lc_apply.                                     *)
LEMMA StepCases ==
  ASSUME [LcNext]_LcVars
  PROVE  \/ UNCHANGED LcVars
         \/ \E e \in LcEvent, audit_ok \in BOOLEAN : Step(e, audit_ok)
<1>1. CASE UNCHANGED LcVars
  BY <1>1
<1>2. CASE LcNext
  <2>1. PICK op \in LcOps \cup {NoOp} : Submit(op)
    BY <1>2 DEF LcNext, Reserve, Started, Activate, Begin, Complete, Contain, Stopped,
                Drained, MalformedEvent, LcOps
  <2>2. PICK actor \in LcActors, e \in LcEvent, audit_ok \in BOOLEAN :
          Call(actor, e, audit_ok)
    BY <2>1 DEF Submit
  <2>3. CASE LcStatus(life, actor, e, audit_ok) = "OK"
    <3>1. Accepted(life, e, audit_ok)
      BY <2>3, AcceptedFacts
    <3>2. Step(e, audit_ok)
      BY <2>2, <2>3, <3>1 DEF Call, Step, tcs_lc_apply
    <3> QED BY <3>2
  <2>4. CASE LcStatus(life, actor, e, audit_ok) # "OK"
    BY <2>2, <2>4 DEF Call, tcs_lc_apply, LcVars
  <2> QED BY <2>3, <2>4
<1> QED BY <1>1, <1>2

-----------------------------------------------------------------------------
(* Both parts of the first invariant: the types, and the library's own     *)
(* validity test.                                                          *)
ValidInv == LcTypeOK /\ Valid

(* The zero state the owner starts from satisfies the invariant.           *)
LEMMA ValidInit == LcInit => ValidInv
BY ZeroLifeValid DEF LcInit, ValidInv, LcTypeOK, Valid

(* Every call of tcs_lc_apply keeps the types and the validity.            *)
LEMMA ValidStep == ValidInv /\ [LcNext]_LcVars => ValidInv'
<1> SUFFICES ASSUME ValidInv, [LcNext]_LcVars PROVE ValidInv'
  OBVIOUS
<1>1. CASE UNCHANGED LcVars
  BY <1>1 DEF ValidInv, LcTypeOK, Valid, LcVars
<1>2. ASSUME NEW e \in LcEvent, NEW audit_ok \in BOOLEAN, Step(e, audit_ok)
      PROVE  ValidInv'
  <2>1. life \in LcLife /\ tcs_lc_valid(life) /\ Accepted(life, e, audit_ok)
    BY <1>2 DEF ValidInv, LcTypeOK, Valid, Step
  <2>2. life' \in LcLife /\ tcs_lc_valid(life')
    BY <1>2, <2>1, LcEffectValid DEF Step
  <2>3. WorkToken(e) \in Token \/ e.op \notin {"BEGIN", "COMPLETE"}
    <3>1. /\ e.slot \in Slots /\ e.incarnation \in U64 /\ e.sequence \in U64
          /\ life.slots[e.slot].issued \in U64
      BY <2>1 DEF LcEvent, LcLife, LcSlot, Accepted
    <3>2. e.op = "BEGIN" => life.slots[e.slot].issued + 1 \in U64
      BY <2>1, <3>1, UMAXAssumption DEF Accepted, U64
    <3> QED BY <3>1, <3>2 DEF WorkToken, Token
  <2>4. handed' \in SUBSET Token /\ finished' \in SUBSET Token
    BY <1>2, <2>3 DEF Step, ValidInv, LcTypeOK
  <2> QED BY <2>2, <2>4 DEF ValidInv, LcTypeOK, Valid
<1> QED BY <1>1, <1>2, StepCases

(* The variables of the lifecycle keep their types, for any number of      *)
(* slots and any counter width.                                            *)
THEOREM TypeCorrect == LcSpec => []LcTypeOK
<1>1. ValidInv => LcTypeOK
  BY DEF ValidInv
<1> QED BY <1>1, ValidInit, ValidStep, PTL DEF LcSpec

(* tcs_lc_apply never leaves a state that tcs_lc_valid rejects.            *)
THEOREM AlwaysValid == LcSpec => []Valid
<1>1. ValidInv => Valid
  BY DEF ValidInv
<1> QED BY <1>1, ValidInit, ValidStep, PTL DEF LcSpec

(* A slot is occupied only while every other used slot is both stopped and *)
(* drained: what the RESERVE scan of tcs_lc_apply is for.                  *)
THEOREM Replacement == LcSpec => []ReplacementQuiescent
<1>1. ValidInv => ReplacementQuiescent
  <2> SUFFICES ASSUME ValidInv, NEW i \in Slots, NEW j \in Slots,
                      life.slots[i].state \in OccupiedStates, i # j,
                      life.slots[j].state # "UNUSED"
               PROVE  life.slots[j].stopped /\ life.slots[j].drained
    BY DEF ReplacementQuiescent
  <2>1. life.slots[j] \in LcSlot /\ SlotValid(life.slots[j], life.last_incarnation)
    BY DEF ValidInv, LcTypeOK, Valid, LcLife, tcs_lc_valid
  <2>2. life.slots[j].state \notin OccupiedStates
    BY DEF ValidInv, Valid, tcs_lc_valid, AtMostOneOccupied
  <2>3. life.slots[j].state = "RETIRED"
    BY <2>1, <2>2 DEF LcSlot, LcStates, OccupiedStates, LiveStates
  <2> QED BY <2>1, <2>3 DEF SlotValid, UnusedSlot
<1> QED BY <1>1, ValidInit, ValidStep, PTL DEF LcSpec

-----------------------------------------------------------------------------
(* The strengthening the token properties need.                            *)
TokenInv ==
  /\ finished \subseteq handed
  /\ \A t \in handed : /\ life.slots[t[1]].state # "UNUSED"
                       /\ life.slots[t[1]].incarnation = t[2]
                       /\ t[3] \in 1..life.slots[t[1]].issued
  /\ WorkAccounted
  /\ \A i \in Slots : life.slots[i].pending # 0 =>
        <<i, life.slots[i].incarnation, life.slots[i].pending>> \in handed \ finished

(* No token has been handed out of an untouched slot.                      *)
LEMMA TokenInit == LcInit => TokenInv
BY DEF LcInit, TokenInv, WorkAccounted, ZeroLife, UnusedSlot

(* What one accepted event does to the slots, one slot at a time.          *)
LEMMA StepSlots ==
  ASSUME ValidInv, NEW e \in LcEvent, NEW audit_ok \in BOOLEAN, Step(e, audit_ok)
  PROVE  /\ e.slot \in Slots /\ e.op \in LcOps
         /\ life \in LcLife /\ life' \in LcLife
         /\ life'.slots[e.slot] = NextSlot(life, e)
         /\ \A i \in Slots : i # e.slot => life'.slots[i] = life.slots[i]
BY ValidStep, LcEffectValid DEF ValidInv, LcTypeOK, Valid, Step, Accepted, LcEffect, LcLife

(* An accepted event keeps the account of the tokens.                      *)
LEMMA TokenStep == ValidInv /\ TokenInv /\ [LcNext]_LcVars => TokenInv'
<1> SUFFICES ASSUME ValidInv, TokenInv, [LcNext]_LcVars PROVE TokenInv'
  OBVIOUS
<1>1. CASE UNCHANGED LcVars
  BY <1>1 DEF TokenInv, WorkAccounted, LcVars
<1>2. ASSUME NEW e \in LcEvent, NEW audit_ok \in BOOLEAN, Step(e, audit_ok)
      PROVE  TokenInv'
  <2> DEFINE i0 == e.slot
             s == life.slots[i0]
             n == life'.slots[i0]
  <2>1. /\ i0 \in Slots /\ e.op \in LcOps /\ s \in LcSlot /\ n \in LcSlot
        /\ n = NextSlot(life, e)
        /\ \A i \in Slots : i # i0 => life'.slots[i] = life.slots[i]
    BY <1>2, StepSlots DEF LcLife
  <2>2. /\ handed \in SUBSET Token /\ \A t \in handed : t[1] \in Slots /\ t[3] \in U64
        /\ \A t \in handed : t = <<t[1], t[2], t[3]>>
    BY DEF ValidInv, LcTypeOK, Token
  <2>3. /\ n.incarnation = IF e.op = "RESERVE" THEN life.last_incarnation + 1
                                               ELSE s.incarnation
        /\ n.issued = IF e.op = "BEGIN" THEN s.issued + 1 ELSE s.issued
        /\ n.pending = IF e.op = "BEGIN" THEN s.issued + 1
                       ELSE IF e.op \in {"COMPLETE", "DRAINED"} THEN 0 ELSE s.pending
        /\ n.drained = IF e.op = "DRAINED" THEN TRUE ELSE s.drained
        /\ n.state # "UNUSED"
    <3>1. /\ life \in LcLife /\ tcs_lc_valid(life) /\ Accepted(life, e, audit_ok)
      BY <1>2 DEF ValidInv, LcTypeOK, Valid, Step
    <3>2. NextSlot(life, e).state # "UNUSED"
      BY <3>1, NextSlotValid
    <3>3. n = NextSlot(life, e)
      BY <2>1
    <3> HIDE DEF n
    <3> QED BY <2>1, <3>1, <3>2, <3>3, NextSlotFields
  <2>4. s.issued \in Nat /\ s.pending \in Nat
    BY <2>1 DEF LcSlot, U64
  <2>5. e.op = "RESERVE" => \A t \in handed : t[1] # i0
    BY <1>2, <2>2 DEF Step, Accepted, TokenInv
  <2>6. e.op = "BEGIN" => WorkToken(e) = <<i0, s.incarnation, s.issued + 1>> /\ s.pending = 0
    BY <1>2 DEF Step, Accepted, WorkToken
  <2>7. e.op = "COMPLETE" => /\ WorkToken(e) = <<i0, s.incarnation, s.pending>>
                             /\ s.pending # 0
    BY <1>2 DEF Step, Accepted, WorkToken
  <2>8. finished' \subseteq handed'
    BY <1>2, <2>1, <2>7 DEF Step, TokenInv
  <2>9. \A t \in handed' : /\ life'.slots[t[1]].state # "UNUSED"
                           /\ life'.slots[t[1]].incarnation = t[2]
                           /\ t[3] \in 1..life'.slots[t[1]].issued
    <3> SUFFICES ASSUME NEW t \in handed'
                 PROVE  /\ life'.slots[t[1]].state # "UNUSED"
                        /\ life'.slots[t[1]].incarnation = t[2]
                        /\ t[3] \in 1..life'.slots[t[1]].issued
      OBVIOUS
    <3>1. CASE t \in handed
      BY <2>1, <2>2, <2>3, <2>4, <2>5, <3>1 DEF TokenInv
    <3>2. CASE e.op = "BEGIN" /\ t = WorkToken(e)
      BY <2>3, <2>4, <2>6, <3>2
    <3> QED BY <1>2, <3>1, <3>2 DEF Step
  <2>10. WorkAccounted'
    <3> SUFFICES ASSUME NEW t \in handed', t \notin finished'
                 PROVE  /\ life'.slots[t[1]].incarnation = t[2]
                        /\ life'.slots[t[1]].issued = t[3]
                        /\ life'.slots[t[1]].pending = t[3] \/ life'.slots[t[1]].drained
      BY DEF WorkAccounted
    <3>1. CASE e.op = "BEGIN" /\ t = WorkToken(e)
      BY <2>3, <2>6, <3>1
    <3>2. CASE t \in handed /\ t[1] # i0
      BY <1>2, <2>1, <2>2, <3>2 DEF Step, TokenInv, WorkAccounted
    <3>3. CASE t \in handed /\ t[1] = i0
      <4>1. t \notin finished
        BY <1>2 DEF Step
      <4>2. /\ s.incarnation = t[2] /\ s.issued = t[3] /\ (s.pending = t[3] \/ s.drained)
            /\ t[3] # 0 /\ s.state # "UNUSED"
        BY <3>3, <4>1, <2>2, <2>4 DEF TokenInv, WorkAccounted, U64
      <4>3. e.op # "BEGIN"
        <5> SUFFICES ASSUME e.op = "BEGIN" PROVE FALSE
          OBVIOUS
        <5>1. s.state = "ACTIVE" /\ s.pending = 0
          BY <1>2 DEF Step, Accepted
        <5>2. ~s.drained
          BY <2>1, <5>1 DEF ValidInv, Valid, tcs_lc_valid, SlotValid, UnusedSlot, LiveStates
        <5> QED BY <4>2, <5>1, <5>2
      <4>4. e.op # "COMPLETE"
        <5> SUFFICES ASSUME e.op = "COMPLETE" PROVE FALSE
          OBVIOUS
        <5>1. s.state = "ACTIVE"
          BY <1>2 DEF Step, Accepted
        <5>2. ~s.drained
          BY <2>1, <5>1 DEF ValidInv, Valid, tcs_lc_valid, SlotValid, UnusedSlot, LiveStates
        <5>3. t = WorkToken(e)
          BY <2>2, <2>7, <3>3, <4>2, <5>2
        <5> QED BY <1>2, <5>3 DEF Step
      <4>5. e.op # "RESERVE"
        BY <2>5, <3>3
      <4> QED BY <2>1, <2>3, <3>3, <4>2, <4>3, <4>4, <4>5
    <3> QED BY <1>2, <3>1, <3>2, <3>3 DEF Step
  <2>11. \A i \in Slots : life'.slots[i].pending # 0 =>
           <<i, life'.slots[i].incarnation, life'.slots[i].pending>> \in handed' \ finished'
    <3> SUFFICES ASSUME NEW i \in Slots, life'.slots[i].pending # 0
                 PROVE  <<i, life'.slots[i].incarnation, life'.slots[i].pending>>
                          \in handed' \ finished'
      OBVIOUS
    <3>1. CASE i # i0
      <4>1. <<i, life.slots[i].incarnation, life.slots[i].pending>> \in handed \ finished
        BY <2>1, <3>1 DEF TokenInv
      <4> QED BY <1>2, <2>1, <2>7, <3>1, <4>1 DEF Step
    <3>2. CASE i = i0 /\ e.op = "BEGIN"
      <4>1. <<i0, s.incarnation, s.issued + 1>> \notin handed
        BY <2>4 DEF TokenInv
      <4> QED BY <1>2, <2>3, <2>6, <3>2, <4>1 DEF Step, TokenInv
    <3>3. CASE i = i0 /\ e.op # "BEGIN"
      <4>1. e.op \notin {"COMPLETE", "DRAINED"} /\ n.pending = s.pending
        BY <2>3, <3>3
      <4>2. e.op # "RESERVE"
        BY <1>2, <2>1, <3>3, <4>1 DEF Step, Accepted, ValidInv, Valid, tcs_lc_valid,
                                      SlotValid, UnusedSlot
      <4> QED BY <1>2, <2>1, <2>3, <3>3, <4>1, <4>2 DEF Step, TokenInv
    <3> QED BY <3>1, <3>2, <3>3
  <2> QED BY <2>8, <2>9, <2>10, <2>11 DEF TokenInv
<1> QED BY <1>1, <1>2, StepCases

(* Work is never forgotten: a token handed out by BEGIN and not accepted   *)
(* by COMPLETE stays pending until the broker confirms the drain.          *)
THEOREM WorkIsAccounted == LcSpec => []WorkAccounted
<1>1. TokenInv => WorkAccounted
  BY DEF TokenInv
<1> QED BY <1>1, ValidInit, ValidStep, TokenInit, TokenStep, PTL DEF LcSpec

(* BEGIN never hands a token out twice and COMPLETE never accepts one      *)
(* twice: the broker's acknowledgement of a number is final.               *)
THEOREM TokensAreOnce == LcSpec => TokensOnce
<1> DEFINE Once ==
      /\ finished' \subseteq handed'
      /\ \A t \in handed' \ handed : life'.slots[t[1]].pending = t[3]
      /\ \A i \in Slots : life'.slots[i].issued # life.slots[i].issued
           => <<i, life'.slots[i].incarnation, life'.slots[i].issued>> \notin handed
      /\ \A i \in Slots : /\ life.slots[i].pending # 0
                          /\ life'.slots[i].pending = 0
           => <<i, life.slots[i].incarnation, life.slots[i].pending>> \notin finished
<1>1. ValidInv /\ TokenInv /\ [LcNext]_LcVars => [Once]_LcVars
  <2> SUFFICES ASSUME ValidInv, TokenInv, [LcNext]_LcVars, ~ UNCHANGED LcVars PROVE Once
    OBVIOUS
  <2>1. PICK e \in LcEvent, audit_ok \in BOOLEAN : Step(e, audit_ok)
    BY StepCases
  <2> DEFINE s == life.slots[e.slot]
             n == life'.slots[e.slot]
  <2>2. TokenInv'
    BY TokenStep
  <2>3. /\ e.slot \in Slots /\ e.op \in LcOps /\ s \in LcSlot
        /\ n = NextSlot(life, e) /\ life \in LcLife
        /\ \A i \in Slots : i # e.slot => life'.slots[i] = life.slots[i]
    BY <2>1, StepSlots DEF LcLife
  <2>4. /\ n.issued = IF e.op = "BEGIN" THEN s.issued + 1 ELSE s.issued
        /\ e.op = "BEGIN" => n.pending = s.issued + 1
    <3> HIDE DEF n
    <3> QED BY <2>3, NextSlotFields
  <2>5. \A t \in handed' \ handed : life'.slots[t[1]].pending = t[3]
    BY <2>1, <2>3, <2>4 DEF Step, WorkToken
  <2>6. \A i \in Slots : life'.slots[i].issued # life.slots[i].issued
           => <<i, life'.slots[i].incarnation, life'.slots[i].issued>> \notin handed
    <3> SUFFICES ASSUME NEW i \in Slots, life'.slots[i].issued # life.slots[i].issued,
                        <<i, life'.slots[i].incarnation, life'.slots[i].issued>> \in handed
                 PROVE  FALSE
      OBVIOUS
    <3>1. i = e.slot /\ life'.slots[i].issued = s.issued + 1 /\ s.issued \in Nat
      BY <2>3, <2>4 DEF LcSlot, U64
    <3>2. life'.slots[i].issued \in 1..s.issued
      BY <3>1 DEF TokenInv
    <3> QED BY <3>1, <3>2
  <2> QED BY <2>2, <2>5, <2>6 DEF TokenInv
<1>2. TokensOnce <=> [][Once]_LcVars
  BY PTL DEF TokensOnce
<1> QED BY <1>1, <1>2, ValidInit, ValidStep, TokenInit, TokenStep, PTL DEF LcSpec

-----------------------------------------------------------------------------
(* The lifecycle library implements the one-use slots of OneUse: RESERVE   *)
(* occupies a fresh slot, CONTAIN closes it, STOPPED and DRAINED are its   *)
(* two pieces of evidence, and nothing else is visible.                    *)
THEOREM LifecycleRefines == LcSpec => LcRefines
<1>1. LcInit => LcAbstract!Init
  BY ZeroLifePhases DEF LcInit, Phases, Evidences, LcAbstract!Init
<1>2. ValidInv /\ [LcNext]_LcVars => [LcAbstract!Next]_(LcAbstract!vars)
  <2> SUFFICES ASSUME ValidInv, [LcNext]_LcVars PROVE [LcAbstract!Next]_(LcAbstract!vars)
    OBVIOUS
  <2>1. CASE UNCHANGED LcVars
    BY <2>1 DEF LcVars, LcAbstract!vars
  <2>2. ASSUME NEW e \in LcEvent, NEW audit_ok \in BOOLEAN, Step(e, audit_ok)
        PROVE  [LcAbstract!Next]_(LcAbstract!vars)
    <3> DEFINE p == Phases(life)
               v == Evidences(life)
               i0 == e.slot
    <3>1. /\ life \in LcLife /\ tcs_lc_valid(life) /\ Accepted(life, e, audit_ok)
          /\ life' = LcEffect(life, e)
      BY <2>2 DEF ValidInv, LcTypeOK, Valid, Step
    <3>2. i0 \in Slots /\ Visible(p, v, p', v', i0)
      BY <3>1, EventPhases
    <3>3. LcAbstract!Closed({}) = p
      BY DEF LcAbstract!Closed, Phases
    <3>4. CASE p' = p /\ v' = v
      BY <3>4 DEF LcAbstract!vars, Phases, Evidences
    <3>5. CASE /\ \A i \in Slots : p[i] \in {"fresh", "retired"}
               /\ p[i0] = "fresh" /\ p' = [p EXCEPT ![i0] = "live"] /\ v' = v
      <4>1. LcAbstract!Occupy({}, i0)
        BY <3>3, <3>5 DEF LcAbstract!Occupy, Phases, Evidences
      <4> QED BY <3>2, <4>1 DEF LcAbstract!Next
    <3>6. CASE p[i0] = "live" /\ p' = [p EXCEPT ![i0] = "closed"] /\ v' = v
      <4>1. LcAbstract!Closed({i0}) = p'
        BY <3>6 DEF LcAbstract!Closed, Phases
      <4>2. LcAbstract!Close({i0})
        BY <3>6, <4>1 DEF LcAbstract!Close, Phases, Evidences
      <4>3. {i0} \in SUBSET {i \in Slots : p[i] = "live"}
        BY <3>2, <3>6
      <4> QED BY <4>2, <4>3 DEF LcAbstract!Next, Phases
    <3>7. ASSUME NEW k \in {"stop", "drain"},
                 /\ p[i0] = "closed" /\ k \notin v[i0]
                 /\ v' = [v EXCEPT ![i0] = @ \cup {k}]
                 /\ p' = IF v[i0] \cup {k} = {"stop", "drain"}
                         THEN [p EXCEPT ![i0] = "retired"] ELSE p
          PROVE  [LcAbstract!Next]_(LcAbstract!vars)
      <4>1. LcAbstract!Confirm({}, i0, k)
        BY <3>3, <3>7 DEF LcAbstract!Confirm, LcAbstract!Evidence, Phases, Evidences
      <4> QED BY <3>2, <4>1 DEF LcAbstract!Next, LcAbstract!Evidence
    <3> QED BY <3>2, <3>4, <3>5, <3>6, <3>7 DEF Visible
  <2> QED BY <2>1, <2>2, StepCases
<1> QED BY <1>1, <1>2, ValidInit, ValidStep, PTL DEF LcSpec, LcRefines, LcAbstract!Spec

-----------------------------------------------------------------------------
(***************************************************************************)
(* The properties of ReductionSpec, for every set of slots, every UMAX and *)
(* every set of calls.  A step that touches the private state polls the    *)
(* word in the owner's hand and then applies at most one event             *)
(* (RdStepCases).  The latch needs LatchInv: what was asked is inhibited   *)
(* or is still in the owner's hand.                                        *)
(***************************************************************************)

(* The invariant of the latch: what any sample asked for is inhibited      *)
(* already, or is in the word the owner still holds.                       *)
LatchInv ==
  asked \subseteq control.inhibited \cup (IF pc = "sampled" THEN Requested(hand) ELSE {})

RdInv == RdTypeOK /\ RdValid /\ LatchInv

(* The owner's state between the poll inside a step and the event.         *)
polled == tcs_rd_poll(control, hand)

(* What a step does to the private state: nothing, the poll alone, or the  *)
(* poll and then one event that passed every check.                        *)
Idle == UNCHANGED control
PollOnly == control' = polled
PollEvent(c) ==
  /\ RdStatus(polled, c.actor, c.event, c.audit_ok) = "OK"
  /\ control' = [polled EXCEPT !.life = LcEffect(polled.life, c.event)]

(* Every step is one of the three, and one that changes the private state  *)
(* consumes the sample.                                                    *)
LEMMA RdStepCases ==
  ASSUME [RdNext]_RdVars
  PROVE  \/ /\ Idle
            /\ \/ UNCHANGED <<hand, pc, asked>>
               \/ /\ pc' = "sampled" /\ hand' = mailbox
                  /\ pc # "sampled" /\ asked' = asked \cup Requested(hand')
         \/ /\ PollOnly \/ \E c \in RdCalls : PollEvent(c)
            /\ hand' = {} /\ pc' = "polled" /\ pc # "start" /\ UNCHANGED asked
<1>1. CASE UNCHANGED RdVars
  BY <1>1 DEF RdVars, Idle
<1>2. CASE \E word \in Words : Publish(word) \/ Overwrite(word)
  BY <1>2 DEF Publish, Overwrite, Idle
<1>3. CASE Sample
  BY <1>3 DEF Sample, Idle, Requested
<1>4. CASE RdPoll
  BY <1>4 DEF RdPoll, PollOnly, polled
<1>5. ASSUME NEW c \in RdCalls, RdApply(c)
      PROVE  /\ PollOnly \/ \E d \in RdCalls : PollEvent(d)
             /\ hand' = {} /\ pc' = "polled" /\ pc # "start" /\ UNCHANGED asked
  BY <1>5 DEF RdApply, tcs_rd_apply, PollOnly, PollEvent, polled
<1> QED BY <1>1, <1>2, <1>3, <1>4, <1>5 DEF RdNext

(* The polled state, with the facts every step needs of it.                *)
LEMMA PolledFacts ==
  ASSUME RdInv
  PROVE  /\ polled \in RdControl /\ tcs_rd_valid(polled)
         /\ polled.inhibited = control.inhibited \cup Requested(hand)
         /\ polled.life = ContainAll(control.life, polled.inhibited)
         /\ control.life \in LcLife /\ polled.inhibited \in SUBSET Slots
         /\ tcs_lc_valid(polled.life) /\ polled.life \in LcLife
         /\ NoneInhibitedLive(polled.life, polled.inhibited)
<1>1. control \in RdControl /\ tcs_rd_valid(control) /\ hand \in Words
  BY DEF RdInv, RdTypeOK, RdValid
<1>2. /\ polled \in RdControl /\ tcs_rd_valid(polled)
      /\ polled.inhibited = control.inhibited \cup Requested(hand)
      /\ polled.life = ContainAll(control.life, polled.inhibited)
  BY <1>1, PollFacts DEF polled
<1> QED BY <1>1, <1>2 DEF RdControl, tcs_rd_valid

(* The event of a step on the polled state, with the facts it needs.       *)
LEMMA PollEventFacts ==
  ASSUME RdInv, NEW c \in RdCalls, PollEvent(c)
  PROVE  /\ c.event \in LcEvent /\ c.audit_ok \in BOOLEAN
         /\ Accepted(polled.life, c.event, c.audit_ok)
         /\ control' \in RdControl /\ tcs_rd_valid(control')
         /\ control'.life = LcEffect(polled.life, c.event)
         /\ control'.inhibited = polled.inhibited
         /\ c.event.slot \in polled.inhibited => c.event.op \in {"STOPPED", "DRAINED"}
<1>1. c.event \in LcEvent /\ c.audit_ok \in BOOLEAN
  BY RdCallsAssumption
<1>2. polled \in RdControl /\ tcs_rd_valid(polled)
  BY PolledFacts
<1>3. /\ RdStatus(polled, c.actor, c.event, c.audit_ok) = "OK"
      /\ control' = [polled EXCEPT !.life = LcEffect(polled.life, c.event)]
  BY DEF PollEvent
<1> QED BY <1>1, <1>2, <1>3, EventFacts

(* The zero state the owner starts from satisfies the invariant.           *)
LEMMA RdInitInv == RdInit => RdInv
<1> SUFFICES ASSUME RdInit PROVE RdInv
  OBVIOUS
<1>1. control \in RdControl /\ tcs_rd_valid(control)
  BY ZeroLifeValid DEF RdInit, ZeroControl, RdControl, tcs_rd_valid, NoneInhibitedLive
<1> QED BY <1>1 DEF RdInit, RdInv, RdTypeOK, RdValid, LatchInv, Words

(* Every step of the owner and of the writers keeps the invariant.         *)
LEMMA RdStep == RdInv /\ [RdNext]_RdVars => RdInv'
<1> SUFFICES ASSUME RdInv, [RdNext]_RdVars PROVE RdInv'
  OBVIOUS
<1>1. mailbox' \in Words
  BY DEF RdInv, RdTypeOK, RdNext, RdVars, Publish, Overwrite, Sample, RdPoll, RdApply,
         tcs_rd_publish, Words
<1>2. CASE /\ Idle
           /\ \/ UNCHANGED <<hand, pc, asked>>
              \/ /\ pc' = "sampled" /\ hand' = mailbox
                 /\ pc # "sampled" /\ asked' = asked \cup Requested(hand')
  <2>1. control' = control /\ Requested(mailbox) \in SUBSET Slots
    BY <1>2 DEF Idle, RdInv, RdTypeOK, Requested, Malformed, Words
  <2>2. RdTypeOK' /\ RdValid'
    BY <1>1, <1>2, <2>1 DEF RdInv, RdTypeOK, RdValid
  <2>3. LatchInv'
    BY <1>2, <2>1 DEF RdInv, LatchInv
  <2> QED BY <2>2, <2>3 DEF RdInv
<1>3. CASE /\ PollOnly \/ \E c \in RdCalls : PollEvent(c)
           /\ hand' = {} /\ pc' = "polled" /\ pc # "start" /\ UNCHANGED asked
  <2>1. control' \in RdControl /\ tcs_rd_valid(control') /\ control'.inhibited = polled.inhibited
    <3>1. CASE PollOnly
      BY <3>1, PolledFacts DEF PollOnly
    <3>2. ASSUME NEW c \in RdCalls, PollEvent(c)
          PROVE  /\ control' \in RdControl /\ tcs_rd_valid(control')
                 /\ control'.inhibited = polled.inhibited
      BY <3>2, PollEventFacts
    <3> QED BY <1>3, <3>1, <3>2
  <2>2. RdTypeOK' /\ RdValid'
    BY <1>1, <1>3, <2>1 DEF RdInv, RdTypeOK, RdValid, Words
  <2>3. asked \subseteq polled.inhibited
    BY PolledFacts DEF RdInv, LatchInv
  <2>4. LatchInv'
    BY <1>3, <2>1, <2>3 DEF LatchInv
  <2> QED BY <2>2, <2>4 DEF RdInv
<1> QED BY <1>2, <1>3, RdStepCases

(* The latch, the mailbox and the owner's copy keep their types.           *)
THEOREM RdTypeCorrect == RdSpec => []RdTypeOK
<1>1. RdInv => RdTypeOK
  BY DEF RdInv
<1> QED BY <1>1, RdInitInv, RdStep, PTL DEF RdSpec

(* The private state always passes tcs_rd_valid, whatever the writers put  *)
(* into the mailbox: tcs_rd_poll never answers INVALID_STATE.              *)
THEOREM RdAlwaysValid == RdSpec => []RdValid
<1>1. RdInv => RdValid
  BY DEF RdInv
<1> QED BY <1>1, RdInitInv, RdStep, PTL DEF RdSpec

(* A request that was sampled and polled holds for ever, even when the     *)
(* mailbox no longer shows it: the slot is neither live nor allowed.       *)
THEOREM LatchHoldsAlways == RdSpec => []LatchHolds
<1>1. RdInv => LatchHolds
  <2> SUFFICES ASSUME RdInv, NEW i \in asked, pc = "polled"
               PROVE  /\ i \in control.inhibited
                      /\ control.life.slots[i].state \notin LiveStates
                      /\ \A n \in U64 : ~tcs_rd_allows(control, i, n)
    BY DEF LatchHolds
  <2>1. i \in control.inhibited
    BY DEF RdInv, LatchInv
  <2> QED BY <2>1 DEF RdInv, RdValid, tcs_rd_valid, NoneInhibitedLive, tcs_rd_allows
<1> QED BY <1>1, RdInitInv, RdStep, PTL DEF RdSpec

(* No slot a sample asks for moves forward: in a call that carries both    *)
(* the sample and a RESERVE, STARTED, ACTIVATE or BEGIN event the sample   *)
(* wins, because tcs_rd_apply polls before it applies.                     *)
THEOREM NoProgress == RdSpec => NoProgressOnceAsked
<1> DEFINE Held(i) ==
      LET s == control.life.slots[i]
          t == control'.life.slots[i]
      IN /\ t.incarnation = s.incarnation
         /\ t.issued = s.issued
         /\ t.state # s.state => t.state \in {"CLOSING", "RETIRED"}
<1>1. RdInv /\ [RdNext]_RdVars => [\A i \in asked : Held(i)]_RdVars
  <2> SUFFICES ASSUME RdInv, [RdNext]_RdVars, NEW i \in asked PROVE Held(i)
    OBVIOUS
  <2>1. CASE Idle
    BY <2>1 DEF Idle
  <2>2. CASE /\ PollOnly \/ \E c \in RdCalls : PollEvent(c)
             /\ pc # "start"
    <3> DEFINE s == control.life.slots[i]
               p == polled.life.slots[i]
    <3>1. i \in Slots /\ i \in polled.inhibited
      BY PolledFacts DEF RdInv, LatchInv, RdTypeOK
    <3>2. /\ p.incarnation = s.incarnation /\ p.issued = s.issued
          /\ p.state = s.state \/ p.state = "CLOSING"
      BY <3>1, PolledFacts, ContainAllSlots
    <3>3. CASE PollOnly
      BY <3>2, <3>3 DEF PollOnly
    <3>4. ASSUME NEW c \in RdCalls, PollEvent(c) PROVE Held(i)
      <4> DEFINE e == c.event
                 n == NextSlot(polled.life, e)
      <4>1. /\ e \in LcEvent /\ Accepted(polled.life, e, c.audit_ok)
            /\ control'.life = LcEffect(polled.life, e)
            /\ e.slot \in polled.inhibited => e.op \in {"STOPPED", "DRAINED"}
        BY <3>4, PollEventFacts
      <4>2. /\ e.slot \in Slots /\ e.op \in LcOps
            /\ polled.life \in LcLife /\ polled.life.slots \in [Slots -> LcSlot]
        BY <4>1, PolledFacts DEF Accepted, LcLife
      <4>3. control'.life.slots = [polled.life.slots EXCEPT ![e.slot] = n]
        BY <4>1 DEF LcEffect
      <4>4. CASE i # e.slot
        BY <3>1, <3>2, <4>2, <4>3, <4>4
      <4>5. CASE i = e.slot
        <5>1. p.state = "CLOSING" /\ e.op \in {"STOPPED", "DRAINED"}
          BY <3>1, <4>1, <4>5 DEF Accepted
        <5>2. control'.life.slots[i] = n
          BY <4>2, <4>3, <4>5
        <5>3. /\ n.incarnation = p.incarnation /\ n.issued = p.issued
              /\ n.state \in {"CLOSING", "RETIRED"}
          BY <4>1, <4>2, <4>5, <5>1, NextSlotFields
        <5> QED BY <3>2, <5>2, <5>3
      <4> QED BY <4>4, <4>5
    <3> QED BY <2>2, <3>3, <3>4
  <2> QED BY <2>1, <2>2, RdStepCases
<1>2. NoProgressOnceAsked <=> [][\A i \in asked : Held(i)]_RdVars
  BY PTL DEF NoProgressOnceAsked
<1> QED BY <1>1, <1>2, RdInitInv, RdStep, PTL DEF RdSpec

(* An intended stop is dropped only by its confirmation: no poll, no       *)
(* drain and no later request takes a slot out of tcs_rd_stop_mask.        *)
THEOREM StopIntent == RdSpec => StopIntentKept
<1> DEFINE Kept(i) == i \in tcs_rd_stop_mask(control)' \/ control'.life.slots[i].stopped
<1>1. RdInv /\ [RdNext]_RdVars => [\A i \in tcs_rd_stop_mask(control) : Kept(i)]_RdVars
  <2> SUFFICES ASSUME RdInv, [RdNext]_RdVars, NEW i \in tcs_rd_stop_mask(control) PROVE Kept(i)
    OBVIOUS
  <2>1. CASE Idle
    BY <2>1 DEF Idle
  <2>2. CASE PollOnly \/ \E c \in RdCalls : PollEvent(c)
    <3> DEFINE p == polled.life.slots[i]
    <3>1. i \in Slots /\ p = control.life.slots[i] /\ p.state = "CLOSING" /\ ~p.stopped
      <4>1. i \in Slots /\ control.life.slots[i].state = "CLOSING" /\ ~control.life.slots[i].stopped
        BY DEF RdInv, RdValid, tcs_rd_stop_mask
      <4> QED BY <4>1, PolledFacts, ContainAllSlots DEF LiveStates
    <3>2. CASE PollOnly
      BY <3>1, <3>2, PolledFacts DEF PollOnly, tcs_rd_stop_mask
    <3>3. ASSUME NEW c \in RdCalls, PollEvent(c) PROVE Kept(i)
      <4> DEFINE e == c.event
                 n == NextSlot(polled.life, e)
      <4>1. /\ e \in LcEvent /\ Accepted(polled.life, e, c.audit_ok)
            /\ control'.life = LcEffect(polled.life, e) /\ tcs_rd_valid(control')
        BY <3>3, PollEventFacts
      <4>2. /\ e.slot \in Slots /\ e.op \in LcOps
            /\ polled.life \in LcLife /\ polled.life.slots \in [Slots -> LcSlot]
        BY <4>1, PolledFacts DEF Accepted, LcLife
      <4>3. control'.life.slots = [polled.life.slots EXCEPT ![e.slot] = n]
        BY <4>1 DEF LcEffect
      <4>4. CASE i # e.slot
        BY <3>1, <4>1, <4>2, <4>3, <4>4 DEF tcs_rd_stop_mask
      <4>5. CASE i = e.slot
        <5>1. e.op \in {"STOPPED", "DRAINED"}
          BY <3>1, <4>1, <4>2, <4>5 DEF Accepted, LiveStates, LcOps
        <5>2. control'.life.slots[i] = n
          BY <4>2, <4>3, <4>5
        <5>3. n.stopped \/ (n.state = "CLOSING" /\ ~n.stopped)
          BY <3>1, <4>1, <4>2, <4>5, <5>1, NextSlotFields
        <5> QED BY <3>1, <4>1, <5>2, <5>3 DEF tcs_rd_stop_mask
      <4> QED BY <4>4, <4>5
    <3> QED BY <2>2, <3>2, <3>3
  <2> QED BY <2>1, <2>2, RdStepCases
<1>2. StopIntentKept <=> [][\A i \in tcs_rd_stop_mask(control) : Kept(i)]_RdVars
  BY PTL DEF StopIntentKept
<1> QED BY <1>1, <1>2, RdInitInv, RdStep, PTL DEF RdSpec

-----------------------------------------------------------------------------
(* The latch implements the one-use slots of OneUse: the poll inside a     *)
(* call closes slots, and the event after it occupies a fresh slot, closes *)
(* one, gives evidence for one or shows nothing.                           *)
THEOREM ReductionRefines == RdSpec => RdRefines
<1>1. RdInit => RdAbstract!Init
  BY ZeroLifePhases DEF RdInit, ZeroControl, Phases, Evidences, RdAbstract!Init
<1>2. RdInv /\ [RdNext]_RdVars => [RdAbstract!Next]_(RdAbstract!vars)
  <2> SUFFICES ASSUME RdInv, [RdNext]_RdVars PROVE [RdAbstract!Next]_(RdAbstract!vars)
    OBVIOUS
  <2>1. CASE Idle
    BY <2>1 DEF Idle, RdAbstract!vars
  <2>2. CASE PollOnly \/ \E c \in RdCalls : PollEvent(c)
    <3> DEFINE Live == {i \in Slots : Phases(control.life)[i] = "live"}
               p == Phases(polled.life)
               v == Evidences(control.life)
    <3>1. PICK C \in SUBSET Live :
            /\ p = [i \in Slots |-> IF i \in C THEN "closed" ELSE Phases(control.life)[i]]
            /\ Evidences(polled.life) = v
      BY PollPhases DEF polled, RdInv, RdTypeOK, RdValid
    <3>2. RdAbstract!Closed(C) = p
      BY <3>1 DEF RdAbstract!Closed, Phases
    <3>3. ASSUME NEW D \in SUBSET Live, RdAbstract!Close(D)
          PROVE  [RdAbstract!Next]_(RdAbstract!vars)
      BY <3>3 DEF RdAbstract!Next, Phases
    <3>4. CASE PollOnly
      <4>1. RdAbstract!Close(C)
        BY <3>1, <3>2, <3>4 DEF RdAbstract!Close, PollOnly, Phases, Evidences
      <4> QED BY <3>3, <4>1
    <3>5. ASSUME NEW c \in RdCalls, PollEvent(c) PROVE [RdAbstract!Next]_(RdAbstract!vars)
      <4> DEFINE e == c.event
                 i0 == e.slot
                 q == Phases(control'.life)
                 w == Evidences(control'.life)
      <4>1. /\ e \in LcEvent /\ c.audit_ok \in BOOLEAN
            /\ Accepted(polled.life, e, c.audit_ok)
            /\ control'.life = LcEffect(polled.life, e)
            /\ polled.life \in LcLife /\ tcs_lc_valid(polled.life)
        BY <3>5, PollEventFacts, PolledFacts
      <4>2. i0 \in Slots /\ Visible(p, v, q, w, i0)
        <5>1. /\ i0 \in Slots
              /\ Visible(p, Evidences(polled.life), Phases(LcEffect(polled.life, e)),
                         Evidences(LcEffect(polled.life, e)), i0)
          BY <4>1, EventPhases
        <5> QED BY <3>1, <4>1, <5>1
      <4>3. CASE q = p /\ w = v
        <5>1. RdAbstract!Close(C)
          BY <3>2, <4>3 DEF RdAbstract!Close, Phases, Evidences
        <5> QED BY <3>3, <5>1
      <4>4. CASE /\ \A i \in Slots : p[i] \in {"fresh", "retired"}
                 /\ p[i0] = "fresh" /\ q = [p EXCEPT ![i0] = "live"] /\ w = v
        <5>1. RdAbstract!Occupy(C, i0)
          BY <3>2, <4>4 DEF RdAbstract!Occupy, Phases, Evidences
        <5> QED BY <4>2, <5>1 DEF RdAbstract!Next, Phases
      <4>5. CASE p[i0] = "live" /\ q = [p EXCEPT ![i0] = "closed"] /\ w = v
        <5> DEFINE D == C \cup {i0}
        <5>1. D \in SUBSET Live
          BY <3>1, <4>2, <4>5
        <5>2. RdAbstract!Closed(D) = q
          BY <3>1, <4>5 DEF RdAbstract!Closed, Phases
        <5>3. RdAbstract!Close(D)
          BY <4>5, <5>2 DEF RdAbstract!Close, Phases, Evidences
        <5> QED BY <3>3, <5>1, <5>3
      <4>6. ASSUME NEW k \in {"stop", "drain"},
                   /\ p[i0] = "closed" /\ k \notin v[i0]
                   /\ w = [v EXCEPT ![i0] = @ \cup {k}]
                   /\ q = IF v[i0] \cup {k} = {"stop", "drain"}
                          THEN [p EXCEPT ![i0] = "retired"] ELSE p
            PROVE  [RdAbstract!Next]_(RdAbstract!vars)
        <5>1. RdAbstract!Confirm(C, i0, k)
          BY <3>2, <4>6 DEF RdAbstract!Confirm, RdAbstract!Evidence, Phases, Evidences
        <5> QED BY <4>2, <5>1 DEF RdAbstract!Next, RdAbstract!Evidence, Phases
      <4> QED BY <4>2, <4>3, <4>4, <4>5, <4>6 DEF Visible
    <3> QED BY <2>2, <3>4, <3>5
  <2> QED BY <2>1, <2>2, RdStepCases
<1> QED BY <1>1, <1>2, RdInitInv, RdStep, PTL DEF RdSpec, RdRefines, RdAbstract!Spec

-----------------------------------------------------------------------------
(***************************************************************************)
(* The properties of DeadlineSpec, for every set of slots, every UMAX and  *)
(* every set of calls, request words and clock readings.                   *)
(*                                                                         *)
(* A step polls, then applies at most one event (DlStepCases).  A poll     *)
(* inhibits what its reading expires, or everything on a fault             *)
(* (DlPollFacts).  A reservation ends strictly after the last reading and  *)
(* no other event touches an end (DlEventFacts).  DlInv adds to validity   *)
(* that the owner's clock record is the history of its readings.           *)
(***************************************************************************)

DlFault(o, reading) == o.clock_fault \/ ~reading.ok \/ reading.tick < o.last_tick

(* What tcs_dl_poll leaves: a valid state, the lifetimes as they were, and *)
(* the clock record moved on or frozen.                                    *)
LEMMA DlPollFacts ==
  ASSUME NEW o \in DlOwner, tcs_dl_valid(o), NEW requests \in Words, NEW reading \in DlReading
  PROVE  LET n == tcs_dl_poll(o, requests, reading)
         IN /\ n \in DlOwner /\ tcs_dl_valid(n)
            /\ n.end = o.end
            /\ n.clock_fault = DlFault(o, reading)
            /\ n.last_tick = IF DlFault(o, reading) THEN o.last_tick ELSE reading.tick
            /\ o.control.inhibited \subseteq n.control.inhibited
            /\ o.control.input_fault => n.control.input_fault
            /\ \E w \in Words : n.control = tcs_rd_poll(o.control, w)
<1> DEFINE fault == DlFault(o, reading)
           due == IF fault THEN Slots ELSE Expired(o, reading.tick)
           w == requests \cup due
           c == tcs_rd_poll(o.control, w)
           n == tcs_dl_poll(o, requests, reading)
<1>1. /\ o.control \in RdControl /\ o.last_tick \in U64 /\ o.end \in [Slots -> U64]
      /\ tcs_rd_valid(o.control) /\ o.clock_fault \in BOOLEAN
      /\ reading.tick \in U64 /\ reading.ok \in BOOLEAN
  BY DEF DlOwner, DlReading, tcs_dl_valid
<1>2. due \subseteq Slots /\ w \in Words /\ due \subseteq Requested(w)
  BY DEF Expired, Words, Requested, Malformed
<1>3. /\ c \in RdControl /\ tcs_rd_valid(c)
      /\ c.inhibited = o.control.inhibited \cup Requested(w)
      /\ c.life = ContainAll(o.control.life, c.inhibited)
      /\ c.input_fault = (o.control.input_fault \/ Malformed(w))
  BY <1>1, <1>2, PollFacts
<1>4. n = [control |-> c, last_tick |-> IF fault THEN o.last_tick ELSE reading.tick,
           clock_fault |-> fault, end |-> o.end]
  BY DEF tcs_dl_poll, PollWith, DlFault
<1>5. fault \in BOOLEAN
  BY <1>1 DEF DlFault
<1>6. \A i \in Slots : c.life.slots[i].state = "UNUSED"
                         <=> o.control.life.slots[i].state = "UNUSED"
  <2>1. o.control.life \in LcLife /\ c.inhibited \in SUBSET Slots
    BY <1>1, <1>3 DEF RdControl
  <2> HIDE DEF c
  <2>2. \A i \in Slots : ContainAll(o.control.life, c.inhibited).slots[i].state
           = IF i \in c.inhibited /\ o.control.life.slots[i].state \in LiveStates
             THEN "CLOSING" ELSE o.control.life.slots[i].state
    BY <2>1, ContainAllSlots
  <2> QED BY <1>3, <2>2 DEF LiveStates
<1> HIDE DEF c, w, fault, n
<1>7. /\ n.control = c /\ n.clock_fault = fault /\ n.end = o.end
      /\ n.last_tick = IF fault THEN o.last_tick ELSE reading.tick
      /\ n \in DlOwner
  BY <1>1, <1>3, <1>4, <1>5 DEF DlOwner
<1>8. fault => c.inhibited = Slots
  BY <1>2, <1>3 DEF RdControl
<1>9. Expired(n, n.last_tick) \subseteq c.inhibited
  BY <1>2, <1>3, <1>7, <1>8 DEF Expired
<1>10. tcs_dl_valid(n)
  BY <1>3, <1>6, <1>7, <1>8, <1>9 DEF tcs_dl_valid
<1> QED BY <1>2, <1>3, <1>7, <1>10 DEF n, c, fault

(* What an accepted event leaves after the poll: a valid state; only a     *)
(* reservation writes an end, of a slot that had none.                     *)
LEMMA DlEventFacts ==
  ASSUME NEW o \in DlOwner, tcs_dl_valid(o), NEW c \in DlCalls, DlStatus(o, c) = "OK"
  PROVE  LET e == c.event
             n == [o EXCEPT
                     !.control = tcs_rd_apply(o.control, {}, c.actor, e, c.audit_ok),
                     !.end = IF e.op = "RESERVE"
                             THEN [o.end EXCEPT ![e.slot] = o.last_tick + c.duration]
                             ELSE o.end]
         IN /\ Accepted(o.control.life, e, c.audit_ok)
            /\ n \in DlOwner /\ tcs_dl_valid(n)
            /\ n.control.life = LcEffect(o.control.life, e)
            /\ n.control.inhibited = o.control.inhibited
            /\ n.control.input_fault = o.control.input_fault
            /\ n.clock_fault = o.clock_fault /\ n.last_tick = o.last_tick
            /\ \A i \in Slots : o.end[i] # 0 => n.end[i] = o.end[i]
<1> DEFINE e == c.event
           d == tcs_rd_apply(o.control, {}, c.actor, e, c.audit_ok)
           end == IF e.op = "RESERVE"
                  THEN [o.end EXCEPT ![e.slot] = o.last_tick + c.duration] ELSE o.end
           n == [o EXCEPT !.control = d, !.end = end]
<1>1. /\ e \in LcEvent /\ c.audit_ok \in BOOLEAN /\ c.duration \in U64
  BY DlCallsAssumption
<1>2. /\ o.control \in RdControl /\ o.last_tick \in U64 /\ o.end \in [Slots -> U64]
      /\ o.clock_fault \in BOOLEAN /\ tcs_rd_valid(o.control)
      /\ o = [control |-> o.control, last_tick |-> o.last_tick,
              clock_fault |-> o.clock_fault, end |-> o.end]
  BY DEF DlOwner, tcs_dl_valid
<1>3. tcs_rd_poll(o.control, {}) = o.control
  BY <1>2, PollNothing
<1>4. DurationValid(o, c) /\ RdStatus(o.control, c.actor, e, c.audit_ok) = "OK"
  BY <1>3 DEF DlStatus
<1>5. d = [o.control EXCEPT !.life = LcEffect(o.control.life, e)]
  BY <1>3, <1>4 DEF tcs_rd_apply
<1>6. /\ Accepted(o.control.life, e, c.audit_ok)
      /\ d \in RdControl /\ tcs_rd_valid(d)
      /\ d.life = LcEffect(o.control.life, e) /\ d.inhibited = o.control.inhibited
      /\ d.input_fault = o.control.input_fault
  <2> DEFINE b == o.control
             q == [b EXCEPT !.life = LcEffect(b.life, e)]
  <2>1. /\ Accepted(b.life, e, c.audit_ok)
        /\ q \in RdControl /\ tcs_rd_valid(q)
        /\ q.life = LcEffect(b.life, e) /\ q.inhibited = b.inhibited
        /\ q.input_fault = b.input_fault
    BY <1>1, <1>2, <1>4, EventFacts
  <2>2. d = q
    BY <1>5
  <2> HIDE DEF d, q
  <2> QED BY <2>1, <2>2
<1>7. /\ e.slot \in Slots /\ o.control.life \in LcLife /\ tcs_lc_valid(o.control.life)
      /\ o.control.life.slots \in [Slots -> LcSlot]
      /\ d.life.slots = [o.control.life.slots EXCEPT ![e.slot] = NextSlot(o.control.life, e)]
  <2> DEFINE l == o.control.life
  <2>1. e.slot \in Slots
    BY <1>6 DEF Accepted
  <2>2. l \in LcLife /\ tcs_lc_valid(l)
    BY <1>2 DEF RdControl, tcs_rd_valid
  <2>3. d.life = LcEffect(l, e)
    BY <1>6
  <2> HIDE DEF l, d
  <2>4. l.slots \in [Slots -> LcSlot]
    BY ONLY <2>2 DEF LcLife
  <2>5. LcEffect(l, e).slots = [l.slots EXCEPT ![e.slot] = NextSlot(l, e)]
    BY ONLY <2>2 DEF LcEffect, LcLife
  <2> QED BY <2>1, <2>2, <2>3, <2>4, <2>5 DEF l
<1>8. /\ NextSlot(o.control.life, e).state # "UNUSED"
      /\ e.op # "RESERVE" => o.control.life.slots[e.slot].state # "UNUSED"
      /\ e.op = "RESERVE" => o.control.life.slots[e.slot].state = "UNUSED"
  <2>1. /\ NextSlot(o.control.life, e).state # "UNUSED"
        /\ e.op # "RESERVE" => o.control.life.slots[e.slot].state \in OccupiedStates
    BY <1>1, <1>6, <1>7, NextSlotValid
  <2> QED BY <1>6, <2>1 DEF Accepted, OccupiedStates, LiveStates
<1>9. e.op = "RESERVE" => /\ o.last_tick + c.duration \in U64
                          /\ o.last_tick + c.duration > o.last_tick
                          /\ o.last_tick + c.duration # 0
  BY <1>1, <1>2, <1>4, UMAXAssumption DEF DurationValid, U64
<1>10. end \in [Slots -> U64]
  BY <1>2, <1>9
<1>11. \A i \in Slots : (o.control.life.slots[i].state = "UNUSED") <=> (o.end[i] = 0)
  BY DEF tcs_dl_valid
<1>12. \A i \in Slots : (d.life.slots[i].state = "UNUSED") <=> (end[i] = 0)
  BY <1>2, <1>7, <1>8, <1>9, <1>11
<1>13. \A i \in Slots : o.end[i] # 0 => end[i] = o.end[i]
  BY <1>2, <1>7, <1>8, <1>11
<1> HIDE DEF d, end
<1>14. n \in DlOwner /\ n.control = d /\ n.end = end
  BY <1>6, <1>10 DEF DlOwner
<1>15. n.clock_fault = o.clock_fault /\ n.last_tick = o.last_tick
  BY <1>6, <1>10 DEF DlOwner
<1>16. Expired(n, n.last_tick) \subseteq d.inhibited
  <2> SUFFICES ASSUME NEW i \in Slots, end[i] # 0, o.last_tick >= end[i]
               PROVE  i \in o.control.inhibited
    BY <1>6, <1>14, <1>15 DEF Expired
  <2>1. end[i] = o.end[i]
    BY <1>2, <1>7, <1>9 DEF end, U64
  <2> QED BY <2>1 DEF tcs_dl_valid, Expired
<1>17. o.clock_fault => o.control.inhibited = Slots
  BY DEF tcs_dl_valid
<1>18. tcs_dl_valid(n)
  BY <1>6, <1>12, <1>14, <1>15, <1>16, <1>17 DEF tcs_dl_valid
<1> HIDE DEF n
<1>19. /\ n.control.life = LcEffect(o.control.life, e)
       /\ n.control.inhibited = o.control.inhibited
       /\ n.control.input_fault = o.control.input_fault
       /\ \A i \in Slots : o.end[i] # 0 => n.end[i] = o.end[i]
  BY <1>6, <1>13, <1>14 DEF n
<1> QED BY <1>6, <1>14, <1>15, <1>18, <1>19 DEF n, d, end

-----------------------------------------------------------------------------
(* The invariant: the state is valid, and its clock record is the history  *)
(* of the readings, up to the first that failed or ran backwards.          *)
DlInv ==
  /\ DlTypeOK
  /\ DlValid
  /\ latest = owner.last_tick
  /\ failed = owner.clock_fault

(* The event part of a step, on the polled owner o.                        *)
DlEvent(o, c) ==
  /\ DlStatus(o, c) = "OK"
  /\ owner' = [o EXCEPT
                 !.control = tcs_rd_apply(o.control, {}, c.actor, c.event, c.audit_ok),
                 !.end = IF c.event.op = "RESERVE"
                         THEN [o.end EXCEPT ![c.event.slot] = o.last_tick + c.duration]
                         ELSE o.end]

(* Every step polls a reading and applies at most one accepted event.      *)
LEMMA DlStepCases ==
  ASSUME DlInv, DlNext
  PROVE  \E requests \in Words, reading \in DlReading :
           LET o == tcs_dl_poll(owner, requests, reading)
           IN /\ owner' = o \/ \E c \in DlCalls : DlEvent(o, c)
              /\ Observe(reading)
<1>1. PICK requests \in Requests, reading \in Readings :
        DlPoll(requests, reading) \/ \E c \in DlCalls : DlApply(requests, reading, c)
  BY DEF DlNext
<1>2. requests \in Words /\ reading \in DlReading
  BY InputsAssumption
<1>3. CASE DlPoll(requests, reading)
  BY <1>2, <1>3 DEF DlPoll
<1>4. ASSUME NEW c \in DlCalls, DlApply(requests, reading, c)
      PROVE  LET o == tcs_dl_poll(owner, requests, reading)
             IN /\ owner' = o \/ \E d \in DlCalls : DlEvent(o, d)
                /\ Observe(reading)
  BY <1>4 DEF DlApply, tcs_dl_apply, DlEvent
<1> QED BY <1>1, <1>2, <1>3, <1>4

(* What a step does to everything but the slots' phases.                   *)
LEMMA DlStepFacts ==
  ASSUME DlInv, DlNext
  PROVE  /\ DlInv'
         /\ \A i \in Slots : owner.end[i] # 0 => owner'.end[i] = owner.end[i]
         /\ owner.control.inhibited \subseteq owner'.control.inhibited
         /\ owner.clock_fault => owner'.clock_fault
         /\ owner.control.input_fault => owner'.control.input_fault
<1>1. PICK requests \in Words, reading \in DlReading :
        LET o == tcs_dl_poll(owner, requests, reading)
        IN /\ owner' = o \/ \E c \in DlCalls : DlEvent(o, c)
           /\ Observe(reading)
  BY DlStepCases
<1> DEFINE o == tcs_dl_poll(owner, requests, reading)
<1>2. owner \in DlOwner /\ tcs_dl_valid(owner)
  BY DEF DlInv, DlTypeOK, DlValid
<1>3. /\ o \in DlOwner /\ tcs_dl_valid(o)
      /\ o.end = owner.end
      /\ o.clock_fault = DlFault(owner, reading)
      /\ o.last_tick = IF DlFault(owner, reading) THEN owner.last_tick ELSE reading.tick
      /\ owner.control.inhibited \subseteq o.control.inhibited
      /\ owner.control.input_fault => o.control.input_fault
  BY <1>2, DlPollFacts
<1> HIDE DEF o
<1>4. /\ owner' \in DlOwner /\ tcs_dl_valid(owner')
      /\ owner'.control.inhibited = o.control.inhibited
      /\ owner'.control.input_fault = o.control.input_fault
      /\ owner'.clock_fault = o.clock_fault /\ owner'.last_tick = o.last_tick
      /\ \A i \in Slots : o.end[i] # 0 => owner'.end[i] = o.end[i]
  <2>1. CASE owner' = o
    BY <1>3, <2>1
  <2>2. ASSUME NEW c \in DlCalls, DlEvent(o, c)
        PROVE  /\ owner' \in DlOwner /\ tcs_dl_valid(owner')
               /\ owner'.control.inhibited = o.control.inhibited
               /\ owner'.control.input_fault = o.control.input_fault
               /\ owner'.clock_fault = o.clock_fault /\ owner'.last_tick = o.last_tick
               /\ \A i \in Slots : o.end[i] # 0 => owner'.end[i] = o.end[i]
    BY <1>3, <2>2, DlEventFacts DEF DlEvent
  <2> QED BY <1>1, <2>1, <2>2 DEF o
<1>5. DlFault(owner, reading) = (failed \/ ~reading.ok \/ reading.tick < latest)
  BY DEF DlInv, DlFault
<1>6. failed' = DlFault(owner, reading) /\ latest' = IF failed' THEN latest ELSE reading.tick
  BY <1>1, <1>5 DEF Observe
<1>7. failed' = owner'.clock_fault /\ latest' = owner'.last_tick
  BY <1>3, <1>4, <1>6 DEF DlInv
<1>8. DlTypeOK' /\ DlValid'
  BY <1>4, <1>7 DEF DlTypeOK, DlValid, DlOwner
<1>9. DlInv'
  BY <1>7, <1>8 DEF DlInv
<1>10. owner.clock_fault => owner'.clock_fault
  BY <1>3, <1>4 DEF DlFault
<1> QED BY <1>3, <1>4, <1>9, <1>10

(* The zero owner satisfies the invariant.                                 *)
LEMMA DlInitInv == DlInit => DlInv
<1> SUFFICES ASSUME DlInit PROVE DlInv
  OBVIOUS
<1>1. /\ ZeroControl \in RdControl /\ tcs_rd_valid(ZeroControl)
  BY ZeroLifeValid DEF ZeroControl, RdControl, tcs_rd_valid, NoneInhibitedLive
<1>2. \A i \in Slots : ZeroControl.life.slots[i].state = "UNUSED"
  BY DEF ZeroControl, ZeroLife, UnusedSlot
<1>3. /\ owner.control = ZeroControl /\ owner.last_tick = 0
      /\ owner.clock_fault = FALSE /\ owner.end = [i \in Slots |-> 0]
  BY DEF DlInit, ZeroOwner
<1>4. owner \in DlOwner
  BY <1>1, ZeroInU64 DEF DlInit, ZeroOwner, DlOwner
<1>5. tcs_dl_valid(owner)
  BY <1>1, <1>2, <1>3 DEF tcs_dl_valid, Expired
<1> QED BY <1>3, <1>4, <1>5, ZeroInU64 DEF DlInit, DlInv, DlTypeOK, DlValid

(* Every step keeps the invariant.                                         *)
LEMMA DlStep == DlInv /\ [DlNext]_DlVars => DlInv'
<1>1. CASE UNCHANGED DlVars
  BY <1>1 DEF DlVars, DlInv, DlTypeOK, DlValid
<1>2. CASE DlNext
  BY <1>2, DlStepFacts
<1> QED BY <1>1, <1>2

(* The owner's state and the clock history keep their types: in particular *)
(* no deadline overflows its width.                                        *)
THEOREM DlTypeCorrect == DlSpec => []DlTypeOK
<1>1. DlInv => DlTypeOK
  BY DEF DlInv
<1> QED BY <1>1, DlInitInv, DlStep, PTL DEF DlSpec

(* The private state always passes tcs_dl_valid: no clock and no request   *)
(* word drives tcs_dl_poll into its INVALID_STATE answer.                  *)
THEOREM DlAlwaysValid == DlSpec => []DlValid
<1>1. DlInv => DlValid
  BY DEF DlInv
<1> QED BY <1>1, DlInitInv, DlStep, PTL DEF DlSpec

(* A slot whose end was reached by any reading so far, and every slot      *)
(* after a failed or regressing reading, is inhibited, not live and not    *)
(* allowed, whatever the clock says later.                                 *)
THEOREM DeadlineHoldsAlways == DlSpec => []DeadlineHolds
<1>1. DlInv => DeadlineHolds
  <2> SUFFICES ASSUME DlInv, NEW i \in Slots, failed \/ i \in Expired(owner, latest)
               PROVE  /\ i \in owner.control.inhibited
                      /\ owner.control.life.slots[i].state \notin LiveStates
                      /\ \A n \in U64 : ~tcs_dl_allows(owner, i, n)
    BY DEF DeadlineHolds
  <2>1. i \in owner.control.inhibited
    BY DEF DlInv, DlValid, tcs_dl_valid
  <2> QED BY <2>1 DEF DlInv, DlValid, tcs_dl_valid, tcs_rd_valid, NoneInhibitedLive,
                      tcs_dl_allows, tcs_rd_allows
<1> QED BY <1>1, DlInitInv, DlStep, PTL DEF DlSpec

(* No step of tcs_dl_poll or tcs_dl_apply moves a lifetime that was set,   *)
(* lifts an inhibition or forgives a fault.                                *)
THEOREM DlNeverRelaxed == DlSpec => NeverRelaxed
<1> DEFINE Kept ==
      /\ \A i \in Slots : owner.end[i] # 0 => owner'.end[i] = owner.end[i]
      /\ owner.control.inhibited \subseteq owner'.control.inhibited
      /\ owner.clock_fault => owner'.clock_fault
      /\ owner.control.input_fault => owner'.control.input_fault
<1>1. DlInv /\ [DlNext]_DlVars => [Kept]_DlVars
  BY DlStepFacts
<1>2. NeverRelaxed <=> [][Kept]_DlVars
  BY PTL DEF NeverRelaxed
<1> QED BY <1>1, <1>2, DlInitInv, DlStep, PTL DEF DlSpec

-----------------------------------------------------------------------------
(* The wrapper implements the one-use slots of OneUse: expiry and clock    *)
(* faults are closings, and nothing about time reopens or reuses a slot.   *)
THEOREM DeadlineRefines == DlSpec => DlRefines
<1>1. DlInit => DlAbstract!Init
  BY ZeroLifePhases DEF DlInit, ZeroOwner, ZeroControl, Phases, Evidences, DlAbstract!Init
<1>2. DlInv /\ [DlNext]_DlVars => [DlAbstract!Next]_(DlAbstract!vars)
  <2> SUFFICES ASSUME DlInv, [DlNext]_DlVars PROVE [DlAbstract!Next]_(DlAbstract!vars)
    OBVIOUS
  <2>1. CASE UNCHANGED DlVars
    BY <2>1 DEF DlVars, DlAbstract!vars
  <2>2. CASE DlNext
    <3> DEFINE owned == owner.control.life
               Live == {i \in Slots : Phases(owned)[i] = "live"}
               v == Evidences(owned)
    <3>1. PICK requests \in Words, reading \in DlReading :
            LET o == tcs_dl_poll(owner, requests, reading)
            IN owner' = o \/ \E c \in DlCalls : DlEvent(o, c)
      BY <2>2, DlStepCases
    <3> DEFINE o == tcs_dl_poll(owner, requests, reading)
               p == Phases(o.control.life)
    <3>2. owner \in DlOwner /\ tcs_dl_valid(owner)
      BY DEF DlInv, DlTypeOK, DlValid
    <3>3. /\ o \in DlOwner /\ tcs_dl_valid(o)
          /\ \E w \in Words : o.control = tcs_rd_poll(owner.control, w)
      BY <3>2, DlPollFacts
    <3> HIDE DEF o
    <3>4. PICK C \in SUBSET Live :
            /\ p = [i \in Slots |-> IF i \in C THEN "closed" ELSE Phases(owned)[i]]
            /\ Evidences(o.control.life) = v
      <4>1. PICK w \in Words : o.control = tcs_rd_poll(owner.control, w)
        BY <3>3
      <4>2. owner.control \in RdControl /\ tcs_rd_valid(owner.control)
        BY <3>2 DEF DlOwner, tcs_dl_valid
      <4> QED BY <4>1, <4>2, PollPhases
    <3>5. DlAbstract!Closed(C) = p
      BY <3>4 DEF DlAbstract!Closed, Phases
    <3>6. ASSUME NEW D \in SUBSET Live, DlAbstract!Close(D)
          PROVE  [DlAbstract!Next]_(DlAbstract!vars)
      BY <3>6 DEF DlAbstract!Next, Phases
    <3>7. CASE owner' = o
      <4>1. DlAbstract!Close(C)
        BY <3>4, <3>5, <3>7 DEF DlAbstract!Close, Phases, Evidences
      <4> QED BY <3>6, <4>1
    <3>8. ASSUME NEW c \in DlCalls, DlEvent(o, c) PROVE [DlAbstract!Next]_(DlAbstract!vars)
      <4> DEFINE e == c.event
                 i0 == e.slot
                 q == Phases(owner'.control.life)
                 w == Evidences(owner'.control.life)
      <4>1. /\ e \in LcEvent /\ c.audit_ok \in BOOLEAN
            /\ Accepted(o.control.life, e, c.audit_ok)
            /\ owner'.control.life = LcEffect(o.control.life, e)
            /\ o.control.life \in LcLife /\ tcs_lc_valid(o.control.life)
        <5>1. e \in LcEvent /\ c.audit_ok \in BOOLEAN
          BY DlCallsAssumption
        <5>2. /\ Accepted(o.control.life, e, c.audit_ok)
              /\ owner'.control.life = LcEffect(o.control.life, e)
          BY <3>3, <3>8, DlEventFacts DEF DlEvent
        <5> QED BY <3>3, <5>1, <5>2 DEF DlOwner, RdControl, tcs_dl_valid, tcs_rd_valid
      <4>2. i0 \in Slots /\ Visible(p, v, q, w, i0)
        <5>1. /\ i0 \in Slots
              /\ Visible(p, Evidences(o.control.life), Phases(LcEffect(o.control.life, e)),
                         Evidences(LcEffect(o.control.life, e)), i0)
          BY <4>1, EventPhases
        <5> QED BY <3>4, <4>1, <5>1
      <4>3. CASE q = p /\ w = v
        <5>1. DlAbstract!Close(C)
          BY <3>5, <4>3 DEF DlAbstract!Close, Phases, Evidences
        <5> QED BY <3>6, <5>1
      <4>4. CASE /\ \A i \in Slots : p[i] \in {"fresh", "retired"}
                 /\ p[i0] = "fresh" /\ q = [p EXCEPT ![i0] = "live"] /\ w = v
        <5>1. DlAbstract!Occupy(C, i0)
          BY <3>5, <4>4 DEF DlAbstract!Occupy, Phases, Evidences
        <5> QED BY <4>2, <5>1 DEF DlAbstract!Next, Phases
      <4>5. CASE p[i0] = "live" /\ q = [p EXCEPT ![i0] = "closed"] /\ w = v
        <5> DEFINE D == C \cup {i0}
        <5>1. D \in SUBSET Live
          BY <3>4, <4>2, <4>5
        <5>2. DlAbstract!Closed(D) = q
          BY <3>4, <4>5 DEF DlAbstract!Closed, Phases
        <5>3. DlAbstract!Close(D)
          BY <4>5, <5>2 DEF DlAbstract!Close, Phases, Evidences
        <5> QED BY <3>6, <5>1, <5>3
      <4>6. ASSUME NEW k \in {"stop", "drain"},
                   /\ p[i0] = "closed" /\ k \notin v[i0]
                   /\ w = [v EXCEPT ![i0] = @ \cup {k}]
                   /\ q = IF v[i0] \cup {k} = {"stop", "drain"}
                          THEN [p EXCEPT ![i0] = "retired"] ELSE p
            PROVE  [DlAbstract!Next]_(DlAbstract!vars)
        <5>1. DlAbstract!Confirm(C, i0, k)
          BY <3>5, <4>6 DEF DlAbstract!Confirm, DlAbstract!Evidence, Phases, Evidences
        <5> QED BY <4>2, <5>1 DEF DlAbstract!Next, DlAbstract!Evidence, Phases
      <4> QED BY <4>2, <4>3, <4>4, <4>5, <4>6 DEF Visible
    <3> QED BY <3>1, <3>7, <3>8 DEF o
  <2> QED BY <2>1, <2>2
<1> QED BY <1>1, <1>2, DlInitInv, DlStep, PTL DEF DlSpec, DlRefines, DlAbstract!Spec
=============================================================================
