-------------------------- MODULE ReplacementProofs --------------------------
(***************************************************************************)
(* Replacement keeps Handover, for every UMAX.                             *)
(*                                                                         *)
(* Handover is not inductive: what the broker does with an answer depends  *)
(* on what the supervisor still holds when it arrives.  ReplacementInv     *)
(* adds which call each party may be in (CallsInv, Asked), what an answer  *)
(* in flight still says about the slot it was given for (Answered), and    *)
(* the one slot on whose ticket the two may differ meanwhile (Tickets).    *)
(* The supervisor's other work between the call and the answer keeps those *)
(* facts (Kept): it never touches a closing slot or an unanswered ticket.  *)
(***************************************************************************)
EXTENDS Replacement, SlotLemmas

Statuses == {"OK", "INVALID", "DENIED", "STALE", "BAD_STATE", "EXHAUSTED", "AUDIT_REQUIRED"}

Supervisors == [life : LcLife, running : SUBSET Slots, failed : BOOLEAN, faults : {0, 1}]

Requests == [label : {"KICK", "DRAIN", "DRAINED", "HELLO", "BEGIN", "COMPLETE",
                      "MALFORMED", "NONE"},
             slot : Slots \cup {Nobody}, inc : U64, seq : U64]

Answers == [status : Statuses \cup {"NONE", "SLOT", "FAILURE"}, value : U64 \cup LcSlot]

Brokers == [client : Slots \cup {Controller, Nobody}, ask : Requests, answer : Answers,
            failed : BOOLEAN, inc : [Slots -> U64], pending : [Slots -> U64]]

Live(life) == {i \in Slots : life.slots[i].state \in LiveStates}

(* The supervisor between two of its handlers: a closing slot is stopped.  *)
Supervised(s) ==
  /\ s \in Supervisors
  /\ tcs_lc_valid(s.life)
  /\ \A i \in Slots : s.life.slots[i].state = "CLOSING" => s.life.slots[i].stopped = TRUE
  /\ s.running = IF s.failed = TRUE THEN {} ELSE Live(s.life)

(* Who waits in which call.                                                *)
CallsInv ==
  /\ calls \in [Slots \cup {Controller} -> Requests]
  /\ \A i \in Slots : calls[i] # NoCall =>
       /\ i \in sv.running /\ calls[i].slot = i
       /\ calls[i].label \in {"HELLO", "BEGIN", "COMPLETE", "MALFORMED"}
  /\ calls[Controller] # NoCall =>
       calls[Controller].slot \in Slots /\ calls[Controller].label \in {"KICK", "DRAIN"}

(* For whom the broker has asked what.                                     *)
Asked ==
  br.client # Nobody =>
    /\ br.ask.slot \in Slots /\ br.failed = FALSE
    /\ br.client = Controller => br.ask.label \in {"KICK", "DRAIN", "DRAINED"}
    /\ br.client # Controller =>
         /\ br.client = br.ask.slot /\ br.ask.label \in {"HELLO", "BEGIN", "COMPLETE"}
         /\ sv.life.slots[br.client].state \in OccupiedStates

(* What the answer r to the question q still says of the supervisor s.     *)
AnswerHolds(s, q, r, inc) ==
  LET slot == s.life.slots[q.slot]
  IN /\ r.status = "FAILURE" => s.failed = TRUE
     /\ q.label \in {"KICK", "DRAIN"} /\ r.status # "FAILURE" =>
          /\ r.status = "SLOT" /\ r.value \in LcSlot
          /\ inc # 0 /\ r.value.incarnation = inc
          /\ r.value.state = "CLOSING" => slot = r.value
     /\ q.label = "HELLO" /\ r.status = "OK" => r.value = slot.incarnation /\ slot.incarnation # 0
     /\ q.label = "BEGIN" /\ r.status = "OK" => r.value = slot.pending /\ slot.pending # 0
     /\ q.label = "COMPLETE" /\ r.status = "OK" =>
          r.value = q.seq /\ q.seq # 0 /\ slot.pending = 0
     /\ q.label = "DRAINED" => r.status \in {"OK", "FAILURE"}

Answered ==
  br.client # Nobody => AnswerHolds(sv, br.ask, br.answer, br.inc[br.ask.slot])

(* The slot on whose ticket broker and supervisor may differ.              *)
Disputed(b) ==
  IF /\ b.client # Nobody
     /\ \/ b.ask.label \in {"BEGIN", "COMPLETE"} /\ b.answer.status = "OK"
        \/ b.ask.label = "DRAINED" /\ b.answer.status = "FAILURE"
  THEN {b.ask.slot} ELSE {}

Tickets ==
  /\ \A i \in Slots : br.inc[i] # 0 => br.inc[i] = sv.life.slots[i].incarnation
  /\ br.failed = TRUE => sv.failed = TRUE
  /\ br.failed = FALSE =>
       \A i \in Slots \ Disputed(br) : br.pending[i] = sv.life.slots[i].pending

ReplacementInv ==
  Supervised(sv) /\ CallsInv /\ br \in Brokers /\ Asked /\ Answered /\ Tickets

-----------------------------------------------------------------------------
(* The supervisor's handlers.                                              *)

(* What a step of the supervisor keeps: the incarnations in use, and on    *)
(* every slot but those of free, the occupancy, the ticket and a closing   *)
(* slot as it is.                                                          *)
Kept(s, t, free) ==
  /\ Supervised(t)
  /\ s.failed = TRUE => t.failed = TRUE
  /\ \A i \in Slots : s.life.slots[i].state # "UNUSED" =>
       t.life.slots[i].incarnation = s.life.slots[i].incarnation
  /\ \A i \in Slots \ free :
       /\ s.life.slots[i].state \in OccupiedStates => t.life.slots[i].state \in OccupiedStates
       /\ s.life.slots[i].state = "CLOSING" => t.life.slots[i] = s.life.slots[i]
       /\ t.life.slots[i].pending = s.life.slots[i].pending

(* A supervisor that does nothing keeps everything.                        *)
LEMMA KeptSame ==
  ASSUME NEW s, Supervised(s), NEW free
  PROVE  Kept(s, s, free)
BY DEF Kept

(* Failing stops the children and leaves the lifecycle alone.              *)
LEMMA KeptFailed ==
  ASSUME NEW s, NEW t, NEW free, Kept(s, t, free)
  PROVE  Kept(s, sv_fail(t), free)
<1>1. Supervised(t)
  BY DEF Kept
<1>2. t \in Supervisors
  BY <1>1 DEF Supervised
<1>3. /\ sv_fail(t) \in Supervisors /\ sv_fail(t).life = t.life
      /\ sv_fail(t).failed = TRUE /\ sv_fail(t).running = {}
  BY <1>2 DEF sv_fail, Supervisors
<1>4. Supervised(sv_fail(t))
  BY <1>1, <1>3 DEF Supervised
<1> QED BY <1>3, <1>4 DEF Kept

(* The answers of tcs_lc_apply.                                            *)
LEMMA StatusTypes ==
  ASSUME NEW life, NEW actor, NEW e, NEW audit_ok
  PROVE  LcStatus(life, actor, e, audit_ok) \in Statuses
<1>1. PhaseStatus(life, e, audit_ok) \in Statuses
  BY DEF PhaseStatus, Statuses
<1> QED BY <1>1 DEF LcStatus, Statuses

(* The events of the supervisor are events of the library.                 *)
LEMMA EventTypes ==
  ASSUME NEW op \in LcOps, NEW i \in Slots, NEW inc \in U64, NEW seq \in U64
  PROVE  /\ Event(op, i, inc, seq) \in LcEvent
         /\ Event(op, i, inc, seq).op = op /\ Event(op, i, inc, seq).slot = i
         /\ Event(op, i, inc, seq).incarnation = inc /\ Event(op, i, inc, seq).sequence = seq
BY DEF Event, LcEvent

(* An unused slot of a valid state is blank, and a used one is not.        *)
LEMMA SlotOfSupervisor ==
  ASSUME NEW s, s \in Supervisors, tcs_lc_valid(s.life), NEW i \in Slots
  PROVE  /\ s.life \in LcLife /\ s.life.slots[i] \in LcSlot
         /\ s.life.slots[i].state = "UNUSED" <=> s.life.slots[i].incarnation = 0
         /\ s.life.slots[i].state \in {"UNUSED", "RETIRED"} => s.life.slots[i].pending = 0
         /\ s.life.slots[i].state \in LiveStates =>
              s.life.slots[i].stopped = FALSE /\ s.life.slots[i].drained = FALSE
<1>1. s.life \in LcLife /\ s.life.slots[i] \in LcSlot /\ s.life.last_incarnation \in U64
  BY DEF Supervisors, LcLife
<1>2. SlotValid(s.life.slots[i], s.life.last_incarnation)
  BY DEF tcs_lc_valid
<1> QED BY <1>1, <1>2, UMAXAssumption DEF SlotValid, UnusedSlot, LcSlot, LiveStates, U64

(* What sv_apply answers to an event, refused or accepted.                 *)
Outcome(s, actor, e, audit_ok, r) ==
  /\ r.status = LcStatus(s.life, actor, e, audit_ok) /\ r.status \in Statuses
  /\ r.status # "OK" => r.sv = s /\ r.value = 0
  /\ r.status = "OK" =>
       /\ Accepted(s.life, e, audit_ok)
       /\ r.sv \in Supervisors /\ tcs_lc_valid(r.sv.life)
       /\ r.sv.failed = s.failed /\ r.sv.running = s.running /\ r.sv.faults = s.faults
       /\ r.sv.life.slots[e.slot] = NextSlot(s.life, e) /\ NextSlot(s.life, e) \in LcSlot
       /\ \A j \in Slots \ {e.slot} : r.sv.life.slots[j] = s.life.slots[j]
       /\ r.value = CASE e.op = "BEGIN" -> NextSlot(s.life, e).pending
                      [] e.op = "COMPLETE" -> e.sequence
                      [] OTHER -> NextSlot(s.life, e).incarnation

(* sv_apply answers as Outcome says and keeps the lifecycle valid.         *)
LEMMA Applied ==
  ASSUME NEW s \in Supervisors, tcs_lc_valid(s.life), NEW actor, NEW op \in LcOps,
         NEW i \in Slots, NEW inc \in U64, NEW seq \in U64, NEW audit_ok \in BOOLEAN
  PROVE  Outcome(s, actor, Event(op, i, inc, seq), audit_ok,
                 sv_apply(s, actor, Event(op, i, inc, seq), audit_ok))
<1> DEFINE e == Event(op, i, inc, seq)
           r == sv_apply(s, actor, e, audit_ok)
           t == NextSlot(s.life, e)
           next == LcEffect(s.life, e)
           status == LcStatus(s.life, actor, e, audit_ok)
<1>1. e \in LcEvent /\ e.op = op /\ e.slot = i /\ e.sequence = seq
  BY EventTypes
<1>2. s.life \in LcLife
  BY DEF Supervisors
<1>3. r.status = status /\ status \in Statuses
  BY StatusTypes DEF sv_apply, Reply
<1>4. CASE status # "OK"
  <2>1. tcs_lc_apply(s.life, actor, e, audit_ok) = s.life
    BY <1>4 DEF tcs_lc_apply
  <2>2. [s EXCEPT !.life = s.life] = s
    BY DEF Supervisors
  <2>3. r.sv = s /\ r.value = 0
    <3> HIDE DEF e
    <3> QED BY <1>4, <2>1, <2>2 DEF sv_apply, Reply
  <2>4. Outcome(s, actor, e, audit_ok, r)
    <3> HIDE DEF e, r
    <3> QED BY <1>3, <1>4, <2>3 DEF Outcome
  <2> QED BY <2>4
<1>5. CASE status = "OK"
  <2>1. Accepted(s.life, e, audit_ok)
    BY <1>5, AcceptedFacts
  <2>2. next \in LcLife /\ tcs_lc_valid(next)
    BY <1>1, <1>2, <2>1, LcEffectValid
  <2>3. t \in LcSlot
    BY <1>1, <1>2, <2>1, NextSlotValid
  <2>4. r.sv = [s EXCEPT !.life = next]
    <3> HIDE DEF e
    <3> QED BY <1>5 DEF sv_apply, Reply, tcs_lc_apply
  <2>5. next.slots[i] = t /\ \A j \in Slots \ {i} : next.slots[j] = s.life.slots[j]
    <3> HIDE DEF e
    <3> QED BY <1>1, <1>2 DEF LcEffect, LcLife
  <2>6. /\ r.sv \in Supervisors /\ r.sv.life = next /\ r.sv.failed = s.failed
        /\ r.sv.running = s.running /\ r.sv.faults = s.faults
    <3> HIDE DEF next, r
    <3> QED BY <2>2, <2>4 DEF Supervisors
  <2>7. r.value = CASE op = "BEGIN" -> t.pending
                    [] op = "COMPLETE" -> seq
                    [] OTHER -> t.incarnation
    <3>1. CASE op = "BEGIN"
      <4>1. r.value = r.sv.life.slots[e.slot].pending
        <5> HIDE DEF e
        <5> QED BY <1>1, <1>5, <3>1 DEF sv_apply, Reply
      <4> HIDE DEF next, r, t, e
      <4> QED BY <1>1, <2>5, <2>6, <3>1, <4>1
    <3>2. CASE op = "COMPLETE"
      <4>1. r.value = e.sequence
        <5> HIDE DEF e
        <5> QED BY <1>1, <1>5, <3>2 DEF sv_apply, Reply
      <4> HIDE DEF next, r, t, e
      <4> QED BY <1>1, <3>2, <4>1
    <3>3. CASE op \notin {"BEGIN", "COMPLETE"}
      <4>1. r.value = r.sv.life.slots[e.slot].incarnation
        <5> HIDE DEF e
        <5> QED BY <1>1, <1>5, <3>3 DEF sv_apply, Reply
      <4> HIDE DEF next, r, t, e
      <4> QED BY <1>1, <2>5, <2>6, <3>3, <4>1
    <3> QED BY <3>1, <3>2, <3>3
  <2>8. Outcome(s, actor, e, audit_ok, r)
    <3> HIDE DEF e, r, next
    <3> QED BY <1>1, <1>3, <1>5, <2>1, <2>2, <2>3, <2>5, <2>6, <2>7 DEF Outcome
  <2> QED BY <2>8
<1> QED BY <1>4, <1>5

(* An event that leaves a live slot live is a small step.                  *)
LEMMA KeptEvent ==
  ASSUME NEW s, Supervised(s), NEW actor, NEW op \in {"STARTED", "ACTIVATE", "BEGIN", "COMPLETE"},
         NEW i \in Slots, NEW inc \in U64, NEW seq \in U64, NEW audit_ok \in BOOLEAN
  PROVE  LET r == sv_apply(s, actor, Event(op, i, inc, seq), audit_ok)
         IN Kept(s, r.sv, IF op \in {"BEGIN", "COMPLETE"} THEN {i} ELSE {})
<1> DEFINE e == Event(op, i, inc, seq)
           r == sv_apply(s, actor, e, audit_ok)
           x == s.life.slots[i]
           y == NextSlot(s.life, e)
           free == IF op \in {"BEGIN", "COMPLETE"} THEN {i} ELSE {}
<1>1. /\ s \in Supervisors /\ tcs_lc_valid(s.life) /\ op \in LcOps
      /\ s.life \in LcLife /\ x \in LcSlot
  BY SlotOfSupervisor DEF Supervised, LcOps
<1>2. Outcome(s, actor, e, audit_ok, r)
  BY <1>1, Applied
<1>3. CASE r.status # "OK"
  <2>1. r.sv = s
    <3> HIDE DEF e, r
    <3> QED BY <1>2, <1>3 DEF Outcome
  <2> QED BY <2>1, KeptSame
<1>4. CASE r.status = "OK"
  <2>1. e \in LcEvent /\ e.op = op /\ e.slot = i
    BY <1>1, EventTypes
  <2>2. /\ Accepted(s.life, e, audit_ok)
        /\ r.sv \in Supervisors /\ tcs_lc_valid(r.sv.life)
        /\ r.sv.failed = s.failed /\ r.sv.running = s.running
        /\ r.sv.life.slots[i] = y
        /\ \A j \in Slots \ {i} : r.sv.life.slots[j] = s.life.slots[j]
    <3> HIDE DEF e, r
    <3> QED BY <1>2, <1>4, <2>1 DEF Outcome
  <2>3. /\ y.incarnation = x.incarnation /\ y.state \in LiveStates
        /\ op \in {"STARTED", "ACTIVATE"} => y.pending = x.pending
    <3> HIDE DEF e, y
    <3>1. /\ y.incarnation = IF op = "RESERVE" THEN s.life.last_incarnation + 1 ELSE x.incarnation
          /\ y.pending = IF op = "BEGIN" THEN x.issued + 1
                         ELSE IF op \in {"COMPLETE", "DRAINED"} THEN 0 ELSE x.pending
          /\ y.state = CASE op = "STARTED" -> "READY" [] op = "ACTIVATE" -> "ACTIVE"
                         [] OTHER -> x.state
      BY <1>1, <2>1, NextSlotFields DEF y
    <3>2. op \in {"BEGIN", "COMPLETE"} => x.state = "ACTIVE"
      BY <2>2, <2>1 DEF Accepted
    <3> QED BY <3>1, <3>2 DEF LiveStates
  <2>4. x.state \in LiveStates
    <3> HIDE DEF e
    <3> QED BY <2>2, <2>1 DEF Accepted, LiveStates
  <2> HIDE DEF r, y, e, free
  <2>5. Live(r.sv.life) = Live(s.life)
    BY <2>2, <2>3, <2>4 DEF Live
  <2>6. Supervised(r.sv)
    <3>1. \A j \in Slots : r.sv.life.slots[j].state = "CLOSING" =>
            r.sv.life.slots[j].stopped = TRUE
      BY <2>2, <2>3 DEF Supervised, LiveStates
    <3> QED BY <2>2, <2>5, <3>1 DEF Supervised
  <2>7. /\ op \in {"BEGIN", "COMPLETE"} => i \in free
        /\ op \notin {"BEGIN", "COMPLETE"} => y.pending = x.pending
    BY <2>3 DEF free
  <2>8. Kept(s, r.sv, free)
    BY <2>2, <2>3, <2>4, <2>6, <2>7 DEF Kept, LiveStates, OccupiedStates
  <2> QED BY <2>8 DEF r, e, free
<1> QED BY <1>3, <1>4

(* Containment always ends stopped: once the gate is closed, the stop is   *)
(* never refused.                                                          *)
LEMMA KeptContain ==
  ASSUME NEW s, Supervised(s), s.failed = FALSE, NEW i \in Slots, NEW actor
  PROVE  Kept(s, sv_contain(s, i, actor).sv, {})
<1> DEFINE x == s.life.slots[i]
           e1 == Event("CONTAIN", i, x.incarnation, 0)
           closed == sv_apply(s, actor, e1, FALSE)
           u == [closed.sv EXCEPT !.running = @ \ {i}]
           e2 == Event("STOPPED", i, x.incarnation, x.issued)
           done == sv_apply(u, "SUPERVISOR", e2, FALSE)
           y == closed.sv.life.slots[i]
           z == done.sv.life.slots[i]
<1>1. /\ s \in Supervisors /\ tcs_lc_valid(s.life) /\ s.life \in LcLife /\ x \in LcSlot
      /\ x.incarnation \in U64 /\ x.issued \in U64 /\ 0 \in U64
      /\ {"CONTAIN", "STOPPED"} \subseteq LcOps
  BY SlotOfSupervisor, ZeroInU64 DEF Supervised, LcSlot, LcOps
<1>2. Outcome(s, actor, e1, FALSE, closed)
  BY <1>1, Applied
<1>3. CASE closed.status # "OK"
  <2>1. closed.sv = s
    <3> HIDE DEF e1, closed
    <3> QED BY <1>2, <1>3 DEF Outcome
  <2>2. sv_contain(s, i, actor) = closed
    BY <1>3 DEF sv_contain
  <2> QED BY <2>1, <2>2, KeptSame
<1>4. CASE closed.status = "OK"
  <2>1. e1 \in LcEvent /\ e1.op = "CONTAIN" /\ e1.slot = i /\ e1.incarnation = x.incarnation
    BY <1>1, EventTypes
  <2>2. /\ Accepted(s.life, e1, FALSE)
        /\ closed.sv \in Supervisors /\ tcs_lc_valid(closed.sv.life)
        /\ closed.sv.failed = s.failed /\ closed.sv.running = s.running
        /\ y = NextSlot(s.life, e1)
        /\ \A j \in Slots \ {i} : closed.sv.life.slots[j] = s.life.slots[j]
    <3> HIDE DEF e1, closed
    <3> QED BY <1>2, <1>4, <2>1 DEF Outcome
  <2>3. x.state \in LiveStates /\ x.incarnation # 0
    <3> HIDE DEF e1
    <3> QED BY <2>2, <2>1 DEF Accepted
  <2>4. x.stopped = FALSE /\ x.drained = FALSE
    BY <1>1, <2>3, SlotOfSupervisor
  <2>5. /\ y.incarnation = x.incarnation /\ y.issued = x.issued /\ y.pending = x.pending
        /\ y.stopped = FALSE /\ y.drained = FALSE /\ y.state = "CLOSING"
    <3> DEFINE n == NextSlot(s.life, e1)
    <3> HIDE DEF e1
    <3>1. /\ n.incarnation = x.incarnation /\ n.issued = x.issued /\ n.pending = x.pending
          /\ n.stopped = x.stopped /\ n.drained = x.drained /\ n.state = "CLOSING"
      BY <1>1, <2>1, NextSlotFields DEF LcOps
    <3> HIDE DEF n, y
    <3>2. y = n
      BY <2>2 DEF n
    <3> QED BY <2>4, <3>1, <3>2
  <2>6. /\ u \in Supervisors /\ u.life = closed.sv.life /\ u.failed = s.failed
        /\ u.running = s.running \ {i}
    <3> HIDE DEF closed
    <3> QED BY <2>2 DEF Supervisors
  <2>7. e2 \in LcEvent /\ e2.op = "STOPPED" /\ e2.slot = i
        /\ e2.incarnation = x.incarnation /\ e2.sequence = x.issued
    BY <1>1, EventTypes
  <2>8. LcStatus(u.life, "SUPERVISOR", e2, FALSE) = "OK"
    <3>1. tcs_lc_valid(u.life)
      BY <2>2, <2>6
    <3> HIDE DEF e2, u
    <3>2. permitted("SUPERVISOR", e2.op) /\ FieldsValid(e2) /\ e2.op \in LcOps
      BY <2>3, <2>7 DEF permitted, FieldsValid, LcOps
    <3>3. u.life.slots[i] = y
      BY <2>6
    <3> HIDE DEF y
    <3>4. PhaseStatus(u.life, e2, FALSE) = "OK"
      BY <2>5, <2>7, <3>3 DEF PhaseStatus
    <3> QED BY <2>5, <2>7, <3>1, <3>2, <3>3, <3>4 DEF LcStatus
  <2>9. /\ done.status = "OK" /\ done.sv \in Supervisors /\ tcs_lc_valid(done.sv.life)
        /\ done.sv.failed = u.failed /\ done.sv.running = u.running
        /\ z = NextSlot(u.life, e2)
        /\ \A j \in Slots \ {i} : done.sv.life.slots[j] = u.life.slots[j]
    <3>1. u \in Supervisors /\ tcs_lc_valid(u.life)
      BY <2>2, <2>6
    <3>2. Outcome(u, "SUPERVISOR", e2, FALSE, done)
      <4> HIDE DEF u
      <4> QED BY <1>1, <3>1, Applied
    <3> HIDE DEF u, e2, done
    <3> QED BY <2>7, <2>8, <3>2 DEF Outcome
  <2>10. /\ z.incarnation = x.incarnation /\ z.pending = x.pending
         /\ z.stopped = TRUE /\ z.state = "CLOSING"
    <3> DEFINE n == NextSlot(u.life, e2)
               w == u.life.slots[i]
    <3>1. w = y /\ u.life \in LcLife
      <4> HIDE DEF u
      <4> QED BY <2>6 DEF Supervisors
    <3> HIDE DEF e2, u
    <3>2. /\ n.incarnation = w.incarnation /\ n.pending = w.pending /\ n.stopped = TRUE
          /\ n.state = IF w.drained THEN "RETIRED" ELSE w.state
      BY <2>7, <3>1, NextSlotFields DEF LcOps
    <3> HIDE DEF n, y, z, w
    <3>3. z = n
      BY <2>9 DEF n
    <3> QED BY <2>5, <3>1, <3>2, <3>3
  <2>11. sv_contain(s, i, actor) = done
    <3>1. sv_contain(s, i, actor) = IF closed.status # "OK" THEN closed
                                    ELSE IF done.status # "OK"
                                         THEN [done EXCEPT !.sv = sv_fail(done.sv)] ELSE done
      BY DEF sv_contain
    <3> HIDE DEF closed, done
    <3> QED BY <1>4, <2>9, <3>1
  <2> HIDE DEF done, z, u, closed, y, e1, e2
  <2>12. \A j \in Slots \ {i} : done.sv.life.slots[j] = s.life.slots[j]
    BY <2>2, <2>6, <2>9
  <2>13. done.sv.life.slots[i] = z
    BY DEF z
  <2>14. Live(done.sv.life) = Live(s.life) \ {i}
    BY <2>10, <2>12, <2>13 DEF Live, LiveStates
  <2>15. Supervised(done.sv)
    <3>1. \A j \in Slots : done.sv.life.slots[j].state = "CLOSING" =>
            done.sv.life.slots[j].stopped = TRUE
      BY <2>10, <2>12, <2>13 DEF Supervised
    <3> QED BY <2>6, <2>9, <2>14, <3>1 DEF Supervised
  <2>16. Kept(s, done.sv, {})
    BY <2>3, <2>10, <2>12, <2>13, <2>15 DEF Kept, LiveStates, OccupiedStates
  <2> QED BY <2>11, <2>16
<1> QED BY <1>3, <1>4

(* The controller's channel: a reservation resumes a child that had not    *)
(* been used, while no other slot is occupied.                             *)
LEMMA KeptControl ==
  ASSUME NEW s, Supervised(s), NEW op \in {"RESERVE", "ACTIVATE", "CONTAIN"}, NEW i \in Slots
  PROVE  Kept(s, Control(s, op, i).sv, {})
<1> DEFINE x == s.life.slots[i]
           inc == IF op = "RESERVE" THEN 0 ELSE x.incarnation
           e == Event(op, i, inc, 0)
           r == sv_apply(s, "ADMIN", e, TRUE)
<1>1. /\ s \in Supervisors /\ tcs_lc_valid(s.life) /\ op \in LcOps
      /\ s.life \in LcLife /\ x \in LcSlot /\ inc \in U64 /\ 0 \in U64
      /\ s.failed \in BOOLEAN
  BY SlotOfSupervisor, ZeroInU64 DEF Supervised, Supervisors, LcOps, LcSlot
<1>2. CASE s.failed = TRUE
  <2>1. Control(s, op, i).sv = s
    BY <1>2 DEF Control, Reply
  <2> QED BY <2>1, KeptSame
<1>3. CASE s.failed = FALSE /\ op = "CONTAIN"
  <2>1. Control(s, op, i) = sv_contain(s, i, "ADMIN")
    BY <1>3 DEF Control
  <2> QED BY <1>3, <2>1, KeptContain
<1>4. CASE s.failed = FALSE /\ op = "ACTIVATE"
  <2>1. Control(s, op, i) = r
    BY <1>4 DEF Control
  <2>2. Kept(s, r.sv, {})
    <3> HIDE DEF inc
    <3> QED BY <1>1, <1>4, KeptEvent
  <2> QED BY <2>1, <2>2
<1>5. CASE s.failed = FALSE /\ op = "RESERVE"
  <2>1. Outcome(s, "ADMIN", e, TRUE, r)
    BY <1>1, Applied
  <2>2. CASE r.status # "OK"
    <3>1. Control(s, op, i) = r
      <4>1. Control(s, op, i) = IF r.status = "OK" /\ op = "RESERVE"
                                THEN [r EXCEPT !.sv.running = @ \cup {i}] ELSE r
        BY <1>5 DEF Control
      <4> HIDE DEF r
      <4> QED BY <2>2, <4>1
    <3>2. r.sv = s
      <4> HIDE DEF e, r
      <4> QED BY <2>1, <2>2 DEF Outcome
    <3> QED BY <3>1, <3>2, KeptSame
  <2>3. CASE r.status = "OK"
    <3> DEFINE t == [r.sv EXCEPT !.running = @ \cup {i}]
               y == NextSlot(s.life, e)
    <3>1. e \in LcEvent /\ e.op = "RESERVE" /\ e.slot = i
      BY <1>1, <1>5, EventTypes
    <3>2. /\ Accepted(s.life, e, TRUE)
          /\ r.sv \in Supervisors /\ tcs_lc_valid(r.sv.life)
          /\ r.sv.failed = s.failed /\ r.sv.running = s.running
          /\ r.sv.life.slots[i] = y
          /\ \A j \in Slots \ {i} : r.sv.life.slots[j] = s.life.slots[j]
      <4> HIDE DEF e, r
      <4> QED BY <2>1, <2>3, <3>1 DEF Outcome
    <3>3. Control(s, op, i).sv = t
      <4>1. Control(s, op, i) = IF r.status = "OK" /\ op = "RESERVE"
                                THEN [r EXCEPT !.sv.running = @ \cup {i}] ELSE r
        BY <1>5 DEF Control
      <4>2. DOMAIN r = {"sv", "status", "value"}
        BY DEF sv_apply, Reply
      <4> HIDE DEF r
      <4> QED BY <1>5, <2>3, <4>1, <4>2
    <3>4. x.state = "UNUSED"
      <4> HIDE DEF e
      <4> QED BY <3>1, <3>2 DEF Accepted
    <3>5. y.state = "STARTING" /\ y.pending = x.pending
      <4> HIDE DEF e
      <4> QED BY <1>1, <3>1, NextSlotFields DEF LcOps
    <3> HIDE DEF r, y, e
    <3>6. /\ t \in Supervisors /\ t.life = r.sv.life /\ t.failed = s.failed
          /\ t.running = s.running \cup {i}
      BY <3>2 DEF Supervisors
    <3> HIDE DEF t
    <3>7. Live(t.life) = Live(s.life) \cup {i}
      BY <3>2, <3>5, <3>6 DEF Live, LiveStates
    <3>8. Supervised(t)
      <4>1. \A j \in Slots : t.life.slots[j].state = "CLOSING" => t.life.slots[j].stopped = TRUE
        BY <3>2, <3>5, <3>6 DEF Supervised
      <4> QED BY <1>5, <3>2, <3>6, <3>7, <4>1 DEF Supervised
    <3>9. Kept(s, t, {})
      BY <3>2, <3>4, <3>5, <3>6, <3>8 DEF Kept, LiveStates, OccupiedStates
    <3> QED BY <3>3, <3>9
  <2> QED BY <2>2, <2>3
<1> QED BY <1>1, <1>2, <1>3, <1>4, <1>5

(* A fault is contained or stops everything.                               *)
LEMMA KeptFault ==
  ASSUME Supervised(sv), NEW i \in Slots, NEW expected, fault(i, expected)
  PROVE  Kept(sv, sv', {})
<1> DEFINE s == [sv EXCEPT !.faults = 1]
           r == sv_contain(s, i, "SUPERVISOR")
<1>1. /\ sv \in Supervisors /\ s \in Supervisors /\ s.life = sv.life
      /\ s.failed = sv.failed /\ s.running = sv.running
  BY DEF Supervised, Supervisors
<1>2. \/ sv' = sv_fail(sv)
      \/ sv.failed = FALSE /\ (sv' = sv_fail(r.sv) \/ sv' = r.sv)
  <2>1. sv.failed \in BOOLEAN
    BY <1>1 DEF Supervisors
  <2> QED BY <2>1 DEF fault, Supervise
<1>3. CASE sv' = sv_fail(sv)
  BY <1>3, KeptSame, KeptFailed
<1>4. CASE sv.failed = FALSE /\ (sv' = sv_fail(r.sv) \/ sv' = r.sv)
  <2>1. Supervised(s)
    <3> HIDE DEF s
    <3> QED BY <1>1 DEF Supervised
  <2>2. Kept(s, r.sv, {})
    BY <1>1, <1>4, <2>1, KeptContain
  <2>3. Kept(s, sv', {})
    BY <1>4, <2>2, KeptFailed
  <2> HIDE DEF s
  <2> QED BY <1>1, <2>3 DEF Kept
<1> QED BY <1>2, <1>3, <1>4

-----------------------------------------------------------------------------
(* The steps.                                                              *)

(* No call at all is a request of nobody.                                  *)
LEMMA NoCallType == NoCall \in Requests
BY ZeroInU64 DEF NoCall, Request, Requests

(* What the two sets of clients have to do with each other.                *)
LEMMA Clients == Controller \notin Slots /\ Nobody \notin Slots /\ Controller # Nobody
BY ReplacementAssumption

(* Cancelling the calls of the stopped children keeps the calls right.     *)
LEMMA SuperviseCalls ==
  ASSUME ReplacementInv, NEW s, Supervise(s)
  PROVE  CallsInv'
<1>1. /\ sv' = s
      /\ calls' = [c \in Slots \cup {Controller} |->
                     IF c \in sv.running \ s.running THEN NoCall ELSE calls[c]]
  BY DEF Supervise, ReplacementInv, CallsInv
<1>2. sv.running \subseteq Slots
  BY DEF ReplacementInv, Supervised, Supervisors
<1>3. CallsInv
  BY DEF ReplacementInv
<1>4. calls' \in [Slots \cup {Controller} -> Requests]
  BY <1>1, <1>3, NoCallType DEF CallsInv
<1>5. \A i \in Slots : calls'[i] # NoCall => i \in sv.running /\ i \in s.running /\ calls'[i] = calls[i]
  BY <1>1, <1>3 DEF CallsInv
<1>6. calls'[Controller] = calls[Controller]
  BY <1>1, <1>2, Clients
<1> QED BY <1>1, <1>3, <1>4, <1>5, <1>6 DEF CallsInv, NoCall

(* A step of the supervisor that keeps every slot keeps the invariant: an  *)
(* answer in flight holds on.                                              *)
LEMMA QuietStep ==
  ASSUME ReplacementInv, Kept(sv, sv', {}), CallsInv', br' = br
  PROVE  ReplacementInv'
<1>1. /\ Supervised(sv) /\ Supervised(sv') /\ br \in Brokers /\ Asked /\ Answered /\ Tickets
  BY DEF ReplacementInv, Kept
<1>2. \A i \in Slots :
        /\ sv.life.slots[i].incarnation # 0 =>
             sv'.life.slots[i].incarnation = sv.life.slots[i].incarnation
        /\ sv.life.slots[i].state \in OccupiedStates => sv'.life.slots[i].state \in OccupiedStates
        /\ sv.life.slots[i].state = "CLOSING" => sv'.life.slots[i] = sv.life.slots[i]
        /\ sv'.life.slots[i].pending = sv.life.slots[i].pending
  <2> TAKE i \in Slots
  <2>1. sv.life.slots[i].incarnation # 0 => sv.life.slots[i].state # "UNUSED"
    BY <1>1, SlotOfSupervisor DEF Supervised
  <2> QED BY <2>1 DEF Kept
<1>3. sv.failed = TRUE => sv'.failed = TRUE
  BY DEF Kept
<1>4. Asked'
  <2>1. br.client # Nobody /\ br.client # Controller => br.client \in Slots
    BY <1>1 DEF Brokers
  <2> QED BY <1>1, <1>2, <2>1 DEF Asked
<1>5. Answered'
  <2> SUFFICES ASSUME br.client # Nobody
               PROVE  AnswerHolds(sv', br.ask, br.answer, br.inc[br.ask.slot])
    BY DEF Answered
  <2>1. br.ask.slot \in Slots /\ AnswerHolds(sv, br.ask, br.answer, br.inc[br.ask.slot])
    BY <1>1 DEF Asked, Answered
  <2> QED BY <1>2, <1>3, <2>1 DEF AnswerHolds
<1>6. Tickets'
  <2>1. Disputed(br)' = Disputed(br)
    BY DEF Disputed
  <2> QED BY <1>1, <1>2, <1>3, <2>1 DEF Tickets
<1> QED BY <1>1, <1>4, <1>5, <1>6 DEF ReplacementInv

(* The broker asks: what must hold of the answer for the invariant.        *)
LEMMA AskStep ==
  ASSUME ReplacementInv, NEW c \in Slots \cup {Controller},
         NEW q \in Requests, q.slot \in Slots, NEW a \in Answers,
         NEW b \in Brokers, b.inc = br.inc, b.failed = FALSE,
         br' = [b EXCEPT !.client = c, !.ask = q, !.answer = a],
         Kept(sv, sv', {q.slot}), CallsInv',
         c = Controller => q.label \in {"KICK", "DRAIN", "DRAINED"},
         c # Controller => /\ c = q.slot /\ q.label \in {"HELLO", "BEGIN", "COMPLETE"}
                           /\ sv'.life.slots[c].state \in OccupiedStates,
         AnswerHolds(sv', q, a, br.inc[q.slot]),
         \A i \in Slots \ Disputed(br') : b.pending[i] = sv'.life.slots[i].pending
  PROVE  ReplacementInv'
<1>1. /\ br' \in Brokers /\ br'.client = c /\ br'.ask = q /\ br'.answer = a
      /\ br'.failed = FALSE /\ br'.inc = br.inc /\ br'.pending = b.pending
  BY DEF Brokers
<1>2. Supervised(sv') /\ Supervised(sv) /\ Tickets
  BY DEF Kept, ReplacementInv
<1>3. Asked'
  BY <1>1 DEF Asked
<1>4. Answered'
  BY <1>1 DEF Answered
<1>5. Tickets'
  <2>1. \A i \in Slots : br.inc[i] # 0 => br.inc[i] = sv'.life.slots[i].incarnation
    <3> SUFFICES ASSUME NEW i \in Slots, br.inc[i] # 0
                 PROVE  br.inc[i] = sv'.life.slots[i].incarnation
      OBVIOUS
    <3>1. br.inc[i] = sv.life.slots[i].incarnation
      BY <1>2 DEF Tickets
    <3>2. sv.life.slots[i].state # "UNUSED"
      BY <1>2, <3>1, SlotOfSupervisor DEF Supervised
    <3> QED BY <3>1, <3>2 DEF Kept
  <2>2. \A i \in Slots \ Disputed(br)' : br'.pending[i] = sv'.life.slots[i].pending
    BY <1>1 DEF Disputed
  <2> QED BY <1>1, <2>1, <2>2 DEF Tickets
<1> QED BY <1>1, <1>2, <1>3, <1>4, <1>5 DEF ReplacementInv

(* The broker replies: between calls the two agree on every ticket.        *)
LEMMA ReturnStep ==
  ASSUME ReplacementInv, NEW c \in Slots \cup {Controller}, NEW b \in Brokers, Return(c, b),
         \A i \in Slots : b.inc[i] # 0 => b.inc[i] = sv.life.slots[i].incarnation,
         b.failed = TRUE => sv.failed = TRUE,
         b.failed = FALSE => \A i \in Slots : b.pending[i] = sv.life.slots[i].pending
  PROVE  ReplacementInv'
<1>1. /\ br' = [b EXCEPT !.client = Nobody, !.ask = NoCall, !.answer = Idle]
      /\ calls' = [calls EXCEPT ![c] = NoCall] /\ sv' = sv
  BY DEF Return
<1>2. Idle \in Answers
  BY ZeroInU64 DEF Idle, Answers
<1>3. /\ br' \in Brokers /\ br'.client = Nobody /\ br'.failed = b.failed
      /\ br'.inc = b.inc /\ br'.pending = b.pending
  BY <1>1, <1>2, NoCallType DEF Brokers
<1>4. CallsInv'
  <2>1. CallsInv
    BY DEF ReplacementInv
  <2>2. calls' \in [Slots \cup {Controller} -> Requests]
    BY <1>1, <2>1, NoCallType DEF CallsInv
  <2>3. \A d \in Slots \cup {Controller} : calls'[d] # NoCall => calls'[d] = calls[d]
    BY <1>1, <2>1 DEF CallsInv
  <2> QED BY <1>1, <2>1, <2>2, <2>3 DEF CallsInv, NoCall
<1>5. Asked' /\ Answered'
  BY <1>3 DEF Asked, Answered
<1>6. Tickets'
  <2>1. Disputed(br)' = {}
    BY <1>3 DEF Disputed
  <2> QED BY <1>1, <1>3, <2>1 DEF Tickets
<1> QED BY <1>1, <1>3, <1>4, <1>5, <1>6 DEF ReplacementInv

(* The broker takes a call: it refuses, or asks the supervisor.            *)
LEMMA TakeStep ==
  ASSUME ReplacementInv, NEW c \in Slots \cup {Controller}, Take(c)
  PROVE  ReplacementInv'
<1> DEFINE q == calls[c]
           inc == br.inc[q.slot]
           x == sv.life.slots[q.slot]
<1>1. /\ br.client = Nobody /\ q # NoCall /\ br \in Brokers /\ q \in Requests
      /\ Supervised(sv) /\ sv \in Supervisors /\ tcs_lc_valid(sv.life) /\ Tickets
      /\ calls \in [Slots \cup {Controller} -> Requests]
  BY DEF Take, ReplacementInv, CallsInv, Supervised
<1>2. /\ q.slot \in Slots
      /\ c = Controller => q.label \in {"KICK", "DRAIN"}
      /\ c # Controller => /\ c \in sv.running /\ c = q.slot
                           /\ q.label \in {"HELLO", "BEGIN", "COMPLETE", "MALFORMED"}
  BY <1>1, Clients DEF ReplacementInv, CallsInv
<1>3. c # Controller => sv.failed = FALSE /\ x.state \in LiveStates
  BY <1>1, <1>2 DEF Supervised, Supervisors, Live
<1>4. Disputed(br) = {}
  BY <1>1 DEF Disputed
<1>5. CASE Refused(q)
  <2>1. Return(c, br)
    BY <1>5 DEF Take
  <2> QED BY <1>1, <1>4, <2>1, ReturnStep DEF Tickets
<1>6. CASE ~Refused(q)
  <2> DEFINE label == CASE q.label \in {"KICK", "DRAIN"} -> "VIEW"
                        [] q.label = "HELLO" -> "READY"
                        [] OTHER -> q.label
             seq == IF q.label = "COMPLETE" THEN q.seq ELSE 0
             r == Brokered(sv, label, q.slot, inc, seq)
             a == [status |-> r.status, value |-> r.value]
  <2>1. /\ br.failed = FALSE /\ q.label # "MALFORMED"
        /\ q.label \in {"KICK", "DRAIN"} => inc # 0
        /\ q.label \in {"BEGIN", "COMPLETE"} => inc # 0
        /\ q.label = "COMPLETE" => q.seq # 0
    BY <1>1, <1>6 DEF Refused, Brokers
  <2>2. AskSupervisor(c, q, label, seq, br)
    BY <1>6 DEF Take
  <2>3. /\ br' = [br EXCEPT !.client = c, !.ask = q, !.answer = a]
        /\ sv' = r.sv /\ Supervise(r.sv)
    BY <2>2 DEF AskSupervisor, Supervise
  <2>4. CallsInv'
    BY <2>3, SuperviseCalls
  <2>5. /\ x \in LcSlot /\ sv.life \in LcLife /\ x.incarnation \in U64 /\ inc \in U64
        /\ seq \in U64 /\ 0 \in U64 /\ sv.failed \in BOOLEAN
        /\ x.state = "UNUSED" <=> x.incarnation = 0
    <3>1. /\ x \in LcSlot /\ sv.life \in LcLife
          /\ x.state = "UNUSED" <=> x.incarnation = 0
      BY <1>1, <1>2, SlotOfSupervisor
    <3>2. x.incarnation \in U64
      BY <3>1 DEF LcSlot
    <3>3. inc \in U64 /\ seq \in U64 /\ 0 \in U64
      BY <1>1, <1>2, ZeroInU64 DEF Brokers, Requests
    <3>4. sv.failed \in BOOLEAN
      BY <1>1 DEF Supervisors
    <3> HIDE DEF x, inc, seq
    <3> QED BY <3>1, <3>2, <3>3, <3>4
  <2>6. \A i \in Slots : br.pending[i] = sv.life.slots[i].pending
    BY <1>1, <1>4, <2>1 DEF Tickets
  <2>7. inc # 0 => inc = x.incarnation
    BY <1>1, <1>2 DEF Tickets
  <2>8. ASSUME a \in Answers, Kept(sv, sv', {q.slot}),
               c # Controller => sv'.life.slots[c].state \in OccupiedStates,
               AnswerHolds(sv', q, a, inc),
               q.slot \in Disputed(br') \/ sv'.life.slots[q.slot].pending = x.pending
        PROVE  ReplacementInv'
    <3>1. \A i \in Slots \ Disputed(br') : br.pending[i] = sv'.life.slots[i].pending
      BY <2>6, <2>8 DEF Kept
    <3> HIDE DEF a, q
    <3> QED BY <1>1, <1>2, <2>1, <2>3, <2>4, <2>8, <3>1, AskStep DEF q
  <2>9. CASE q.label \in {"KICK", "DRAIN"} /\ sv.failed = TRUE
    <3>1. r = Reply(sv, "FAILURE", 0)
      BY <2>9 DEF Brokered
    <3>2. a.status = "FAILURE" /\ a \in Answers /\ sv' = sv
      <4> HIDE DEF r
      <4>1. r.status = "FAILURE" /\ r.value = 0 /\ r.sv = sv
        BY ONLY <3>1 DEF Reply
      <4>2. 0 \in U64
        BY <2>5
      <4>3. a.status = "FAILURE" /\ a \in Answers
        BY ONLY <4>1, <4>2 DEF a, Answers
      <4>4. sv' = r.sv
        BY <2>3
      <4> QED BY ONLY <4>1, <4>3, <4>4
    <3>3. AnswerHolds(sv', q, a, inc)
      <4> HIDE DEF a, q
      <4> QED BY <2>9, <3>2 DEF AnswerHolds
    <3>4. Kept(sv, sv', {q.slot}) /\ c = Controller
      BY <1>1, <1>2, <2>9, <3>2, KeptSame
    <3> QED BY <2>8, <3>2, <3>3, <3>4
  <2>10. CASE q.label \in {"KICK", "DRAIN"} /\ sv.failed = FALSE
    <3>1. r = Reply(sv, "SLOT", x)
      BY <2>10 DEF Brokered
    <3>2. a.status = "SLOT" /\ a.value = x /\ a \in Answers /\ sv' = sv
      <4> HIDE DEF r, x
      <4>1. r.status = "SLOT" /\ r.value = x /\ r.sv = sv
        BY ONLY <3>1 DEF Reply
      <4>2. x \in LcSlot
        BY <2>5
      <4>3. a.status = "SLOT" /\ a.value = x /\ a \in Answers
        BY ONLY <4>1, <4>2 DEF a, Answers
      <4>4. sv' = r.sv
        BY <2>3
      <4> QED BY ONLY <4>1, <4>3, <4>4
    <3>3. AnswerHolds(sv', q, a, inc)
      <4> HIDE DEF a
      <4> QED BY <2>1, <2>5, <2>7, <2>10, <3>2 DEF AnswerHolds
    <3>4. Kept(sv, sv', {q.slot}) /\ c = Controller
      BY <1>1, <1>2, <2>10, <3>2, KeptSame
    <3> QED BY <2>8, <3>2, <3>3, <3>4
  <2>11. CASE q.label = "HELLO"
    <3> DEFINE e == Event("STARTED", q.slot, x.incarnation, 0)
    <3>1. c # Controller /\ sv.failed = FALSE /\ c = q.slot
      BY <1>2, <1>3, <2>11
    <3>2. r = sv_apply(sv, "SUPERVISOR", e, FALSE)
      BY <2>11, <3>1 DEF Brokered
    <3>3. Kept(sv, r.sv, {}) /\ Outcome(sv, "SUPERVISOR", e, FALSE, r)
      <4> DEFINE n == x.incarnation
      <4>1. n \in U64 /\ 0 \in U64 /\ q.slot \in Slots /\ "STARTED" \in LcOps
        BY <1>2, <2>5 DEF LcOps
      <4>2. r = sv_apply(sv, "SUPERVISOR", Event("STARTED", q.slot, n, 0), FALSE)
        BY <3>2
      <4> HIDE DEF n, r, q
      <4>3. Kept(sv, r.sv, {})
        BY <1>1, <4>1, <4>2, KeptEvent
      <4>4. Outcome(sv, "SUPERVISOR", Event("STARTED", q.slot, n, 0), FALSE, r)
        BY <1>1, <4>1, <4>2, Applied
      <4> QED BY <4>3, <4>4 DEF n
    <3>4. e.op = "STARTED" /\ e.slot = q.slot
      BY DEF Event
    <3> HIDE DEF r, e
    <3>5. /\ Supervised(sv') /\ sv' \in Supervisors /\ tcs_lc_valid(sv'.life)
          /\ sv'.life.slots[q.slot].pending = x.pending
          /\ sv'.life.slots[c].state \in OccupiedStates
          /\ sv'.life.slots[q.slot].incarnation = x.incarnation
      BY <1>2, <1>3, <2>3, <3>1, <3>3 DEF Kept, Supervised, LiveStates, OccupiedStates
    <3>6. x.incarnation # 0
      BY <1>3, <2>5, <3>1 DEF LiveStates
    <3>7. /\ r.status \in Statuses /\ r.value \in U64
          /\ r.status = "OK" => r.value = sv'.life.slots[q.slot].incarnation
      BY <2>3, <2>5, <3>3, <3>4, <3>5 DEF Outcome
    <3>8. a \in Answers /\ a.status = r.status /\ a.value = r.value
      BY <3>7 DEF Answers
    <3>9. AnswerHolds(sv', q, a, inc)
      <4> HIDE DEF a
      <4> QED BY <2>11, <3>5, <3>6, <3>7, <3>8 DEF AnswerHolds, Statuses
    <3>10. Kept(sv, sv', {q.slot})
      BY <2>3, <3>3 DEF Kept
    <3> QED BY <2>8, <3>5, <3>8, <3>9, <3>10
  <2>12. CASE q.label \in {"BEGIN", "COMPLETE"}
    <3> DEFINE e == Event(q.label, q.slot, inc, seq)
               y == NextSlot(sv.life, e)
    <3>1. c # Controller /\ sv.failed = FALSE /\ c = q.slot /\ q.label \in LcOps
      BY <1>2, <1>3, <2>12 DEF LcOps
    <3>2. r = sv_apply(sv, "BROKER", e, FALSE)
      BY <2>12, <3>1 DEF Brokered
    <3>3. Kept(sv, r.sv, {q.slot}) /\ Outcome(sv, "BROKER", e, FALSE, r)
      <4> DEFINE op == q.label
      <4>1. op \in {"BEGIN", "COMPLETE"} /\ op \in LcOps /\ q.slot \in Slots
        BY <1>2, <2>12, <3>1
      <4>2. r = sv_apply(sv, "BROKER", Event(op, q.slot, inc, seq), FALSE)
        BY <3>2
      <4> HIDE DEF seq, inc, op, r, q
      <4>3. Kept(sv, r.sv, {q.slot})
        BY <1>1, <2>5, <4>1, <4>2, KeptEvent
      <4>4. Outcome(sv, "BROKER", Event(op, q.slot, inc, seq), FALSE, r)
        BY <1>1, <2>5, <4>1, <4>2, Applied
      <4> QED BY <4>3, <4>4 DEF op
    <3>4. e \in LcEvent /\ e.op = q.label /\ e.slot = q.slot /\ e.sequence = seq
      BY <1>2, <2>5, <3>1, EventTypes
    <3>5. CASE r.status # "OK"
      <4> HIDE DEF r, e
      <4>1. r.sv = sv /\ r.value = 0 /\ r.status \in Statuses
        BY <3>3, <3>5 DEF Outcome
      <4>2. a \in Answers /\ a.status = r.status
        BY <2>5, <4>1 DEF Answers
      <4>3. AnswerHolds(sv', q, a, inc)
        <5> HIDE DEF a
        <5> QED BY <2>12, <3>5, <4>1, <4>2 DEF AnswerHolds, Statuses
      <4>4. sv'.life.slots[c].state \in OccupiedStates
        BY <1>3, <2>3, <3>1, <4>1 DEF LiveStates, OccupiedStates
      <4> QED BY <2>3, <2>8, <3>3, <4>1, <4>2, <4>3, <4>4
    <3>6. CASE r.status = "OK"
      <4>1. /\ Accepted(sv.life, e, FALSE) /\ sv'.life.slots[q.slot] = y /\ y \in LcSlot
            /\ r.value = IF q.label = "BEGIN" THEN y.pending ELSE seq
        <5> HIDE DEF r, e
        <5> QED BY <2>3, <2>12, <3>3, <3>4, <3>6 DEF Outcome
      <4>2. /\ y.pending = IF q.label = "BEGIN" THEN x.issued + 1 ELSE 0
            /\ y.state = x.state
        <5> DEFINE w == sv.life.slots[e.slot]
        <5>1. e.slot \in Slots /\ e.op \in LcOps
          BY <1>2, <3>1, <3>4
        <5>2. /\ y.pending = IF e.op = "BEGIN" THEN w.issued + 1
                             ELSE IF e.op \in {"COMPLETE", "DRAINED"} THEN 0 ELSE w.pending
              /\ e.op \in {"BEGIN", "COMPLETE"} => y.state = w.state
          <6> HIDE DEF e
          <6> QED BY <2>5, <3>4, <5>1, NextSlotFields
        <5> HIDE DEF y, e
        <5> QED BY <2>12, <3>4, <5>2
      <4> HIDE DEF r, e, y
      <4>3. x.issued \in U64 /\ y.pending \in U64
        BY <2>5, <4>1 DEF LcSlot
      <4>4. x.issued + 1 # 0
        BY <4>3 DEF U64
      <4>5. a \in Answers /\ a.status = "OK" /\ a.value = r.value
        BY <2>5, <3>6, <4>1, <4>3 DEF Answers, Statuses
      <4>6. AnswerHolds(sv', q, a, inc)
        <5> HIDE DEF a
        <5> QED BY <2>1, <2>12, <4>1, <4>2, <4>4, <4>5 DEF AnswerHolds
      <4>7. sv'.life.slots[c].state \in OccupiedStates
        BY <1>3, <3>1, <4>1, <4>2 DEF LiveStates, OccupiedStates
      <4>8. q.slot \in Disputed(br')
        <5>1. br'.client = c /\ br'.ask = q /\ br'.answer = a
          BY <1>1, <2>3 DEF Brokers
        <5>2. c # Nobody
          BY Clients
        <5> HIDE DEF a
        <5> QED BY <2>12, <4>5, <5>1, <5>2 DEF Disputed
      <4> QED BY <2>3, <2>8, <3>3, <4>5, <4>6, <4>7, <4>8
    <3> QED BY <3>5, <3>6
  <2> QED BY <1>2, <2>1, <2>5, <2>9, <2>10, <2>11, <2>12
<1> QED BY <1>5, <1>6

(* The drain: the slot the broker was shown is closing, so it is as it was *)
(* shown, and a supervisor that has not failed confirms the drain.         *)
LEMMA DrainStep ==
  ASSUME ReplacementInv, Drain
  PROVE  ReplacementInv'
<1> DEFINE q0 == br.ask
           i == br.ask.slot
           x == sv.life.slots[i]
           inc == br.inc[i]
           q == [q0 EXCEPT !.label = "DRAINED"]
           seq == br.answer.value.issued
           b == [br EXCEPT !.pending[i] = 0]
           r == Brokered(sv, "DRAINED", i, inc, seq)
           a == [status |-> r.status, value |-> r.value]
           e == Event("DRAINED", i, inc, seq)
           y == NextSlot(sv.life, e)
<1>1. /\ br.client # Nobody /\ br \in Brokers /\ br.ask \in Requests /\ br.answer \in Answers
      /\ Supervised(sv) /\ sv \in Supervisors /\ tcs_lc_valid(sv.life) /\ Tickets
      /\ sv.failed \in BOOLEAN
  BY DEF Drain, ReplacementInv, Supervised, Supervisors, Brokers
<1>2. /\ br.ask.label = "DRAIN" /\ br.answer.status = "SLOT"
      /\ br.answer.value.state = "CLOSING" /\ br.answer.value.stopped
      /\ ~br.answer.value.drained
  BY DEF Drain, Drainable, Viewed
<1>3. i \in Slots /\ br.client = Controller /\ br.failed = FALSE
  BY <1>1, <1>2 DEF ReplacementInv, Asked
<1>4. br.answer.value = x /\ inc # 0 /\ x.incarnation = inc
  BY <1>1, <1>2 DEF ReplacementInv, Answered, AnswerHolds
<1>5. x \in LcSlot /\ sv.life \in LcLife
  BY <1>1, <1>3, SlotOfSupervisor
<1>6. /\ x.state = "CLOSING" /\ x.stopped = TRUE /\ x.drained = FALSE /\ seq = x.issued
      /\ x.issued \in U64 /\ inc \in U64 /\ 0 \in U64
  BY <1>2, <1>4, <1>5, ZeroInU64 DEF LcSlot
<1>7. /\ br' = [b EXCEPT !.client = br.client, !.ask = q, !.answer = a]
      /\ sv' = r.sv /\ Supervise(r.sv)
  <2>1. q.slot = i
    BY <1>1 DEF Requests
  <2>2. AskSupervisor(br.client, q, "DRAINED", seq, b)
    BY DEF Drain
  <2> HIDE DEF q, b, seq
  <2> QED BY <2>1, <2>2 DEF AskSupervisor, Supervise
<1>8. CallsInv'
  BY <1>7, SuperviseCalls
<1>9. /\ q \in Requests /\ q.slot = i /\ q.label = "DRAINED"
      /\ b \in Brokers /\ b.inc = br.inc /\ b.failed = FALSE
      /\ b.pending = [br.pending EXCEPT ![i] = 0]
  BY <1>1, <1>3, <1>6 DEF Requests, Brokers
<1>10. \A j \in Slots \ {i} : b.pending[j] = sv.life.slots[j].pending
  <2>1. Disputed(br) = {}
    BY <1>2 DEF Disputed
  <2> HIDE DEF b
  <2> QED BY <1>1, <1>3, <1>9, <2>1 DEF Tickets, Brokers
<1>11. b.pending[i] = 0
  <2> HIDE DEF b
  <2> QED BY <1>1, <1>3, <1>9 DEF Brokers
<1>12. br'.client = Controller /\ br'.ask = q /\ br'.answer = a
  <2> HIDE DEF b, q, a
  <2> QED BY <1>3, <1>7, <1>9 DEF Brokers
<1>13. ASSUME a \in Answers, a.status \in {"OK", "FAILURE"}, Kept(sv, sv', {i}),
              a.status = "FAILURE" => sv'.failed = TRUE,
              a.status = "OK" => sv'.life.slots[i].pending = 0
       PROVE  ReplacementInv'
  <2> HIDE DEF a, q, b
  <2>1. AnswerHolds(sv', q, a, br.inc[q.slot])
    BY <1>9, <1>13 DEF AnswerHolds
  <2>2. \A j \in Slots \ Disputed(br') : b.pending[j] = sv'.life.slots[j].pending
    <3>1. a.status = "FAILURE" => i \in Disputed(br')
      BY <1>9, <1>12, Clients DEF Disputed
    <3> QED BY <1>10, <1>11, <1>13, <3>1 DEF Kept
  <2>3. br' = [b EXCEPT !.client = Controller, !.ask = q, !.answer = a]
    BY <1>3, <1>7
  <2>4. /\ Kept(sv, sv', {q.slot}) /\ q \in Requests /\ q.slot \in Slots
        /\ q.label \in {"KICK", "DRAIN", "DRAINED"}
        /\ b \in Brokers /\ b.inc = br.inc /\ b.failed = FALSE
    BY <1>3, <1>9, <1>13
  <2> QED BY <1>8, <1>13, <2>1, <2>2, <2>3, <2>4, AskStep
<1>14. CASE sv.failed = TRUE
  <2>1. r = Reply(sv, "FAILURE", 0)
    BY <1>14 DEF Brokered
  <2>2. r.sv = sv /\ r.status = "FAILURE" /\ r.value = 0
    BY <2>1 DEF Reply
  <2>3. a.status = "FAILURE" /\ a \in Answers /\ sv' = sv
    <3> HIDE DEF r, b, q, seq
    <3> QED BY <1>7, <2>2, ZeroInU64 DEF Answers
  <2>4. Kept(sv, sv', {i})
    BY <1>1, <2>3, KeptSame
  <2> HIDE DEF a
  <2> QED BY <1>13, <1>14, <2>3, <2>4
<1>15. CASE sv.failed = FALSE
  <2>1. r = sv_apply(sv, "BROKER", e, FALSE)
    BY <1>6, <1>15 DEF Brokered
  <2>2. e \in LcEvent /\ e.op = "DRAINED" /\ e.slot = i /\ e.incarnation = inc
        /\ e.sequence = x.issued
    <3> HIDE DEF seq, inc
    <3> QED BY <1>3, <1>6, EventTypes DEF LcOps
  <2>3. Outcome(sv, "BROKER", e, FALSE, r)
    <3>1. "DRAINED" \in LcOps /\ seq \in U64
      BY <1>6 DEF LcOps
    <3> HIDE DEF seq, inc, r
    <3> QED BY <1>1, <1>3, <1>6, <2>1, <3>1, Applied
  <2>4. LcStatus(sv.life, "BROKER", e, FALSE) = "OK"
    <3> HIDE DEF e
    <3>1. permitted("BROKER", e.op) /\ FieldsValid(e) /\ e.op \in LcOps
      BY <1>4, <2>2 DEF permitted, FieldsValid, LcOps
    <3>2. PhaseStatus(sv.life, e, FALSE) = "OK"
      BY <1>6, <2>2 DEF PhaseStatus
    <3> QED BY <1>1, <1>3, <1>4, <2>2, <3>1, <3>2 DEF LcStatus
  <2>5. /\ r.status = "OK" /\ sv' \in Supervisors /\ tcs_lc_valid(sv'.life)
        /\ sv'.failed = sv.failed /\ sv'.running = sv.running
        /\ sv'.life.slots[i] = y /\ y \in LcSlot /\ r.value = y.incarnation
        /\ \A j \in Slots \ {i} : sv'.life.slots[j] = sv.life.slots[j]
    <3> HIDE DEF e, r
    <3> QED BY <1>7, <2>2, <2>3, <2>4 DEF Outcome
  <2>6. /\ y.pending = 0 /\ y.incarnation = x.incarnation
        /\ y.state = "RETIRED"
    <3> DEFINE w == sv.life.slots[e.slot]
    <3>1. e.slot \in Slots /\ e.op \in LcOps
      BY <1>3, <2>2 DEF LcOps
    <3>2. /\ e.op = "DRAINED" => y.pending = 0 /\ y.incarnation = w.incarnation
          /\ e.op = "DRAINED" /\ w.stopped => y.state = "RETIRED"
      <4> HIDE DEF e
      <4> QED BY <1>5, <2>2, <3>1, NextSlotFields
    <3> HIDE DEF y, e
    <3> QED BY <1>6, <2>2, <3>2
  <2> HIDE DEF y, e, r
  <2>7. a \in Answers /\ a.status = "OK"
    BY <2>5 DEF Answers, Statuses, LcSlot
  <2>8. Live(sv'.life) = Live(sv.life)
    BY <1>6, <2>5, <2>6 DEF Live, LiveStates
  <2>9. Supervised(sv')
    <3>1. \A j \in Slots : sv'.life.slots[j].state = "CLOSING" => sv'.life.slots[j].stopped = TRUE
      BY <1>1, <2>5, <2>6 DEF Supervised
    <3> QED BY <1>1, <2>5, <2>8, <3>1 DEF Supervised
  <2>10. Kept(sv, sv', {i})
    BY <2>5, <2>6, <2>9 DEF Kept
  <2> QED BY <1>13, <2>5, <2>6, <2>7, <2>10
<1> QED BY <1>1, <1>14, <1>15

(* The answer: what is uncertain comes from a failed supervisor, and what  *)
(* is certain settles the ticket.                                          *)
LEMMA FinishStep ==
  ASSUME ReplacementInv, Finish
  PROVE  ReplacementInv'
<1> DEFINE q == br.ask
           r == br.answer
           i == br.ask.slot
           ok == r.status = "OK"
           uncertain ==
             \/ r.status = "FAILURE"
             \/ q.label \in {"KICK", "DRAIN"} /\ ~Viewed
             \/ q.label = "DRAINED" /\ ~ok
             \/ q.label \in {"HELLO", "BEGIN", "COMPLETE"} /\ ok /\ r.value = 0
             \/ q.label = "COMPLETE" /\ ok /\ r.value # q.seq
           b == CASE uncertain -> [br EXCEPT !.failed = TRUE]
                  [] ~uncertain /\ ok /\ q.label = "HELLO"    -> [br EXCEPT !.inc[i] = r.value]
                  [] ~uncertain /\ ok /\ q.label = "BEGIN"    -> [br EXCEPT !.pending[i] = r.value]
                  [] ~uncertain /\ ok /\ q.label = "COMPLETE" -> [br EXCEPT !.pending[i] = 0]
                  [] OTHER -> br
           x == sv.life.slots[i]
<1>1. br.client # Nobody /\ Return(br.client, b)
  BY DEF Finish
<1>2. /\ br \in Brokers /\ Supervised(sv) /\ Asked /\ Answered /\ Tickets
      /\ q \in Requests /\ r \in Answers /\ br.inc \in [Slots -> U64]
      /\ br.pending \in [Slots -> U64]
  BY DEF ReplacementInv, Brokers
<1>3. /\ i \in Slots /\ br.failed = FALSE /\ br.client \in Slots \cup {Controller}
      /\ q.label \in {"KICK", "DRAIN", "DRAINED", "HELLO", "BEGIN", "COMPLETE"}
      /\ AnswerHolds(sv, q, r, br.inc[i])
  BY <1>1, <1>2 DEF Asked, Answered, Brokers
<1>4. x \in LcSlot /\ x.incarnation \in U64 /\ x.pending \in U64 /\ 0 \in U64
  <2>1. x \in LcSlot
    BY <1>2, <1>3, SlotOfSupervisor DEF Supervised
  <2> QED BY <2>1, ZeroInU64 DEF LcSlot
<1>5. \A j \in Slots : br.inc[j] # 0 => br.inc[j] = sv.life.slots[j].incarnation
  BY <1>2 DEF Tickets
<1>6. \A j \in Slots \ Disputed(br) : br.pending[j] = sv.life.slots[j].pending
  BY <1>2, <1>3 DEF Tickets
<1>7. CASE uncertain
  <2>1. b = [br EXCEPT !.failed = TRUE]
    <3> HIDE DEF uncertain
    <3> QED BY <1>7
  <2>2. r.status = "FAILURE"
    BY <1>3, <1>7 DEF AnswerHolds, Viewed
  <2>3. sv.failed = TRUE
    BY <1>3, <2>2 DEF AnswerHolds
  <2> HIDE DEF b
  <2>4. b \in Brokers /\ b.inc = br.inc /\ b.failed = TRUE
    BY <1>2, <2>1 DEF Brokers
  <2> QED BY <1>1, <1>3, <1>5, <2>3, <2>4, ReturnStep
<1>8. CASE ~uncertain /\ ok /\ q.label = "HELLO"
  <2>1. b = [br EXCEPT !.inc[i] = r.value]
    <3> HIDE DEF uncertain
    <3> QED BY <1>8
  <2>2. r.value = x.incarnation
    BY <1>3, <1>8 DEF AnswerHolds
  <2>3. Disputed(br) = {}
    BY <1>8 DEF Disputed
  <2> HIDE DEF b
  <2>4. /\ b \in Brokers /\ b.inc = [br.inc EXCEPT ![i] = x.incarnation]
        /\ b.failed = FALSE /\ b.pending = br.pending
    BY <1>2, <1>3, <1>4, <2>1, <2>2 DEF Brokers
  <2>5. \A j \in Slots : b.inc[j] # 0 => b.inc[j] = sv.life.slots[j].incarnation
    BY <1>2, <1>5, <2>4
  <2>6. \A j \in Slots : b.pending[j] = sv.life.slots[j].pending
    BY <1>6, <2>3, <2>4
  <2> QED BY <1>1, <1>3, <2>4, <2>5, <2>6, ReturnStep
<1>9. CASE ~uncertain /\ ok /\ q.label \in {"BEGIN", "COMPLETE"}
  <2>1. b = [br EXCEPT !.pending[i] = IF q.label = "BEGIN" THEN r.value ELSE 0]
    <3> HIDE DEF uncertain
    <3> QED BY <1>9
  <2>2. x.pending = IF q.label = "BEGIN" THEN r.value ELSE 0
    BY <1>3, <1>9 DEF AnswerHolds
  <2>3. Disputed(br) \subseteq {i}
    BY DEF Disputed
  <2> HIDE DEF b
  <2>4. /\ b \in Brokers /\ b.pending = [br.pending EXCEPT ![i] = x.pending]
        /\ b.failed = FALSE /\ b.inc = br.inc
    BY <1>2, <1>3, <1>4, <2>1, <2>2 DEF Brokers
  <2>5. \A j \in Slots : b.pending[j] = sv.life.slots[j].pending
    BY <1>2, <1>6, <2>3, <2>4
  <2>6. \A j \in Slots : b.inc[j] # 0 => b.inc[j] = sv.life.slots[j].incarnation
    BY <1>5, <2>4
  <2> QED BY <1>1, <1>3, <2>4, <2>5, <2>6, ReturnStep
<1>10. CASE ~uncertain /\ ~(ok /\ q.label \in {"HELLO", "BEGIN", "COMPLETE"})
  <2>1. b = br
    <3> HIDE DEF uncertain
    <3> QED BY <1>10
  <2>2. Disputed(br) = {}
    BY <1>10 DEF Disputed
  <2> HIDE DEF b
  <2> QED BY <1>1, <1>2, <1>3, <1>5, <1>6, <2>1, <2>2, ReturnStep
<1> QED BY <1>7, <1>8, <1>9, <1>10

(* A new call of a client that may make it.                                *)
LEMMA CallStep ==
  ASSUME ReplacementInv, NEW c \in Slots \cup {Controller}, NEW q \in Requests, Call(c, q),
         c = Controller => q.slot \in Slots /\ q.label \in {"KICK", "DRAIN"},
         c # Controller => /\ c \in sv.running /\ q.slot = c
                           /\ q.label \in {"HELLO", "BEGIN", "COMPLETE", "MALFORMED"}
  PROVE  ReplacementInv'
<1>1. CallsInv /\ Supervised(sv)
  BY DEF ReplacementInv
<1>2. calls' = [calls EXCEPT ![c] = q] /\ sv' = sv /\ br' = br
  BY DEF Call
<1>3. CallsInv'
  <2>1. calls' \in [Slots \cup {Controller} -> Requests]
    BY <1>1, <1>2 DEF CallsInv
  <2>2. calls'[c] = q /\ \A d \in (Slots \cup {Controller}) \ {c} : calls'[d] = calls[d]
    BY <1>1, <1>2 DEF CallsInv
  <2> QED BY <1>1, <1>2, <2>1, <2>2, Clients DEF CallsInv
<1>4. Kept(sv, sv', {})
  BY <1>1, <1>2, KeptSame
<1> QED BY <1>2, <1>3, <1>4, QuietStep

-----------------------------------------------------------------------------
(* The invariant and the property.                                         *)

(* Nothing runs, nothing is asked, no ticket is out.                       *)
LEMMA ReplacementInit == Init => ReplacementInv
<1> SUFFICES ASSUME Init PROVE ReplacementInv
  OBVIOUS
<1>1. ZeroLife \in LcLife /\ tcs_lc_valid(ZeroLife)
  BY ZeroLifeValid
<1>2. \A i \in Slots : ZeroLife.slots[i] = UnusedSlot
  BY DEF ZeroLife
<1>3. Supervised(sv)
  <2>1. /\ sv \in Supervisors /\ sv.life = ZeroLife /\ sv.running = {} /\ sv.failed = FALSE
    BY <1>1 DEF Init, Supervisors
  <2>2. Live(sv.life) = {}
    BY <1>2, <2>1 DEF Live, LiveStates, UnusedSlot
  <2> QED BY <1>1, <1>2, <2>1, <2>2 DEF Supervised, UnusedSlot
<1>4. CallsInv
  BY NoCallType DEF Init, CallsInv
<1>5. Idle \in Answers
  BY ZeroInU64 DEF Idle, Answers
<1>6. /\ br \in Brokers /\ br.client = Nobody /\ br.failed = FALSE
      /\ br.inc = [i \in Slots |-> 0] /\ br.pending = [i \in Slots |-> 0]
  BY <1>5, NoCallType, ZeroInU64 DEF Init, Brokers
<1>7. Asked /\ Answered
  BY <1>6 DEF Asked, Answered
<1>8. Tickets
  <2>1. sv.life = ZeroLife
    BY DEF Init
  <2> QED BY <1>2, <1>6, <2>1 DEF Tickets, UnusedSlot
<1> QED BY <1>3, <1>4, <1>6, <1>7, <1>8 DEF ReplacementInv

(* Every step keeps the invariant.                                         *)
LEMMA ReplacementNext == ReplacementInv /\ [Next]_vars => ReplacementInv'
<1> SUFFICES ASSUME ReplacementInv, [Next]_vars PROVE ReplacementInv'
  OBVIOUS
<1>1. Supervised(sv) /\ CallsInv /\ DOMAIN calls = Slots \cup {Controller} /\ 0 \in U64
  BY ZeroInU64 DEF ReplacementInv, CallsInv
<1>2. ASSUME NEW i \in Slots, NEW op \in {"RESERVE", "ACTIVATE", "CONTAIN"}, ct_control(op, i)
      PROVE  ReplacementInv'
  <2>1. Supervise(Control(sv, op, i).sv) /\ br' = br
    BY <1>2 DEF ct_control
  <2>2. Kept(sv, sv', {})
    BY <1>1, <2>1, KeptControl DEF Supervise
  <2> QED BY <2>1, <2>2, SuperviseCalls, QuietStep
<1>3. ASSUME NEW i \in Slots, NEW label \in {"KICK", "DRAIN"}, ct_broker(label, i)
      PROVE  ReplacementInv'
  <2>1. /\ Request(label, i, 0, 0) \in Requests /\ Request(label, i, 0, 0).slot = i
        /\ Request(label, i, 0, 0).label = label
    BY <1>1 DEF Request, Requests
  <2> QED BY <1>3, <2>1, CallStep DEF ct_broker
<1>4. ASSUME NEW i \in Slots, NEW label \in {"HELLO", "BEGIN", "COMPLETE", "MALFORMED"},
             NEW inc \in U64, NEW seq \in U64, WorkerCall(i, label, inc, seq)
      PROVE  ReplacementInv'
  <2>1. /\ Request(label, i, inc, seq) \in Requests /\ Request(label, i, inc, seq).slot = i
        /\ Request(label, i, inc, seq).label = label
    BY DEF Request, Requests
  <2> QED BY <1>4, <2>1, CallStep, Clients DEF WorkerCall
<1>5. ASSUME NEW i \in Slots, NEW expected \in BOOLEAN, fault(i, expected)
      PROVE  ReplacementInv'
  <2>1. Kept(sv, sv', {}) /\ br' = br
    BY <1>1, <1>5, KeptFault DEF fault
  <2>2. \E s : Supervise(s)
    BY <1>5 DEF fault
  <2> QED BY <2>1, <2>2, SuperviseCalls, QuietStep
<1>6. ASSUME NEW c \in DOMAIN calls, Take(c)
      PROVE  ReplacementInv'
  BY <1>1, <1>6, TakeStep
<1>7. CASE Drain
  BY <1>7, DrainStep
<1>8. CASE Finish
  BY <1>8, FinishStep
<1>9. CASE UNCHANGED vars
  <2>1. sv' = sv /\ calls' = calls /\ br' = br
    BY <1>9 DEF vars
  <2>2. Kept(sv, sv', {}) /\ CallsInv'
    BY <1>1, <2>1, KeptSame DEF CallsInv
  <2> QED BY <2>1, <2>2, QuietStep
<1> QED BY <1>1, <1>2, <1>3, <1>4, <1>5, <1>6, <1>7, <1>8, <1>9 DEF Next

(* A running child occupies its slot, so the other slot is unused or       *)
(* retired, and no call or ticket of it is left.                           *)
LEMMA InvariantGivesHandover == ReplacementInv => Handover
<1> SUFFICES ASSUME ReplacementInv PROVE Handover
  OBVIOUS
<1>1. /\ Supervised(sv) /\ sv \in Supervisors /\ tcs_lc_valid(sv.life) /\ Asked /\ Answered
      /\ Tickets /\ br \in Brokers /\ br.failed \in BOOLEAN /\ sv.failed \in BOOLEAN
  BY DEF ReplacementInv, Supervised, Supervisors, Brokers
<1>2. ASSUME NEW i \in Slots, NEW j \in Slots, i # j, j \in sv.running
      PROVE  i \notin sv.running /\ br.pending[i] = 0 /\ br.client # i
  <2>1. sv.failed = FALSE /\ sv.life.slots[j].state \in LiveStates
    BY <1>1, <1>2 DEF Supervised, Live
  <2>2. sv.life.slots[i].state \notin OccupiedStates
    BY <1>1, <1>2, <2>1 DEF tcs_lc_valid, AtMostOneOccupied, OccupiedStates
  <2>3. i \notin sv.running
    BY <1>1, <2>2 DEF Supervised, Live, OccupiedStates
  <2>4. sv.life.slots[i].pending = 0
    <3>1. sv.life.slots[i].state \in LcStates
      BY <1>1, <1>2, SlotOfSupervisor DEF LcSlot
    <3>2. sv.life.slots[i].state \in {"UNUSED", "RETIRED"}
      BY <2>2, <3>1 DEF LcStates, OccupiedStates, LiveStates
    <3> QED BY <1>1, <1>2, <3>2, SlotOfSupervisor
  <2>5. br.failed = FALSE
    BY <1>1, <2>1 DEF Tickets
  <2>6. br.client # i
    BY <1>1, <1>2, <2>2, Clients DEF Asked
  <2>7. i \notin Disputed(br)
    <3>1. CASE br.client = Nobody
      BY <3>1 DEF Disputed
    <3>2. CASE br.client = Controller
      BY <1>1, <2>1, <3>2, Clients DEF Disputed, Asked, Answered, AnswerHolds
    <3>3. CASE br.client \notin {Nobody, Controller}
      BY <1>1, <2>6, <3>3 DEF Disputed, Asked
    <3> QED BY <3>1, <3>2, <3>3
  <2>8. br.pending[i] = 0
    BY <1>1, <1>2, <2>4, <2>5, <2>7 DEF Tickets
  <2> QED BY <2>3, <2>6, <2>8
<1>3. br.client = Nobody /\ ~br.failed => \A i \in Slots : br.pending[i] = sv.life.slots[i].pending
  BY <1>1 DEF Tickets, Disputed
<1>4. sv.running = IF sv.failed THEN {} ELSE {i \in Slots : sv.life.slots[i].state \in LiveStates}
  BY <1>1 DEF Supervised, Live
<1>5. br.failed => sv.failed
  BY <1>1 DEF Tickets
<1> QED BY <1>2, <1>3, <1>4, <1>5 DEF Handover

(* Replacement: the child that runs runs alone, and broker and supervisor  *)
(* agree on its ticket and on what failed (Handover), whatever the         *)
(* workers, their faults and the controller do while the broker waits.     *)
THEOREM ReplacementHandsOver == Spec => []Handover
<1>1. Spec => []ReplacementInv
  BY ReplacementInit, ReplacementNext, PTL DEF Spec
<1> QED BY <1>1, InvariantGivesHandover, PTL
=============================================================================
