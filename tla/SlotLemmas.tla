----------------------------- MODULE SlotLemmas -----------------------------
(***************************************************************************)
(* Facts about the operators of Lifecycle and Reduction, for every set of  *)
(* slots and every UMAX.                                                   *)
(*                                                                         *)
(* Of Lifecycle: what an accepted event requires, and that it keeps the    *)
(* state well-typed and valid.  Of Reduction: a poll leaves a valid state  *)
(* in which nothing inhibited is live (PollFacts); an event accepted after *)
(* it keeps that, because RESERVE and ACTIVATE are refused on inhibited    *)
(* slots and every other event that ends in a live state starts from one   *)
(* (EventFacts).                                                           *)
(***************************************************************************)
EXTENDS Reduction, TLAPS

(* What tcs_lc_apply has checked of a slot when it accepts an event.       *)
Accepted(life, e, audit_ok) ==
  LET s == life.slots[e.slot]
  IN /\ e.slot \in Slots
     /\ e.op \in LcOps
     /\ e.op # "RESERVE" => e.incarnation # 0 /\ s.incarnation = e.incarnation
     /\ e.op = "RESERVE" => /\ s.state = "UNUSED" /\ Quiescent(life.slots)
                            /\ life.last_incarnation # UMAX /\ audit_ok
     /\ e.op = "STARTED" => s.state = "STARTING"
     /\ e.op = "ACTIVATE" => s.state = "READY" /\ audit_ok
     /\ e.op = "BEGIN" => s.state = "ACTIVE" /\ s.pending = 0 /\ s.issued # UMAX
     /\ e.op = "COMPLETE" => /\ s.state = "ACTIVE" /\ s.pending = e.sequence
                             /\ e.sequence # 0
     /\ e.op = "CONTAIN" => s.state \in LiveStates
     /\ e.op = "STOPPED" => s.state = "CLOSING" /\ ~s.stopped /\ e.sequence = s.issued
     /\ e.op = "DRAINED" => s.state = "CLOSING" /\ ~s.drained /\ e.sequence = s.issued

(* An OK status of tcs_lc_apply means that every check above passed.       *)
LEMMA AcceptedFacts ==
  ASSUME NEW life, NEW actor, NEW e, NEW audit_ok \in BOOLEAN,
         LcStatus(life, actor, e, audit_ok) = "OK"
  PROVE  tcs_lc_valid(life) /\ Accepted(life, e, audit_ok)
<1>1. /\ tcs_lc_valid(life) /\ e.slot \in Slots /\ e.op \in LcOps
      /\ FieldsValid(e)
      /\ e.op # "RESERVE" => e.incarnation = life.slots[e.slot].incarnation
      /\ PhaseStatus(life, e, audit_ok) = "OK"
  BY DEF LcStatus
<1>2. CASE e.op \in {"RESERVE", "STARTED", "ACTIVATE", "BEGIN"}
  BY <1>1, <1>2 DEF PhaseStatus, Exhausted, Accepted, FieldsValid, LcOps
<1>3. CASE e.op \in {"COMPLETE", "CONTAIN", "STOPPED", "DRAINED"}
  BY <1>1, <1>3 DEF PhaseStatus, Accepted, FieldsValid, LcOps
<1> QED BY <1>1, <1>2, <1>3 DEF LcOps

(* Counters start inside their width.                                      *)
LEMMA ZeroInU64 == 0 \in U64
BY UMAXAssumption DEF U64

(* Field by field, the slot an accepted event writes.                      *)
LEMMA NextSlotFields ==
  ASSUME NEW life \in LcLife, NEW e \in LcEvent, e.slot \in Slots, e.op \in LcOps
  PROVE  LET s == life.slots[e.slot]
             t == NextSlot(life, e)
         IN /\ t.incarnation = IF e.op = "RESERVE" THEN life.last_incarnation + 1
                                                   ELSE s.incarnation
            /\ t.issued = IF e.op = "BEGIN" THEN s.issued + 1 ELSE s.issued
            /\ t.pending = IF e.op = "BEGIN" THEN s.issued + 1
                           ELSE IF e.op \in {"COMPLETE", "DRAINED"} THEN 0 ELSE s.pending
            /\ t.stopped = IF e.op = "STOPPED" THEN TRUE ELSE s.stopped
            /\ t.drained = IF e.op = "DRAINED" THEN TRUE ELSE s.drained
            /\ t.state = CASE e.op = "RESERVE"  -> "STARTING"
                           [] e.op = "STARTED"  -> "READY"
                           [] e.op = "ACTIVATE" -> "ACTIVE"
                           [] e.op = "CONTAIN"  -> "CLOSING"
                           [] e.op = "STOPPED" /\ s.drained -> "RETIRED"
                           [] e.op = "DRAINED" /\ s.stopped -> "RETIRED"
                           [] OTHER -> s.state
<1> DEFINE s == life.slots[e.slot]
           t == NextSlot(life, e)
<1>1. s \in LcSlot
  BY DEF LcLife
<1>2. CASE e.op \in {"RESERVE", "STARTED", "ACTIVATE", "CONTAIN"}
  <2>1. t = CASE e.op = "RESERVE" -> [s EXCEPT !.state = "STARTING",
                                              !.incarnation = life.last_incarnation + 1]
              [] e.op = "STARTED"  -> [s EXCEPT !.state = "READY"]
              [] e.op = "ACTIVATE" -> [s EXCEPT !.state = "ACTIVE"]
              [] e.op = "CONTAIN"  -> [s EXCEPT !.state = "CLOSING"]
    BY <1>2 DEF NextSlot
  <2> QED BY <1>1, <1>2, <2>1 DEF LcSlot
<1>3. CASE e.op \in {"BEGIN", "COMPLETE"}
  <2>1. t = IF e.op = "BEGIN"
            THEN [s EXCEPT !.issued = s.issued + 1, !.pending = s.issued + 1]
            ELSE [s EXCEPT !.pending = 0]
    BY <1>3 DEF NextSlot
  <2> QED BY <1>1, <1>3, <2>1 DEF LcSlot
<1>4. CASE e.op = "STOPPED"
  <2>1. t = IF s.drained THEN [s EXCEPT !.stopped = TRUE, !.state = "RETIRED"]
                         ELSE [s EXCEPT !.stopped = TRUE]
    BY <1>1, <1>4 DEF NextSlot, Settle, LcSlot
  <2> QED BY <1>1, <1>4, <2>1 DEF LcSlot
<1>5. CASE e.op = "DRAINED"
  <2>1. t = IF s.stopped THEN [s EXCEPT !.drained = TRUE, !.pending = 0, !.state = "RETIRED"]
                         ELSE [s EXCEPT !.drained = TRUE, !.pending = 0]
    BY <1>1, <1>5 DEF NextSlot, Settle, LcSlot
  <2> QED BY <1>1, <1>5, <2>1 DEF LcSlot
<1> QED BY <1>2, <1>3, <1>4, <1>5 DEF LcOps

(* The slot an accepted event writes is well-typed and valid by itself.    *)
LEMMA NextSlotValid ==
  ASSUME NEW life \in LcLife, NEW e \in LcEvent, NEW audit_ok \in BOOLEAN,
         tcs_lc_valid(life), Accepted(life, e, audit_ok)
  PROVE  /\ NextSlot(life, e) \in LcSlot
         /\ SlotValid(NextSlot(life, e), LcEffect(life, e).last_incarnation)
         /\ NextSlot(life, e).state # "UNUSED"
         /\ e.op # "RESERVE" => NextSlot(life, e).incarnation = life.slots[e.slot].incarnation
         /\ e.op # "RESERVE" => life.slots[e.slot].state \in OccupiedStates
<1> DEFINE s == life.slots[e.slot]
           t == NextSlot(life, e)
           last == LcEffect(life, e).last_incarnation
<1>1. /\ s \in LcSlot /\ life.last_incarnation \in U64 /\ e.slot \in Slots
      /\ e.op \in LcOps /\ SlotValid(s, life.last_incarnation)
  BY DEF LcLife, Accepted, tcs_lc_valid
<1>2. last = IF e.op = "RESERVE" THEN life.last_incarnation + 1 ELSE life.last_incarnation
  BY DEF LcEffect
<1>3. CASE e.op = "RESERVE"
  <2>1. /\ s.issued = 0 /\ s.pending = 0 /\ s.stopped = FALSE /\ s.drained = FALSE
    BY <1>1, <1>3 DEF Accepted, SlotValid, UnusedSlot, LcSlot
  <2>2. t = [s EXCEPT !.state = "STARTING", !.incarnation = life.last_incarnation + 1]
    BY <1>3 DEF NextSlot
  <2>3. life.last_incarnation + 1 \in 1..UMAX
    BY <1>1, <1>3, UMAXAssumption DEF Accepted, U64
  <2>4. /\ t \in LcSlot /\ t.state = "STARTING" /\ t.incarnation = last
        /\ t.issued = 0 /\ t.pending = 0 /\ t.stopped = FALSE /\ t.drained = FALSE
    <3>1. life.last_incarnation + 1 \in U64
      BY <2>3 DEF U64
    <3> QED BY <1>1, <1>2, <1>3, <2>1, <2>2, <3>1 DEF LcSlot, LcStates
  <2> QED BY <1>2, <1>3, <2>3, <2>4 DEF SlotValid, U64, LiveStates, OccupiedStates
<1>4. CASE e.op \in {"STARTED", "ACTIVATE", "CONTAIN"}
  <2>1. t = [s EXCEPT !.state = IF e.op = "STARTED" THEN "READY"
                               ELSE IF e.op = "ACTIVATE" THEN "ACTIVE" ELSE "CLOSING"]
    BY <1>4 DEF NextSlot
  <2>2. s.state \in OccupiedStates /\ s.state # "UNUSED" /\ last = life.last_incarnation
    BY <1>1, <1>2, <1>4 DEF Accepted, LiveStates, OccupiedStates
  <2>3. CASE e.op = "STARTED"
    BY <1>1, <1>2, <2>1, <2>2, <2>3, UMAXAssumption
       DEF SlotValid, UnusedSlot, Accepted, LcSlot, LcStates, LiveStates, OccupiedStates
  <2>4. CASE e.op = "ACTIVATE"
    BY <1>1, <1>2, <2>1, <2>2, <2>4, UMAXAssumption
       DEF SlotValid, UnusedSlot, Accepted, LcSlot, LcStates, LiveStates, OccupiedStates
  <2>5. CASE e.op = "CONTAIN"
    BY <1>1, <1>2, <2>1, <2>2, <2>5, UMAXAssumption
       DEF SlotValid, UnusedSlot, Accepted, LcSlot, LcStates, LiveStates, OccupiedStates
  <2> QED BY <1>4, <2>3, <2>4, <2>5
<1>5. CASE e.op \in {"BEGIN", "COMPLETE"}
  <2>1. t = IF e.op = "BEGIN"
          THEN [s EXCEPT !.issued = s.issued + 1, !.pending = s.issued + 1]
          ELSE [s EXCEPT !.pending = 0]
    BY <1>5 DEF NextSlot
  <2>2. s.state = "ACTIVE" /\ (e.op = "BEGIN" => s.issued + 1 \in U64)
    BY <1>1, <1>5, UMAXAssumption DEF Accepted, LcSlot, U64
  <2>3. /\ t \in LcSlot /\ t.state = "ACTIVE" /\ t.incarnation = s.incarnation
        /\ t.pending \in {0, t.issued} /\ t.stopped = s.stopped /\ t.drained = s.drained
    BY <1>1, <1>5, <2>1, <2>2, ZeroInU64 DEF LcSlot, LcStates
  <2> QED BY <1>1, <1>2, <1>5, <2>2, <2>3
          DEF SlotValid, UnusedSlot, LcSlot, LcStates, LiveStates, OccupiedStates
<1>6. CASE e.op = "STOPPED"
  <2>1. t = IF s.drained THEN [s EXCEPT !.stopped = TRUE, !.state = "RETIRED"]
                         ELSE [s EXCEPT !.stopped = TRUE]
    BY <1>1, <1>6 DEF NextSlot, Settle, LcSlot
  <2>2. s.state = "CLOSING"
    BY <1>6 DEF Accepted
  <2>3. /\ t \in LcSlot /\ t.incarnation = s.incarnation /\ t.issued = s.issued
        /\ t.pending = s.pending /\ t.stopped = TRUE /\ t.drained = s.drained
        /\ t.state = IF s.drained THEN "RETIRED" ELSE "CLOSING"
    BY <1>1, <2>1, <2>2 DEF LcSlot, LcStates
  <2> QED BY <1>1, <1>2, <1>6, <2>2, <2>3
          DEF SlotValid, UnusedSlot, LcSlot, LcStates, LiveStates, OccupiedStates
<1>7. CASE e.op = "DRAINED"
  <2>1. t = IF s.stopped THEN [s EXCEPT !.drained = TRUE, !.pending = 0, !.state = "RETIRED"]
                         ELSE [s EXCEPT !.drained = TRUE, !.pending = 0]
    BY <1>1, <1>7 DEF NextSlot, Settle, LcSlot
  <2>2. s.state = "CLOSING"
    BY <1>7 DEF Accepted
  <2>3. /\ t \in LcSlot /\ t.incarnation = s.incarnation /\ t.issued = s.issued
        /\ t.pending = 0 /\ t.drained = TRUE /\ t.stopped = s.stopped
        /\ t.state = IF s.stopped THEN "RETIRED" ELSE "CLOSING"
    BY <1>1, <2>1, <2>2, ZeroInU64 DEF LcSlot, LcStates
  <2> QED BY <1>1, <1>2, <1>7, <2>2, <2>3
          DEF SlotValid, UnusedSlot, LcSlot, LcStates, LiveStates, OccupiedStates
<1> QED BY <1>1, <1>3, <1>4, <1>5, <1>6, <1>7 DEF LcOps

(* An accepted event keeps the state well-typed and valid: tcs_lc_valid is *)
(* inductive, so the validity test never turns an event away.              *)
LEMMA LcEffectValid ==
  ASSUME NEW life \in LcLife, NEW e \in LcEvent, NEW audit_ok \in BOOLEAN,
         tcs_lc_valid(life), Accepted(life, e, audit_ok)
  PROVE  LcEffect(life, e) \in LcLife /\ tcs_lc_valid(LcEffect(life, e))
<1> DEFINE n == LcEffect(life, e)
           t == NextSlot(life, e)
<1>1. /\ t \in LcSlot /\ SlotValid(t, n.last_incarnation) /\ t.state # "UNUSED"
      /\ e.op # "RESERVE" => t.incarnation = life.slots[e.slot].incarnation
      /\ e.op # "RESERVE" => life.slots[e.slot].state \in OccupiedStates
  BY NextSlotValid
<1>2. e.slot \in Slots
  BY DEF Accepted
<1>3. /\ life.slots \in [Slots -> LcSlot] /\ life.last_incarnation \in U64
      /\ n.slots = [life.slots EXCEPT ![e.slot] = t]
      /\ n.last_incarnation = IF e.op = "RESERVE" THEN life.last_incarnation + 1
                                                  ELSE life.last_incarnation
      /\ n = [last_incarnation |-> n.last_incarnation, slots |-> n.slots]
  BY DEF LcLife, LcEffect
<1>4. n.last_incarnation \in U64 /\ n.last_incarnation >= life.last_incarnation
  BY <1>3, UMAXAssumption DEF Accepted, U64
<1>5. n \in LcLife
  BY <1>1, <1>3, <1>4 DEF LcLife
<1>6. \A i \in Slots : SlotValid(n.slots[i], n.last_incarnation)
  <2> SUFFICES ASSUME NEW i \in Slots, i # e.slot
               PROVE  SlotValid(n.slots[i], n.last_incarnation)
    BY <1>1, <1>2, <1>3
  <2>1. n.slots[i] = life.slots[i] /\ SlotValid(life.slots[i], life.last_incarnation)
    BY <1>3 DEF tcs_lc_valid
  <2> QED BY <2>1, <1>3, <1>4 DEF SlotValid, LcSlot, U64
<1>7. DistinctIncarnations(n.slots)
  <2>1. CASE e.op = "RESERVE"
    <3>1. t.incarnation = life.last_incarnation + 1
      <4>1. life.slots[e.slot] \in LcSlot
        BY <1>2, <1>3
      <4>2. t = [life.slots[e.slot] EXCEPT !.state = "STARTING",
                                           !.incarnation = life.last_incarnation + 1]
        BY <2>1 DEF NextSlot
      <4> QED BY <4>1, <4>2 DEF LcSlot
    <3>2. \A i \in Slots : life.slots[i].incarnation \in 0..life.last_incarnation
      <4> SUFFICES ASSUME NEW i \in Slots
                   PROVE  life.slots[i].incarnation \in 0..life.last_incarnation
        OBVIOUS
      <4>1. SlotValid(life.slots[i], life.last_incarnation)
        BY DEF tcs_lc_valid
      <4> QED BY <4>1, <1>3 DEF SlotValid, UnusedSlot, U64
    <3> QED BY <3>1, <3>2, <1>2, <1>3 DEF DistinctIncarnations, tcs_lc_valid, U64
  <2>2. CASE e.op # "RESERVE"
    BY <2>2, <1>1, <1>2, <1>3 DEF DistinctIncarnations, tcs_lc_valid, OccupiedStates, LiveStates
  <2> QED BY <2>1, <2>2
<1>8. AtMostOneOccupied(n.slots)
  <2>1. CASE e.op = "RESERVE"
    BY <2>1, <1>2, <1>3 DEF Accepted, Quiescent, AtMostOneOccupied, OccupiedStates, LiveStates
  <2>2. CASE e.op # "RESERVE"
    BY <2>2, <1>1, <1>2, <1>3 DEF AtMostOneOccupied, tcs_lc_valid
  <2> QED BY <2>1, <2>2
<1> QED BY <1>5, <1>6, <1>7, <1>8 DEF tcs_lc_valid

(* The zero state the owner starts from is well-typed and valid.           *)
LEMMA ZeroLifeValid == ZeroLife \in LcLife /\ tcs_lc_valid(ZeroLife)
<1>1. UnusedSlot \in LcSlot
  BY UMAXAssumption DEF UnusedSlot, LcSlot, LcStates, U64
<1>2. ZeroLife \in LcLife
  BY <1>1, UMAXAssumption DEF ZeroLife, LcLife, U64
<1>3. \A i \in Slots : ZeroLife.slots[i] = UnusedSlot
  BY DEF ZeroLife
<1>4. tcs_lc_valid(ZeroLife)
  BY <1>3 DEF tcs_lc_valid, SlotValid, DistinctIncarnations, AtMostOneOccupied,
              UnusedSlot, OccupiedStates, LiveStates
<1> QED BY <1>2, <1>4

-----------------------------------------------------------------------------
(* The slots of a state as the abstract one-use slots see them.            *)
Phases(life) == [i \in Slots |-> PhaseOf(life.slots[i].state)]
Evidences(life) == [i \in Slots |-> EvidenceOf(life.slots[i])]

(* Untouched slots are fresh and have no evidence.                         *)
LEMMA ZeroLifePhases ==
  /\ Phases(ZeroLife) = [i \in Slots |-> "fresh"]
  /\ Evidences(ZeroLife) = [i \in Slots |-> {}]
<1>1. /\ UnusedSlot.state = "UNUSED"
      /\ UnusedSlot.stopped = FALSE /\ UnusedSlot.drained = FALSE
  BY DEF UnusedSlot
<1>2. PhaseOf("UNUSED") = "fresh"
  BY DEF PhaseOf, LiveStates
<1>3. EvidenceOf(UnusedSlot) = {}
  BY <1>1 DEF EvidenceOf
<1>4. \A i \in Slots : ZeroLife.slots[i] = UnusedSlot
  BY DEF ZeroLife
<1> QED BY <1>1, <1>2, <1>3, <1>4 DEF Phases, Evidences

(* What one event may look like from outside, on the phases p and evidence *)
(* v and their next values: nothing, slot i occupied while all others are  *)
(* fresh or retired, i closed, or a new piece of evidence for a closed i.  *)
Visible(p, v, p1, v1, i) ==
  \/ p1 = p /\ v1 = v
  \/ /\ \A j \in Slots : p[j] \in {"fresh", "retired"}
     /\ p[i] = "fresh" /\ p1 = [p EXCEPT ![i] = "live"] /\ v1 = v
  \/ p[i] = "live" /\ p1 = [p EXCEPT ![i] = "closed"] /\ v1 = v
  \/ \E k \in {"stop", "drain"} :
       /\ p[i] = "closed" /\ k \notin v[i]
       /\ v1 = [v EXCEPT ![i] = @ \cup {k}]
       /\ p1 = IF v[i] \cup {k} = {"stop", "drain"} THEN [p EXCEPT ![i] = "retired"] ELSE p

(* An accepted event of tcs_lc_apply is one of these.                      *)
LEMMA EventPhases ==
  ASSUME NEW life \in LcLife, NEW e \in LcEvent, NEW audit_ok \in BOOLEAN,
         tcs_lc_valid(life), Accepted(life, e, audit_ok)
  PROVE  /\ e.slot \in Slots
         /\ Visible(Phases(life), Evidences(life),
                    Phases(LcEffect(life, e)), Evidences(LcEffect(life, e)), e.slot)
<1> DEFINE next == LcEffect(life, e)
           p == Phases(life)
           q == Phases(next)
           v == Evidences(life)
           w == Evidences(next)
           i0 == e.slot
           s == life.slots[i0]
           n == NextSlot(life, e)
<1>1. /\ i0 \in Slots /\ e.op \in LcOps /\ s \in LcSlot
      /\ SlotValid(s, life.last_incarnation)
      /\ next.slots = [life.slots EXCEPT ![i0] = n]
      /\ life.slots \in [Slots -> LcSlot]
  BY DEF Accepted, LcLife, tcs_lc_valid, LcEffect
<1>2. /\ n.stopped = IF e.op = "STOPPED" THEN TRUE ELSE s.stopped
      /\ n.drained = IF e.op = "DRAINED" THEN TRUE ELSE s.drained
      /\ n.state = CASE e.op = "RESERVE"  -> "STARTING"
                     [] e.op = "STARTED"  -> "READY"
                     [] e.op = "ACTIVATE" -> "ACTIVE"
                     [] e.op = "CONTAIN"  -> "CLOSING"
                     [] e.op = "STOPPED" /\ s.drained -> "RETIRED"
                     [] e.op = "DRAINED" /\ s.stopped -> "RETIRED"
                     [] OTHER -> s.state
  <2>1. i0 \in Slots /\ e.op \in LcOps
    BY <1>1
  <2> QED BY <2>1, NextSlotFields
<1> HIDE DEF n
<1>3. /\ p[i0] = PhaseOf(s.state) /\ v[i0] = EvidenceOf(s)
      /\ q = [p EXCEPT ![i0] = PhaseOf(n.state)]
      /\ w = [v EXCEPT ![i0] = EvidenceOf(n)]
  BY <1>1 DEF Phases, Evidences
<1>4. p = [p EXCEPT ![i0] = p[i0]] /\ v = [v EXCEPT ![i0] = v[i0]]
  BY DEF Phases, Evidences
<1>5. CASE e.op \in {"STARTED", "ACTIVATE", "BEGIN", "COMPLETE"}
  <2>1. PhaseOf(n.state) = PhaseOf(s.state)
    BY <1>2, <1>5 DEF Accepted, PhaseOf, LiveStates
  <2>2. EvidenceOf(n) = EvidenceOf(s)
    BY <1>2, <1>5 DEF EvidenceOf
  <2> QED BY <1>1, <1>3, <1>4, <2>1, <2>2 DEF Visible
<1>6. CASE e.op = "RESERVE"
  <2>1. (\A i \in Slots : p[i] \in {"fresh", "retired"}) /\ p[i0] = "fresh"
    BY <1>1, <1>6 DEF Accepted, Quiescent, Phases, PhaseOf, LiveStates
  <2>2. PhaseOf(n.state) = "live"
    BY <1>2, <1>6 DEF PhaseOf, LiveStates
  <2>3. EvidenceOf(n) = EvidenceOf(s)
    BY <1>2, <1>6 DEF EvidenceOf
  <2> QED BY <1>1, <1>3, <1>4, <2>1, <2>2, <2>3 DEF Visible
<1>7. CASE e.op = "CONTAIN"
  <2>1. PhaseOf(s.state) = "live" /\ PhaseOf(n.state) = "closed"
    BY <1>2, <1>7 DEF Accepted, PhaseOf, LiveStates
  <2>2. EvidenceOf(n) = EvidenceOf(s)
    BY <1>2, <1>7 DEF EvidenceOf
  <2> QED BY <1>1, <1>3, <1>4, <2>1, <2>2 DEF Visible
<1>8. CASE e.op \in {"STOPPED", "DRAINED"}
  <2> DEFINE k == IF e.op = "STOPPED" THEN "stop" ELSE "drain"
  <2>1. s.state = "CLOSING" /\ ~(IF e.op = "STOPPED" THEN s.stopped ELSE s.drained)
    BY <1>8 DEF Accepted
  <2>2. PhaseOf("RETIRED") = "retired" /\ PhaseOf("CLOSING") = "closed"
    BY DEF PhaseOf, LiveStates
  <2>3. k \notin EvidenceOf(s) /\ EvidenceOf(n) = EvidenceOf(s) \cup {k}
    BY <1>2, <1>8, <2>1 DEF EvidenceOf
  <2>4. (EvidenceOf(s) \cup {k} = {"stop", "drain"}) <=> (n.state = "RETIRED")
    <3>1. /\ EvidenceOf(s) \subseteq {"stop", "drain"}
          /\ "stop" \in EvidenceOf(s) <=> s.stopped
          /\ "drain" \in EvidenceOf(s) <=> s.drained
      BY DEF EvidenceOf
    <3>2. CASE e.op = "STOPPED"
      <4>1. k = "stop" /\ (n.state = "RETIRED" <=> s.drained)
        BY <1>2, <2>1, <3>2
      <4> QED BY <3>1, <4>1
    <3>3. CASE e.op = "DRAINED"
      <4>1. k = "drain" /\ (n.state = "RETIRED" <=> s.stopped)
        BY <1>2, <2>1, <3>3
      <4> QED BY <3>1, <4>1
    <3> QED BY <1>8, <3>2, <3>3
  <2>5. n.state = "RETIRED" \/ n.state = "CLOSING"
    BY <1>2, <1>8, <2>1
  <2>6. /\ p[i0] = "closed" /\ k \notin v[i0] /\ w = [v EXCEPT ![i0] = @ \cup {k}]
    BY <1>3, <2>1, <2>2, <2>3
  <2>7. q = IF v[i0] \cup {k} = {"stop", "drain"} THEN [p EXCEPT ![i0] = "retired"] ELSE p
    BY <1>3, <1>4, <2>2, <2>4, <2>5, <2>6
  <2>8. k \in {"stop", "drain"}
    OBVIOUS
  <2> HIDE DEF p, q, v, w, k
  <2>9. Visible(p, v, q, w, i0)
    BY <2>6, <2>7, <2>8 DEF Visible
  <2> QED BY <1>1, <2>9 DEF p, q, v, w
<1> QED BY <1>1, <1>5, <1>6, <1>7, <1>8 DEF LcOps

-----------------------------------------------------------------------------
(* The reduction operators.                                                *)

ContainEvent(life, i) ==
  [op |-> "CONTAIN", slot |-> i, incarnation |-> life.slots[i].incarnation, sequence |-> 0]

(* The call inside the loop of tcs_rd_poll is never refused: the           *)
(* INVALID_STATE exit of the loop is dead code.                            *)
THEOREM ContainAccepted ==
  ASSUME NEW life \in LcLife, tcs_lc_valid(life), NEW i \in Slots,
         life.slots[i].state \in LiveStates
  PROVE  LcStatus(life, "DETECTOR", ContainEvent(life, i), FALSE) = "OK"
<1> DEFINE e == ContainEvent(life, i)
<1>1. /\ e.op = "CONTAIN" /\ e.slot = i /\ e.sequence = 0
      /\ e.incarnation = life.slots[i].incarnation
  BY DEF ContainEvent
<1>2. life.slots[i].incarnation # 0
  <2>1. SlotValid(life.slots[i], life.last_incarnation) /\ life.last_incarnation \in U64
    BY DEF tcs_lc_valid, LcLife
  <2> QED BY <2>1, UMAXAssumption DEF SlotValid, UnusedSlot, LiveStates, U64
<1> HIDE DEF e
<1>3. permitted("DETECTOR", e.op) /\ FieldsValid(e)
  BY <1>1, <1>2 DEF permitted, FieldsValid
<1>4. PhaseStatus(life, e, FALSE) = "OK"
  BY <1>1 DEF PhaseStatus
<1>5. LcStatus(life, "DETECTOR", e, FALSE) = "OK"
  BY <1>1, <1>3, <1>4 DEF LcStatus, LcOps
<1> QED BY <1>5 DEF e

-----------------------------------------------------------------------------
(* What the loop of tcs_rd_poll does to each slot.                         *)
LEMMA ContainAllSlots ==
  ASSUME NEW life \in LcLife, NEW I \in SUBSET Slots
  PROVE  LET n == ContainAll(life, I)
         IN /\ n.last_incarnation = life.last_incarnation
            /\ n.slots \in [Slots -> LcSlot]
            /\ n = [last_incarnation |-> n.last_incarnation, slots |-> n.slots]
            /\ \A i \in Slots :
                 LET s == life.slots[i]
                     t == n.slots[i]
                 IN /\ t.state = IF i \in I /\ s.state \in LiveStates THEN "CLOSING" ELSE s.state
                    /\ t.incarnation = s.incarnation /\ t.issued = s.issued
                    /\ t.pending = s.pending /\ t.stopped = s.stopped /\ t.drained = s.drained
                    /\ ~(i \in I /\ s.state \in LiveStates) => t = s
<1> DEFINE n == ContainAll(life, I)
           New(i) == IF i \in I /\ life.slots[i].state \in LiveStates
                     THEN [life.slots[i] EXCEPT !.state = "CLOSING"] ELSE life.slots[i]
<1>1. \A i \in Slots : NextSlot(life, ContainEvent(life, i))
                         = [life.slots[i] EXCEPT !.state = "CLOSING"]
  BY DEF NextSlot, ContainEvent
<1>2. n = [life EXCEPT !.slots = [i \in Slots |-> New(i)]]
  BY <1>1 DEF ContainAll, ContainEvent
<1>3. /\ life.slots \in [Slots -> LcSlot] /\ life.last_incarnation \in U64
      /\ life = [last_incarnation |-> life.last_incarnation, slots |-> life.slots]
  BY DEF LcLife
<1>4. n = [last_incarnation |-> life.last_incarnation, slots |-> [i \in Slots |-> New(i)]]
  BY <1>2, <1>3
<1>5. \A i \in Slots :
        /\ New(i) \in LcSlot
        /\ New(i).state = IF i \in I /\ life.slots[i].state \in LiveStates
                          THEN "CLOSING" ELSE life.slots[i].state
        /\ New(i).incarnation = life.slots[i].incarnation
        /\ New(i).issued = life.slots[i].issued
        /\ New(i).pending = life.slots[i].pending
        /\ New(i).stopped = life.slots[i].stopped
        /\ New(i).drained = life.slots[i].drained
        /\ ~(i \in I /\ life.slots[i].state \in LiveStates) => New(i) = life.slots[i]
  BY <1>3 DEF LcSlot, LcStates
<1> HIDE DEF New
<1>6. /\ n.last_incarnation = life.last_incarnation /\ n.slots \in [Slots -> LcSlot]
      /\ n = [last_incarnation |-> n.last_incarnation, slots |-> n.slots]
      /\ \A i \in Slots : n.slots[i] = New(i)
  BY <1>4, <1>5
<1> QED BY <1>5, <1>6

(* The loop keeps the lifecycle well-typed and valid, and leaves nothing   *)
(* inhibited live.                                                         *)
LEMMA ContainAllValid ==
  ASSUME NEW life \in LcLife, tcs_lc_valid(life), NEW I \in SUBSET Slots
  PROVE  /\ ContainAll(life, I) \in LcLife
         /\ tcs_lc_valid(ContainAll(life, I))
         /\ NoneInhibitedLive(ContainAll(life, I), I)
<1> DEFINE n == ContainAll(life, I)
<1>1. /\ n.last_incarnation = life.last_incarnation
      /\ n.slots \in [Slots -> LcSlot]
      /\ n = [last_incarnation |-> n.last_incarnation, slots |-> n.slots]
      /\ \A i \in Slots :
           /\ n.slots[i].state = IF i \in I /\ life.slots[i].state \in LiveStates
                                 THEN "CLOSING" ELSE life.slots[i].state
           /\ n.slots[i].incarnation = life.slots[i].incarnation
           /\ n.slots[i].issued = life.slots[i].issued
           /\ n.slots[i].pending = life.slots[i].pending
           /\ n.slots[i].stopped = life.slots[i].stopped
           /\ n.slots[i].drained = life.slots[i].drained
           /\ ~(i \in I /\ life.slots[i].state \in LiveStates) => n.slots[i] = life.slots[i]
  BY ContainAllSlots
<1> HIDE DEF n
<1>2. n \in LcLife
  BY <1>1 DEF LcLife
<1>3. \A i \in Slots : SlotValid(n.slots[i], n.last_incarnation)
  <2> SUFFICES ASSUME NEW i \in Slots PROVE SlotValid(n.slots[i], n.last_incarnation)
    OBVIOUS
  <2>1. SlotValid(life.slots[i], life.last_incarnation)
    BY DEF tcs_lc_valid
  <2>2. CASE i \in I /\ life.slots[i].state \in LiveStates
    BY <1>1, <2>1, <2>2 DEF SlotValid, UnusedSlot, LiveStates
  <2>3. CASE ~(i \in I /\ life.slots[i].state \in LiveStates)
    BY <1>1, <2>1, <2>3
  <2> QED BY <2>2, <2>3
<1>4. \A i \in Slots : /\ n.slots[i].state = "UNUSED" <=> life.slots[i].state = "UNUSED"
                       /\ n.slots[i].state \in OccupiedStates
                          <=> life.slots[i].state \in OccupiedStates
  BY <1>1 DEF LiveStates, OccupiedStates
<1>5. DistinctIncarnations(n.slots) /\ AtMostOneOccupied(n.slots)
  BY <1>1, <1>4 DEF tcs_lc_valid, DistinctIncarnations, AtMostOneOccupied
<1>6. NoneInhibitedLive(n, I)
  BY <1>1 DEF NoneInhibitedLive, LiveStates
<1>7. tcs_lc_valid(n)
  BY <1>3, <1>5 DEF tcs_lc_valid
<1> QED BY <1>2, <1>6, <1>7 DEF n

-----------------------------------------------------------------------------
(* What a poll leaves: a valid state, with the sample's requests added to  *)
(* the latch and nothing inhibited still live.                             *)
LEMMA PollFacts ==
  ASSUME NEW c \in RdControl, tcs_rd_valid(c), NEW w \in Words
  PROVE  LET p == tcs_rd_poll(c, w)
         IN /\ p \in RdControl /\ tcs_rd_valid(p)
            /\ p.inhibited = c.inhibited \cup Requested(w)
            /\ p.life = ContainAll(c.life, p.inhibited)
            /\ p.input_fault = (c.input_fault \/ Malformed(w))
<1> DEFINE I == c.inhibited \cup Requested(w)
           n == ContainAll(c.life, I)
           f == c.input_fault \/ Malformed(w)
           p == tcs_rd_poll(c, w)
<1>1. /\ c.life \in LcLife /\ c.inhibited \in SUBSET Slots /\ c.input_fault \in BOOLEAN
      /\ tcs_lc_valid(c.life) /\ (c.input_fault => c.inhibited = Slots)
  BY DEF RdControl, tcs_rd_valid
<1>2. Requested(w) \in SUBSET Slots /\ (Malformed(w) => Requested(w) = Slots)
  BY DEF Requested, Malformed, Words
<1>3. I \in SUBSET Slots /\ f \in BOOLEAN /\ (f => I = Slots)
  BY <1>1, <1>2 DEF Malformed
<1>4. n \in LcLife /\ tcs_lc_valid(n) /\ NoneInhibitedLive(n, I)
  BY <1>1, <1>3, ContainAllValid
<1>5. p = [life |-> n, inhibited |-> I, input_fault |-> f]
  BY DEF tcs_rd_poll
<1> HIDE DEF n, I, f, p
<1>6. p.life = n /\ p.inhibited = I /\ p.input_fault = f /\ p \in RdControl
  BY <1>3, <1>4, <1>5 DEF RdControl
<1>7. tcs_rd_valid(p)
  BY <1>3, <1>4, <1>6 DEF tcs_rd_valid
<1> QED BY <1>6, <1>7 DEF p, n, I, f

(* What an event accepted after the poll leaves: RESERVE and ACTIVATE were *)
(* refused on inhibited slots and nothing else makes a slot live, so an    *)
(* inhibited slot can only be stopped or drained.                          *)
LEMMA EventFacts ==
  ASSUME NEW p \in RdControl, tcs_rd_valid(p), NEW actor, NEW e \in LcEvent,
         NEW audit_ok \in BOOLEAN, RdStatus(p, actor, e, audit_ok) = "OK"
  PROVE  LET q == [p EXCEPT !.life = LcEffect(p.life, e)]
         IN /\ Accepted(p.life, e, audit_ok)
            /\ q \in RdControl /\ tcs_rd_valid(q)
            /\ q.life = LcEffect(p.life, e) /\ q.inhibited = p.inhibited
            /\ q.input_fault = p.input_fault
            /\ e.slot \in p.inhibited => e.op \in {"STOPPED", "DRAINED"}
<1> DEFINE n == LcEffect(p.life, e)
           q == [p EXCEPT !.life = n]
<1>1. /\ p.life \in LcLife /\ p.inhibited \in SUBSET Slots /\ p.input_fault \in BOOLEAN
      /\ p = [life |-> p.life, inhibited |-> p.inhibited, input_fault |-> p.input_fault]
      /\ tcs_lc_valid(p.life) /\ (p.input_fault => p.inhibited = Slots)
      /\ NoneInhibitedLive(p.life, p.inhibited)
  BY DEF RdControl, tcs_rd_valid
<1>2. /\ LcStatus(p.life, actor, e, audit_ok) = "OK"
      /\ ~(e.slot \in p.inhibited /\ e.op \in {"RESERVE", "ACTIVATE"})
  BY DEF RdStatus
<1>3. Accepted(p.life, e, audit_ok)
  BY <1>2, AcceptedFacts
<1>4. e.slot \in p.inhibited => e.op \in {"STOPPED", "DRAINED"}
  BY <1>1, <1>2, <1>3 DEF Accepted, NoneInhibitedLive, LiveStates, LcOps
<1>5. n \in LcLife /\ tcs_lc_valid(n)
  BY <1>1, <1>3, LcEffectValid
<1>6. /\ n.slots = [p.life.slots EXCEPT ![e.slot] = NextSlot(p.life, e)]
      /\ p.life.slots \in [Slots -> LcSlot]
      /\ e.slot \in Slots /\ e.op \in LcOps
  BY <1>1, <1>3 DEF LcEffect, LcLife, Accepted
<1>7. NoneInhibitedLive(n, p.inhibited)
  <2> SUFFICES ASSUME NEW i \in p.inhibited PROVE n.slots[i].state \notin LiveStates
    BY DEF NoneInhibitedLive
  <2>1. CASE i # e.slot
    BY <1>1, <1>6, <2>1 DEF NoneInhibitedLive
  <2>2. CASE i = e.slot
    <3>1. p.life.slots[i].state = "CLOSING" /\ e.op \in {"STOPPED", "DRAINED"}
      BY <1>3, <1>4, <2>2 DEF Accepted
    <3>2. n.slots[i] = NextSlot(p.life, e)
      BY <1>6, <2>2
    <3>3. NextSlot(p.life, e).state \in {"CLOSING", "RETIRED"}
      BY <1>1, <1>6, <2>2, <3>1, NextSlotFields
    <3> QED BY <3>2, <3>3 DEF LiveStates
  <2> QED BY <2>1, <2>2
<1> HIDE DEF n
<1>8. /\ q = [life |-> n, inhibited |-> p.inhibited, input_fault |-> p.input_fault]
      /\ q.life = n /\ q.inhibited = p.inhibited /\ q.input_fault = p.input_fault
  BY <1>1
<1>9. q \in RdControl
  BY <1>1, <1>5, <1>8 DEF RdControl
<1>10. tcs_rd_valid(q)
  BY <1>1, <1>5, <1>7, <1>8 DEF tcs_rd_valid
<1> QED BY <1>3, <1>4, <1>8, <1>9, <1>10 DEF n

(* A poll that asks for nothing changes nothing: the event that follows a  *)
(* poll may poll again with an empty sample.                               *)
LEMMA PollNothing ==
  ASSUME NEW c \in RdControl, tcs_rd_valid(c)
  PROVE  tcs_rd_poll(c, {}) = c
<1>1. /\ c = [life |-> c.life, inhibited |-> c.inhibited, input_fault |-> c.input_fault]
      /\ c.life \in LcLife /\ c.inhibited \in SUBSET Slots /\ c.input_fault \in BOOLEAN
      /\ c.life = [last_incarnation |-> c.life.last_incarnation, slots |-> c.life.slots]
      /\ c.life.slots \in [Slots -> LcSlot]
      /\ NoneInhibitedLive(c.life, c.inhibited)
  BY DEF RdControl, LcLife, tcs_rd_valid
<1>2. Requested({}) = {} /\ ~Malformed({}) /\ {} \in Words
  BY DEF Requested, Malformed, Words
<1>3. ContainAll(c.life, c.inhibited) = c.life
  <2>1. \A i \in Slots : ~(i \in c.inhibited /\ c.life.slots[i].state \in LiveStates)
    BY <1>1 DEF NoneInhibitedLive
  <2> DEFINE n == ContainAll(c.life, c.inhibited)
  <2>2. /\ n.last_incarnation = c.life.last_incarnation
        /\ n.slots \in [Slots -> LcSlot]
        /\ n = [last_incarnation |-> n.last_incarnation, slots |-> n.slots]
        /\ \A i \in Slots : n.slots[i] = c.life.slots[i]
    BY <1>1, <2>1, ContainAllSlots
  <2> HIDE DEF n
  <2>3. n.slots = c.life.slots
    BY <1>1, <2>2
  <2>4. n = c.life
    BY <1>1, <2>2, <2>3
  <2> QED BY <2>4 DEF n
<1>4. tcs_rd_poll(c, {}) = [life |-> c.life, inhibited |-> c.inhibited,
                            input_fault |-> c.input_fault]
  BY <1>1, <1>2, <1>3 DEF tcs_rd_poll
<1> QED BY <1>1, <1>4

(* Seen from outside, a poll closes the live slots it inhibits.            *)
LEMMA PollPhases ==
  ASSUME NEW c \in RdControl, tcs_rd_valid(c), NEW w \in Words
  PROVE  LET p == Phases(c.life)
             n == tcs_rd_poll(c, w).life
         IN \E C \in SUBSET {i \in Slots : p[i] = "live"} :
              /\ Phases(n) = [i \in Slots |-> IF i \in C THEN "closed" ELSE p[i]]
              /\ Evidences(n) = Evidences(c.life)
<1> DEFINE polled == tcs_rd_poll(c, w)
           C == {i \in polled.inhibited : c.life.slots[i].state \in LiveStates}
<1>1. /\ polled.life = ContainAll(c.life, polled.inhibited)
      /\ polled.inhibited \in SUBSET Slots /\ c.life \in LcLife
  <2>1. polled \in RdControl /\ polled.life = ContainAll(c.life, polled.inhibited)
    BY PollFacts
  <2> QED BY <2>1 DEF RdControl
<1> HIDE DEF polled
<1>2. \A i \in Slots :
        /\ polled.life.slots[i].state = IF i \in C THEN "CLOSING" ELSE c.life.slots[i].state
        /\ polled.life.slots[i].stopped = c.life.slots[i].stopped
        /\ polled.life.slots[i].drained = c.life.slots[i].drained
  BY <1>1, ContainAllSlots
<1>3. C \in SUBSET {i \in Slots : Phases(c.life)[i] = "live"}
  BY <1>1 DEF Phases, PhaseOf, LiveStates
<1>4. PhaseOf("CLOSING") = "closed"
  BY DEF PhaseOf, LiveStates
<1>5. Phases(polled.life) = [i \in Slots |-> IF i \in C THEN "closed" ELSE Phases(c.life)[i]]
  BY <1>2, <1>4 DEF Phases
<1>6. Evidences(polled.life) = Evidences(c.life)
  BY <1>2 DEF Evidences, EvidenceOf
<1> QED BY <1>3, <1>5, <1>6 DEF polled
=============================================================================
