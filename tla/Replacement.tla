---------------------------- MODULE Replacement ----------------------------
(***************************************************************************)
(* The lifecycle test image (tests/lifecycle): a supervisor that owns the  *)
(* lifecycle and the two workers, the broker through which the workers     *)
(* reach it, and the controller, which calls both.                         *)
(*                                                                         *)
(* The supervisor makes no call of its own, so each of its handlers is one *)
(* step; the broker's take one step per call to the supervisor and one for *)
(* the reply, and the controller, the workers and their faults run between *)
(* them.  The workers and the controller make the calls of their channels  *)
(* in any order and with any numbers; the scripts of the image are among   *)
(* those behaviours.  Whatever they do, a stopped worker takes no step and *)
(* the kernel cancels its call.                                            *)
(*                                                                         *)
(* A kick only notifies a worker, which may run anyway.  Statistics,       *)
(* reports and the UART of the controller are left out.                    *)
(***************************************************************************)
EXTENDS Lifecycle

CONSTANTS A, B, Controller, Nobody

ASSUME ReplacementAssumption ==
  Slots = {A, B} /\ A # B /\ {Controller, Nobody} \cap Slots = {} /\ Controller # Nobody

VARIABLES
  sv,       \* the supervisor: life, the children it lets run, failed, faults seen
  calls,    \* the call to the broker each client waits in
  br        \* the broker: client, its request, the answer to it, failed, inc, pending

vars == <<sv, calls, br>>

Event(op, i, inc, seq) == [op |-> op, slot |-> i, incarnation |-> inc, sequence |-> seq]
Reply(s, status, value) == [sv |-> s, status |-> status, value |-> value]

Request(label, i, inc, seq) == [label |-> label, slot |-> i, inc |-> inc, seq |-> seq]
NoCall == Request("NONE", Nobody, 0, 0)
Idle == [status |-> "NONE", value |-> 0]

Init ==
  /\ sv = [life |-> ZeroLife, running |-> {}, failed |-> FALSE, faults |-> 0]
  /\ calls = [c \in Slots \cup {Controller} |-> NoCall]
  /\ br = [client |-> Nobody, ask |-> NoCall, answer |-> Idle, failed |-> FALSE,
           inc |-> [i \in Slots |-> 0], pending |-> [i \in Slots |-> 0]]

-----------------------------------------------------------------------------
(* The supervisor.                                                         *)

sv_fail(s) == [s EXCEPT !.failed = TRUE, !.running = {}]

sv_apply(s, actor, e, audit_ok) ==
  LET status == LcStatus(s.life, actor, e, audit_ok)
      next   == [s EXCEPT !.life = tcs_lc_apply(@, actor, e, audit_ok)]
      slot   == next.life.slots[e.slot]
  IN Reply(next, status,
           CASE status # "OK"      -> 0
             [] status = "OK" /\ e.op = "BEGIN"    -> slot.pending
             [] status = "OK" /\ e.op = "COMPLETE" -> e.sequence
             [] OTHER -> slot.incarnation)

(* Close the gate, stop the child, confirm the stop.                       *)
sv_contain(s, i, actor) ==
  LET slot   == s.life.slots[i]
      closed == sv_apply(s, actor, Event("CONTAIN", i, slot.incarnation, 0), FALSE)
      done   == sv_apply([closed.sv EXCEPT !.running = @ \ {i}], "SUPERVISOR",
                         Event("STOPPED", i, slot.incarnation, slot.issued), FALSE)
  IN IF closed.status # "OK" THEN closed
     ELSE IF done.status # "OK" THEN [done EXCEPT !.sv = sv_fail(done.sv)]
     ELSE done

(* The controller's channel.  A reservation resumes the child.             *)
Control(s, op, i) ==
  LET inc == IF op = "RESERVE" THEN 0 ELSE s.life.slots[i].incarnation
      r   == sv_apply(s, "ADMIN", Event(op, i, inc, 0), TRUE)
  IN CASE s.failed -> Reply(s, "FAILURE", 0)
       [] ~s.failed /\ op = "CONTAIN" -> sv_contain(s, i, "ADMIN")
       [] ~s.failed /\ op # "CONTAIN" ->
            IF r.status = "OK" /\ op = "RESERVE" THEN [r EXCEPT !.sv.running = @ \cup {i}] ELSE r

(* The broker's channel: READY, VIEW, and the three events.  No drain      *)
(* before the stop.                                                        *)
Brokered(s, label, i, inc, seq) ==
  CASE s.failed -> Reply(s, "FAILURE", 0)
    [] ~s.failed /\ label = "VIEW" -> Reply(s, "SLOT", s.life.slots[i])
    [] ~s.failed /\ label = "READY" ->
         sv_apply(s, "SUPERVISOR", Event("STARTED", i, s.life.slots[i].incarnation, 0), FALSE)
    [] ~s.failed /\ label \in {"BEGIN", "COMPLETE", "DRAINED"} ->
         IF label = "DRAINED" /\ ~s.life.slots[i].stopped THEN Reply(s, "BAD_STATE", 0)
         ELSE sv_apply(s, "BROKER", Event(label, i, inc, seq), FALSE)

(* The kernel cancels the calls of the children just stopped.              *)
Supervise(s) ==
  /\ sv' = s
  /\ calls' = [c \in DOMAIN calls |->
                 IF c \in sv.running \ s.running THEN NoCall ELSE calls[c]]

(* A worker faults.  Only the first fault of the second worker, with its   *)
(* one ticket outstanding and the expected evidence, is contained; any     *)
(* other stops everything.                                                 *)
fault(i, expected) ==
  /\ i \in sv.running /\ calls[i] = NoCall
  /\ LET slot == sv.life.slots[i]
         valid == /\ ~sv.failed /\ sv.faults = 0 /\ i = B /\ expected
                  /\ slot.state = "ACTIVE" /\ slot.pending = 1
         r == sv_contain([sv EXCEPT !.faults = 1], i, "SUPERVISOR")
     IN Supervise(IF ~valid THEN sv_fail(sv)
                  ELSE IF r.status # "OK" THEN sv_fail(r.sv) ELSE r.sv)
  /\ UNCHANGED br

-----------------------------------------------------------------------------
(* The clients' calls.                                                     *)

ct_control(op, i) ==
  /\ calls[Controller] = NoCall
  /\ Supervise(Control(sv, op, i).sv)
  /\ UNCHANGED br

Call(c, request) ==
  /\ calls[c] = NoCall
  /\ calls' = [calls EXCEPT ![c] = request]
  /\ UNCHANGED <<sv, br>>

ct_broker(label, i) == Call(Controller, Request(label, i, 0, 0))

(* A worker's channel is its slot, whatever the message says.              *)
WorkerCall(i, label, inc, seq) ==
  /\ i \in sv.running
  /\ Call(i, Request(label, i, inc, seq))

-----------------------------------------------------------------------------
(* The broker.                                                             *)

(* The refusals before the supervisor is asked.                            *)
Refused(q) ==
  \/ br.failed
  \/ q.label \in {"KICK", "DRAIN"} /\ br.inc[q.slot] = 0
  \/ q.label = "HELLO" /\ br.inc[q.slot] # 0
  \/ q.label \in {"BEGIN", "COMPLETE"} /\ (q.inc = 0 \/ q.inc # br.inc[q.slot])
  \/ q.label = "COMPLETE" /\ (q.seq = 0 \/ q.seq # br.pending[q.slot])
  \/ q.label = "MALFORMED"

Return(c, b) ==
  /\ br' = [b EXCEPT !.client = Nobody, !.ask = NoCall, !.answer = Idle]
  /\ calls' = [calls EXCEPT ![c] = NoCall]
  /\ UNCHANGED sv

AskSupervisor(c, q, label, seq, b) ==
  LET r == Brokered(sv, label, q.slot, br.inc[q.slot], seq)
  IN /\ br' = [b EXCEPT !.client = c, !.ask = q,
                        !.answer = [status |-> r.status, value |-> r.value]]
     /\ Supervise(r.sv)

Take(c) ==
  /\ br.client = Nobody /\ calls[c] # NoCall
  /\ LET q == calls[c]
         label == CASE q.label \in {"KICK", "DRAIN"} -> "VIEW"
                    [] q.label = "HELLO" -> "READY"
                    [] OTHER -> q.label
     IN IF Refused(q) THEN Return(c, br)
        ELSE AskSupervisor(c, q, label, IF q.label = "COMPLETE" THEN q.seq ELSE 0, br)

(* br_view's own checks, then what a drain needs: closing, stopped, and    *)
(* the ticket the broker holds.                                            *)
Viewed == br.answer.status = "SLOT" /\ br.answer.value.incarnation = br.inc[br.ask.slot]

Drainable(i) ==
  LET view == br.answer.value
  IN /\ br.ask.label = "DRAIN" /\ Viewed
     /\ view.state = "CLOSING" /\ view.stopped /\ ~view.drained
     /\ view.pending = br.pending[i]

(* Mutant: the drain is confirmed and the ticket kept.                     *)
DrainMutant ==
  /\ br.client # Nobody
  /\ Drainable(br.ask.slot)
  /\ LET q == br.ask
     IN AskSupervisor(br.client, [q EXCEPT !.label = "DRAINED"], "DRAINED",
                      br.answer.value.issued, br)

(* The ticket is dropped, then the drain confirmed.                        *)
Drain ==
  /\ br.client # Nobody
  /\ Drainable(br.ask.slot)
  /\ LET q == br.ask
     IN AskSupervisor(br.client, [q EXCEPT !.label = "DRAINED"], "DRAINED",
                      br.answer.value.issued, [br EXCEPT !.pending[q.slot] = 0])

(* What the broker makes of the supervisor's answer, and its reply.  An    *)
(* uncertain answer is never retried.                                      *)
Finish ==
  /\ br.client # Nobody
  /\ ~Drainable(br.ask.slot)
  /\ LET q  == br.ask
         r  == br.answer
         ok == r.status = "OK"
         uncertain ==
           \/ r.status = "FAILURE"
           \/ q.label \in {"KICK", "DRAIN"} /\ ~Viewed
           \/ q.label = "DRAINED" /\ ~ok
           \/ q.label \in {"HELLO", "BEGIN", "COMPLETE"} /\ ok /\ r.value = 0
           \/ q.label = "COMPLETE" /\ ok /\ r.value # q.seq
     IN Return(br.client,
          CASE uncertain -> [br EXCEPT !.failed = TRUE]
            [] ~uncertain /\ ok /\ q.label = "HELLO"    -> [br EXCEPT !.inc[q.slot] = r.value]
            [] ~uncertain /\ ok /\ q.label = "BEGIN"    -> [br EXCEPT !.pending[q.slot] = r.value]
            [] ~uncertain /\ ok /\ q.label = "COMPLETE" -> [br EXCEPT !.pending[q.slot] = 0]
            [] OTHER -> br)

-----------------------------------------------------------------------------
Next ==
  \/ \E i \in Slots :
       \/ \E op \in {"RESERVE", "ACTIVATE", "CONTAIN"} : ct_control(op, i)
       \/ \E label \in {"KICK", "DRAIN"} : ct_broker(label, i)
       \/ \E label \in {"HELLO", "MALFORMED"} : WorkerCall(i, label, 0, 0)
       \/ \E inc \in U64 : WorkerCall(i, "BEGIN", inc, 0)
       \/ \E inc, seq \in U64 : WorkerCall(i, "COMPLETE", inc, seq)
       \/ \E expected \in BOOLEAN : fault(i, expected)
  \/ \E c \in DOMAIN calls : Take(c)
  \/ Drain
  \/ Finish

Spec == Init /\ [][Next]_vars

-----------------------------------------------------------------------------
(* A replacement runs alone and inherits nothing: while a worker runs, the *)
(* other one is stopped in the kernel, the broker holds no ticket of it    *)
(* and has answered its last call, whatever was in flight when it was      *)
(* contained.  Between calls broker and supervisor agree on every ticket,  *)
(* the children that run are those the lifecycle calls live, and the       *)
(* broker finds an answer uncertain only if the supervisor has failed.     *)
Handover ==
  /\ \A i, j \in Slots : i # j /\ j \in sv.running =>
       i \notin sv.running /\ br.pending[i] = 0 /\ br.client # i
  /\ br.client = Nobody /\ ~br.failed =>
       \A i \in Slots : br.pending[i] = sv.life.slots[i].pending
  /\ sv.running = IF sv.failed THEN {} ELSE {i \in Slots : sv.life.slots[i].state \in LiveStates}
  /\ br.failed => sv.failed
=============================================================================
