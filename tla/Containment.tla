---------------------------- MODULE Containment ----------------------------
(***************************************************************************)
(* The containment test image (tests/containment): a supervisor that owns  *)
(* the reduction latch and two child workers, a broker that ends in a call *)
(* it never answers, the caller stuck in that call, and the observer that  *)
(* publishes a reduction and notifies the supervisor.                      *)
(*                                                                         *)
(* The supervisor makes no call of its own, so each of its handlers is one *)
(* step; the broker's handlers are two, its call to the supervisor and the *)
(* reply.  A child that the supervisor has stopped takes no step, and a    *)
(* call it was waiting in is cancelled by the kernel.  The counters that   *)
(* the loops write and the UART of the observer are left out.              *)
(***************************************************************************)
EXTENDS Reduction, Sequences, FiniteSetsExt

CONSTANTS A, B, Caller, Nobody

ASSUME ContainmentAssumption == Slots = {A, B} /\ A # B /\ {Caller, Nobody} \cap Slots = {}

VARIABLES
  sp,        \* the supervisor: control, failed, running children, receipt
  mailbox,   \* the shared request word
  notice,    \* the supervisor's pending notification
  br,        \* the broker: client, its supervisor's answer, br_inc, br_pending
  cl,        \* the caller: phase, pending notification, what it waits for
  wk,        \* each worker: what it is doing, wk_inc, pending notification
  ob         \* the observer: ob_step, where in it, its next probe, ob_failed

vars == <<sp, mailbox, notice, br, cl, wk, ob>>

Event(op, i, inc, seq) == [op |-> op, slot |-> i, incarnation |-> inc, sequence |-> seq]

-----------------------------------------------------------------------------
(* The supervisor.                                                         *)

sp_fail(s) == [s EXCEPT !.failed = TRUE, !.running = {}]

Stopped(c, i) == Event("STOPPED", i, c.life.slots[i].incarnation, c.life.slots[i].issued)

(* Mutant: what to stop is decided before the requests are read.           *)
sp_syncMutant(s, sample, notification) ==
  LET stops  == tcs_rd_stop_mask(s.control)
      polled == tcs_rd_poll(s.control, sample)
      Confirm(i, c) == tcs_rd_apply(c, {}, "SUPERVISOR", Stopped(c, i), FALSE)
  IN IF s.failed THEN s
     ELSE [s EXCEPT !.running = @ \ stops,
                    !.control = FoldSet(Confirm, polled, stops),
                    !.receipt = IF notification THEN @ \cup stops ELSE @]

(* Poll, stop what the poll has closed, and confirm each stop.  The stops  *)
(* touch different slots.                                                  *)
sp_sync(s, sample, notification) ==
  LET polled == tcs_rd_poll(s.control, sample)
      stops  == tcs_rd_stop_mask(polled)
      Confirm(i, c) == tcs_rd_apply(c, {}, "SUPERVISOR", Stopped(c, i), FALSE)
  IN IF s.failed THEN s
     ELSE IF \/ ~tcs_rd_valid(s.control)
             \/ \E i \in stops : RdStatus(polled, "SUPERVISOR", Stopped(polled, i), FALSE) # "OK"
     THEN sp_fail(s)
     ELSE [s EXCEPT !.running = @ \ stops,
                    !.control = FoldSet(Confirm, polled, stops),
                    !.receipt = IF notification THEN @ \cup stops ELSE @]

Reply(s, status, value) == [sp |-> s, status |-> status, value |-> value]

(* An event the supervisor applies for a caller; value is the slot's       *)
(* incarnation, or the ticket of a BEGIN.                                  *)
Applied(s, actor, e, audit_ok) ==
  LET status == RdStatus(s.control, actor, e, audit_ok)
      next   == [s EXCEPT !.control = tcs_rd_apply(@, {}, actor, e, audit_ok),
                          !.running = IF status = "OK" /\ e.op = "RESERVE"
                                      THEN @ \cup {e.slot} ELSE @]
      slot   == next.control.life.slots[e.slot]
  IN Reply(next, status,
           IF status # "OK" THEN 0
           ELSE IF e.op = "BEGIN" THEN slot.issued ELSE slot.incarnation)

(* protected: every request first synchronises.  CONTROL comes from the    *)
(* observer, the others from the broker; no drain is offered.              *)
protected(label, i, x) ==
  LET s   == sp_sync(sp, mailbox, FALSE)
      inc == s.control.life.slots[i].incarnation
      asks == CASE label = "CONTROL" -> <<"ADMIN", Event(x, i, IF x = "RESERVE" THEN 0 ELSE inc, 0)>>
                [] label = "READY"   -> <<"SUPERVISOR", Event("STARTED", i, inc, 0)>>
                [] label = "BEGIN"   -> <<"BROKER", Event("BEGIN", i, x, 0)>>
  IN CASE s.failed -> Reply(s, "FAILURE", 0)
       [] ~s.failed /\ label = "STATUS" -> Reply(s, "SNAPSHOT", 0)
       [] ~s.failed /\ label = "VIEW"   -> Reply(s, "SLOT", s.control.life.slots[i])
       [] OTHER -> Applied(s, asks[1], asks[2], label = "CONTROL")

(* The notification callback.                                              *)
notified ==
  /\ notice
  /\ notice' = FALSE
  /\ sp' = sp_sync(sp, mailbox, TRUE)
  /\ UNCHANGED <<mailbox, br, cl, wk, ob>>

(* A fault of a child.                                                     *)
fault(i) ==
  /\ i \in sp.running
  /\ sp' = sp_fail(sp)
  /\ UNCHANGED <<mailbox, notice, br, cl, wk, ob>>

-----------------------------------------------------------------------------
(* Workers and caller up to their calls of the broker, and their returns.  *)

WorkerInit(i) ==
  /\ i \in sp.running /\ wk[i].pc = "init"
  /\ wk' = [wk EXCEPT ![i].pc = "hello"]
  /\ UNCHANGED <<sp, mailbox, notice, br, cl, ob>>

WorkerNotified(i) ==
  /\ i \in sp.running /\ wk[i].pc = "idle" /\ wk[i].kicked
  /\ wk' = [wk EXCEPT ![i].kicked = FALSE, ![i].pc = IF wk[i].inc # 0 THEN "work" ELSE "idle"]
  /\ UNCHANGED <<sp, mailbox, notice, br, cl, ob>>

CallerNotified ==
  /\ cl.pc = "idle" /\ cl.kicked
  /\ cl' = CASE cl.phase = 0 -> [phase |-> 0, kicked |-> FALSE, pc |-> "kick"]
             [] cl.phase = 1 -> [phase |-> 2, kicked |-> FALSE, pc |-> "hang"]
             [] OTHER        -> [cl EXCEPT !.kicked = FALSE]
  /\ UNCHANGED <<sp, mailbox, notice, br, wk, ob>>

WorkerReturn(w, status, value) ==
  IF w.pc = "hello" THEN [w EXCEPT !.pc = "idle", !.inc = IF status = "OK" THEN value ELSE 0]
  ELSE [w EXCEPT !.pc = IF status = "OK" /\ value = 1 THEN "spin" ELSE "ended"]

CallerReturn(status, value) ==
  [cl EXCEPT !.pc = "idle",
             !.phase = IF cl.pc = "hang" THEN 3
                       ELSE IF status = "OK" /\ value = 1 THEN 1 ELSE 99]

(* The broker's reply; a worker stopped meanwhile does not get it.         *)
Return(c, status, value, kick) ==
  /\ cl' = IF c = Caller THEN CallerReturn(status, value) ELSE cl
  /\ wk' = [i \in Slots |->
              IF i = c /\ i \in sp.running THEN WorkerReturn(wk[i], status, value)
              ELSE [wk[i] EXCEPT !.kicked = @ \/ (kick /\ i = A)]]

-----------------------------------------------------------------------------
(* The broker.                                                             *)

Waiting(c) == IF c = Caller THEN cl.pc \in {"kick", "hang"}
              ELSE c \in sp.running /\ wk[c].pc \in {"hello", "work"}

(* The early returns before the supervisor is asked.                       *)
Refusal(c) ==
  IF br.failed THEN "FAILURE"
  ELSE IF c # Caller /\ wk[c].pc = "hello" /\ br.inc[c] # 0 THEN "DENIED"
  ELSE IF c # Caller /\ wk[c].pc = "work" /\ (wk[c].inc # br.inc[c] \/ br.pending[c] # 0)
  THEN "STALE" ELSE "none"

BrokerTake(c) ==
  /\ br.client = Nobody /\ Waiting(c)
  /\ UNCHANGED <<mailbox, notice, ob>>
  /\ LET label == IF c = Caller THEN "VIEW" ELSE IF wk[c].pc = "hello" THEN "READY" ELSE "BEGIN"
         r == protected(label, IF c = Caller THEN A ELSE c, IF label = "BEGIN" THEN wk[c].inc ELSE 0)
     IN IF Refusal(c) # "none"
        THEN Return(c, Refusal(c), 0, FALSE) /\ UNCHANGED <<sp, br>>
        ELSE /\ sp' = r.sp
             /\ br' = [br EXCEPT !.client = c,
                                 !.asked = IF c = Caller THEN cl.pc ELSE wk[c].pc,
                                 !.status = r.status, !.value = r.value]
             /\ UNCHANGED <<cl, wk>>

(* After VIEW: the slot must be active and unclosed, and for KICK without  *)
(* a ticket, for HANG with the first one outstanding.                      *)
Ticket(s) == IF br.asked = "kick" THEN {s.issued, s.pending, br.pending[A]} = {0}
             ELSE {s.issued, s.pending, br.pending[A]} = {1}

Lively(s) == /\ s.state = "ACTIVE" /\ s.incarnation # 0 /\ s.incarnation = br.inc[A]
             /\ ~s.stopped /\ ~s.drained /\ Ticket(s)

Done(b) == [b EXCEPT !.client = Nobody, !.status = "none", !.value = 0, !.asked = "none"]

BrokerReply ==
  /\ br.client # Nobody
  /\ ~(br.asked = "hang" /\ br.status = "SLOT" /\ Lively(br.value))   \* it spins
  /\ UNCHANGED <<sp, mailbox, notice, ob>>
  /\ LET bad == \/ br.status = "FAILURE"
                \/ br.status = "OK" /\ br.value = 0
                \/ br.status = "OK" /\ br.asked = "work" /\ br.value # 1
     IN CASE bad -> /\ br' = [Done(br) EXCEPT !.failed = TRUE]
                    /\ Return(br.client, "FAILURE", 0, FALSE)
          [] ~bad /\ br.status = "SLOT" ->
                    /\ br' = Done(br)
                    /\ IF Lively(br.value) THEN Return(Caller, "OK", br.value.incarnation, TRUE)
                       ELSE Return(Caller, "BAD_STATE", 0, FALSE)
          [] ~bad /\ br.status # "SLOT" ->
                    /\ br' = LET c == br.client
                             IN IF br.status # "OK" THEN Done(br)
                                ELSE IF br.asked = "hello" THEN [Done(br) EXCEPT !.inc[c] = br.value]
                                ELSE [Done(br) EXCEPT !.pending[c] = br.value]
                    /\ Return(br.client, br.status, br.value, FALSE)

-----------------------------------------------------------------------------
(* The observer's five steps, each started by a "next" from its UART.      *)

ObControl ==
  /\ ob.pc = "ready" /\ ~ob.failed /\ ob.step \in {0, 1}
  /\ LET r == protected("CONTROL", A, IF ob.step = 0 THEN "RESERVE" ELSE "ACTIVATE")
     IN /\ sp' = r.sp
        /\ ob' = IF r.status # "OK" THEN [ob EXCEPT !.failed = TRUE]
                 ELSE IF ob.step = 0 THEN [ob EXCEPT !.step = 1, !.pc = "report"]
                 ELSE [ob EXCEPT !.pc = "notify"]
  /\ UNCHANGED <<mailbox, notice, br, cl, wk>>

ObWakeCaller ==
  /\ ~ob.failed /\ <<ob.step, ob.pc>> \in {<<1, "notify">>, <<2, "ready">>}
  /\ cl' = [cl EXCEPT !.kicked = TRUE]
  /\ ob' = [ob EXCEPT !.step = @ + 1, !.pc = "report"]
  /\ UNCHANGED <<sp, mailbox, notice, br, wk>>

(* The reduction: the release of the request bit, then the notification.   *)
ObPublish ==
  /\ ob.pc = "ready" /\ ~ob.failed /\ ob.step = 3
  /\ mailbox' = tcs_rd_publish(mailbox, {A})
  /\ ob' = [ob EXCEPT !.pc = "notify"]
  /\ UNCHANGED <<sp, notice, br, cl, wk>>

ObNotify ==
  /\ ob.step = 3 /\ ob.pc = "notify"
  /\ notice' = TRUE
  /\ ob' = [ob EXCEPT !.step = 4, !.pc = "report"]
  /\ UNCHANGED <<sp, mailbox, br, cl, wk>>

ob_waiting == ob.step >= 4 /\ sp.receipt = {}

(* ob_report, after a step or on a "status": no call to the supervisor     *)
(* between the publication and the receipt.                                *)
ObReport ==
  /\ ob.pc \in {"ready", "report"} /\ ~ob.failed
  /\ LET r == protected("STATUS", A, 0)
         bad == r.status # "SNAPSHOT" \/ r.sp.control.input_fault
     IN IF ob_waiting THEN sp' = sp /\ ob' = [ob EXCEPT !.pc = "ready"]
        ELSE IF ob.step >= 4 /\ sp.receipt # {A} THEN sp' = sp /\ ob' = [ob EXCEPT !.failed = TRUE]
        ELSE sp' = r.sp /\ ob' = [ob EXCEPT !.pc = "ready", !.failed = bad]
  /\ UNCHANGED <<mailbox, notice, br, cl, wk>>

(* The calls of step 4, in order, each with the refusal it must meet.      *)
Probes == <<<<"RESERVE", A, "DENIED">>, <<"ACTIVATE", A, "DENIED">>, <<"RESERVE", B, "BAD_STATE">>>>

(* One call of step 4; the first waits for the receipt, and an unexpected  *)
(* answer ends the step.                                                   *)
ObProbe ==
  /\ ~ob.failed /\ ob.step = 4
  /\ ob.pc = "probe" \/ (ob.pc = "ready" /\ sp.receipt = {A})
  /\ LET probe == Probes[ob.probe]
         r == protected("CONTROL", probe[2], probe[1])
     IN /\ sp' = r.sp
        /\ ob' = IF r.status # probe[3] THEN [ob EXCEPT !.failed = TRUE]
                 ELSE IF ob.probe < Len(Probes) THEN [ob EXCEPT !.probe = @ + 1, !.pc = "probe"]
                 ELSE [ob EXCEPT !.step = 5, !.pc = "report"]
  /\ UNCHANGED <<mailbox, notice, br, cl, wk>>

-----------------------------------------------------------------------------
Init ==
  /\ sp = [control |-> ZeroControl, failed |-> FALSE, running |-> {}, receipt |-> {}]
  /\ mailbox = {} /\ notice = FALSE
  /\ br = [client |-> Nobody, asked |-> "none", status |-> "none", value |-> 0, failed |-> FALSE,
           inc |-> [i \in Slots |-> 0], pending |-> [i \in Slots |-> 0]]
  /\ cl = [phase |-> 0, kicked |-> FALSE, pc |-> "idle"]
  /\ wk = [i \in Slots |-> [pc |-> "init", inc |-> 0, kicked |-> FALSE]]
  /\ ob = [step |-> 0, pc |-> "ready", probe |-> 1, failed |-> FALSE]

Next ==
  \/ notified
  \/ \E i \in Slots : fault(i) \/ WorkerInit(i) \/ WorkerNotified(i)
  \/ CallerNotified
  \/ \E c \in Slots \cup {Caller} : BrokerTake(c)
  \/ BrokerReply
  \/ ObControl \/ ObWakeCaller \/ ObPublish \/ ObNotify \/ ObReport \/ ObProbe

(* Only the supervisor, of full budget, and the observer between its two   *)
(* instructions are sure to run; the broker, the caller and the workers    *)
(* may each stop anywhere.                                                 *)
FairSpec == Init /\ [][Next]_vars /\ WF_vars(notified) /\ WF_vars(ObNotify)

-----------------------------------------------------------------------------
(* Once the request bit is published the worker ends up stopped for good,  *)
(* wherever the broker, the caller and the workers hang or are preempted,  *)
(* and without any further call to the supervisor: the notification alone  *)
(* is enough, and no reservation or late answer of the broker resumes it.  *)
Contained == (A \in mailbox) ~> [](A \notin sp.running)
=============================================================================
