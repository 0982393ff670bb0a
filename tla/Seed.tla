-------------------------------- MODULE Seed --------------------------------
(***************************************************************************)
(* The seed system: a driver (the console) that administers the policy     *)
(* server directly and reads the object through client and storage, with   *)
(* every decision recorded by the audit server before it takes effect.     *)
(*                                                                         *)
(* All calls are synchronous protected calls of the one driver, and each   *)
(* server handles one call at a time, so a call with the calls nested in   *)
(* it is one action.                                                       *)
(*                                                                         *)
(* released and replayed are history: the generation the last call got the *)
(* object for (0 if it did not), and the policy an auditor rebuilds by     *)
(* replaying the log.                                                      *)
(***************************************************************************)
EXTENDS Audit

CONSTANTS AdminRequests,        \* requests the driver sends to the policy server
          ReadRequests          \* words the driver sends to the client

ASSUME RequestsAssumption ==
  /\ AdminRequests \subseteq Request
  /\ ReadRequests \subseteq [object : {0, TCS_OBJECT, 43},
                             rights : {0, TCS_READ, TCS_WRITE}, generation : U64]

VARIABLES live, log, released, replayed

vars == <<live, log, released, replayed>>

TypeOK ==
  /\ live \in [Subjects -> Subject]
  /\ log \in Seq(Record)
  /\ Len(log) <= CAPACITY
  /\ released \in U64
  /\ replayed \in [Subjects -> Subject]

Init ==
  /\ live = ZeroPolicy
  /\ log = <<>>
  /\ released = 0
  /\ replayed = ZeroPolicy

(* An auditor trusts a record that says OK and repeats its effect.         *)
Replay(policy, record) ==
  IF record.decision # "OK" THEN policy
  ELSE [policy EXCEPT ![record.request.subject] = PolicyNext(@, record.request)]

-----------------------------------------------------------------------------
(* The policy server's handler of a request: decide on a candidate, record *)
(* the decision, commit.                                                   *)
Decide(actor, r) ==
  LET status   == PolicyStatus(live, actor, r)
      audit_ok == AuditOK(log)
      record   == [request |-> r, actor |-> actor, decision |-> status]
  IN /\ live' = tcs_policy_commit(live, tcs_policy_apply(live, actor, r), r, status, audit_ok)
     /\ log' = AuditAppend(log, record)
     /\ replayed' = IF audit_ok THEN Replay(replayed, record) ELSE replayed

AdminCall(r) ==
  /\ r.op \in Ops
  /\ Decide("ADMIN", r)
  /\ released' = 0

(* Client and storage forward the three words; storage names the subject   *)
(* itself, and replaces the value of an OK by the object's content.        *)
CheckRequest(q) ==
  [op |-> "CHECK", subject |-> Client, object |-> q.object, rights |-> q.rights,
   generation |-> q.generation]

Read(q) ==
  LET r     == CheckRequest(q)
      reply == CommitReply(tcs_policy_apply(live, "STORAGE", r), r,
                           PolicyStatus(live, "STORAGE", r), AuditOK(log))
  IN /\ Decide("STORAGE", r)
     /\ released' = IF reply.status = "OK" THEN q.generation ELSE 0

(* Self-status, from the policy server through storage and client to the   *)
(* asker.  A message is a snapshot with its four words or a plain reply;   *)
(* a plain reply never counts as a snapshot.                               *)
tcs_policy_self_status(policy, actor) ==
  IF actor # "STORAGE" THEN [status |-> "DENIED"]
  ELSE IF ~tcs_snapshot_valid(policy[Client]) THEN [status |-> "BAD_MESSAGE"]
  ELSE [status |-> "OK", self |-> policy[Client]]

tcs_snapshot_reply(s) ==
  IF s.status = "OK" /\ tcs_snapshot_valid(s.self) THEN [label |-> "SNAPSHOT", self |-> s.self]
  ELSE [label |-> "REPLY", status |-> IF s.status = "OK" THEN "BAD_MESSAGE" ELSE s.status]

tcs_snapshot_response(msg) ==
  IF msg.label = "REPLY"
  THEN [status |-> IF msg.status = "OK" THEN "BAD_MESSAGE" ELSE msg.status]
  ELSE IF tcs_snapshot_valid(msg.self) THEN [status |-> "OK", self |-> msg.self]
  ELSE [status |-> "BAD_MESSAGE"]

SelfStatus(actor) ==
  tcs_snapshot_response(tcs_snapshot_reply(tcs_policy_self_status(live, actor)))

(* Calls that reach no decision and leave no record: self-status and the   *)
(* audit queries, and messages a handler refuses for their channel, label  *)
(* or length.                                                              *)
NoDecision ==
  /\ released' = 0
  /\ UNCHANGED <<live, log, replayed>>

Next ==
  \/ \E r \in AdminRequests : AdminCall(r)
  \/ \E q \in ReadRequests : Read(q)
  \/ NoDecision

Spec == Init /\ [][Next]_vars

-----------------------------------------------------------------------------
(* All state is well formed, the log within its capacity, and every        *)
(* subject is in a state tcs_snapshot_valid accepts, so that self-status   *)
(* is always available to the client and is what is in force, through      *)
(* saturation and audit exhaustion, and to nobody else.                    *)
SnapshotsValid ==
  /\ TypeOK
  /\ \A s \in Subjects : tcs_snapshot_valid(live[s])
  /\ SelfStatus("STORAGE") = [status |-> "OK", self |-> live[Client]]
  /\ SelfStatus("ADMIN") = [status |-> "DENIED"]

(* The log explains the authority in force.  Until the log is full,        *)
(* replaying it gives the live policy; afterwards a subject may only have  *)
(* been reduced beyond what the log says.                                  *)
AuditExplains ==
  \A s \in Subjects :
     \/ live[s] = replayed[s]
     \/ /\ Len(log) = CAPACITY
        /\ live[s].state # "ACTIVE"
        /\ live[s].generation >= replayed[s].generation
        /\ replayed[s].state = "QUARANTINED" => live[s].state = "QUARANTINED"

(* No authority without its record: a step that releases the object, opens *)
(* a session or lifts a quarantine appends the OK record of that decision. *)
NothingUnrecorded ==
  [][LET recorded(op, s) == /\ Len(log') = Len(log) + 1
                            /\ log'[Len(log')].decision = "OK"
                            /\ log'[Len(log')].request.op = op
                            /\ log'[Len(log')].request.subject = s
     IN /\ released' # 0 => recorded("CHECK", Client)
        /\ \A s \in Subjects :
             /\ live'[s].state = "ACTIVE" /\ live'[s] # live[s] => recorded("GRANT", s)
             /\ live[s].state = "QUARANTINED" /\ live'[s].state # "QUARANTINED"
                => recorded("RESTORE", s)
    ]_vars

-----------------------------------------------------------------------------
(* The refinement mapping to the sessions a driver reasons about.          *)
Abstract == INSTANCE Sessions WITH
  session  <- [s \in Subjects |-> IF live[s].state = "ACTIVE" THEN live[s].generation ELSE 0],
  floor    <- [s \in Subjects |-> live[s].generation],
  isolated <- {s \in Subjects : live[s].state = "QUARANTINED"}

(* The servers together implement numbered sessions: stale, revoked and    *)
(* quarantined sessions release nothing, and no number is opened twice.    *)
Refines == Abstract!Spec
=============================================================================
