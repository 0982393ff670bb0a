-------------------------------- MODULE Admin --------------------------------
(***************************************************************************)
(* Signed administration, as operators: admission of a signed packet       *)
(* (lib/admin.c), conditional execution by the policy owner                *)
(* (lib/admin_policy.c) and validation of the receipt it returns           *)
(* (lib/admin_receipt.c).                                                  *)
(*                                                                         *)
(* A packet is what its bytes say and whether its signature is the         *)
(* authorised key's over exactly those bytes; the signature scheme itself  *)
(* is external.  Realm and boot identity together are the context.         *)
(***************************************************************************)
EXTENDS Policy

CONSTANTS Contexts, NoContext

ASSUME ContextsAssumption == NoContext \notin Contexts

Command == [sequence : U64, expected_generation : U64,
            op : Ops \cup {"UNDEFINED"}, subject : Subjects \cup {NoSubject},
            object : {0, TCS_OBJECT, 43}, rights : {0, TCS_READ, TCS_WRITE}]

Packet == [domain_ok : BOOLEAN, context : Contexts, command : Command, signed : BOOLEAN]

AdminState == [initialized : BOOLEAN, context : Contexts \cup {NoContext},
               next_sequence : U64, pending_sequence : U64, exhausted : BOOLEAN]

Receipt == [command : Command, decision : Statuses, audit_ok : BOOLEAN,
            applied : BOOLEAN, post : Subject]

(* The policy request of a command; its own generation word is zero.       *)
RequestOf(c) == [op |-> c.op, subject |-> c.subject, object |-> c.object,
                 rights |-> c.rights, generation |-> 0]

-----------------------------------------------------------------------------
(* lib/admin.c *)

valid(c) ==
  /\ c.sequence # 0
  /\ c.subject \in Subjects
  /\ \/ c.op = "GRANT" /\ c.object = TCS_OBJECT /\ c.rights = TCS_READ
     \/ c.op \in Controls /\ c.object = 0 /\ c.rights = 0

(* tcs_admin_init on the zero state; without a usable launch context the   *)
(* state stays zero and every packet is answered NOT_READY.                *)
tcs_admin_init(context) ==
  [initialized |-> TRUE, context |-> context, next_sequence |-> 1,
   pending_sequence |-> 0, exhausted |-> FALSE]

ZeroAdmin ==
  [initialized |-> FALSE, context |-> NoContext, next_sequence |-> 0,
   pending_sequence |-> 0, exhausted |-> FALSE]

(* Mutants: a packet for another launch is taken; so is one that arrives   *)
(* while a command is pending.                                             *)
AdmitAnywhereMutant(a, p) ==
  IF ~a.initialized THEN "NOT_READY"
  ELSE IF a.pending_sequence # 0 THEN "BUSY"
  ELSE IF a.exhausted THEN "EXHAUSTED"
  ELSE IF ~p.domain_ok \/ ~valid(p.command) THEN "BAD_PACKET"
  ELSE IF p.command.sequence # a.next_sequence THEN "REPLAY"
  ELSE IF ~p.signed THEN "BAD_SIGNATURE"
  ELSE "ACCEPTED"
AdmitPendingMutant(a, p) ==
  IF ~a.initialized THEN "NOT_READY"
  ELSE IF a.exhausted THEN "EXHAUSTED"
  ELSE IF ~p.domain_ok \/ ~valid(p.command) THEN "BAD_PACKET"
  ELSE IF p.context # a.context THEN "BAD_CONTEXT"
  ELSE IF p.command.sequence # a.next_sequence THEN "REPLAY"
  ELSE IF ~p.signed THEN "BAD_SIGNATURE"
  ELSE "ACCEPTED"

AdmitStatus(a, p) ==
  IF ~a.initialized THEN "NOT_READY"
  ELSE IF a.pending_sequence # 0 THEN "BUSY"
  ELSE IF a.exhausted THEN "EXHAUSTED"
  ELSE IF ~p.domain_ok \/ ~valid(p.command) THEN "BAD_PACKET"
  ELSE IF p.context # a.context THEN "BAD_CONTEXT"
  ELSE IF p.command.sequence # a.next_sequence THEN "REPLAY"
  ELSE IF ~p.signed THEN "BAD_SIGNATURE"
  ELSE "ACCEPTED"

(* Mutants: the last sequence is not the end; the sequence is not consumed.*)
AdmitOverflowMutant(a, p) ==
  IF AdmitStatus(a, p) # "ACCEPTED" THEN a
  ELSE [a EXCEPT !.pending_sequence = p.command.sequence, !.next_sequence = @ + 1]
AdmitKeepsMutant(a, p) ==
  IF AdmitStatus(a, p) # "ACCEPTED" THEN a
  ELSE [a EXCEPT !.pending_sequence = p.command.sequence]

(* Admission consumes the sequence before anything is forwarded.           *)
tcs_admin_admit(a, p) ==
  IF AdmitStatus(a, p) # "ACCEPTED" THEN a
  ELSE [a EXCEPT !.pending_sequence = p.command.sequence,
                 !.exhausted = (p.command.sequence = UMAX),
                 !.next_sequence = IF p.command.sequence = UMAX THEN @ ELSE @ + 1]

(* Mutant: a completed command stays pending.                              *)
CompleteMutant(a, sequence) == a

tcs_admin_complete(a, sequence) ==
  IF a.initialized /\ sequence # 0 /\ a.pending_sequence = sequence
  THEN [a EXCEPT !.pending_sequence = 0] ELSE a

-----------------------------------------------------------------------------
(* lib/admin_policy.c: the generation precondition, then the policy core.  *)

CompareStatus(policy, c) ==
  IF c.sequence = 0 \/ c.subject \notin Subjects \/ c.op \notin Ops \ {"CHECK"}
  THEN "BAD_MESSAGE"
  ELSE IF policy[c.subject].generation # c.expected_generation THEN "STALE"
  ELSE PolicyStatus(policy, "ADMIN", RequestOf(c))

tcs_policy_admin_compare_apply(policy, c) ==
  IF CompareStatus(policy, c) = "OK"
  THEN tcs_policy_apply(policy, "ADMIN", RequestOf(c)) ELSE policy

-----------------------------------------------------------------------------
(* lib/admin_receipt.c *)

(* The policy owner repeats the test admission makes of a command.         *)
tcs_admin_execution_valid(c) == valid(c)

(* What the decision of a refused command says about the state it leaves.  *)
RefusalConsistent(c, r) ==
  \/ r.decision = "ISOLATED" /\ c.op = "GRANT" /\ r.post.state = "QUARANTINED"
  \/ r.decision = "DENIED" /\ c.op = "RESTORE" /\ r.post.state # "QUARANTINED"
  \/ /\ r.decision = "EXHAUSTED" /\ c.op = "GRANT"
     /\ r.post.generation = UMAX /\ r.post.state # "QUARANTINED"

(* Mutant: an unaudited grant is believed only of a restricted subject.    *)
UnappliedMutant(c, r) ==
  IF c.op = "RESTORE" THEN r.post.state = "QUARANTINED"
                      ELSE c.op = "GRANT" /\ r.post.state = "RESTRICTED"

(* What an accepted but unaudited command leaves.                          *)
UnappliedConsistent(c, r) ==
  IF c.op = "RESTORE" THEN r.post.state = "QUARANTINED"
                      ELSE c.op = "GRANT" /\ r.post.state # "QUARANTINED"

AppliedConsistent(c, r) ==
  CASE c.op = "GRANT"      -> r.post.state = "ACTIVE"
    [] c.op = "QUARANTINE" -> r.post.state = "QUARANTINED"
    [] c.op = "RESTORE"    -> r.post.state = "RESTRICTED"
    [] OTHER               -> r.post.state # "ACTIVE"

AcceptanceConsistent(c, r) ==
  /\ ~(c.op = "GRANT" /\ c.expected_generation = UMAX)
  /\ r.post.generation = IF r.applied THEN Bump(c.expected_generation)
                                      ELSE c.expected_generation
  /\ IF r.applied THEN AppliedConsistent(c, r) ELSE UnappliedConsistent(c, r)

tcs_admin_receipt_valid(c, r) ==
  /\ tcs_admin_execution_valid(c)
  /\ r.command = c
  /\ tcs_snapshot_valid(r.post)
  /\ r.applied <=> Commits(RequestOf(c), r.decision, r.audit_ok)
  /\ CASE r.decision = "STALE" -> r.post.generation # c.expected_generation
       [] r.decision = "OK"    -> AcceptanceConsistent(c, r)
       [] OTHER -> /\ r.post.generation = c.expected_generation
                   /\ RefusalConsistent(c, r)
=============================================================================
