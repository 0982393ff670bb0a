------------------------------- MODULE Policy -------------------------------
(***************************************************************************)
(* The policy core of lib/policy.c, as operators on its state: one record  *)
(* per subject, and the decision and effect of one request.                *)
(*                                                                         *)
(* Subjects are the valid subject numbers (four in the code), NoSubject    *)
(* any other, Client is TCS_CLIENT_SUBJECT, UMAX is UINT64_MAX.            *)
(***************************************************************************)
EXTENDS Integers

CONSTANTS Subjects, NoSubject, Client, UMAX

ASSUME SubjectsAssumption == NoSubject \notin Subjects /\ Client \in Subjects
ASSUME UMAXAssumption == UMAX \in Nat \ {0}

U64 == 0..UMAX

TCS_OBJECT == 42
TCS_READ == 1
TCS_WRITE == 2

Controls == {"REVOKE", "QUARANTINE", "RESTORE"}
Reductions == {"REVOKE", "QUARANTINE"}
Ops == {"GRANT", "CHECK"} \cup Controls
Actors == {"ADMIN", "STORAGE"}
Statuses == {"OK", "DENIED", "BAD_MESSAGE", "STALE", "ISOLATED", "AUDIT_FULL", "EXHAUSTED"}

Subject == [state : {"RESTRICTED", "ACTIVE", "QUARANTINED"}, generation : U64,
            object : {0, TCS_OBJECT}, rights : {0, TCS_READ}]

(* Requests carry any words; UNDEFINED stands for an unknown operation,    *)
(* 43 for a wrong object.                                                  *)
Request == [op : Ops \cup {"UNDEFINED"}, subject : Subjects \cup {NoSubject},
            object : {0, TCS_OBJECT, 43}, rights : {0, TCS_READ, TCS_WRITE},
            generation : U64]

ZeroPolicy == [s \in Subjects |-> [state |-> "RESTRICTED", generation |-> 0,
                                   object |-> 0, rights |-> 0]]

(* tcs_snapshot_valid on the state of a subject.                           *)
tcs_snapshot_valid(s) ==
  IF s.state = "ACTIVE"
  THEN s.generation # 0 /\ s.object = TCS_OBJECT /\ s.rights = TCS_READ
  ELSE s.object = 0 /\ s.rights = 0

-----------------------------------------------------------------------------
(* tcs_policy_apply: the early returns of the two halves, in their order.  *)

ControlStatus(s, r) ==
  IF r.object # 0 \/ r.rights # 0 \/ r.generation # 0 THEN "BAD_MESSAGE"
  ELSE IF r.op = "RESTORE" /\ s.state # "QUARANTINED" THEN "DENIED"
  ELSE "OK"

GrantStatus(s, r) ==
  IF r.generation # 0 THEN "BAD_MESSAGE"
  ELSE IF s.generation = UMAX THEN "EXHAUSTED"
  ELSE "OK"

CheckStatus(s, r) ==
  IF s.state # "ACTIVE" \/ s.rights # TCS_READ THEN "DENIED"
  ELSE IF r.generation = 0 \/ r.generation # s.generation THEN "STALE"
  ELSE IF s.object # r.object THEN "DENIED"
  ELSE "OK"

AccessStatus(s, r) ==
  IF s.state = "QUARANTINED" THEN "ISOLATED"
  ELSE IF r.object # TCS_OBJECT \/ r.rights # TCS_READ THEN "DENIED"
  ELSE IF r.op = "GRANT" THEN GrantStatus(s, r) ELSE CheckStatus(s, r)

PolicyStatus(policy, actor, r) ==
  IF r.subject \notin Subjects \/ r.op \notin Ops THEN "BAD_MESSAGE"
  ELSE IF actor # (IF r.op = "CHECK" THEN "STORAGE" ELSE "ADMIN") THEN "DENIED"
  ELSE IF r.op \in Controls THEN ControlStatus(policy[r.subject], r)
  ELSE AccessStatus(policy[r.subject], r)

(* Mutant: the generation wraps around.                                    *)
BumpMutant(generation) == (generation + 1) % (UMAX + 1)

(* Reductions keep working at the last generation, where nothing is left   *)
(* to grant.                                                               *)
Bump(generation) == IF generation = UMAX THEN generation ELSE generation + 1

(* The state a reduction or a restore leaves.                              *)
ControlledState(s, r) ==
  IF r.op = "QUARANTINE" \/ (r.op = "REVOKE" /\ s.state = "QUARANTINED")
  THEN "QUARANTINED" ELSE "RESTRICTED"

(* Mutants: a control leaves object and rights; a check uses its session   *)
(* up.                                                                     *)
NextKeepsRightsMutant(s, r) ==
  CASE r.op = "GRANT" -> [state |-> "ACTIVE", generation |-> s.generation + 1,
                          object |-> r.object, rights |-> r.rights]
    [] r.op = "CHECK" -> s
    [] r.op \in Controls -> [s EXCEPT !.state = ControlledState(s, r),
                                      !.generation = Bump(@)]
NextOneShotMutant(s, r) ==
  CASE r.op = "GRANT" -> [state |-> "ACTIVE", generation |-> s.generation + 1,
                          object |-> r.object, rights |-> r.rights]
    [] r.op = "CHECK" -> [s EXCEPT !.generation = Bump(@)]
    [] r.op \in Controls -> [state |-> ControlledState(s, r), generation |-> Bump(s.generation),
                             object |-> 0, rights |-> 0]

PolicyNext(s, r) ==
  CASE r.op = "GRANT" ->
         [state |-> "ACTIVE", generation |-> s.generation + 1,
          object |-> r.object, rights |-> r.rights]
    [] r.op = "CHECK" -> s
    [] r.op \in Controls ->
         [state |-> ControlledState(s, r), generation |-> Bump(s.generation),
          object |-> 0, rights |-> 0]

(* The candidate tcs_policy_apply leaves.                                  *)
tcs_policy_apply(policy, actor, r) ==
  IF PolicyStatus(policy, actor, r) = "OK"
  THEN [policy EXCEPT ![r.subject] = PolicyNext(policy[r.subject], r)] ELSE policy

(* Mutant: a decision takes effect whether or not it was recorded.         *)
CommitsMutant(r, status, audit_ok) == status = "OK"

(* tcs_policy_commit: what becomes live, and what is answered.             *)
Commits(r, status, audit_ok) == status = "OK" /\ (audit_ok \/ r.op \in Reductions)

tcs_policy_commit(live, candidate, r, status, audit_ok) ==
  IF Commits(r, status, audit_ok) THEN candidate ELSE live

(* Mutant: the answer does not depend on the record.                       *)
CommitReplyMutant(candidate, r, status, audit_ok) ==
  [status |-> status, value |-> IF status = "OK" THEN candidate[r.subject].generation ELSE 0]

CommitReply(candidate, r, status, audit_ok) ==
  IF ~audit_ok THEN [status |-> "AUDIT_FULL", value |-> 0]
  ELSE [status |-> status,
        value |-> IF status = "OK" THEN candidate[r.subject].generation ELSE 0]
=============================================================================
