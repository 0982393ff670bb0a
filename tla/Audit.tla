-------------------------------- MODULE Audit --------------------------------
(***************************************************************************)
(* The bounded volatile audit server of servers/audit.c, as operators on   *)
(* its log.  A record is the request, the actor and the decision; the log  *)
(* is never truncated or overwritten.                                      *)
(***************************************************************************)
EXTENDS Policy, Sequences

CONSTANT CAPACITY               \* TCS_AUDIT_CAPACITY

ASSUME CapacityAssumption == CAPACITY \in Nat \ {0}

Record == [request : Request, actor : Actors, decision : Statuses]

(* TCS_AUDIT_APPEND.  The reply acknowledges with the new count, so the    *)
(* policy's test of the acknowledgement is AuditOK.                        *)
AuditOK(log) == Len(log) # CAPACITY
AuditAppend(log, record) == IF AuditOK(log) THEN Append(log, record) ELSE log
=============================================================================
