---------------------------- MODULE SignedAdmin ----------------------------
(***************************************************************************)
(* The signed system: terminal -> administrator -> policy -> audit, with   *)
(* the read path terminal -> client -> storage -> policy beside it.        *)
(*                                                                         *)
(* A submission is three steps, one per server that acts: admission        *)
(* (Submit), execution by the policy owner with its nested audit call      *)
(* (Execute), and receipt validation (Complete).  The terminal is blocked  *)
(* in its call meanwhile, so it starts nothing else; the reply may be      *)
(* damaged on the way (Corrupt).  Every packet the terminal could be fed   *)
(* is a possible input at any time: replayed, out of order, for another    *)
(* launch, unsigned.  The guest may be relaunched at any moment, in a      *)
(* fresh context and with nothing kept.                                    *)
(*                                                                         *)
(* Of the audit log only the number of records matters here.               *)
(* executed and damaged are history: the (context, sequence) pairs policy  *)
(* has executed over all launches, and whether a reply of this launch was  *)
(* damaged.                                                                *)
(***************************************************************************)
EXTENDS Admin

CONSTANTS Packets,              \* the packets fed to the terminal
          ReadRequests,         \* requests storage makes on behalf of the client
          CAPACITY              \* TCS_AUDIT_CAPACITY

ASSUME CapacityAssumption == CAPACITY \in Nat \ {0}
ASSUME InputsAssumption ==
  /\ Packets \subseteq Packet
  /\ ReadRequests \subseteq [op : {"CHECK"}, subject : {Client}, object : {0, TCS_OBJECT, 43},
                             rights : {0, TCS_READ, TCS_WRITE}, generation : U64]

VARIABLES
  used,         \* the contexts launched so far
  admin,        \* the administrator
  sequence, sequence_exhausted,         \* the policy owner's execution sequence
  live,         \* the policy
  records,      \* the number of audit records
  call,         \* the submission in progress
  shown,        \* what the terminal last told the operator
  executed, damaged

server_vars == <<admin, sequence, sequence_exhausted, live, records>>
history == <<executed, damaged>>
vars == <<used, server_vars, call, shown, history>>

NoCommand == [sequence |-> 0, expected_generation |-> 0, op |-> "UNDEFINED",
              subject |-> NoSubject, object |-> 0, rights |-> 0]
NoReceipt == [command |-> NoCommand, decision |-> "OK", audit_ok |-> FALSE,
              applied |-> FALSE, post |-> ZeroPolicy[Client]]
Idle == [phase |-> "idle", context |-> NoContext, command |-> NoCommand,
         receipt |-> NoReceipt]
Nothing == [kind |-> "nothing", receipt |-> NoReceipt]

TypeOK ==
  /\ used \in SUBSET Contexts
  /\ admin \in AdminState
  /\ sequence \in U64
  /\ sequence_exhausted \in BOOLEAN
  /\ live \in [Subjects -> Subject]
  /\ records \in 0..CAPACITY
  /\ call \in [phase : {"idle", "execute", "receipt", "garbage"},
               context : Contexts \cup {NoContext}, command : Command, receipt : Receipt]
  /\ shown \in [kind : {"nothing", "rejected", "uncertain", "receipt"}, receipt : Receipt]
  /\ executed \in SUBSET (Contexts \X U64)
  /\ damaged \in BOOLEAN

Init ==
  /\ used = {}
  /\ admin = ZeroAdmin
  /\ sequence = 1
  /\ sequence_exhausted = FALSE
  /\ live = ZeroPolicy
  /\ records = 0
  /\ call = Idle
  /\ shown = Nothing
  /\ executed = {}
  /\ damaged = FALSE

-----------------------------------------------------------------------------
(* A launch: every server starts from its zero state, and the              *)
(* administrator asks the boot server for the context.  The host never     *)
(* launches a context twice; a launch without a usable context leaves the  *)
(* administrator uninitialised.                                            *)
Launch(context) ==
  /\ context \notin used
  /\ used' = used \cup ({context} \ {NoContext})
  /\ admin' = IF context = NoContext THEN ZeroAdmin ELSE tcs_admin_init(context)
  /\ sequence' = 1
  /\ sequence_exhausted' = FALSE
  /\ live' = ZeroPolicy
  /\ records' = 0
  /\ call' = Idle
  /\ shown' = Nothing
  /\ damaged' = FALSE
  /\ UNCHANGED executed

(* tcs_admin_server_request up to its call of the policy owner; the        *)
(* terminal reports a refused packet.                                      *)
Submit(p) ==
  /\ call.phase = "idle"
  /\ admin' = tcs_admin_admit(admin, p)
  /\ IF AdmitStatus(admin, p) = "ACCEPTED"
     THEN /\ call' = [Idle EXCEPT !.phase = "execute", !.context = p.context,
                                  !.command = p.command]
          /\ shown' = Nothing
     ELSE /\ shown' = [Nothing EXCEPT !.kind = "rejected"]
          /\ UNCHANGED call
  /\ UNCHANGED <<used, sequence, sequence_exhausted, live, records, history>>

(* The policy owner's EXECUTE handler.  A command of the wrong shape or    *)
(* out of sequence gets a generic reply, which is no receipt; any other    *)
(* consumes the sequence, whatever is then decided.                        *)
Execute ==
  LET c        == call.command
      inOrder  == /\ tcs_admin_execution_valid(c)
                  /\ ~sequence_exhausted
                  /\ c.sequence = sequence
      decision == CompareStatus(live, c)
      audit_ok == records # CAPACITY
  IN /\ call.phase = "execute"
     /\ IF inOrder
        THEN /\ sequence_exhausted' = (sequence = UMAX)
             /\ sequence' = IF sequence = UMAX THEN sequence ELSE sequence + 1
             /\ records' = IF audit_ok THEN records + 1 ELSE records
             /\ live' = tcs_policy_commit(live, tcs_policy_admin_compare_apply(live, c),
                                          RequestOf(c), decision, audit_ok)
             /\ call' = [call EXCEPT
                  !.phase = "receipt",
                  !.receipt = [command |-> c, decision |-> decision, audit_ok |-> audit_ok,
                               applied |-> Commits(RequestOf(c), decision, audit_ok),
                               post |-> live'[c.subject]]]
             /\ executed' = executed \cup {<<call.context, c.sequence>>}
        ELSE /\ call' = [call EXCEPT !.phase = "garbage"]
             /\ UNCHANGED <<sequence, sequence_exhausted, records, live, executed>>
     /\ UNCHANGED <<used, admin, shown, damaged>>

(* The reply loses its shape, or a word of it is damaged beyond range.     *)
Corrupt ==
  /\ call.phase = "receipt"
  /\ call' = [call EXCEPT !.phase = "garbage", !.receipt = NoReceipt]
  /\ damaged' = TRUE
  /\ UNCHANGED <<used, server_vars, shown, executed>>

(* The rest of tcs_admin_server_request, and the terminal's report.        *)
Complete ==
  /\ call.phase \in {"receipt", "garbage"}
  /\ IF /\ call.phase = "receipt"
        /\ tcs_admin_receipt_valid(call.command, call.receipt)
        /\ admin.pending_sequence = call.command.sequence
     THEN /\ admin' = tcs_admin_complete(admin, call.command.sequence)
          /\ shown' = [kind |-> "receipt", receipt |-> call.receipt]
     ELSE /\ shown' = [Nothing EXCEPT !.kind = "uncertain"]
          /\ UNCHANGED admin
  /\ call' = Idle
  /\ UNCHANGED <<used, sequence, sequence_exhausted, live, records, history>>

(* The storage channel of the policy owner: checks are decided and         *)
(* recorded as in the seed system and never change the policy.             *)
Read(r) ==
  LET audit_ok == records # CAPACITY
  IN /\ call.phase = "idle"
     /\ live' = tcs_policy_commit(live, tcs_policy_apply(live, "STORAGE", r), r,
                                  PolicyStatus(live, "STORAGE", r), audit_ok)
     /\ records' = IF audit_ok THEN records + 1 ELSE records
     /\ UNCHANGED <<used, admin, sequence, sequence_exhausted, call, shown, history>>

Next ==
  \/ \E context \in Contexts \cup {NoContext} : Launch(context)
  \/ \E p \in Packets : Submit(p)
  \/ Execute
  \/ Corrupt
  \/ Complete
  \/ \E r \in ReadRequests : Read(r)

Spec == Init /\ [][Next]_vars

(* The servers are scheduled; neither launches, inputs nor damage are      *)
(* promised.                                                               *)
FairSpec == Spec /\ WF_vars(Execute) /\ WF_vars(Complete)

-----------------------------------------------------------------------------
(* A signed packet acts at most once: policy never executes a (context,    *)
(* sequence) pair it has executed before, in this launch or an earlier     *)
(* one, however packets are replayed.                                      *)
ExecutedOnce ==
  [][ call.phase = "execute" /\ call'.phase = "receipt"
      => <<call.context, call.command.sequence>> \notin executed ]_vars

(* Admission and execution count together: outside a call the two servers  *)
(* expect the same sequence and are exhausted together, and during one     *)
(* admission is exactly the pending command ahead.                         *)
SequencesAgree ==
  admin.initialized =>
    IF call.phase = "execute"
    THEN /\ admin.pending_sequence = call.command.sequence
         /\ call.command.sequence = sequence
         /\ ~sequence_exhausted
         /\ admin.exhausted <=> (sequence = UMAX)
         /\ admin.next_sequence = IF sequence = UMAX THEN sequence ELSE sequence + 1
    ELSE /\ admin.next_sequence = sequence
         /\ admin.exhausted = sequence_exhausted

(* The administrator is wedged only by damage: every receipt the policy    *)
(* owner really produces is validated, so a command left pending after its *)
(* call means a reply was damaged.                                         *)
WedgedOnlyByDamage ==
  /\ call.phase = "receipt" => tcs_admin_receipt_valid(call.command, call.receipt)
  /\ call.phase = "garbage" => damaged
  /\ admin.pending_sequence # 0 /\ call.phase = "idle" => damaged

(* Uncertainty fails closed: once a call ended with its command pending,   *)
(* nothing is admitted, completed or changed until a new launch.           *)
FailsClosed ==
  [][ admin.pending_sequence # 0 /\ call.phase = "idle"
      => \/ admin'.context # admin.context
         \/ UNCHANGED <<admin, sequence, sequence_exhausted, live, call>> ]_vars

(* A receipt shown to the operator describes the policy in force until the *)
(* next submission, reads in between included, and its command was         *)
(* executed in this launch.                                                *)
ReportTruthful ==
  shown.kind = "receipt" =>
    LET c == shown.receipt.command
    IN /\ live[c.subject] = shown.receipt.post
       /\ <<admin.context, c.sequence>> \in executed
       /\ admin.pending_sequence = 0

(* Every admitted command is resolved, unless its reply was damaged.       *)
PendingResolved == admin.pending_sequence # 0 ~> admin.pending_sequence = 0 \/ damaged
=============================================================================
