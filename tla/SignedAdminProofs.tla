------------------------- MODULE SignedAdminProofs -------------------------
(***************************************************************************)
(* The safety properties of SignedAdmin, for every set of subjects,        *)
(* contexts, packets and reads, every UMAX and every audit capacity.       *)
(*                                                                         *)
(* The argument: the policy owner's decision on an admitted command either *)
(* leaves its subject alone, for a reason the subject's state shows        *)
(* (Refused), or commits the one change the receipt check expects          *)
(* (Applied), so the receipt of every execution is valid                   *)
(* (ReceiptIsValid).  With that, the two servers' sequences move together, *)
(* and every executed sequence of this launch is below the one policy      *)
(* expects.                                                                *)
(***************************************************************************)
EXTENDS SignedAdmin, TLAPS

(* What an OK of the policy owner's comparison says of the subject.        *)
LEMMA CompareAccepts ==
  ASSUME NEW policy, NEW c, valid(c), CompareStatus(policy, c) = "OK"
  PROVE  /\ policy[c.subject].generation = c.expected_generation
         /\ c.op = "GRANT" => /\ policy[c.subject].state # "QUARANTINED"
                              /\ policy[c.subject].generation # UMAX
         /\ c.op = "RESTORE" => policy[c.subject].state = "QUARANTINED"
<1>1. /\ RequestOf(c).op = c.op /\ RequestOf(c).subject = c.subject
  BY DEF RequestOf
<1>2. /\ policy[c.subject].generation = c.expected_generation
      /\ PolicyStatus(policy, "ADMIN", RequestOf(c)) = "OK"
  BY DEF CompareStatus
<1> QED BY <1>1, <1>2 DEF valid, PolicyStatus, ControlStatus, AccessStatus, GrantStatus,
                          Ops, Controls

(* A refusal of an admitted command names a state the subject is in.       *)
LEMMA CompareRefuses ==
  ASSUME NEW policy, NEW c, valid(c), CompareStatus(policy, c) # "OK"
  PROVE  LET s == policy[c.subject]
             d == CompareStatus(policy, c)
         IN \/ d = "STALE" /\ s.generation # c.expected_generation
            \/ /\ s.generation = c.expected_generation
               /\ \/ d = "ISOLATED" /\ c.op = "GRANT" /\ s.state = "QUARANTINED"
                  \/ d = "DENIED" /\ c.op = "RESTORE" /\ s.state # "QUARANTINED"
                  \/ /\ d = "EXHAUSTED" /\ c.op = "GRANT"
                     /\ s.generation = UMAX /\ s.state # "QUARANTINED"
<1> DEFINE s == policy[c.subject]
           q == RequestOf(c)
<1>1. /\ q.op = c.op /\ q.subject = c.subject /\ q.object = c.object /\ q.rights = c.rights
      /\ q.generation = 0
  BY DEF RequestOf
<1>2. c.sequence # 0 /\ c.subject \in Subjects /\ c.op \in Ops \ {"CHECK"}
  BY DEF valid, Ops, Controls
<1>3. CASE s.generation # c.expected_generation
  BY <1>2, <1>3 DEF CompareStatus
<1>4. CASE s.generation = c.expected_generation
  <2>1. CompareStatus(policy, c) = PolicyStatus(policy, "ADMIN", q)
    BY <1>2, <1>4 DEF CompareStatus
  <2>2. CASE c.op = "GRANT"
    <3>1. PolicyStatus(policy, "ADMIN", q) = AccessStatus(s, q)
      BY <1>1, <1>2, <2>2 DEF PolicyStatus, Ops, Controls
    <3> QED BY <1>1, <1>4, <2>1, <2>2, <3>1 DEF AccessStatus, GrantStatus, valid, Controls
  <2>3. CASE c.op \in Controls
    <3>1. PolicyStatus(policy, "ADMIN", q) = ControlStatus(s, q)
      BY <1>1, <1>2, <2>3 DEF PolicyStatus, Ops, Controls
    <3> QED BY <1>1, <1>4, <2>1, <2>3, <3>1 DEF ControlStatus, valid, Controls
  <2> QED BY <1>2, <2>2, <2>3 DEF Ops
<1> QED BY <1>3, <1>4

(* The decision is one of the statuses.                                    *)
LEMMA CompareStatusTyped ==
  ASSUME NEW policy, NEW c
  PROVE  CompareStatus(policy, c) \in Statuses
BY DEF CompareStatus, PolicyStatus, ControlStatus, AccessStatus, GrantStatus, CheckStatus, Statuses

(* The subject an applied command leaves: well formed, accepted by         *)
(* tcs_snapshot_valid, one generation on, and in the state of its          *)
(* operation.                                                              *)
LEMMA AppliedSubject ==
  ASSUME NEW policy \in [Subjects -> Subject], NEW c \in Command, valid(c),
         CompareStatus(policy, c) = "OK"
  PROVE  LET n == PolicyNext(policy[c.subject], RequestOf(c))
         IN /\ n \in Subject /\ tcs_snapshot_valid(n)
            /\ n.generation = Bump(c.expected_generation)
            /\ c.op = "GRANT" => n.state = "ACTIVE"
            /\ c.op = "QUARANTINE" => n.state = "QUARANTINED"
            /\ c.op = "RESTORE" => n.state = "RESTRICTED"
            /\ c.op = "REVOKE" => n.state # "ACTIVE"
<1> DEFINE s == policy[c.subject]
           q == RequestOf(c)
           n == PolicyNext(s, q)
<1>1. /\ q.op = c.op /\ q.object = c.object /\ q.rights = c.rights
      /\ c.subject \in Subjects /\ s \in Subject /\ s.generation \in U64
  BY DEF RequestOf, valid, Subject
<1>2. s.generation = c.expected_generation
  BY CompareAccepts
<1>3. CASE c.op = "GRANT"
  <2>1. s.generation # UMAX /\ s.generation \in Nat /\ s.generation <= UMAX
    BY <1>1, <1>3, CompareAccepts, UMAXAssumption DEF U64
  <2>2. s.generation + 1 \in U64 /\ s.generation + 1 # 0
    BY <2>1, UMAXAssumption DEF U64
  <2>3. n = [state |-> "ACTIVE", generation |-> s.generation + 1, object |-> TCS_OBJECT,
             rights |-> TCS_READ]
    BY <1>1, <1>3 DEF PolicyNext, Controls, valid
  <2>4. Bump(c.expected_generation) = s.generation + 1
    BY <1>2, <2>1 DEF Bump
  <2> QED BY <1>3, <2>2, <2>3, <2>4 DEF Subject, tcs_snapshot_valid
<1>4. CASE c.op \in Controls
  <2>1. Bump(s.generation) \in U64
    BY <1>1, UMAXAssumption DEF Bump, U64
  <2>2. n = [state |-> ControlledState(s, q), generation |-> Bump(s.generation), object |-> 0,
             rights |-> 0]
    BY <1>1, <1>4 DEF PolicyNext, Controls
  <2>3. /\ ControlledState(s, q) \in {"RESTRICTED", "QUARANTINED"}
        /\ c.op = "QUARANTINE" => ControlledState(s, q) = "QUARANTINED"
        /\ c.op = "RESTORE" => ControlledState(s, q) = "RESTRICTED"
    BY <1>1 DEF ControlledState
  <2>4. n \in Subject /\ tcs_snapshot_valid(n) /\ n.generation = Bump(c.expected_generation)
    BY <1>2, <2>1, <2>2, <2>3 DEF Subject, tcs_snapshot_valid
  <2> QED BY <1>4, <2>2, <2>3, <2>4 DEF Controls
<1> QED BY <1>3, <1>4 DEF valid

-----------------------------------------------------------------------------
(* The policy and the receipt an in-order command leaves.                  *)
PolicyAfter(policy, c, audit_ok) ==
  tcs_policy_commit(policy, tcs_policy_admin_compare_apply(policy, c), RequestOf(c),
                    CompareStatus(policy, c), audit_ok)

ReceiptFor(policy, c, audit_ok) ==
  [command |-> c, decision |-> CompareStatus(policy, c), audit_ok |-> audit_ok,
   applied |-> Commits(RequestOf(c), CompareStatus(policy, c), audit_ok),
   post |-> PolicyAfter(policy, c, audit_ok)[c.subject]]

(* The policy changes exactly when the command commits, and then by its    *)
(* one change.                                                             *)
LEMMA PolicyAfterCases ==
  ASSUME NEW policy \in [Subjects -> Subject], NEW c \in Command, NEW audit_ok \in BOOLEAN,
         valid(c)
  PROVE  /\ ~Commits(RequestOf(c), CompareStatus(policy, c), audit_ok)
              => PolicyAfter(policy, c, audit_ok) = policy
         /\ Commits(RequestOf(c), CompareStatus(policy, c), audit_ok)
              => /\ CompareStatus(policy, c) = "OK"
                 /\ audit_ok \/ c.op \in Reductions
                 /\ PolicyAfter(policy, c, audit_ok)
                      = [policy EXCEPT ![c.subject] =
                           PolicyNext(policy[c.subject], RequestOf(c))]
<1> DEFINE q == RequestOf(c)
<1>1. q.op = c.op /\ q.subject = c.subject
  BY DEF RequestOf
<1>2. CASE ~Commits(q, CompareStatus(policy, c), audit_ok)
  BY <1>2 DEF PolicyAfter, tcs_policy_commit
<1>3. CASE Commits(q, CompareStatus(policy, c), audit_ok)
  <2>1. CompareStatus(policy, c) = "OK" /\ (audit_ok \/ c.op \in Reductions)
    BY <1>1, <1>3 DEF Commits
  <2>2. PolicyStatus(policy, "ADMIN", q) = "OK"
    BY <2>1 DEF CompareStatus
  <2>3. PolicyAfter(policy, c, audit_ok) = tcs_policy_apply(policy, "ADMIN", q)
    BY <1>3, <2>1 DEF PolicyAfter, tcs_policy_commit, tcs_policy_admin_compare_apply
  <2>4. tcs_policy_apply(policy, "ADMIN", q)
          = [policy EXCEPT ![c.subject] = PolicyNext(policy[c.subject], q)]
    BY <1>1, <2>2 DEF tcs_policy_apply
  <2> QED BY <1>3, <2>1, <2>3, <2>4
<1> QED BY <1>2, <1>3

(* The policy after a command is well formed, with valid snapshots.        *)
LEMMA PolicyAfterValid ==
  ASSUME NEW policy \in [Subjects -> Subject], NEW c \in Command, NEW audit_ok \in BOOLEAN,
         valid(c), \A s \in Subjects : tcs_snapshot_valid(policy[s])
  PROVE  /\ PolicyAfter(policy, c, audit_ok) \in [Subjects -> Subject]
         /\ \A s \in Subjects : tcs_snapshot_valid(PolicyAfter(policy, c, audit_ok)[s])
<1> DEFINE commits == Commits(RequestOf(c), CompareStatus(policy, c), audit_ok)
<1>1. CASE ~commits
  BY <1>1, PolicyAfterCases
<1>2. CASE commits
  <2> DEFINE n == PolicyNext(policy[c.subject], RequestOf(c))
  <2>1. PolicyAfter(policy, c, audit_ok) = [policy EXCEPT ![c.subject] = n]
    BY <1>2, PolicyAfterCases
  <2>2. CompareStatus(policy, c) = "OK"
    BY <1>2, PolicyAfterCases
  <2>3. n \in Subject /\ tcs_snapshot_valid(n)
    BY <2>2, AppliedSubject
  <2> HIDE DEF n
  <2> QED BY <2>1, <2>3
<1> QED BY <1>1, <1>2

(* The administrator's check accepts the receipt of every execution.       *)
LEMMA ReceiptIsValid ==
  ASSUME NEW policy \in [Subjects -> Subject], NEW c \in Command, NEW audit_ok \in BOOLEAN,
         valid(c), \A s \in Subjects : tcs_snapshot_valid(policy[s])
  PROVE  /\ ReceiptFor(policy, c, audit_ok) \in Receipt
         /\ tcs_admin_receipt_valid(c, ReceiptFor(policy, c, audit_ok))
<1> DEFINE r == ReceiptFor(policy, c, audit_ok)
           d == CompareStatus(policy, c)
           commits == Commits(RequestOf(c), d, audit_ok)
           post == PolicyAfter(policy, c, audit_ok)[c.subject]
           s == policy[c.subject]
<1>1. /\ r.command = c /\ r.decision = d /\ r.applied = commits /\ r.post = post
      /\ r.audit_ok = audit_ok
  BY DEF ReceiptFor
<1>2. c.subject \in Subjects /\ s \in Subject
  BY DEF valid
<1>3. post \in Subject /\ tcs_snapshot_valid(post)
  BY <1>2, PolicyAfterValid
<1>4. r \in Receipt
  <2>1. d \in Statuses /\ commits \in BOOLEAN
    BY CompareStatusTyped DEF Commits
  <2> QED BY <1>3, <2>1 DEF ReceiptFor, Receipt
<1>5. ~commits => post = s
  BY PolicyAfterCases
<1> DEFINE decided ==
      /\ r.decision = "STALE" => r.post.generation # c.expected_generation
      /\ r.decision = "OK" => AcceptanceConsistent(c, r)
      /\ r.decision \notin {"STALE", "OK"} => /\ r.post.generation = c.expected_generation
                                             /\ RefusalConsistent(c, r)
<1>6. decided => tcs_admin_receipt_valid(c, r)
  <2>1. r.applied <=> Commits(RequestOf(c), r.decision, r.audit_ok)
    BY <1>1
  <2> HIDE DEF r
  <2> QED BY <1>1, <1>3, <2>1 DEF tcs_admin_receipt_valid, tcs_admin_execution_valid
<1>7. CASE d = "OK"
  <2>1. /\ s.generation = c.expected_generation
        /\ c.op = "GRANT" => s.state # "QUARANTINED" /\ s.generation # UMAX
        /\ c.op = "RESTORE" => s.state = "QUARANTINED"
    BY <1>7, CompareAccepts
  <2>2. CASE commits
    <3>1. post = PolicyNext(s, RequestOf(c))
      BY <1>2, <2>2, PolicyAfterCases
    <3>2. /\ post.generation = Bump(c.expected_generation)
          /\ c.op = "GRANT" => post.state = "ACTIVE"
          /\ c.op = "QUARANTINE" => post.state = "QUARANTINED"
          /\ c.op = "RESTORE" => post.state = "RESTRICTED"
          /\ c.op = "REVOKE" => post.state # "ACTIVE"
      BY <1>7, <3>1, AppliedSubject
    <3>3. AppliedConsistent(c, r)
      BY <1>1, <3>2 DEF AppliedConsistent, valid, Controls
    <3>4. AcceptanceConsistent(c, r)
      BY <1>1, <2>1, <2>2, <3>2, <3>3 DEF AcceptanceConsistent
    <3> QED BY <1>1, <1>4, <1>6, <1>7, <3>4
  <2>3. CASE ~commits
    <3>1. c.op \in {"GRANT", "RESTORE"}
      BY <1>7, <2>3 DEF Commits, Reductions, RequestOf, valid, Controls
    <3>2. UnappliedConsistent(c, r)
      BY <1>1, <1>5, <2>1, <2>3, <3>1 DEF UnappliedConsistent
    <3>3. AcceptanceConsistent(c, r)
      BY <1>1, <1>5, <2>1, <2>3, <3>2 DEF AcceptanceConsistent
    <3> QED BY <1>1, <1>4, <1>6, <1>7, <3>3
  <2> QED BY <2>2, <2>3
<1>8. CASE d # "OK"
  <2>1. post = s
    BY <1>5, <1>8 DEF Commits
  <2>2. CASE d = "STALE"
    <3>1. s.generation # c.expected_generation
      BY <1>8, <2>2, CompareRefuses
    <3> QED BY <1>1, <1>4, <1>6, <2>1, <2>2, <3>1
  <2>3. CASE d # "STALE"
    <3>1. s.generation = c.expected_generation /\ RefusalConsistent(c, r)
      BY <1>1, <1>8, <2>1, <2>3, CompareRefuses DEF RefusalConsistent
    <3> QED BY <1>1, <1>4, <1>6, <1>8, <2>1, <2>3, <3>1
  <2> QED BY <2>2, <2>3
<1> QED BY <1>7, <1>8

-----------------------------------------------------------------------------
(* The inductive invariant.  Besides the properties themselves: an         *)
(* initialised administrator belongs to a launched context and an          *)
(* uninitialised one admits nothing (Launched); what was executed belongs  *)
(* to launched contexts and, in this one, is behind the policy owner's     *)
(* sequence (Counted); a call in progress is of this launch, well shaped   *)
(* and pending, and its receipt describes the policy (CallInv).            *)
SubjectsValid == \A s \in Subjects : tcs_snapshot_valid(live[s])

Launched ==
  IF admin.initialized THEN admin.context \in used
  ELSE admin = ZeroAdmin /\ call.phase = "idle" /\ shown.kind # "receipt"

Counted ==
  /\ sequence # 0
  /\ sequence_exhausted => sequence = UMAX
  /\ \A x \in executed : /\ x[1] \in used
                         /\ x[1] = admin.context => x[2] < sequence \/ sequence_exhausted

CallInv ==
  /\ call.phase # "idle" => /\ call.context = admin.context
                            /\ valid(call.command)
                            /\ call.command.sequence = admin.pending_sequence
                            /\ shown.kind # "receipt"
  /\ call.phase = "receipt" => /\ live[call.command.subject] = call.receipt.post
                               /\ <<admin.context, call.command.sequence>> \in executed

AdminInv ==
  /\ TypeOK
  /\ SubjectsValid
  /\ Launched
  /\ Counted
  /\ CallInv
  /\ SequencesAgree
  /\ WedgedOnlyByDamage
  /\ ReportTruthful

(* The constants of the model have their types.                            *)
LEMMA ConstantTypes ==
  /\ 0 \in U64 /\ 1 \in U64
  /\ NoCommand \in Command /\ NoReceipt \in Receipt
  /\ ZeroPolicy \in [Subjects -> Subject]
  /\ \A s \in Subjects : tcs_snapshot_valid(ZeroPolicy[s])
  /\ ZeroAdmin \in AdminState
  /\ \A x \in Contexts : tcs_admin_init(x) \in AdminState
<1>1. 0 \in U64 /\ 1 \in U64
  BY UMAXAssumption DEF U64
<1>2. NoCommand \in Command
  BY <1>1 DEF NoCommand, Command
<1>3. ZeroPolicy \in [Subjects -> Subject]
  BY <1>1 DEF ZeroPolicy, Subject
<1>4. ZeroPolicy[Client] \in Subject
  BY <1>3, SubjectsAssumption
<1>5. NoReceipt \in Receipt
  BY <1>2, <1>4 DEF NoReceipt, Receipt, Statuses
<1>6. \A s \in Subjects : tcs_snapshot_valid(ZeroPolicy[s])
  BY DEF ZeroPolicy, tcs_snapshot_valid
<1>7. ZeroAdmin \in AdminState /\ \A x \in Contexts : tcs_admin_init(x) \in AdminState
  BY <1>1 DEF ZeroAdmin, tcs_admin_init, AdminState
<1> QED BY <1>1, <1>2, <1>3, <1>5, <1>6, <1>7

(* The idle call and the empty report have their types.                    *)
LEMMA IdleTypes ==
  /\ Idle \in [phase : {"idle", "execute", "receipt", "garbage"},
               context : Contexts \cup {NoContext}, command : Command, receipt : Receipt]
  /\ Idle.phase = "idle"
  /\ \A k \in {"nothing", "rejected", "uncertain"} :
       /\ [Nothing EXCEPT !.kind = k]
            \in [kind : {"nothing", "rejected", "uncertain", "receipt"}, receipt : Receipt]
       /\ [Nothing EXCEPT !.kind = k].kind = k
  /\ Nothing \in [kind : {"nothing", "rejected", "uncertain", "receipt"}, receipt : Receipt]
  /\ Nothing.kind = "nothing"
BY ConstantTypes DEF Idle, Nothing

(* Before the first launch nothing has happened.                           *)
LEMMA AdminInit == Init => AdminInv
<1> SUFFICES ASSUME Init PROVE AdminInv
  OBVIOUS
<1>1. TypeOK
  <2>1. 0 \in 0..CAPACITY
    BY CapacityAssumption
  <2>2. used \in SUBSET Contexts /\ executed \in SUBSET (Contexts \X U64)
    BY DEF Init
  <2> QED BY <2>1, <2>2, ConstantTypes, IdleTypes, Zenon DEF Init, TypeOK
<1>2. SubjectsValid
  BY ConstantTypes DEF Init, SubjectsValid
<1>3. /\ ~admin.initialized /\ admin = ZeroAdmin /\ admin.pending_sequence = 0
      /\ call.phase = "idle" /\ shown.kind = "nothing"
  BY IdleTypes DEF Init, ZeroAdmin
<1>4. Launched /\ CallInv /\ SequencesAgree /\ WedgedOnlyByDamage /\ ReportTruthful
  BY <1>3 DEF Launched, CallInv, SequencesAgree, WedgedOnlyByDamage, ReportTruthful
<1>5. Counted
  BY DEF Init, Counted
<1> QED BY <1>1, <1>2, <1>4, <1>5 DEF AdminInv

(* A launch starts over; whatever was executed belongs to other contexts.  *)
LEMMA LaunchStep ==
  ASSUME AdminInv, NEW context \in Contexts \cup {NoContext}, Launch(context)
  PROVE  AdminInv'
<1>1. admin'.initialized = (context # NoContext) /\ admin'.context = context
      /\ admin'.pending_sequence = 0 /\ admin' \in AdminState
      /\ (context # NoContext => admin'.next_sequence = 1 /\ admin'.exhausted = FALSE)
      /\ (context = NoContext => admin' = ZeroAdmin)
  BY ConstantTypes DEF Launch, ZeroAdmin, tcs_admin_init
<1>2. call'.phase = "idle" /\ shown'.kind = "nothing"
  BY IdleTypes DEF Launch
<1>3. TypeOK'
  <2>1. used' \in SUBSET Contexts /\ executed' \in SUBSET (Contexts \X U64)
    BY DEF Launch, AdminInv, TypeOK
  <2>2. 0 \in 0..CAPACITY
    BY CapacityAssumption
  <2> QED BY <1>1, <2>1, <2>2, ConstantTypes, IdleTypes, Zenon DEF Launch, TypeOK
<1>4. SubjectsValid'
  BY ConstantTypes DEF Launch, SubjectsValid
<1>5. Launched'
  BY <1>1, <1>2 DEF Launched, Launch
<1>6. Counted'
  <2>1. \A x \in executed : x[1] \in used /\ x[1] # context
    BY DEF AdminInv, Counted, Launch
  <2> QED BY <1>1, <2>1 DEF Launch, Counted
<1>7. CallInv' /\ WedgedOnlyByDamage' /\ ReportTruthful'
  BY <1>1, <1>2 DEF CallInv, WedgedOnlyByDamage, ReportTruthful
<1>8. SequencesAgree'
  BY <1>1, <1>2 DEF SequencesAgree, Launch
<1> QED BY <1>3, <1>4, <1>5, <1>6, <1>7, <1>8 DEF AdminInv

(* Admission takes the one command both servers expect, and a refusal      *)
(* touches nothing but the report.                                         *)
LEMMA SubmitStep ==
  ASSUME AdminInv, NEW p \in Packets, Submit(p)
  PROVE  AdminInv'
<1>1. p \in Packet /\ p.command \in Command /\ p.context \in Contexts
  BY InputsAssumption DEF Packet
<1>2. /\ UNCHANGED <<used, sequence, sequence_exhausted, live, records, executed, damaged>>
      /\ call.phase = "idle" /\ TypeOK /\ shown'.kind # "receipt"
      /\ shown' \in [kind : {"nothing", "rejected", "uncertain", "receipt"}, receipt : Receipt]
  BY IdleTypes DEF AdminInv, Submit, history
<1>3. SubjectsValid' /\ ReportTruthful'
  BY <1>2 DEF AdminInv, SubjectsValid, ReportTruthful
<1>4. CASE AdmitStatus(admin, p) # "ACCEPTED"
  <2>1. admin' = admin /\ call' = call
    BY <1>4 DEF Submit, tcs_admin_admit
  <2>2. TypeOK'
    BY <1>2, <2>1, Zenon DEF TypeOK
  <2> QED BY <1>2, <1>3, <2>1, <2>2
          DEF AdminInv, Launched, Counted, CallInv, SequencesAgree, WedgedOnlyByDamage
<1>5. CASE AdmitStatus(admin, p) = "ACCEPTED"
  <2> DEFINE n == p.command.sequence
  <2>1. /\ admin.initialized /\ admin.pending_sequence = 0 /\ ~admin.exhausted
        /\ valid(p.command) /\ p.context = admin.context /\ n = admin.next_sequence
    BY <1>5 DEF AdmitStatus
  <2>2. admin \in AdminState /\ n \in U64
    BY <1>1, <1>2 DEF TypeOK, Command
  <2>3. /\ admin'.initialized = admin.initialized /\ admin'.context = admin.context
        /\ admin'.pending_sequence = n
        /\ admin'.exhausted = (n = UMAX)
        /\ admin'.next_sequence = (IF n = UMAX THEN n ELSE n + 1)
        /\ admin' \in AdminState
    <3>1. (IF n = UMAX THEN n ELSE n + 1) \in U64
      BY <2>2, UMAXAssumption DEF U64
    <3>2. admin' = [admin EXCEPT !.pending_sequence = n, !.exhausted = (n = UMAX),
                                 !.next_sequence = IF n = UMAX THEN n ELSE n + 1]
      BY <1>5, <2>1 DEF Submit, tcs_admin_admit
    <3> HIDE DEF n
    <3> QED BY <2>2, <3>1, <3>2 DEF AdminState
  <2>4. /\ call'.phase = "execute" /\ call'.context = p.context /\ call'.command = p.command
        /\ call' \in [phase : {"idle", "execute", "receipt", "garbage"},
                      context : Contexts \cup {NoContext}, command : Command,
                      receipt : Receipt]
    BY <1>1, <1>5, IdleTypes, ConstantTypes DEF Submit, Idle
  <2>5. TypeOK'
    BY <1>2, <2>3, <2>4, Zenon DEF TypeOK
  <2>6. n = sequence /\ sequence_exhausted = FALSE
    BY <1>2, <2>1, <2>2 DEF AdminInv, SequencesAgree, AdminState, TypeOK
  <2>7. SequencesAgree'
    BY <1>2, <2>3, <2>4, <2>6 DEF SequencesAgree
  <2>8. Launched'
    BY <1>2, <2>1, <2>3 DEF AdminInv, Launched
  <2>9. Counted'
    BY <1>2, <2>3 DEF AdminInv, Counted
  <2>10. CallInv' /\ WedgedOnlyByDamage'
    BY <1>2, <2>1, <2>3, <2>4 DEF CallInv, WedgedOnlyByDamage
  <2> QED BY <1>3, <2>5, <2>7, <2>8, <2>9, <2>10 DEF AdminInv
<1> QED BY <1>4, <1>5

(* What the handler is given is in order, and what it does with it.        *)
LEMMA ExecuteCases ==
  ASSUME AdminInv, Execute
  PROVE  LET c        == call.command
             audit_ok == records # CAPACITY
         IN /\ c \in Command /\ valid(c) /\ c.sequence = sequence /\ sequence_exhausted = FALSE
            /\ admin.initialized /\ call.context = admin.context
            /\ sequence_exhausted' = (sequence = UMAX)
            /\ sequence' = IF sequence = UMAX THEN sequence ELSE sequence + 1
            /\ records' = IF audit_ok THEN records + 1 ELSE records
            /\ live' = PolicyAfter(live, c, audit_ok)
            /\ call' = [call EXCEPT !.phase = "receipt",
                                    !.receipt = ReceiptFor(live, c, audit_ok)]
            /\ executed' = executed \cup {<<admin.context, sequence>>}
            /\ UNCHANGED <<used, admin, shown, damaged>>
<1> DEFINE c == call.command
           audit_ok == records # CAPACITY
<1>1. call.phase = "execute" /\ TypeOK
  BY DEF Execute, AdminInv
<1>2. admin.initialized
  BY <1>1 DEF AdminInv, Launched
<1>3. /\ c \in Command /\ valid(c) /\ c.sequence = sequence /\ sequence_exhausted = FALSE
      /\ call.context = admin.context
  BY <1>1, <1>2 DEF AdminInv, CallInv, SequencesAgree, TypeOK
<1>4. /\ sequence_exhausted' = (sequence = UMAX)
      /\ sequence' = IF sequence = UMAX THEN sequence ELSE sequence + 1
      /\ records' = IF audit_ok THEN records + 1 ELSE records
      /\ live' = PolicyAfter(live, c, audit_ok)
      /\ executed' = executed \cup {<<admin.context, sequence>>}
      /\ UNCHANGED <<used, admin, shown, damaged>>
  BY <1>1, <1>3 DEF Execute, tcs_admin_execution_valid, PolicyAfter
<1>5. call' = [call EXCEPT !.phase = "receipt", !.receipt = ReceiptFor(live, c, audit_ok)]
  BY <1>1, <1>3, <1>4 DEF Execute, tcs_admin_execution_valid, ReceiptFor
<1> QED BY <1>2, <1>3, <1>4, <1>5

(* Execution consumes the sequence, and its receipt is valid and describes *)
(* the policy it leaves.                                                   *)
LEMMA ExecuteStep ==
  ASSUME AdminInv, Execute
  PROVE  AdminInv'
<1> DEFINE c        == call.command
           audit_ok == records # CAPACITY
           receipt  == ReceiptFor(live, c, audit_ok)
<1>1. /\ c \in Command /\ valid(c) /\ c.sequence = sequence /\ sequence_exhausted = FALSE
      /\ admin.initialized /\ call.context = admin.context
      /\ sequence_exhausted' = (sequence = UMAX)
      /\ sequence' = IF sequence = UMAX THEN sequence ELSE sequence + 1
      /\ records' = IF audit_ok THEN records + 1 ELSE records
      /\ live' = PolicyAfter(live, c, audit_ok)
      /\ call' = [call EXCEPT !.phase = "receipt", !.receipt = receipt]
      /\ executed' = executed \cup {<<admin.context, sequence>>}
      /\ UNCHANGED <<used, admin, shown, damaged>>
  BY ExecuteCases
<1>2. TypeOK /\ call.phase = "execute" /\ shown.kind # "receipt"
      /\ c.sequence = admin.pending_sequence /\ admin.context \in used
  BY <1>1 DEF AdminInv, Execute, CallInv, Launched
<1>3. live' \in [Subjects -> Subject] /\ SubjectsValid'
  BY <1>1, <1>2, PolicyAfterValid DEF AdminInv, SubjectsValid, TypeOK
<1>4. receipt \in Receipt /\ tcs_admin_receipt_valid(c, receipt)
  BY <1>1, <1>2, ReceiptIsValid DEF AdminInv, SubjectsValid, TypeOK
<1>5. receipt.post = live'[c.subject]
  BY <1>1 DEF ReceiptFor
<1> HIDE DEF receipt
<1>6. /\ call'.phase = "receipt" /\ call'.receipt = receipt /\ call'.command = c
      /\ call'.context = call.context
      /\ call' \in [phase : {"idle", "execute", "receipt", "garbage"},
                    context : Contexts \cup {NoContext}, command : Command, receipt : Receipt]
  BY <1>1, <1>2, <1>4 DEF TypeOK
<1>7. sequence \in U64 /\ sequence' \in U64 /\ sequence' # 0 /\ sequence <= sequence'
      /\ (sequence < sequence' \/ sequence_exhausted')
  <2>1. sequence \in U64 /\ sequence # 0
    BY <1>2 DEF TypeOK, AdminInv, Counted
  <2>2. CASE sequence = UMAX
    <3>1. sequence' = sequence /\ sequence_exhausted' = TRUE
      BY <1>1, <2>2
    <3> QED BY <2>1, <3>1, UMAXAssumption DEF U64
  <2>3. CASE sequence # UMAX
    BY <1>1, <2>1, <2>3, UMAXAssumption DEF U64
  <2> QED BY <2>2, <2>3
<1>8. TypeOK'
  <2>1. records' \in 0..CAPACITY
    BY <1>1, <1>2, CapacityAssumption DEF TypeOK
  <2>2. executed' \in SUBSET (Contexts \X U64) /\ sequence_exhausted' \in BOOLEAN
    BY <1>1, <1>2, <1>7 DEF TypeOK
  <2> QED BY <1>1, <1>2, <1>3, <1>6, <1>7, <2>1, <2>2, Zenon DEF TypeOK
<1>9. Launched'
  BY <1>1, <1>2 DEF Launched
<1>10. Counted'
  <2>1. sequence_exhausted' => sequence' = UMAX
    BY <1>1
  <2>2. ASSUME NEW x \in executed'
        PROVE  x[1] \in used' /\ (x[1] = admin'.context => x[2] < sequence' \/ sequence_exhausted')
    <3>1. CASE x \in executed
      <4>1. x[1] \in used /\ (x[1] = admin.context => x[2] < sequence) /\ x[2] \in U64
        BY <1>1, <1>2, <3>1 DEF AdminInv, Counted, TypeOK
      <4> QED BY <1>1, <1>7, <4>1, UMAXAssumption DEF U64
    <3>2. CASE x = <<admin.context, sequence>>
      <4>1. x[1] = admin.context /\ x[2] = sequence
        BY <3>2
      <4> QED BY <1>1, <1>2, <1>7, <4>1
    <3> QED BY <1>1, <2>2, <3>1, <3>2
  <2> QED BY <1>7, <2>1, <2>2 DEF Counted
<1>11. CallInv'
  BY <1>1, <1>2, <1>5, <1>6 DEF CallInv
<1>12. SequencesAgree'
  <2>1. /\ admin.exhausted \in BOOLEAN /\ (admin.exhausted <=> (sequence = UMAX))
        /\ admin.next_sequence = IF sequence = UMAX THEN sequence ELSE sequence + 1
    BY <1>1, <1>2 DEF AdminInv, SequencesAgree, TypeOK, AdminState
  <2> QED BY <1>1, <1>6, <2>1 DEF SequencesAgree
<1>13. WedgedOnlyByDamage' /\ ReportTruthful'
  BY <1>1, <1>2, <1>4, <1>6 DEF WedgedOnlyByDamage, ReportTruthful
<1> QED BY <1>3, <1>8, <1>9, <1>10, <1>11, <1>12, <1>13 DEF AdminInv

(* A damaged reply leaves the command pending and is remembered.           *)
LEMMA CorruptStep ==
  ASSUME AdminInv, Corrupt
  PROVE  AdminInv'
<1>1. /\ call.phase = "receipt" /\ TypeOK
      /\ call' = [call EXCEPT !.phase = "garbage", !.receipt = NoReceipt]
      /\ damaged' = TRUE
      /\ UNCHANGED <<used, admin, sequence, sequence_exhausted, live, records, shown, executed>>
  BY DEF AdminInv, Corrupt, server_vars
<1>2. /\ call'.phase = "garbage" /\ call'.command = call.command
      /\ call'.context = call.context
      /\ call' \in [phase : {"idle", "execute", "receipt", "garbage"},
                    context : Contexts \cup {NoContext}, command : Command, receipt : Receipt]
  BY <1>1, ConstantTypes DEF TypeOK
<1>3. TypeOK'
  BY <1>1, <1>2, Zenon DEF TypeOK
<1>4. SubjectsValid' /\ Counted' /\ ReportTruthful'
  BY <1>1 DEF AdminInv, SubjectsValid, Counted, ReportTruthful
<1>5. Launched' /\ CallInv' /\ WedgedOnlyByDamage'
  BY <1>1, <1>2 DEF AdminInv, Launched, CallInv, WedgedOnlyByDamage
<1>6. SequencesAgree'
  BY <1>1, <1>2 DEF AdminInv, SequencesAgree
<1> QED BY <1>3, <1>4, <1>5, <1>6 DEF AdminInv

(* A receipt that arrived completes its command; anything else leaves it   *)
(* pending, and there was damage.                                          *)
LEMMA CompleteStep ==
  ASSUME AdminInv, Complete
  PROVE  AdminInv'
<1> DEFINE c == call.command
<1>1. /\ call.phase \in {"receipt", "garbage"} /\ TypeOK /\ call' = Idle
      /\ UNCHANGED <<used, sequence, sequence_exhausted, live, records, executed, damaged>>
  BY DEF AdminInv, Complete, history
<1>2. /\ call'.phase = "idle" /\ admin.initialized /\ admin.context \in used
      /\ c.sequence = admin.pending_sequence /\ c.sequence # 0 /\ admin \in AdminState
  BY <1>1, IdleTypes DEF AdminInv, CallInv, Launched, valid, TypeOK
<1>3. SubjectsValid'
  BY <1>1 DEF AdminInv, SubjectsValid
<1>4. CASE call.phase = "receipt"
  <2>1. tcs_admin_receipt_valid(c, call.receipt)
    BY <1>4 DEF AdminInv, WedgedOnlyByDamage
  <2>2. /\ admin' = [admin EXCEPT !.pending_sequence = 0]
        /\ shown' = [kind |-> "receipt", receipt |-> call.receipt]
    BY <1>2, <1>4, <2>1 DEF Complete, tcs_admin_complete
  <2>3. /\ admin' \in AdminState /\ admin'.pending_sequence = 0
        /\ admin'.initialized = admin.initialized /\ admin'.context = admin.context
        /\ admin'.next_sequence = admin.next_sequence /\ admin'.exhausted = admin.exhausted
    BY <1>2, <2>2, ConstantTypes DEF AdminState
  <2>4. /\ shown' \in [kind : {"nothing", "rejected", "uncertain", "receipt"}, receipt : Receipt]
        /\ shown'.receipt = call.receipt
    BY <1>1, <2>2 DEF TypeOK
  <2>5. TypeOK'
    BY <1>1, <2>3, <2>4, IdleTypes, Zenon DEF TypeOK
  <2>6. ReportTruthful'
    <3>1. call.receipt.command = c
      BY <2>1 DEF tcs_admin_receipt_valid
    <3> QED BY <1>1, <1>4, <2>3, <2>4, <3>1 DEF AdminInv, CallInv, ReportTruthful
  <2>7. Launched' /\ CallInv' /\ WedgedOnlyByDamage'
    BY <1>1, <1>2, <2>3 DEF Launched, CallInv, WedgedOnlyByDamage
  <2>8. Counted'
    BY <1>1, <2>3 DEF AdminInv, Counted
  <2>9. SequencesAgree'
    BY <1>1, <1>2, <1>4, <2>3 DEF AdminInv, SequencesAgree
  <2> QED BY <1>3, <2>5, <2>6, <2>7, <2>8, <2>9 DEF AdminInv
<1>5. CASE call.phase = "garbage"
  <2>1. /\ admin' = admin /\ shown' = [Nothing EXCEPT !.kind = "uncertain"]
        /\ shown'.kind # "receipt"
    BY <1>5, IdleTypes DEF Complete
  <2>2. TypeOK'
    BY <1>1, <2>1, IdleTypes, Zenon DEF TypeOK
  <2>3. damaged
    BY <1>5 DEF AdminInv, WedgedOnlyByDamage
  <2>4. Launched' /\ CallInv' /\ WedgedOnlyByDamage' /\ ReportTruthful'
    BY <1>1, <1>2, <2>1, <2>3 DEF Launched, CallInv, WedgedOnlyByDamage, ReportTruthful
  <2>5. Counted'
    BY <1>1, <2>1 DEF AdminInv, Counted
  <2>6. SequencesAgree'
    BY <1>1, <1>2, <1>5, <2>1 DEF AdminInv, SequencesAgree
  <2> QED BY <1>3, <2>2, <2>4, <2>5, <2>6 DEF AdminInv
<1> QED BY <1>1, <1>4, <1>5

(* A read is decided and recorded, and leaves the policy as it is.         *)
LEMMA ReadKeeps ==
  ASSUME TypeOK, NEW r \in ReadRequests, Read(r)
  PROVE  live' = live
<1>1. r.op = "CHECK" /\ r.subject = Client /\ Client \in Subjects
      /\ live \in [Subjects -> Subject]
  BY InputsAssumption, SubjectsAssumption DEF TypeOK
<1>2. PolicyNext(live[Client], r) = live[Client]
  BY <1>1 DEF PolicyNext, Controls
<1>3. tcs_policy_apply(live, "STORAGE", r) = live
  BY <1>1, <1>2 DEF tcs_policy_apply
<1> QED BY <1>3 DEF Read, tcs_policy_commit

(* So a read keeps the invariant, the last report included.                *)
LEMMA ReadStep ==
  ASSUME AdminInv, NEW r \in ReadRequests, Read(r)
  PROVE  AdminInv'
<1>1. /\ TypeOK /\ live' = live
      /\ UNCHANGED <<used, admin, sequence, sequence_exhausted, call, shown, executed, damaged>>
  BY ReadKeeps DEF AdminInv, Read, history
<1>2. records' \in 0..CAPACITY
  BY <1>1, CapacityAssumption DEF Read, TypeOK
<1>3. TypeOK'
  BY <1>1, <1>2, Zenon DEF TypeOK
<1> QED BY <1>1, <1>3 DEF AdminInv, SubjectsValid, Launched, Counted, CallInv, SequencesAgree,
                          WedgedOnlyByDamage, ReportTruthful

(* Every step keeps the invariant.                                         *)
LEMMA AdminStep == AdminInv /\ [Next]_vars => AdminInv'
<1> SUFFICES ASSUME AdminInv, [Next]_vars PROVE AdminInv'
  OBVIOUS
<1>1. CASE UNCHANGED vars
  BY <1>1 DEF vars, server_vars, history, AdminInv, TypeOK, SubjectsValid, Launched, Counted,
              CallInv, SequencesAgree, WedgedOnlyByDamage, ReportTruthful
<1> QED BY <1>1, LaunchStep, SubmitStep, ExecuteStep, CorruptStep, CompleteStep, ReadStep
        DEF Next

(* The invariant holds throughout.                                         *)
LEMMA AdminInvariant == Spec => []AdminInv
BY AdminInit, AdminStep, PTL DEF Spec

-----------------------------------------------------------------------------
(* All state is well formed in every launch.                               *)
THEOREM TypesHold == Spec => []TypeOK
<1>1. AdminInv => TypeOK
  BY DEF AdminInv
<1> QED BY <1>1, AdminInvariant, PTL

(* Administrator and policy owner count together, up to and at the last    *)
(* sequence.                                                               *)
THEOREM SequencesAlwaysAgree == Spec => []SequencesAgree
<1>1. AdminInv => SequencesAgree
  BY DEF AdminInv
<1> QED BY <1>1, AdminInvariant, PTL

(* Every receipt policy produces is validated, so only a damaged reply     *)
(* leaves the administrator with a command pending.                        *)
THEOREM OnlyDamageWedges == Spec => []WedgedOnlyByDamage
<1>1. AdminInv => WedgedOnlyByDamage
  BY DEF AdminInv
<1> QED BY <1>1, AdminInvariant, PTL

(* What the operator was told last is what is in force.                    *)
THEOREM ReportsAreTruthful == Spec => []ReportTruthful
<1>1. AdminInv => ReportTruthful
  BY DEF AdminInv
<1> QED BY <1>1, AdminInvariant, PTL

(* No (context, sequence) pair is executed twice, over any number of       *)
(* launches and with any packets.                                          *)
THEOREM PacketsActOnce == Spec => ExecutedOnce
<1> DEFINE Fresh == call.phase = "execute" /\ call'.phase = "receipt"
                    => <<call.context, call.command.sequence>> \notin executed
<1>1. AdminInv /\ [Next]_vars => [Fresh]_vars
  <2> SUFFICES ASSUME AdminInv, call.phase = "execute" PROVE Fresh
    OBVIOUS
  <2>1. admin.initialized /\ TypeOK
    BY DEF AdminInv, Launched
  <2>2. /\ call.context = admin.context /\ call.command.sequence = sequence
        /\ ~sequence_exhausted /\ sequence \in Nat
    BY <2>1, UMAXAssumption DEF AdminInv, CallInv, SequencesAgree, TypeOK, U64
  <2>3. \A x \in executed : x[1] = admin.context => x[2] < sequence
    BY <2>2 DEF AdminInv, Counted
  <2>4. <<admin.context, sequence>> \notin executed
    BY <2>2, <2>3
  <2> QED BY <2>2, <2>4
<1>2. ExecutedOnce <=> [][Fresh]_vars
  BY PTL DEF ExecutedOnce
<1> QED BY <1>1, <1>2, AdminInit, AdminStep, PTL DEF Spec

(* A call that ended uncertain stops administration until the next launch. *)
THEOREM UncertaintyFailsClosed == Spec => FailsClosed
<1> DEFINE Closed == admin.pending_sequence # 0 /\ call.phase = "idle"
                     => \/ admin'.context # admin.context
                        \/ UNCHANGED <<admin, sequence, sequence_exhausted, live, call>>
<1>1. AdminInv /\ [Next]_vars => [Closed]_vars
  <2> SUFFICES ASSUME AdminInv, [Next]_vars, admin.pending_sequence # 0, call.phase = "idle"
               PROVE  \/ admin'.context # admin.context
                      \/ UNCHANGED <<admin, sequence, sequence_exhausted, live, call>>
    OBVIOUS
  <2>1. admin.initialized /\ admin.context \in used /\ TypeOK
    BY DEF AdminInv, Launched, ZeroAdmin
  <2>2. ASSUME NEW context \in Contexts \cup {NoContext}, Launch(context)
        PROVE  admin'.context # admin.context
    <3>1. admin'.context = context
      BY <2>2 DEF Launch, ZeroAdmin, tcs_admin_init
    <3> QED BY <2>1, <2>2, <3>1 DEF Launch
  <2>3. ASSUME NEW p \in Packets, Submit(p)
        PROVE  UNCHANGED <<admin, sequence, sequence_exhausted, live, call>>
    <3>1. AdmitStatus(admin, p) # "ACCEPTED"
      BY <2>1 DEF AdmitStatus
    <3> QED BY <2>3, <3>1 DEF Submit, tcs_admin_admit
  <2>4. ~Execute /\ ~Corrupt /\ ~Complete
    BY DEF Execute, Corrupt, Complete
  <2>5. ASSUME NEW r \in ReadRequests, Read(r)
        PROVE  UNCHANGED <<admin, sequence, sequence_exhausted, live, call>>
    BY <2>1, <2>5, ReadKeeps DEF Read
  <2>6. CASE UNCHANGED vars
    BY <2>6 DEF vars, server_vars
  <2> QED BY <2>2, <2>3, <2>4, <2>5, <2>6 DEF Next
<1>2. FailsClosed <=> [][Closed]_vars
  BY PTL DEF FailsClosed
<1> QED BY <1>1, <1>2, AdminInit, AdminStep, PTL DEF Spec
=============================================================================
