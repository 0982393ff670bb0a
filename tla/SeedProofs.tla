----------------------------- MODULE SeedProofs -----------------------------
(***************************************************************************)
(* The properties of Seed, for every set of subjects, every UMAX, every    *)
(* audit capacity and every set of requests.                               *)
(*                                                                         *)
(* The argument: a request whose status is OK has passed every check of    *)
(* tcs_policy_apply (AcceptedFacts), and then leaves a subject that        *)
(* tcs_snapshot_valid accepts (NextSubject).  A call changes nothing of    *)
(* the policy or applies one such request (DecideCases), and the auditor's *)
(* copy follows as long as records are taken (DecideExplained).            *)
(***************************************************************************)
EXTENDS Seed, TLAPS

(* What the early returns of tcs_policy_apply leave.                       *)
Accepted(s, actor, r) ==
  /\ r.subject \in Subjects /\ r.op \in Ops
  /\ actor = IF r.op = "CHECK" THEN "STORAGE" ELSE "ADMIN"
  /\ r.op = "GRANT" => /\ s.state # "QUARANTINED" /\ s.generation # UMAX
                       /\ r.object = TCS_OBJECT /\ r.rights = TCS_READ
  /\ r.op = "CHECK" => /\ s.state = "ACTIVE"
                       /\ r.generation # 0 /\ r.generation = s.generation
  /\ r.op = "RESTORE" => s.state = "QUARANTINED"

(* A request is answered OK only if it passed every check.                 *)
LEMMA AcceptedFacts ==
  ASSUME NEW policy, NEW actor, NEW r, PolicyStatus(policy, actor, r) = "OK"
  PROVE  Accepted(policy[r.subject], actor, r)
BY DEF PolicyStatus, ControlStatus, AccessStatus, GrantStatus, CheckStatus, Accepted,
       Ops, Controls

(* An accepted request leaves a well-formed subject that tcs_snapshot_valid *)
(* accepts; its generation never falls.                                    *)
LEMMA NextSubject ==
  ASSUME NEW s \in Subject, NEW actor, NEW r \in Request, tcs_snapshot_valid(s),
         Accepted(s, actor, r)
  PROVE  /\ PolicyNext(s, r) \in Subject
         /\ tcs_snapshot_valid(PolicyNext(s, r))
         /\ PolicyNext(s, r).generation \in {s.generation, s.generation + 1}
<1>1. s.generation \in U64 /\ s.generation + 1 \in Nat
  BY UMAXAssumption DEF Subject, U64
<1>2. CASE r.op = "GRANT"
  <2>1. s.generation + 1 \in U64 /\ s.generation + 1 # 0
    BY <1>1, <1>2, UMAXAssumption DEF Accepted, U64
  <2>2. PolicyNext(s, r) = [state |-> "ACTIVE", generation |-> s.generation + 1,
                            object |-> TCS_OBJECT, rights |-> TCS_READ]
    BY <1>2 DEF Accepted, PolicyNext, Controls
  <2> QED BY <2>1, <2>2 DEF Subject, tcs_snapshot_valid
<1>3. CASE r.op = "CHECK"
  BY <1>3 DEF PolicyNext, Controls
<1>4. CASE r.op \in Controls
  <2>1. Bump(s.generation) \in U64 /\ Bump(s.generation) \in {s.generation, s.generation + 1}
    BY <1>1, UMAXAssumption DEF Bump, U64
  <2>2. ControlledState(s, r) \in {"RESTRICTED", "QUARANTINED"}
    BY DEF ControlledState
  <2>3. PolicyNext(s, r) = [state |-> ControlledState(s, r), generation |-> Bump(s.generation),
                            object |-> 0, rights |-> 0]
    BY <1>4 DEF PolicyNext, Controls
  <2> QED BY <2>1, <2>2, <2>3 DEF Subject, tcs_snapshot_valid
<1> QED BY <1>2, <1>3, <1>4 DEF Accepted, Ops

-----------------------------------------------------------------------------
(* The invariant: the types, valid snapshots, and the explained log.  It   *)
(* is inductive as it stands, because a subject the full log no longer     *)
(* explains has lost its session and can only lose more.                   *)
SubjectsValid == \A s \in Subjects : tcs_snapshot_valid(live[s])
SeedInv == TypeOK /\ SubjectsValid /\ AuditExplains

(* What one call does to the live policy: nothing, or the accepted request *)
(* on its subject.                                                         *)
LEMMA DecideCases ==
  ASSUME SeedInv, NEW actor \in Actors, NEW r \in Request, Decide(actor, r)
  PROVE  \/ live' = live
         \/ /\ Accepted(live[r.subject], actor, r)
            /\ PolicyStatus(live, actor, r) = "OK"
            /\ AuditOK(log) \/ r.op \in Reductions
            /\ live' = [live EXCEPT ![r.subject] = PolicyNext(live[r.subject], r)]
BY AcceptedFacts DEF Decide, tcs_policy_commit, Commits, tcs_policy_apply

(* The call keeps the types and the valid snapshots.                       *)
LEMMA DecideValid ==
  ASSUME SeedInv, NEW actor \in Actors, NEW r \in Request, Decide(actor, r)
  PROVE  /\ live' \in [Subjects -> Subject] /\ SubjectsValid'
         /\ log' \in Seq(Record) /\ Len(log') <= CAPACITY
         /\ \A s \in Subjects : live'[s].generation \in {live[s].generation, live[s].generation + 1}
<1>1. /\ live \in [Subjects -> Subject] /\ log \in Seq(Record) /\ Len(log) <= CAPACITY
      /\ SubjectsValid
  BY DEF SeedInv, TypeOK
<1>2. /\ live' \in [Subjects -> Subject] /\ SubjectsValid'
      /\ \A s \in Subjects : live'[s].generation \in {live[s].generation, live[s].generation + 1}
  <2>1. CASE live' = live
    BY <1>1, <2>1 DEF SubjectsValid
  <2>2. CASE /\ Accepted(live[r.subject], actor, r)
             /\ live' = [live EXCEPT ![r.subject] = PolicyNext(live[r.subject], r)]
    <3>1. r.subject \in Subjects
      BY <2>2 DEF Accepted
    <3>2. /\ PolicyNext(live[r.subject], r) \in Subject
          /\ tcs_snapshot_valid(PolicyNext(live[r.subject], r))
          /\ PolicyNext(live[r.subject], r).generation
               \in {live[r.subject].generation, live[r.subject].generation + 1}
      BY <1>1, <2>2, <3>1, NextSubject DEF SubjectsValid
    <3> QED BY <1>1, <2>2, <3>1, <3>2 DEF SubjectsValid
  <2> QED BY <2>1, <2>2, DecideCases
<1>3. log' \in Seq(Record) /\ Len(log') <= CAPACITY
  <2>1. PolicyStatus(live, actor, r) \in Statuses
    BY DEF PolicyStatus, ControlStatus, AccessStatus, GrantStatus, CheckStatus, Statuses
  <2>2. [request |-> r, actor |-> actor, decision |-> PolicyStatus(live, actor, r)] \in Record
    BY <2>1 DEF Record
  <2> QED BY <1>1, <2>2, CapacityAssumption DEF Decide, AuditAppend, AuditOK
<1> QED BY <1>2, <1>3

(* The auditor's copy follows the live policy as long as the log takes     *)
(* records, and afterwards bounds it.                                      *)
LEMMA DecideExplained ==
  ASSUME SeedInv, NEW actor \in Actors, NEW r \in Request, Decide(actor, r)
  PROVE  replayed' \in [Subjects -> Subject] /\ AuditExplains'
<1>1. /\ live \in [Subjects -> Subject] /\ replayed \in [Subjects -> Subject]
      /\ log \in Seq(Record) /\ AuditExplains
  BY DEF SeedInv, TypeOK
<1>2. CASE AuditOK(log)
  <2>1. live = replayed
    BY <1>1, <1>2 DEF AuditExplains, AuditOK
  <2>2. replayed' = live'
    <3>1. CASE PolicyStatus(live, actor, r) = "OK"
      BY <1>2, <2>1, <3>1 DEF Decide, tcs_policy_commit, Commits, tcs_policy_apply, Replay
    <3>2. CASE PolicyStatus(live, actor, r) # "OK"
      BY <1>2, <2>1, <3>2 DEF Decide, tcs_policy_commit, Commits, Replay
    <3> QED BY <3>1, <3>2
  <2> QED BY <2>2, DecideValid DEF AuditExplains
<1>3. CASE ~AuditOK(log)
  <2>1. replayed' = replayed /\ log' = log /\ Len(log) = CAPACITY
    BY <1>3 DEF Decide, AuditAppend, AuditOK
  <2>2. CASE live' = live
    BY <1>1, <2>1, <2>2 DEF AuditExplains
  <2>3. CASE /\ Accepted(live[r.subject], actor, r) /\ r.op \in Reductions
             /\ live' = [live EXCEPT ![r.subject] = PolicyNext(live[r.subject], r)]
    <3> DEFINE s == r.subject
    <3>1. s \in Subjects /\ live[s] \in Subject /\ replayed[s] \in Subject
      BY <1>1, <2>3 DEF Accepted
    <3>2. live'[s] = [state |-> ControlledState(live[s], r), generation |-> Bump(live[s].generation),
                      object |-> 0, rights |-> 0]
      BY <1>1, <2>3, <3>1 DEF PolicyNext, Reductions, Controls
    <3>3. /\ live[s].generation \in Nat /\ replayed[s].generation \in Nat
          /\ live[s].generation >= replayed[s].generation
      BY <1>1, <3>1, UMAXAssumption DEF AuditExplains, Subject, U64
    <3>4. live'[s].generation >= replayed[s].generation
      BY <3>2, <3>3, UMAXAssumption DEF Bump
    <3>5. replayed[s].state = "QUARANTINED" => live[s].state = "QUARANTINED"
      BY <1>1, <3>1 DEF AuditExplains
    <3>6. /\ live'[s].state # "ACTIVE"
          /\ replayed[s].state = "QUARANTINED" => live'[s].state = "QUARANTINED"
      BY <2>3, <3>2, <3>5 DEF ControlledState, Reductions
    <3> QED BY <1>1, <2>1, <2>3, <3>1, <3>4, <3>6 DEF AuditExplains
  <2> QED BY <1>1, <1>3, <2>1, <2>2, <2>3, DecideCases
<1> QED BY <1>2, <1>3

-----------------------------------------------------------------------------
(* Every subject starts restricted, with an empty log.                     *)
LEMMA SeedInit == Init => SeedInv
<1> SUFFICES ASSUME Init PROVE SeedInv
  OBVIOUS
<1>1. ZeroPolicy \in [Subjects -> Subject] /\ 0 \in U64
  BY UMAXAssumption DEF ZeroPolicy, Subject, U64
<1>2. \A s \in Subjects : tcs_snapshot_valid(ZeroPolicy[s])
  BY DEF ZeroPolicy, tcs_snapshot_valid
<1>3. <<>> \in Seq(Record) /\ Len(<<>>) <= CAPACITY
  BY CapacityAssumption
<1> QED BY <1>1, <1>2, <1>3 DEF Init, SeedInv, TypeOK, SubjectsValid, AuditExplains

(* The request storage makes is a request.                                 *)
LEMMA CheckRequestTyped ==
  ASSUME NEW q \in ReadRequests
  PROVE  /\ CheckRequest(q) \in Request
         /\ q.generation \in U64
         /\ CheckRequest(q).op = "CHECK" /\ CheckRequest(q).subject = Client
         /\ CheckRequest(q).generation = q.generation
BY RequestsAssumption, SubjectsAssumption DEF CheckRequest, Request, Ops

(* Every call of the driver keeps the invariant.                           *)
LEMMA SeedStep == SeedInv /\ [Next]_vars => SeedInv'
<1> SUFFICES ASSUME SeedInv, [Next]_vars PROVE SeedInv'
  OBVIOUS
<1>0. 0 \in U64
  BY UMAXAssumption DEF U64
<1>1. ASSUME NEW r \in AdminRequests, AdminCall(r) PROVE SeedInv'
  <2>1. r \in Request /\ "ADMIN" \in Actors /\ Decide("ADMIN", r) /\ released' = 0
    BY <1>1, RequestsAssumption DEF AdminCall, Actors
  <2>2. live' \in [Subjects -> Subject] /\ SubjectsValid' /\ log' \in Seq(Record) /\ Len(log') <= CAPACITY
    BY <2>1, DecideValid
  <2>3. replayed' \in [Subjects -> Subject] /\ AuditExplains'
    BY <2>1, DecideExplained
  <2> QED BY <1>0, <2>1, <2>2, <2>3 DEF SeedInv, TypeOK
<1>2. ASSUME NEW q \in ReadRequests, Read(q) PROVE SeedInv'
  <2>1. /\ CheckRequest(q) \in Request /\ "STORAGE" \in Actors
        /\ Decide("STORAGE", CheckRequest(q)) /\ released' \in U64
    BY <1>0, <1>2, CheckRequestTyped DEF Read, Actors
  <2>2. live' \in [Subjects -> Subject] /\ SubjectsValid' /\ log' \in Seq(Record) /\ Len(log') <= CAPACITY
    BY <2>1, DecideValid
  <2>3. replayed' \in [Subjects -> Subject] /\ AuditExplains'
    BY <2>1, DecideExplained
  <2> QED BY <2>1, <2>2, <2>3 DEF SeedInv, TypeOK
<1>3. CASE NoDecision \/ UNCHANGED vars
  BY <1>0, <1>3 DEF SeedInv, TypeOK, SubjectsValid, AuditExplains, NoDecision, vars
<1> QED BY <1>1, <1>2, <1>3 DEF Next

(* The invariant holds throughout.                                         *)
LEMMA SeedInvariant == Spec => []SeedInv
BY SeedInit, SeedStep, PTL DEF Spec

-----------------------------------------------------------------------------
(* The self-status the client is told is the client's subject in force, at *)
(* every generation and with any log; nobody else is told anything.        *)
THEOREM SnapshotsAlwaysValid == Spec => []SnapshotsValid
<1>1. ASSUME SeedInv PROVE SnapshotsValid
  <2>1. tcs_snapshot_valid(live[Client])
    BY <1>1, SubjectsAssumption DEF SeedInv, SubjectsValid
  <2>2. SelfStatus("STORAGE") = [status |-> "OK", self |-> live[Client]]
    BY <2>1 DEF SelfStatus, tcs_policy_self_status, tcs_snapshot_reply, tcs_snapshot_response
  <2>3. SelfStatus("ADMIN") = [status |-> "DENIED"]
    BY DEF SelfStatus, tcs_policy_self_status, tcs_snapshot_reply, tcs_snapshot_response
  <2> QED BY <1>1, <2>2, <2>3 DEF SeedInv, SubjectsValid, SnapshotsValid
<1> QED BY <1>1, SeedInvariant, PTL

(* Replaying the log gives the live policy until the log is full, and      *)
(* bounds it for ever after.                                               *)
THEOREM AuditAlwaysExplains == Spec => []AuditExplains
<1>1. SeedInv => AuditExplains
  BY DEF SeedInv
<1> QED BY <1>1, SeedInvariant, PTL

-----------------------------------------------------------------------------
(* An accepted request that the log has room for leaves its record as the  *)
(* last one.                                                               *)
LEMMA DecideRecords ==
  ASSUME SeedInv, NEW actor \in Actors, NEW r \in Request, Decide(actor, r),
         AuditOK(log), PolicyStatus(live, actor, r) = "OK"
  PROVE  /\ Len(log') = Len(log) + 1
         /\ log'[Len(log')].decision = "OK"
         /\ log'[Len(log')].request = r
<1> DEFINE record == [request |-> r, actor |-> actor, decision |-> "OK"]
<1>1. log \in Seq(Record) /\ log' = Append(log, record)
  BY DEF SeedInv, TypeOK, Decide, AuditAppend
<1>2. Len(log') = Len(log) + 1 /\ log'[Len(log) + 1] = record
  BY <1>1
<1> QED BY <1>2

(* What an accepted request makes of its subject, operation by operation.  *)
LEMMA AcceptedNext ==
  ASSUME NEW s \in Subject, NEW actor, NEW r \in Request, Accepted(s, actor, r)
  PROVE  /\ r.op = "GRANT" => /\ PolicyNext(s, r).state = "ACTIVE"
                              /\ PolicyNext(s, r).generation = s.generation + 1
                              /\ s.state # "QUARANTINED"
         /\ r.op = "CHECK" => PolicyNext(s, r) = s
         /\ r.op \in Controls => /\ PolicyNext(s, r).state = ControlledState(s, r)
                                 /\ PolicyNext(s, r).generation = Bump(s.generation)
         /\ r.op \in {"GRANT", "CHECK"} \cup Controls
<1>1. CASE r.op = "GRANT"
  BY <1>1 DEF PolicyNext, Controls, Accepted
<1>2. CASE r.op = "CHECK"
  BY <1>2 DEF PolicyNext, Controls
<1>3. CASE r.op \in Controls
  BY <1>3 DEF PolicyNext, Controls
<1> QED BY <1>1, <1>2, <1>3 DEF Accepted, Ops, Controls

(* No session is opened, no quarantine lifted and no object released       *)
(* without the OK record of that decision, however full the log.           *)
THEOREM NothingIsUnrecorded == Spec => NothingUnrecorded
<1> DEFINE Rec(op, s) == /\ Len(log') = Len(log) + 1
                         /\ log'[Len(log')].decision = "OK"
                         /\ log'[Len(log')].request.op = op
                         /\ log'[Len(log')].request.subject = s
           Body == /\ released' # 0 => Rec("CHECK", Client)
                   /\ \A s \in Subjects :
                        /\ live'[s].state = "ACTIVE" /\ live'[s] # live[s] => Rec("GRANT", s)
                        /\ live[s].state = "QUARANTINED" /\ live'[s].state # "QUARANTINED"
                           => Rec("RESTORE", s)
<1>1. ASSUME SeedInv, NEW actor \in Actors, NEW r \in Request, Decide(actor, r)
      PROVE  \A s \in Subjects :
               /\ live'[s].state = "ACTIVE" /\ live'[s] # live[s] => Rec("GRANT", s)
               /\ live[s].state = "QUARANTINED" /\ live'[s].state # "QUARANTINED"
                  => Rec("RESTORE", s)
  <2>1. CASE live' = live
    BY <2>1
  <2>2. CASE /\ Accepted(live[r.subject], actor, r)
             /\ PolicyStatus(live, actor, r) = "OK"
             /\ AuditOK(log) \/ r.op \in Reductions
             /\ live' = [live EXCEPT ![r.subject] = PolicyNext(live[r.subject], r)]
    <3> DEFINE u == r.subject
               n == live'[u]
    <3>1. u \in Subjects /\ live \in [Subjects -> Subject] /\ live[u] \in Subject
      BY <1>1, <2>2 DEF SeedInv, TypeOK, Accepted
    <3>2. /\ n = PolicyNext(live[u], r)
          /\ \A s \in Subjects : s # u => live'[s] = live[s]
      BY <2>2, <3>1
    <3>3. AuditOK(log) => Rec(r.op, u)
      BY <1>1, <2>2, DecideRecords
    <3>4. n.state = "ACTIVE" /\ n # live[u] => r.op = "GRANT"
      BY <2>2, <3>1, <3>2, AcceptedNext DEF ControlledState
    <3>5. live[u].state = "QUARANTINED" /\ n.state # "QUARANTINED" => r.op = "RESTORE"
      BY <2>2, <3>1, <3>2, AcceptedNext DEF ControlledState, Controls
    <3> HIDE DEF Rec
    <3>6. r.op \in {"GRANT", "RESTORE"} => Rec(r.op, u)
      BY <2>2, <3>3 DEF Reductions
    <3> QED BY <3>2, <3>4, <3>5, <3>6
  <2> HIDE DEF Rec
  <2> QED BY <1>1, <2>1, <2>2, DecideCases
<1>2. SeedInv /\ [Next]_vars => [Body]_vars
  <2> SUFFICES ASSUME SeedInv, Next PROVE Body
    OBVIOUS
  <2>1. ASSUME NEW r \in AdminRequests, AdminCall(r) PROVE Body
    <3>1. r \in Request /\ "ADMIN" \in Actors /\ Decide("ADMIN", r) /\ released' = 0
      BY <2>1, RequestsAssumption DEF AdminCall, Actors
    <3> HIDE DEF Rec
    <3> QED BY <1>1, <3>1
  <2>2. ASSUME NEW q \in ReadRequests, Read(q) PROVE Body
    <3> DEFINE r == CheckRequest(q)
    <3>1. r \in Request /\ "STORAGE" \in Actors /\ Decide("STORAGE", r)
          /\ r.op = "CHECK" /\ r.subject = Client
      BY <2>2, CheckRequestTyped DEF Read, Actors
    <3>2. released' # 0 => AuditOK(log) /\ PolicyStatus(live, "STORAGE", r) = "OK"
      BY <2>2 DEF Read, CommitReply
    <3> HIDE DEF r
    <3>3. released' # 0 => Rec("CHECK", Client)
      BY <3>1, <3>2, DecideRecords
    <3> HIDE DEF Rec
    <3> QED BY <1>1, <3>1, <3>3
  <2>3. CASE NoDecision
    <3> HIDE DEF Rec
    <3> QED BY <2>3 DEF NoDecision
  <2> QED BY <2>1, <2>2, <2>3 DEF Next
<1>3. NothingUnrecorded <=> [][Body]_vars
  BY PTL DEF NothingUnrecorded
<1> QED BY <1>2, <1>3, SeedInit, SeedStep, PTL DEF Spec

-----------------------------------------------------------------------------
(* A check never changes the policy.                                       *)
LEMMA CheckKeeps ==
  ASSUME SeedInv, NEW actor \in Actors, NEW r \in Request, Decide(actor, r), r.op = "CHECK"
  PROVE  live' = live
<1> SUFFICES ASSUME /\ Accepted(live[r.subject], actor, r)
                    /\ live' = [live EXCEPT ![r.subject] = PolicyNext(live[r.subject], r)]
             PROVE  live' = live
  BY DecideCases
<1>1. r.subject \in Subjects /\ live \in [Subjects -> Subject]
  BY DEF SeedInv, TypeOK, Accepted
<1>2. PolicyNext(live[r.subject], r) = live[r.subject]
  BY <1>1, AcceptedNext
<1> QED BY <1>1, <1>2

(* Seen through the mapping, a call that is not answered with the object   *)
(* opens, ends, isolates or restores a session of one subject, or does     *)
(* nothing.                                                                *)
LEMMA DecideRefines ==
  ASSUME SeedInv, NEW actor \in Actors, NEW r \in Request, Decide(actor, r), released' = 0
  PROVE  Abstract!Next
<1> DEFINE session == [s \in Subjects |-> IF live[s].state = "ACTIVE" THEN live[s].generation
                                          ELSE 0]
           floor == [s \in Subjects |-> live[s].generation]
           isolated == {s \in Subjects : live[s].state = "QUARANTINED"}
           u == r.subject
<1>1. CASE live' = live
  <2>1. Abstract!Refuse
    BY <1>1 DEF Abstract!Refuse
  <2> QED BY <2>1 DEF Abstract!Next
<1>2. CASE /\ Accepted(live[r.subject], actor, r)
           /\ live' = [live EXCEPT ![r.subject] = PolicyNext(live[r.subject], r)]
  <2> DEFINE n == PolicyNext(live[u], r)
  <2>1. u \in Subjects /\ live \in [Subjects -> Subject] /\ live[u] \in Subject
    BY <1>2 DEF SeedInv, TypeOK, Accepted
  <2>2. live'[u] = n /\ \A s \in Subjects : s # u => live'[s] = live[s]
    BY <1>2, <2>1
  <2>3. /\ r.op = "GRANT" => n.state = "ACTIVE" /\ n.generation = live[u].generation + 1
                             /\ live[u].state # "QUARANTINED"
        /\ r.op = "CHECK" => n = live[u]
        /\ r.op \in Controls => n.state = ControlledState(live[u], r)
                                /\ n.generation = Bump(live[u].generation)
        /\ r.op \in {"GRANT", "CHECK"} \cup Controls
    BY <1>2, <2>1, AcceptedNext
  <2>4. /\ session' = [session EXCEPT ![u] = IF n.state = "ACTIVE" THEN n.generation ELSE 0]
        /\ floor' = [floor EXCEPT ![u] = n.generation]
    <3> HIDE DEF n
    <3> QED BY <2>1, <2>2
  <2>5. isolated' = IF n.state = "QUARANTINED" THEN isolated \cup {u} ELSE isolated \ {u}
    <3> HIDE DEF n
    <3> QED BY <2>1, <2>2
  <2>6. CASE r.op = "GRANT"
    <3>1. n.state = "ACTIVE" /\ n.generation = live[u].generation + 1 /\ u \notin isolated
      BY <2>3, <2>6
    <3>2. floor[u] = live[u].generation /\ isolated' = isolated
      BY <2>1, <2>5, <3>1
    <3>3. /\ floor' = [floor EXCEPT ![u] = floor[u] + 1]
          /\ session' = [session EXCEPT ![u] = floor[u] + 1]
      BY <2>4, <3>1, <3>2
    <3>4. Abstract!Open(u)
      BY <3>1, <3>2, <3>3 DEF Abstract!Open
    <3> QED BY <2>1, <3>4 DEF Abstract!Next
  <2>7. CASE r.op = "CHECK"
    <3>1. live' = live
      BY <1>2, <2>1, <2>3, <2>7
    <3> QED BY <1>1, <3>1
  <2>8. CASE r.op \in Controls
    <3>1. /\ n.state = ControlledState(live[u], r) /\ n.state # "ACTIVE"
          /\ n.generation = Bump(live[u].generation)
      BY <2>3, <2>8 DEF ControlledState
    <3>2. floor[u] = live[u].generation /\ n.generation \in {floor[u], floor[u] + 1}
      BY <2>1, <3>1 DEF Bump
    <3>3. /\ session' = [session EXCEPT ![u] = 0]
          /\ \E k \in {floor[u], floor[u] + 1} : floor' = [floor EXCEPT ![u] = k]
      BY <2>4, <3>1, <3>2
    <3>5. CASE r.op = "REVOKE"
      <4>1. isolated' = isolated
        BY <2>1, <2>5, <3>1, <3>5 DEF ControlledState
      <4>2. Abstract!End(u)
        BY <3>3, <4>1 DEF Abstract!Reduce, Abstract!End
      <4> QED BY <2>1, <4>2 DEF Abstract!Next
    <3>6. CASE r.op = "QUARANTINE"
      <4>1. isolated' = isolated \cup {u}
        BY <2>1, <2>5, <3>1, <3>6 DEF ControlledState
      <4>2. Abstract!Isolate(u)
        BY <3>3, <4>1 DEF Abstract!Reduce, Abstract!Isolate
      <4> QED BY <2>1, <4>2 DEF Abstract!Next
    <3>7. CASE r.op = "RESTORE"
      <4>1. isolated' = isolated \ {u} /\ u \in isolated
        BY <1>2, <2>1, <2>5, <3>1, <3>7 DEF ControlledState, Accepted
      <4>2. Abstract!Restore(u)
        BY <3>3, <4>1 DEF Abstract!Reduce, Abstract!Restore
      <4> QED BY <2>1, <4>2 DEF Abstract!Next
    <3> QED BY <2>8, <3>5, <3>6, <3>7 DEF Controls
  <2> QED BY <2>3, <2>6, <2>7, <2>8
<1> QED BY <1>1, <1>2, DecideCases

(* The servers implement the numbered sessions of Sessions: a read is      *)
(* answered only for the session open at that moment, no number opens      *)
(* twice, and an isolated subject gets none before its restore.            *)
THEOREM SeedRefines == Spec => Refines
<1>1. Init => Abstract!Init
  BY DEF Init, ZeroPolicy, Abstract!Init
<1>2. SeedInv /\ [Next]_vars => [Abstract!Next]_(Abstract!vars)
  <2> SUFFICES ASSUME SeedInv, [Next]_vars PROVE [Abstract!Next]_(Abstract!vars)
    OBVIOUS
  <2>1. ASSUME NEW r \in AdminRequests, AdminCall(r) PROVE Abstract!Next
    <3>1. r \in Request /\ "ADMIN" \in Actors /\ Decide("ADMIN", r) /\ released' = 0
      BY <2>1, RequestsAssumption DEF AdminCall, Actors
    <3> QED BY <3>1, DecideRefines
  <2>2. ASSUME NEW q \in ReadRequests, Read(q) PROVE Abstract!Next
    <3> DEFINE r == CheckRequest(q)
    <3>1. /\ r \in Request /\ "STORAGE" \in Actors /\ Decide("STORAGE", r)
          /\ r.op = "CHECK" /\ r.subject = Client /\ r.generation = q.generation
      BY <2>2, CheckRequestTyped DEF Read, Actors
    <3>2. /\ released' # 0 => /\ PolicyStatus(live, "STORAGE", r) = "OK" /\ AuditOK(log)
                              /\ released' = q.generation
      BY <2>2 DEF Read, CommitReply
    <3>3. CASE released' # 0
      <4>1. Accepted(live[Client], "STORAGE", r)
        BY <3>1, <3>2, <3>3, AcceptedFacts
      <4>2. live[Client].state = "ACTIVE" /\ released' = live[Client].generation
        BY <3>1, <3>2, <3>3, <4>1 DEF Accepted
      <4>3. live' = live
        BY <3>1, <3>2, <3>3, CheckKeeps
      <4>4. Abstract!Release
        BY <3>3, <4>2, <4>3, SubjectsAssumption DEF Abstract!Release
      <4> QED BY <4>4 DEF Abstract!Next
    <3>4. CASE released' = 0
      <4> HIDE DEF r
      <4> QED BY <3>1, <3>4, DecideRefines
    <3> QED BY <3>3, <3>4
  <2>3. CASE NoDecision
    <3>1. Abstract!Refuse
      BY <2>3 DEF NoDecision, Abstract!Refuse
    <3> QED BY <3>1 DEF Abstract!Next
  <2>4. CASE UNCHANGED vars
    BY <2>4 DEF vars, Abstract!vars
  <2> QED BY <2>1, <2>2, <2>3, <2>4 DEF Next
<1> QED BY <1>1, <1>2, SeedInit, SeedStep, PTL DEF Spec, Refines, Abstract!Spec
=============================================================================
