------------------------------ MODULE Sessions ------------------------------
(***************************************************************************)
(* What the seed system promises about read authority.  A subject has at   *)
(* most one open session; sessions are numbered, and a number that was     *)
(* used or passed over never opens again; an isolated subject has no       *)
(* session and gets one only after an explicit restore, which opens none;  *)
(* and the object is released only for the session open at that moment.    *)
(***************************************************************************)
EXTENDS Integers

CONSTANTS Subjects, Client

VARIABLES session,      \* the open session of a subject, 0 if none
          floor,        \* the highest session number used or passed over
          isolated,     \* the isolated subjects
          released      \* the session the last step released the object for, or 0

vars == <<session, floor, isolated, released>>

Init ==
  /\ session = [s \in Subjects |-> 0]
  /\ floor = [s \in Subjects |-> 0]
  /\ isolated = {}
  /\ released = 0

Open(s) ==
  /\ s \notin isolated
  /\ floor' = [floor EXCEPT ![s] = @ + 1]
  /\ session' = [session EXCEPT ![s] = floor[s] + 1]
  /\ released' = 0
  /\ UNCHANGED isolated

(* Ending a session, isolating or restoring may pass over one number.      *)
Reduce(s, nowIsolated) ==
  /\ session' = [session EXCEPT ![s] = 0]
  /\ \E n \in {floor[s], floor[s] + 1} : floor' = [floor EXCEPT ![s] = n]
  /\ isolated' = nowIsolated
  /\ released' = 0

End(s) == Reduce(s, isolated)
Isolate(s) == Reduce(s, isolated \cup {s})
Restore(s) == s \in isolated /\ Reduce(s, isolated \ {s})

Release ==
  /\ session[Client] # 0
  /\ released' = session[Client]
  /\ UNCHANGED <<session, floor, isolated>>

Refuse ==
  /\ released' = 0
  /\ UNCHANGED <<session, floor, isolated>>

Next ==
  \/ \E s \in Subjects : Open(s) \/ End(s) \/ Isolate(s) \/ Restore(s)
  \/ Release
  \/ Refuse

Spec == Init /\ [][Next]_vars
=============================================================================
