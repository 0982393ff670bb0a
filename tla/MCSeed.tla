------------------------------- MODULE MCSeed -------------------------------
(* Model-checking instance of Seed: what the console sends, and some things  *)
(* it does not.                                                              *)
EXTENDS Seed

Plain(op, s) == [op |-> op, subject |-> s, object |-> 0, rights |-> 0, generation |-> 0]

MCAdminRequests ==
  {Plain(op, s) : op \in Controls, s \in Subjects}
  \cup {[Plain("GRANT", s) EXCEPT !.object = TCS_OBJECT, !.rights = TCS_READ] : s \in Subjects}
  \cup {[Plain("GRANT", Client) EXCEPT !.object = TCS_OBJECT, !.rights = TCS_WRITE],
        [Plain("CHECK", Client) EXCEPT !.object = TCS_OBJECT, !.rights = TCS_READ],
        Plain("REVOKE", NoSubject),
        [Plain("QUARANTINE", Client) EXCEPT !.generation = 1]}

MCReadRequests ==
  [object : {TCS_OBJECT}, rights : {TCS_READ}, generation : U64]
  \cup {[object |-> 43, rights |-> TCS_READ, generation |-> 1]}

(* Records are only appended, and steps and properties read no more of the *)
(* log than its length and its last record.                                *)
MCView == <<live, replayed, released, Len(log), IF log = <<>> THEN <<>> ELSE log[Len(log)]>>
=============================================================================
