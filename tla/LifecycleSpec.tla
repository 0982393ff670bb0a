---------------------------- MODULE LifecycleSpec ----------------------------
(***************************************************************************)
(* The lifecycle library driven by its single owner: any actor, any event, *)
(* any audit answer, in any order.  One action per operation of            *)
(* tcs_lc_apply; each covers the refused calls too.                        *)
(*                                                                         *)
(* handed and finished are history: the work tokens BEGIN returned and the *)
(* tokens COMPLETE accepted.                                               *)
(***************************************************************************)
EXTENDS Lifecycle

VARIABLES life, handed, finished

LcVars == <<life, handed, finished>>

Token == Slots \X U64 \X U64

LcTypeOK ==
  /\ life \in LcLife
  /\ handed \in SUBSET Token
  /\ finished \in SUBSET Token

LcInit ==
  /\ life = ZeroLife
  /\ handed = {}
  /\ finished = {}

(* Mutant: BEGIN returns the number of the work before.                    *)
WorkTokenMutant(e) ==
  <<e.slot, e.incarnation,
    IF e.op = "BEGIN" THEN life.slots[e.slot].issued ELSE e.sequence>>

(* The value tcs_lc_apply returns with OK for BEGIN and COMPLETE.          *)
WorkToken(e) ==
  <<e.slot, e.incarnation,
    IF e.op = "BEGIN" THEN life.slots[e.slot].issued + 1 ELSE e.sequence>>

Call(actor, e, audit_ok) ==
  LET accepted == LcStatus(life, actor, e, audit_ok) = "OK"
  IN /\ life' = tcs_lc_apply(life, actor, e, audit_ok)
     /\ handed' = IF accepted /\ e.op = "BEGIN"
                  THEN handed \cup {WorkToken(e)} ELSE handed
     /\ finished' = IF accepted /\ e.op = "COMPLETE"
                    THEN finished \cup {WorkToken(e)} ELSE finished

Submit(op) ==
  \E actor \in LcActors, e \in {f \in LcEvent : f.op = op}, audit_ok \in BOOLEAN :
     Call(actor, e, audit_ok)

Reserve  == Submit("RESERVE")
Started  == Submit("STARTED")
Activate == Submit("ACTIVATE")
Begin    == Submit("BEGIN")
Complete == Submit("COMPLETE")
Contain  == Submit("CONTAIN")
Stopped  == Submit("STOPPED")
Drained  == Submit("DRAINED")
MalformedEvent == Submit(NoOp)

LcNext == \/ Reserve \/ Started \/ Activate \/ Begin \/ Complete
        \/ Contain \/ Stopped \/ Drained \/ MalformedEvent

LcSpec == LcInit /\ [][LcNext]_LcVars

-----------------------------------------------------------------------------
(* Every state the library reaches passes its own validation, so the       *)
(* fail-closed INVALID answer of tcs_lc_apply to a damaged state is never  *)
(* given to a well-formed event.                                           *)
Valid == tcs_lc_valid(life)

(* A slot is occupied only while every slot used before it has been both   *)
(* stopped and drained (the RESERVE case scans all slots for this).        *)
ReplacementQuiescent ==
  \A i, j \in Slots :
     /\ life.slots[i].state \in OccupiedStates
     /\ i # j
     /\ life.slots[j].state # "UNUSED"
     => life.slots[j].stopped /\ life.slots[j].drained

(* Work is never forgotten: a token handed out and not completed is the    *)
(* latest of its incarnation, and it is still pending unless the broker    *)
(* confirmed the drain.  CONTAIN and STOPPED alone discharge nothing.      *)
WorkAccounted ==
  \A t \in handed \ finished :
     LET s == life.slots[t[1]]
     IN /\ s.incarnation = t[2]
        /\ s.issued = t[3]
        /\ s.pending = t[3] \/ s.drained

(* BEGIN never hands out a token twice, COMPLETE never accepts one twice,  *)
(* and only a token that was handed out is ever accepted.                  *)
TokensOnce ==
  [][ /\ finished' \subseteq handed'
      /\ \A t \in handed' \ handed : life'.slots[t[1]].pending = t[3]
      /\ \A i \in Slots : life'.slots[i].issued # life.slots[i].issued
           => <<i, life'.slots[i].incarnation, life'.slots[i].issued>> \notin handed
      /\ \A i \in Slots : /\ life.slots[i].pending # 0
                          /\ life'.slots[i].pending = 0
           => <<i, life.slots[i].incarnation, life.slots[i].pending>> \notin finished
    ]_LcVars

-----------------------------------------------------------------------------
(* The refinement mapping to the abstract one-use slots.                   *)
LcAbstract == INSTANCE OneUse WITH
  phase    <- [i \in Slots |-> PhaseOf(life.slots[i].state)],
  evidence <- [i \in Slots |-> EvidenceOf(life.slots[i])]

(* The library implements the abstract one-use slots.                      *)
LcRefines == LcAbstract!Spec
=============================================================================
