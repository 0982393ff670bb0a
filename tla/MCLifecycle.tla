---------------------------- MODULE MCLifecycle ----------------------------
(* Model-checking instance of LifecycleSpec; the sets are in the cfg.       *)
EXTENDS LifecycleSpec, TLC

(* Slots differ only in name: every definition treats them alike.           *)
SlotSymmetry == Permutations(Slots)
=============================================================================
