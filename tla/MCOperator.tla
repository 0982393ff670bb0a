----------------------------- MODULE MCOperator -----------------------------
(* Two runs at once, each of any command, with two commands for the one    *)
(* sequence number that the runs can race for.                             *)
EXTENDS Operator, TLC

CONSTANTS r1, r2, grant, revoke

MCRuns == {r1, r2}
MCSymmetry == Permutations(MCRuns) \cup Permutations({grant, revoke})
MCCommands == {grant, revoke}
=============================================================================
