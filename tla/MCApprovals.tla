----------------------------- MODULE MCApprovals ---------------------------
(***************************************************************************)
(* A small instance of Approvals: one unit, which the rule may restart and *)
(* advice may not, and one command, which the advice may name.             *)
(***************************************************************************)
EXTENDS Approvals

CONSTANTS unit, cmd

MCUnitActs == {unit}
MCKillActs == {}
MCExecActs == {cmd}
MCRuleActs == {unit}
MCAllowed  == {cmd}
\* capped at 40, at the recovery score
MCScores   == {40, 80}
=============================================================================
