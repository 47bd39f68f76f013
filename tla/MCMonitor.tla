----------------------------- MODULE MCMonitor -----------------------------
(***************************************************************************)
(* A small instance of Monitor: one unit, one process that advice may not  *)
(* kill, one command.                                                      *)
(***************************************************************************)
EXTENDS Monitor

CONSTANTS unit, proc, cmd

MCUnitActs == {unit}
MCKillActs == {proc}
MCExecActs == {cmd}
MCRuleActs == {unit, proc}
MCAllowed  == {unit, cmd}
\* capped at 40, at the alert score, at the recovery score
MCScores   == {40, 70, 80}
=============================================================================
