---------------------------- MODULE MCDashboard ----------------------------
(* A server that is well, has lost its service or is short of processor, and an
   agent that talks, finds nothing wrong, or finds something with and without a
   text or an action of its own; and, for the repairs, a server whose readings
   show it well or do not come, and an agent that says nothing. *)
EXTENDS Dashboard

MCConditions == {{}, {"service"}, {"disk"}}
MCWell       == {{}}

R(structured, status, action, display, metrics) ==
  [structured |-> structured, status |-> status, action |-> action, display |-> display,
   metrics |-> metrics]

MCReplies ==
  {R(FALSE, "normal", "none", Off, <<>>), R(TRUE, "normal", "none", "disk", <<>>),
   R(TRUE, "warning", "none", Off, <<"uptime", "disk">>)}

\* The repairs differ in nothing but their names.
RepairSymmetry == Permutations(Repairers)
=============================================================================
