---------------------------- MODULE MCProvision ----------------------------
(* Provision with two phones and one field of each kind: the server's address, *)
(* which is required, has a default and stays as the page shows it, and an     *)
(* optional field that comes last, is typed into and has less room on the page *)
(* than in the form; and one setting the page does not have.                   *)
EXTENDS Provision

MCFields == <<"ssh_host", "repair">>
MCOthers == {"base_ports"}
MCServer == {"ssh_host"}
MCNarrow == {"repair"}
MCTyped  == [ssh_host |-> {}, repair |-> {"w"}]

\* Files of up to four lines.
MCFiles == UNION {[1 .. n -> {"home", "office", "guest", ""}] : n \in 0 .. 4}
=============================================================================
