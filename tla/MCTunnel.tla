----------------------------- MODULE MCTunnel ------------------------------
(***************************************************************************)
(* Two tasks that ask the proxy and the one that asks the model, requests  *)
(* of two chunks.                                                          *)
(***************************************************************************)
EXTENDS Tunnel
=============================================================================
