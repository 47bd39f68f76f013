---------------------------- MODULE MCConfStore ----------------------------
(***************************************************************************)
(* A small instance of ConfStore: three keys with one value each, of which *)
(* the text holds two.                                                     *)
(***************************************************************************)
EXTENDS ConfStore

CONSTANTS host, ssid, user, set
MCFields == {host, ssid, user}
MCValues == {set}
=============================================================================
