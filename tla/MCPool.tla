------------------------------- MODULE MCPool -------------------------------
(***************************************************************************)
(* A pool of 11 units: up to five one-unit blocks, or the three buffers of *)
(* one model call beside a block that grows.                               *)
(***************************************************************************)
EXTENDS Pool

MCRequests == {0, 1, 2, 4}
=============================================================================
