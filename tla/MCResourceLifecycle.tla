------------------------- MODULE MCResourceLifecycle ------------------------
(***************************************************************************)
(* Instances of ResourceLifecycle for TLC.                                 *)
(***************************************************************************)
EXTENDS ResourceLifecycle
=============================================================================
