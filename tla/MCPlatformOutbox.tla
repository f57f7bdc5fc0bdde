-------------------------- MODULE MCPlatformOutbox --------------------------
(***************************************************************************)
(* Instances of PlatformOutbox for TLC.                                    *)
(***************************************************************************)
EXTENDS PlatformOutbox
=============================================================================
