------------------------- MODULE MCFileTransaction --------------------------
(***************************************************************************)
(* Instances of FileTransaction for TLC.                                   *)
(***************************************************************************)
EXTENDS FileTransaction

\* After two errors a registry, which does not recover before it writes, may
\* have two open transactions; the promise is to a caller that does.
Faults == [catalogue |-> 2, registry |-> 1]
=============================================================================
