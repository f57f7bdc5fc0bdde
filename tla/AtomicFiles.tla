---------------------------- MODULE AtomicFiles -----------------------------
(***************************************************************************)
(* What a recoverable write promises to its callers: seen through the      *)
(* recovery of the next start, a group of files changes as a whole.  A     *)
(* write that is being discarded breaks the promise for a while, and for   *)
(* good when the process dies meanwhile.                                   *)
(***************************************************************************)
CONSTANT Version     \* the contents the whole group can have

VARIABLES
  value,     \* what a start at this moment would find
  settled,   \* what the last committed write left
  broken     \* a write was discarded halfway

vars == <<value, settled, broken>>

Init == value \in Version /\ settled = value /\ broken = FALSE

\* A write becomes recoverable: from here on a crash completes it.
Propose ==
  /\ value = settled
  /\ value' \in Version
  /\ UNCHANGED settled

\* The write is final.
Commit == settled' = value /\ UNCHANGED value

\* The write is withdrawn as a whole.
Withdraw == value' = settled /\ UNCHANGED settled

Whole == ~broken /\ ~broken' /\ (Propose \/ Commit \/ Withdraw)

\* A write that never became final is discarded, and may be found in parts
\* until it is withdrawn.
Break == ~broken /\ broken' /\ UNCHANGED settled
Mend == broken /\ ~broken' /\ Withdraw
Broken == broken /\ broken'

Spec == Init /\ [][Whole \/ Break \/ Mend \/ Broken]_vars
=============================================================================
