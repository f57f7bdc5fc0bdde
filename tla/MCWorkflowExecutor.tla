------------------------ MODULE MCWorkflowExecutor --------------------------
(***************************************************************************)
(* Instances of WorkflowExecutor for TLC.  The names of the blocks do not  *)
(* matter, so one assignment is taken of those that differ by a renaming.  *)
(***************************************************************************)
EXTENDS WorkflowExecutor

CONSTANTS b1, b2, b3

Looks(kind_, optional, unwired) ==
  [kind |-> kind_, optional |-> optional, unwired |-> unwired]

\* What the blocks of a workflow look like: without a peculiarity (and one that
\* sends), with some outputs only, with nullable inputs, with an input no wire
\* leads to, and the two kinds of control.
MCLooks ==
  << Looks("send", FALSE, "none"), Looks("partial", FALSE, "none"),
     Looks("plain", TRUE, "none"), Looks("plain", FALSE, "nullable"),
     Looks("plain", FALSE, "required"),
     Looks("condition", FALSE, "none"), Looks("loop", FALSE, "none") >>

MCShapes ==
  { [b \in Block |-> MCLooks[IF b = b1 THEN n[1] ELSE IF b = b2 THEN n[2] ELSE n[3]]] :
      n \in {m \in [1..3 -> 1..Len(MCLooks)] : m[1] <= m[2] /\ m[2] <= m[3]} }

\* The blocks are plain or call tools.
MCToolShapes == [Block -> {Looks("plain", FALSE, "none"), Looks("tool", FALSE, "none")}]
=============================================================================
