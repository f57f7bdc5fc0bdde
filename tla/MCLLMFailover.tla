--------------------------- MODULE MCLLMFailover ----------------------------
(***************************************************************************)
(* Instances of LLMFailover for TLC.                                       *)
(***************************************************************************)
EXTENDS LLMFailover, TLC

CONSTANTS p1, p2

Queue(wanted, S) == SelectSeq(wanted, LAMBDA p : p \in S)

\* Plain requests have one provider, streams fail over to a second one.
StreamsFailOver ==
  [r \in Request |-> [S \in SUBSET Provider |->
     Queue(IF r \in Streamed THEN <<p1, p2>> ELSE <<p1>>, S)]]

OneProvider == [r \in Request |-> [S \in SUBSET Provider |-> Queue(<<p1>>, S)]]

Symmetry == Permutations(Request \ Cancellable)
=============================================================================
