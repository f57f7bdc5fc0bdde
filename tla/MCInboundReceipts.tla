------------------------- MODULE MCInboundReceipts --------------------------
(***************************************************************************)
(* Instances of InboundReceipts for TLC.                                   *)
(***************************************************************************)
EXTENDS InboundReceipts, TLC

CONSTANTS e1, e2, i1, i2

\* What has no receipt is delivered once.
TwiceIfKeyed == [e \in Event |-> IF e \in Keyed THEN 2 ELSE 1]

TwoInstances == [e \in Event |-> IF e = e1 THEN i1 ELSE i2]

\* The adapter of e1 is of any channel; another WeCom adapter may share its
\* table.
EachChannel ==
  {k \in [Instance -> {"onebot", "telegram", "wecom"}] :
     k[i2] = "onebot" \/ (k[i1] = "wecom" /\ k[i2] = "wecom")}
=============================================================================
