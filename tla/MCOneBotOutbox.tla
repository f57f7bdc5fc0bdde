--------------------------- MODULE MCOneBotOutbox ---------------------------
(***************************************************************************)
(* An instance of OneBotOutbox for TLC: two pages for one recipient, and a *)
(* third delivery for another one.                                         *)
(***************************************************************************)
EXTENDS OneBotOutbox

CONSTANTS d1, d2, d3, r1, r2

TwoRecipients == [d \in Delivery |-> IF d = d3 THEN r2 ELSE r1]
=============================================================================
