------------------------- MODULE MCSubmitTransaction -------------------------
(* Instances of SubmitTransaction for TLC: a transaction of a screen or of *)
(* a site next to the two rows of a bulk transfer, all of one account.     *)
EXTENDS SubmitTransaction

CONSTANTS a, r1, r2

MCRowNo == [s \in Sends |-> CASE s = r1 -> 1 [] s = r2 -> 2 [] OTHER -> 0]
=============================================================================
