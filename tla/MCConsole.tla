----------------------------- MODULE MCConsole -----------------------------
(* Console for TLC: two readers, two writers.                              *)
EXTENDS Console

CONSTANTS R1, R2, W1, W2

TwoWriters == [t \in {W1, W2} |-> IF t = W1 THEN <<"a", "b">> ELSE <<"a">>]
=============================================================================
