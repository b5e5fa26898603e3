---------------------------- MODULE MCPostOffice ----------------------------
(* PostOffice for TLC: two threads on machine A, one on machine B.         *)
EXTENDS PostOffice

CONSTANTS A, B, t1, t2, t3

HomeOfThree == [t \in {t1, t2, t3} |-> IF t = t3 THEN B ELSE A]
=============================================================================
