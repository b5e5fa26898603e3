---------------------------- MODULE MCFileSystem ----------------------------
(* FileSystem for TLC.  A careful client may go on for ever, one with bad   *)
(* habits, which corrupts the disk in endless combinations, makes at most   *)
(* MaxOperations calls.  The names differ in nothing.                       *)
EXTENDS FileSystem, TLC

CONSTANTS MaxOperations, a, b

Symmetry == Permutations({a, b})

VARIABLE calls

BoundedInit == Init /\ calls = 0

BoundedNext ==
    \/ habits = {} /\ Operation /\ UNCHANGED calls
    \/ habits # {} /\ calls < MaxOperations /\ Operation /\ calls' = calls + 1
    \/ WriteSector /\ UNCHANGED calls
    \/ Restart /\ UNCHANGED calls
    \/ Crash /\ UNCHANGED calls
    \/ Stopped /\ UNCHANGED calls

BoundedSpec == BoundedInit /\ [][BoundedNext]_<<vars, calls>>
=============================================================================
