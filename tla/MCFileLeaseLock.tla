-------------------------- MODULE MCFileLeaseLock ---------------------------
(* Instances of FileLeaseLock for TLC.                                     *)
EXTENDS FileLeaseLock, TLC

CONSTANTS p1, p2, p3, p4, h1

DistinctPids == [p \in Proc |-> p]
OneHost == [p \in Proc |-> h1]

(* With distinct PIDs on one host the processes are interchangeable.       *)
Symmetry == Permutations(Proc)
=============================================================================
