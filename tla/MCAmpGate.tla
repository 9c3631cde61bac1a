------------------------------ MODULE MCAmpGate ------------------------------
(* Instances of AmpGate for TLC: a process P with two threads, and Q.      *)
EXTENDS AmpGate, TLC

CONSTANTS p1, p2, q1, P, Q

MCTgid == [t \in Threads |-> IF t = q1 THEN Q ELSE P]
Symmetry == Permutations({p1, p2})
=============================================================================
