------------------------------ MODULE MCDevice ------------------------------
(* An instance of Device for TLC.                                           *)
EXTENDS Device, TLC

CONSTANTS p1, p2, p3, p4

\* One blob inflates to less than four times its size, one does not.
MCBlobs == [good |-> [comp |-> 2, plain |-> 7], big |-> [comp |-> 1, plain |-> 5]]

\* The addresses are interchangeable.
MCSymmetry == Permutations(Phys)
=============================================================================
