------------------------------ MODULE MCHandle ------------------------------
(* Values for the constants of Handle.                                     *)
EXTENDS Handle, TLC

CONSTANTS t1, t2, o1, o2, u1, c1, c2
=============================================================================
