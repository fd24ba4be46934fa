------------------------------- MODULE MCBridge -------------------------------
(* Values for the constants of Bridge.                                     *)
EXTENDS Bridge, TLC

CONSTANTS q1, q2, s1, hello
=============================================================================
