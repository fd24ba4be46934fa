------------------------------- MODULE MCLive -------------------------------
(* Values for the constants of Live.                                       *)
EXTENDS Live, TLC

CONSTANTS c1, c2, s1, s2, w1, w2

\* Two subscriptions of one collection, and one of another.
SameCollection == s1 :> c1 @@ s2 :> c1
OwnCollection  == s1 :> c1 @@ s2 :> c2
OneSub         == s1 :> c1

Perms == Permutations({w1, w2})
=============================================================================
