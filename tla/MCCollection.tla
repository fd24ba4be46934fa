---------------------------- MODULE MCCollection ----------------------------
(* Values for the constants of Collection.                                 *)
EXTENDS Collection, TLC

CONSTANTS i1, i2, email, role, a, b, t1, t2

None == Nothing
Where(f, v) == [id |-> NoId, eq |-> f :> v, oper |-> None]
NotEqual(f, v) == [id |-> NoId, eq |-> None, oper |-> f :> (Vals \ {v})]

\* One unique index: ids, index lookup and scan.
OneIndexFilters == {ById(i1), Where(email, a), NoFilter}
OneIndexPatches == {email :> b}

\* Two indexes, one of them unique.
TwoIndexFilters == {Where(role, a)}
TwoIndexPatches == {role :> b}

Perms == Permutations({t1, t2})
=============================================================================
