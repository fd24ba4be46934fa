---------------------------- MODULE MCTypedStore ----------------------------
(* Bytes: 0 and 1 as themselves, 97 for letters. Two collections, one named  *)
(* as a prefix of the other; fields f (indexed, unique), b (indexed), n (a   *)
(* number that may be missing or null) and t (an array).                     *)
EXTENDS TypedStore

MCMeta == <<95>>
MCAppliedKey == <<97>>
A  == <<97>>
A1 == <<97, 1>>
Id == <<105>>
F  == <<102>>
B  == <<98>>
N  == <<110>>
T  == <<116>>

Fld(name, ty) ==
    [name |-> name, ty |-> ty, optional |-> FALSE, nullable |-> FALSE, int |-> FALSE,
     email |-> FALSE, min |-> NoBound, max |-> NoBound, regex |-> NoRegex, variants |-> <<>>]

IdFld == Fld(Id, <<"id">>)
FFld  == Fld(F, <<"string">>)
BFld  == Fld(B, <<"boolean">>)
NFld  == [Fld(N, <<"number">>) EXCEPT !.optional = TRUE, !.nullable = TRUE, !.min = 0]
TFld  == [Fld(T, <<"array", "number">>) EXCEPT !.optional = TRUE]

Idx(f, unique) == [field |-> f, unique |-> unique]
Coll(fields, indexes) == [idField |-> Id, fields |-> fields, indexes |-> indexes]

Wide  == Coll(<<IdFld, FFld, NFld, TFld>>, <<Idx(F, TRUE)>>)
Small == Coll(<<IdFld, BFld>>, <<Idx(B, FALSE)>>)

Schema(wide, small) == [c \in {A, A1} |-> IF c = A THEN wide ELSE small]

\* An index on a field with an empty name, or one variant that is a NUL: told
\* apart only by their numbers. Nothing is inserted.
Tagged(variants, indexes) ==
    Coll(<<IdFld, Fld(<<>>, <<"string">>), [Fld(T, <<"enum">>) EXCEPT !.variants = variants]>>,
         indexes)

\* What compiles, and one descriptor per reason to fail; the last one compiles
\* and names a collection no operation accepts.
MCDescriptors ==
    {Schema(Wide, Small),
     Schema(Tagged(<<<<0>>>>, <<>>), Tagged(<<<<0>>>>, <<>>)),
     Schema(Tagged(<<>>, <<Idx(<<>>, FALSE)>>), Tagged(<<>>, <<Idx(<<>>, FALSE)>>)),
     Schema(Small, Coll(<<IdFld, BFld, [FFld EXCEPT !.email = TRUE, !.optional = TRUE]>>, <<>>)),
     Schema(Wide, Coll(<<IdFld, Fld(B, <<"boolean", "id">>)>>, <<Idx(B, TRUE)>>)),
     Schema(Coll(<<IdFld, FFld, [NFld EXCEPT !.max = 1], TFld>>, <<Idx(F, TRUE)>>), Small),
     Schema(Coll(<<IdFld, [FFld EXCEPT !.nullable = TRUE]>>, <<Idx(F, FALSE)>>), Small),
     Schema(Coll(<<FFld>>, <<>>), Small),
     Schema(Coll(<<IdFld, Fld(T, <<"array", "id">>)>>, <<>>), Small),
     Schema(Coll(<<IdFld, TFld>>, <<Idx(T, FALSE)>>), Small),
     Schema(Coll(<<IdFld>>, <<Idx(F, FALSE)>>), Small),
     [c \in {MCMeta} |-> Small],
     [c \in {A, <<97, 0>>} |-> Small]}

Str(s) == [is |-> "string", str |-> s]
Whole(n) == [is |-> "number", kind |-> "int", num |-> n, half |-> FALSE]
Flt(n, half) == [is |-> "number", kind |-> "float", num |-> n, half |-> half]
Boo(b) == [is |-> "boolean", bool |-> b]
Nil == [is |-> "null"]

Array(items) == [is |-> "array", items |-> items]

Doc(id, rest) == [x \in {Id} \cup DOMAIN rest |-> IF x = Id THEN Str(id) ELSE rest[x]]

FN(f, n) == [x \in {F, N} |-> IF x = F THEN Str(f) ELSE n]

\* As floats, 4 and 5 are the same.
MCDocuments ==
    {Doc(<<>>, [x \in {F} |-> Str(f)]) : f \in {<<>>, <<1>>}}
    \cup {Doc(<<97>>, FN(<<97>>, n)) : n \in {Whole(5), Flt(0, TRUE), Nil}}
    \cup {Doc(<<1>>, FN(<<64>>, Whole(4)))}
    \cup {Doc(<<>>, [x \in {B} |-> Boo(b)]) : b \in BOOLEAN}
    \cup {Doc(<<1>>, [x \in {B} |-> Boo(FALSE)]),
          Doc(<<0>>, [x \in {B} |-> Boo(TRUE)]),
          Doc(<<97>>, [x \in {F} |-> Nil])}
    \cup {Doc(<<98>>, [x \in {F, T} |-> IF x = F THEN Str(<<64>>) ELSE Array(<<v>>)]) :
             v \in {Whole(1), Nil}}

Key(f, dir) == [field |-> f, dir |-> dir]
MCSorts == {<<>>, <<Key(N, "asc")>>, <<Key(N, "desc")>>, <<Key(B, "desc"), Key(Id, "desc")>>,
            <<Key(N, "asc"), Key(F, "desc")>>, <<Key(T, "asc")>>, <<Key(F, "asc")>>}

\* 1, 1.0, 0.5
MCText(v) == <<48 + v.num>> \o (CASE v.half -> <<46, 53>> [] v.kind = "float" /\ ~v.half -> <<46, 48>>
                                  [] OTHER -> <<>>)

MCPageSizes == {1, 2}
MCLedgers == {{1}}

ASSUME ValueAssumption == IndexedNulFree /\ MixedExact
=============================================================================
