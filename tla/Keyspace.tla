------------------------------ MODULE Keyspace ------------------------------
(***************************************************************************)
(* Keys of the two redb tables, as byte strings.                           *)
(*                                                                         *)
(* All collections share the table `entries`, under {collection}\0{key},   *)
(* and all secondary indexes the table `index_entries`, under              *)
(* {collection}\0{field}\0{value}\0{id}. Nothing is length-prefixed: that  *)
(* a scan returns the entries of one collection, and a lookup those of one *)
(* value, rests on the order of the bytes and on who may contain a NUL.    *)
(* DocStore's records and triples stand for these keys.                    *)
(***************************************************************************)
EXTENDS Naturals, Sequences, FiniteSets

Bytes == 0..255
ByteStrings == Seq(Bytes)

SEPARATOR == 0

NulFree(s) == \A n \in 1..Len(s) : s[n] # SEPARATOR

\* The order of redb on &[u8]: lexicographic, a proper prefix first.
Before(a, b) ==
    \E n \in 1..Len(b) :
        /\ n <= Len(a) + 1
        /\ \A m \in 1..(n - 1) : a[m] = b[m]
        /\ n <= Len(a) => a[n] < b[n]

\* A key of the half-open range [lo, hi).
InRange(k, lo, hi) == ~Before(k, lo) /\ Before(k, hi)

\* A set of keys in the order of the table.
InOrder(S) ==
    [n \in 1..Cardinality(S) |->
        CHOOSE k \in S : Cardinality({l \in S : Before(l, k)}) = n - 1]

HasPrefix(k, p) == Len(p) <= Len(k) /\ \A n \in 1..Len(p) : k[n] = p[n]
-----------------------------------------------------------------------------
(* Composite keys of `entries`.                                            *)

\* validate_collection: every other operation refuses such a name.
ValidCollection(c) == c # <<>> /\ NulFree(c)

encode_key(c, key) == c \o <<SEPARATOR>> \o key

collection_prefix_lower(c) == encode_key(c, <<>>)

\* MUTANT: the range ends before the next collection of the same length.
UpperOfName(c) == SubSeq(c, 1, Len(c) - 1) \o <<c[Len(c)] + 1>>

collection_prefix_upper(c) == c \o <<SEPARATOR + 1>>

\* None for a key of another collection: a scan would fail as corrupt.
HasCollectionPrefix(k, c) == HasPrefix(k, encode_key(c, <<>>))
strip_collection_prefix(k, c) == SubSeq(k, Len(c) + 2, Len(k))
-----------------------------------------------------------------------------
(* Keys of `index_entries`.                                                *)

\* Each part with its separator, and the rest behind it.

\* MUTANT: the value and the id are not separated.
UnseparatedKey(c, f, val, id) == encode_key(c, encode_key(f, val \o id))

index_key(c, f, val, id) == encode_key(c, encode_key(f, encode_key(val, id)))

\* The two bounds of `prefix`.
IndexLower(c, f, val) == index_key(c, f, val, <<>>)
IndexUpper(c, f, val) == encode_key(c, encode_key(f, val \o <<SEPARATOR + 1>>))
=============================================================================
