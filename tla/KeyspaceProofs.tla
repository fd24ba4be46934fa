--------------------------- MODULE KeyspaceProofs ---------------------------
(***************************************************************************)
(* Ranges of keys read what they should, for byte strings of any length:   *)
(* a scan the rows of one collection, a lookup the entries of one value.   *)
(***************************************************************************)
EXTENDS Keyspace, SequenceTheorems, FiniteSetTheorems, FunctionTheorems, WellFoundedInduction,
        TLAPS

\* What prefixed strings look like, position by position.
LEMMA Marked ==
    ASSUME NEW p \in ByteStrings, NEW b \in Bytes
    PROVE  /\ p \o <<b>> \in ByteStrings
           /\ Len(p \o <<b>>) = Len(p) + 1
           /\ \A n \in 1..Len(p) : (p \o <<b>>)[n] = p[n]
           /\ (p \o <<b>>)[Len(p) + 1] = b
  BY DEF ByteStrings

\* The half-open range between a prefix with its separator and the prefix
\* with the next byte is the set of the strings that begin with the former.
LEMMA RangeIsPrefix ==
    ASSUME NEW p \in ByteStrings, NEW k \in ByteStrings
    PROVE  InRange(k, p \o <<0>>, p \o <<1>>) <=> HasPrefix(k, p \o <<0>>)
<1> DEFINE lo == p \o <<0>>
           hi == p \o <<1>>
<1>0. 0 \in Bytes /\ 1 \in Bytes
  BY DEF Bytes
<1>1. /\ lo \in ByteStrings /\ Len(lo) = Len(p) + 1
      /\ \A n \in 1..Len(p) : lo[n] = p[n]
      /\ lo[Len(p) + 1] = 0
  BY <1>0, Marked
<1>2. /\ hi \in ByteStrings /\ Len(hi) = Len(p) + 1
      /\ \A n \in 1..Len(p) : hi[n] = p[n]
      /\ hi[Len(p) + 1] = 1
  BY <1>0, Marked
<1>3. Len(p) \in Nat /\ Len(k) \in Nat /\ \A n \in 1..Len(k) : k[n] \in Nat
  <2>1. Bytes \subseteq Nat
    BY DEF Bytes
  <2>2. Len(k) \in Nat /\ \A n \in 1..Len(k) : k[n] \in Bytes
    BY DEF ByteStrings
  <2>3. Len(p) \in Nat
    BY DEF ByteStrings
  <2> HIDE DEF lo, hi
  <2> QED BY <2>1, <2>2, <2>3
<1> HIDE DEF lo, hi
<1>4. ASSUME HasPrefix(k, lo) PROVE InRange(k, lo, hi)
  <2>1. ~Before(k, lo)
    <3>1. SUFFICES ASSUME NEW n \in 1..Len(lo), n <= Len(k) => k[n] < lo[n]
                   PROVE  FALSE
      BY DEF Before
    <3>2. k[n] = lo[n] /\ n \in 1..Len(k)
      BY <1>1, <1>3, <1>4 DEF HasPrefix
    <3>3. k[n] \in Nat
      BY <3>2, <1>3
    <3> QED BY <3>1, <3>2, <3>3
  <2>2. Before(k, hi)
    <3>1. /\ Len(p) + 1 \in 1..Len(hi) /\ Len(p) + 1 <= Len(k) + 1
          /\ \A m \in 1..Len(p) : k[m] = hi[m]
          /\ k[Len(p) + 1] < hi[Len(p) + 1]
      BY <1>1, <1>2, <1>3, <1>4 DEF HasPrefix
    <3> QED BY <3>1, <1>3 DEF Before
  <2> QED BY <2>1, <2>2 DEF InRange
<1>5. ASSUME InRange(k, lo, hi) PROVE HasPrefix(k, lo)
  <2>1. PICK n \in 1..Len(hi) : /\ n <= Len(k) + 1
                                /\ \A m \in 1..(n - 1) : k[m] = hi[m]
                                /\ n <= Len(k) => k[n] < hi[n]
    BY <1>5 DEF InRange, Before
  <2>2. ~Before(k, lo)
    BY <1>5 DEF InRange
  <2>3. \A m \in 1..(n - 1) : k[m] = lo[m]
    BY <2>1, <1>1, <1>2, <1>3
  <2>4. n = Len(p) + 1
    <3>1. SUFFICES ASSUME n # Len(p) + 1 PROVE FALSE
      OBVIOUS
    <3>2. n \in 1..Len(p) /\ lo[n] = hi[n]
      BY <3>1, <2>1, <1>1, <1>2, <1>3
    <3>3. n \in 1..Len(lo) /\ n <= Len(k) + 1 /\ (n <= Len(k) => k[n] < lo[n])
      BY <3>2, <2>1, <1>1, <1>3
    <3> QED BY <3>3, <2>2, <2>3 DEF Before
  <2>5. n <= Len(k)
    <3>1. n \in 1..Len(lo)
      BY <2>4, <1>1, <1>3
    <3> QED BY <3>1, <2>1, <2>2, <2>3 DEF Before
  <2>6. k[n] = lo[n]
    <3>1. k[n] < 1 /\ lo[n] = 0
      BY <2>1, <2>4, <2>5, <1>1, <1>2
    <3>2. k[n] \in Nat
      BY <2>1, <2>5, <1>2, <1>3
    <3> QED BY <3>1, <3>2
  <2> QED BY <2>3, <2>4, <2>5, <2>6, <1>1, <1>3 DEF HasPrefix
<1> QED BY <1>4, <1>5 DEF lo, hi

\* The first separator ends the first part.
LEMMA FirstPart ==
    ASSUME NEW a \in ByteStrings, NEW b \in ByteStrings,
           NEW r \in ByteStrings, NEW s \in ByteStrings,
           NulFree(a), NulFree(b)
    PROVE  HasPrefix((b \o <<0>>) \o r, (a \o <<0>>) \o s) <=> a = b /\ HasPrefix(r, s)
<1> DEFINE B == (b \o <<0>>) \o r
           A == (a \o <<0>>) \o s
<1>1. /\ Len(B) = Len(b) + 1 + Len(r)
      /\ \A n \in 1..Len(b) : B[n] = b[n]
      /\ B[Len(b) + 1] = 0
      /\ \A n \in 1..Len(r) : B[Len(b) + 1 + n] = r[n]
  BY DEF ByteStrings, Bytes
<1>2. /\ Len(A) = Len(a) + 1 + Len(s)
      /\ \A n \in 1..Len(a) : A[n] = a[n]
      /\ A[Len(a) + 1] = 0
      /\ \A n \in 1..Len(s) : A[Len(a) + 1 + n] = s[n]
  BY DEF ByteStrings, Bytes
<1>3. Len(a) \in Nat /\ Len(b) \in Nat /\ Len(r) \in Nat /\ Len(s) \in Nat
  BY DEF ByteStrings
<1>4. /\ \A n \in 1..Len(a) : a[n] # 0
      /\ \A n \in 1..Len(b) : b[n] # 0
  BY DEF NulFree, SEPARATOR
<1> HIDE DEF A, B
<1>5. ASSUME HasPrefix(B, A) PROVE a = b /\ HasPrefix(r, s)
  <2>1. Len(A) <= Len(B) /\ \A n \in 1..Len(A) : B[n] = A[n]
    BY <1>5 DEF HasPrefix
  <2>2. ~(Len(a) < Len(b))
    <3>1. SUFFICES ASSUME Len(a) < Len(b) PROVE FALSE
      OBVIOUS
    <3>2. Len(a) + 1 \in 1..Len(b) /\ Len(a) + 1 \in 1..Len(A)
      BY <3>1, <1>2, <1>3
    <3>3. B[Len(a) + 1] = b[Len(a) + 1] /\ B[Len(a) + 1] = 0
      BY <3>2, <2>1, <1>1, <1>2
    <3> QED BY <3>2, <3>3, <1>4
  <2>3. ~(Len(b) < Len(a))
    <3>1. SUFFICES ASSUME Len(b) < Len(a) PROVE FALSE
      OBVIOUS
    <3>2. Len(b) + 1 \in 1..Len(a) /\ Len(b) + 1 \in 1..Len(A)
      BY <3>1, <1>2, <1>3
    <3>3. A[Len(b) + 1] = a[Len(b) + 1] /\ A[Len(b) + 1] = 0
      BY <3>2, <2>1, <1>1, <1>2
    <3> QED BY <3>2, <3>3, <1>4
  <2>4. Len(a) = Len(b)
    BY <2>2, <2>3, <1>3
  <2>5. \A n \in 1..Len(a) : a[n] = b[n]
    <3>1. TAKE n \in 1..Len(a)
    <3>2. n \in 1..Len(A) /\ n \in 1..Len(b)
      BY <2>4, <1>2, <1>3
    <3> QED BY <3>2, <2>1, <1>1, <1>2
  <2>6. a = b
    BY <2>4, <2>5, SeqEqual DEF ByteStrings
  <2>7. Len(s) <= Len(r)
    BY <2>1, <2>4, <1>1, <1>2, <1>3
  <2>8. \A n \in 1..Len(s) : r[n] = s[n]
    <3>1. TAKE n \in 1..Len(s)
    <3>2. Len(a) + 1 + n \in 1..Len(A) /\ n \in 1..Len(r)
      BY <2>7, <1>2, <1>3
    <3>3. B[Len(a) + 1 + n] = A[Len(a) + 1 + n]
      BY <3>2, <2>1
    <3> QED BY <3>2, <3>3, <2>4, <1>1, <1>2
  <2> QED BY <2>6, <2>7, <2>8 DEF HasPrefix
<1>6. ASSUME a = b, HasPrefix(r, s) PROVE HasPrefix(B, A)
  <2>1. Len(A) <= Len(B)
    BY <1>6, <1>1, <1>2, <1>3 DEF HasPrefix
  <2>2. \A n \in 1..Len(A) : B[n] = A[n]
    <3>1. TAKE n \in 1..Len(A)
    <3>2. CASE n \in 1..Len(a)
      BY <3>2, <1>6, <1>1, <1>2
    <3>3. CASE n = Len(a) + 1
      BY <3>3, <1>6, <1>1, <1>2
    <3>4. CASE n > Len(a) + 1
      <4> DEFINE m == n - (Len(a) + 1)
      <4>1. m \in 1..Len(s) /\ n = Len(a) + 1 + m
        BY <3>4, <1>2, <1>3
      <4>2. m \in 1..Len(r) /\ r[m] = s[m]
        BY <4>1, <1>6, <1>3 DEF HasPrefix
      <4> HIDE DEF m
      <4> QED BY <4>1, <4>2, <1>6, <1>1, <1>2
    <3> QED BY <3>2, <3>3, <3>4, <1>2, <1>3
  <2> QED BY <2>1, <2>2 DEF HasPrefix
<1> QED BY <1>5, <1>6 DEF A, B

\* Every string begins with the empty one.
LEMMA EmptyPrefix ==
    ASSUME NEW r \in ByteStrings
    PROVE  HasPrefix(r, <<>>)
  BY DEF HasPrefix, ByteStrings

\* The range of a name holds its keys and no other name's.
LEMMA RangeOfRows ==
    ASSUME NEW c \in ByteStrings, NEW d \in ByteStrings, NEW key \in ByteStrings,
           NulFree(c), NulFree(d)
    PROVE  /\ InRange(encode_key(d, key), collection_prefix_lower(c), collection_prefix_upper(c))
                  <=> c = d
           /\ HasCollectionPrefix(encode_key(d, key), c) <=> c = d
<1> DEFINE row == (d \o <<0>>) \o key
<1>1. row \in ByteStrings
  BY DEF ByteStrings, Bytes
<1>2. (c \o <<0>>) \o <<>> = c \o <<0>>
  BY DEF ByteStrings, Bytes
<1>3. InRange(row, c \o <<0>>, c \o <<1>>) <=> HasPrefix(row, c \o <<0>>)
  BY <1>1, RangeIsPrefix
<1>4. <<>> \in ByteStrings
  BY DEF ByteStrings
<1>5. HasPrefix(row, (c \o <<0>>) \o <<>>) <=> c = d
  BY <1>4, FirstPart, EmptyPrefix
<1>6. SEPARATOR = 0 /\ SEPARATOR + 1 = 1
  BY DEF SEPARATOR
<1> QED
  BY <1>2, <1>3, <1>5, <1>6 DEF collection_prefix_lower, collection_prefix_upper, encode_key,
     HasCollectionPrefix

\* A row is in the range a scan of a collection reads exactly when it belongs to
\* that collection: for all names without NUL, one a prefix of the other or not,
\* and all ids, the empty one included. The scan meets no key that it would
\* report as corrupt (codec/mod.rs:29-76).
THEOREM ScanReadsOneCollection ==
    ASSUME NEW c \in ByteStrings, NEW d \in ByteStrings, NEW key \in ByteStrings,
           ValidCollection(c), ValidCollection(d)
    PROVE  /\ InRange(encode_key(d, key), collection_prefix_lower(c), collection_prefix_upper(c))
                  <=> c = d
           /\ InRange(encode_key(d, key), collection_prefix_lower(c), collection_prefix_upper(c))
                  => HasCollectionPrefix(encode_key(d, key), c)
  BY RangeOfRows DEF ValidCollection

\* A key, position by position.
LEMMA KeyBytes ==
    ASSUME NEW c \in ByteStrings, NEW r \in ByteStrings
    PROVE  /\ encode_key(c, r) \in ByteStrings
           /\ Len(encode_key(c, r)) = Len(c) + 1 + Len(r)
           /\ \A n \in 1..Len(c) : encode_key(c, r)[n] = c[n]
           /\ encode_key(c, r)[Len(c) + 1] = 0
           /\ \A n \in 1..Len(r) : encode_key(c, r)[Len(c) + 1 + n] = r[n]
  BY DEF ByteStrings, Bytes, encode_key, SEPARATOR

\* Behind the same name the order of two keys is that of what follows.
LEMMA SameName ==
    ASSUME NEW c \in ByteStrings, NEW r \in ByteStrings, NEW s \in ByteStrings
    PROVE  Before(encode_key(c, r), encode_key(c, s)) <=> Before(r, s)
<1> DEFINE R == encode_key(c, r)
           S == encode_key(c, s)
           o == Len(c) + 1
<1>1. /\ Len(R) = o + Len(r) /\ \A n \in 1..Len(r) : R[o + n] = r[n]
      /\ Len(S) = o + Len(s) /\ \A n \in 1..Len(s) : S[o + n] = s[n]
      /\ \A n \in 1..o : R[n] = S[n] /\ S[n] \in Nat
  <2>1. \A n \in 1..Len(c) : c[n] \in Nat
    <3>1. Bytes \subseteq Nat
      BY DEF Bytes
    <3>2. \A n \in 1..Len(c) : c[n] \in Bytes
      BY DEF ByteStrings
    <3> QED BY <3>1, <3>2
  <2>2. Len(c) \in Nat
    BY DEF ByteStrings
  <2>3. \A n \in 1..o : n \in 1..Len(c) \/ n = o
    BY <2>2
  <2>4. /\ Len(R) = o + Len(r) /\ \A n \in 1..Len(r) : R[o + n] = r[n]
        /\ \A n \in 1..Len(c) : R[n] = c[n]
        /\ R[o] = 0
    BY KeyBytes
  <2>5. /\ Len(S) = o + Len(s) /\ \A n \in 1..Len(s) : S[o + n] = s[n]
        /\ \A n \in 1..Len(c) : S[n] = c[n]
        /\ S[o] = 0
    BY KeyBytes
  <2> HIDE DEF R, S, o
  <2> QED BY <2>1, <2>3, <2>4, <2>5
<1>2. o \in Nat /\ Len(r) \in Nat /\ Len(s) \in Nat
  BY DEF ByteStrings
<1> HIDE DEF R, S, o
<1>3. ASSUME Before(R, S) PROVE Before(r, s)
  <2>1. PICK n \in 1..Len(S) : /\ n <= Len(R) + 1
                               /\ \A m \in 1..(n - 1) : R[m] = S[m]
                               /\ n <= Len(R) => R[n] < S[n]
    BY <1>3 DEF Before
  <2>2. n > o
    BY <2>1, <1>1, <1>2
  <2> DEFINE i == n - o
  <2>3. i \in 1..Len(s) /\ i <= Len(r) + 1 /\ n = o + i
    BY <2>1, <2>2, <1>1, <1>2
  <2>4. \A m \in 1..(i - 1) : r[m] = s[m]
    <3>1. TAKE m \in 1..(i - 1)
    <3>2. m \in 1..Len(r) /\ m \in 1..Len(s) /\ o + m \in 1..(n - 1)
      BY <2>3, <1>2
    <3> QED BY <3>2, <2>1, <1>1
  <2>5. i <= Len(r) => r[i] < s[i]
    <3>1. SUFFICES ASSUME i <= Len(r) PROVE r[i] < s[i]
      OBVIOUS
    <3>2. i \in 1..Len(r) /\ n <= Len(R)
      BY <3>1, <2>3, <1>1, <1>2
    <3> HIDE DEF i
    <3> QED BY <3>2, <2>1, <2>3, <1>1
  <2> HIDE DEF i
  <2> QED BY <2>3, <2>4, <2>5 DEF Before
<1>4. ASSUME Before(r, s) PROVE Before(R, S)
  <2>1. PICK i \in 1..Len(s) : /\ i <= Len(r) + 1
                               /\ \A m \in 1..(i - 1) : r[m] = s[m]
                               /\ i <= Len(r) => r[i] < s[i]
    BY <1>4 DEF Before
  <2>2. o + i \in 1..Len(S) /\ o + i <= Len(R) + 1
    BY <2>1, <1>1, <1>2
  <2>3. \A m \in 1..((o + i) - 1) : R[m] = S[m]
    <3>1. TAKE m \in 1..((o + i) - 1)
    <3>2. CASE m \in 1..o
      BY <3>2, <1>1
    <3>3. CASE m > o
      <4> DEFINE j == m - o
      <4>1. j \in 1..(i - 1) /\ j \in 1..Len(r) /\ j \in 1..Len(s) /\ m = o + j
        BY <3>3, <2>1, <1>2
      <4> HIDE DEF j
      <4> QED BY <4>1, <2>1, <1>1
    <3> QED BY <3>2, <3>3, <1>2
  <2>4. o + i <= Len(R) => R[o + i] < S[o + i]
    <3>1. SUFFICES ASSUME o + i <= Len(R) PROVE R[o + i] < S[o + i]
      OBVIOUS
    <3>2. i \in 1..Len(r) /\ r[i] < s[i]
      BY <3>1, <2>1, <1>1, <1>2
    <3>3. R[o + i] = r[i] /\ S[o + i] = s[i]
      BY <3>2, <2>1, <1>1
    <3> QED BY <3>2, <3>3
  <2>5. PICK n \in 1..Len(S) : n = o + i
    BY <2>2
  <2>6. /\ n <= Len(R) + 1
        /\ \A m \in 1..(n - 1) : R[m] = S[m]
        /\ n <= Len(R) => R[n] < S[n]
    <3>1. n <= Len(R) + 1
      BY <2>2, <2>5
    <3>2. \A m \in 1..(n - 1) : R[m] = S[m]
      BY <2>3, <2>5, Zenon
    <3>3. n <= Len(R) => R[n] < S[n]
      BY <2>4, <2>5, Zenon
    <3> QED BY <3>1, <3>2, <3>3
  <2> QED BY <2>6 DEF Before
<1> QED BY <1>3, <1>4 DEF R, S

\* Behind another name what follows does not matter.
LEMMA OtherName ==
    ASSUME NEW c \in ByteStrings, NEW d \in ByteStrings, NEW r \in ByteStrings,
           NEW s \in ByteStrings, NEW t \in ByteStrings,
           NulFree(c), NulFree(d), c # d,
           Before(encode_key(d, r), encode_key(c, s))
    PROVE  Before(encode_key(d, r), encode_key(c, t))
<1> DEFINE R == encode_key(d, r)
           S == encode_key(c, s)
           T == encode_key(c, t)
           E == encode_key(c, <<>>)
           o == Len(c) + 1
<1>0. <<>> \in ByteStrings /\ Len(c) \in Nat /\ Len(s) \in Nat /\ Len(t) \in Nat /\ Len(R) \in Nat
      /\ Len(<<>>) = 0
  <2>1. R \in ByteStrings
    BY KeyBytes
  <2> HIDE DEF R
  <2> QED BY <2>1 DEF ByteStrings
<1>1. /\ Len(S) = o + Len(s) /\ Len(T) = o + Len(t) /\ Len(E) = o
      /\ \A n \in 1..o : S[n] = T[n] /\ S[n] = E[n]
  <2>1. \A n \in 1..o : n \in 1..Len(c) \/ n = o
    BY <1>0
  <2>2. /\ Len(S) = o + Len(s) /\ S[o] = 0
        /\ \A n \in 1..Len(c) : S[n] = c[n]
    BY KeyBytes
  <2>3. /\ Len(T) = o + Len(t) /\ T[o] = 0
        /\ \A n \in 1..Len(c) : T[n] = c[n]
    BY KeyBytes
  <2>4. /\ Len(E) = o + Len(<<>>) /\ E[o] = 0
        /\ \A n \in 1..Len(c) : E[n] = c[n]
    BY <1>0, KeyBytes
  <2> HIDE DEF S, T, E, o
  <2>5. Len(E) = o
    BY <2>4, <1>0 DEF o
  <2> QED BY <2>1, <2>2, <2>3, <2>4, <2>5
<1>2. ~HasPrefix(R, E)
  <2>1. HasPrefix(R, E) <=> c = d /\ HasPrefix(r, <<>>)
    BY <1>0, FirstPart DEF encode_key, SEPARATOR
  <2> QED BY <2>1
<1> HIDE DEF R, S, T, E
<1>3. PICK n \in 1..Len(S) : /\ n <= Len(R) + 1
                             /\ \A m \in 1..(n - 1) : R[m] = S[m]
                             /\ n <= Len(R) => R[n] < S[n]
  BY DEF Before, R, S
<1>4. n <= o
  <2>1. SUFFICES ASSUME n > o PROVE FALSE
    BY <1>0
  <2>2. Len(E) <= Len(R) /\ \A m \in 1..Len(E) : R[m] = E[m]
    BY <2>1, <1>0, <1>1, <1>3
  <2> QED BY <2>2, <1>2 DEF HasPrefix
<1>5. /\ n \in 1..Len(T)
      /\ \A m \in 1..(n - 1) : R[m] = T[m]
      /\ n <= Len(R) => R[n] < T[n]
  BY <1>0, <1>1, <1>3, <1>4
<1>6. Before(R, T)
  BY <1>3, <1>5 DEF Before
<1> QED BY <1>6 DEF R, T

\* A range of keys that begin with one name holds keys of that name only.
LEMMA RangeOfName ==
    ASSUME NEW c \in ByteStrings, NEW d \in ByteStrings, NEW r \in ByteStrings,
           NEW lo \in ByteStrings, NEW hi \in ByteStrings, NulFree(c), NulFree(d)
    PROVE  InRange(encode_key(d, r), encode_key(c, lo), encode_key(c, hi))
               <=> c = d /\ InRange(r, lo, hi)
<1>1. CASE c = d
  BY <1>1, SameName DEF InRange
<1>2. CASE c # d
  BY <1>2, OtherName DEF InRange
<1> QED BY <1>1, <1>2

\* The range of a value holds the entries of that collection and field whose
\* value is in the range of this one.
LEMMA LookupRange ==
    ASSUME NEW c, NEW f, NEW v, NEW d, NEW g, NEW w, NEW id,
           c \in ByteStrings, f \in ByteStrings, v \in ByteStrings,
           d \in ByteStrings, g \in ByteStrings, w \in ByteStrings, id \in ByteStrings,
           NulFree(c), NulFree(f), NulFree(d), NulFree(g)
    PROVE  InRange(index_key(d, g, w, id), IndexLower(c, f, v), IndexUpper(c, f, v))
               <=> /\ c = d /\ f = g
                   /\ InRange(encode_key(w, id), collection_prefix_lower(v), collection_prefix_upper(v))
<1> DEFINE lo == encode_key(v, <<>>)
           hi == v \o <<SEPARATOR + 1>>
           k  == encode_key(w, id)
<1>1. /\ lo \in ByteStrings /\ hi \in ByteStrings /\ k \in ByteStrings
      /\ encode_key(f, lo) \in ByteStrings /\ encode_key(f, hi) \in ByteStrings
      /\ encode_key(g, k) \in ByteStrings
  <2>1. <<>> \in ByteStrings
    BY DEF ByteStrings
  <2>2. lo \in ByteStrings /\ k \in ByteStrings
    BY <2>1, KeyBytes
  <2>3. hi \in ByteStrings
    BY DEF ByteStrings, Bytes, SEPARATOR
  <2> HIDE DEF lo, hi, k
  <2> QED BY <2>2, <2>3, KeyBytes
<1>2. lo = collection_prefix_lower(v) /\ hi = collection_prefix_upper(v)
  BY DEF collection_prefix_lower, collection_prefix_upper
<1>3. IndexLower(c, f, v) = encode_key(c, encode_key(f, lo))
  BY DEF IndexLower, index_key
<1>4. IndexUpper(c, f, v) = encode_key(c, encode_key(f, hi))
  BY DEF IndexUpper
<1>5. index_key(d, g, w, id) = encode_key(d, encode_key(g, k))
  BY DEF index_key
<1> HIDE DEF lo, hi, k
<1>6. InRange(encode_key(g, k), encode_key(f, lo), encode_key(f, hi)) <=> f = g /\ InRange(k, lo, hi)
  BY <1>1, RangeOfName
<1>7. InRange(encode_key(d, encode_key(g, k)), encode_key(c, encode_key(f, lo)),
              encode_key(c, encode_key(f, hi)))
          <=> c = d /\ f = g /\ InRange(k, lo, hi)
  <2> DEFINE l2 == encode_key(f, lo)
             h2 == encode_key(f, hi)
             k2 == encode_key(g, k)
  <2>1. l2 \in ByteStrings /\ h2 \in ByteStrings /\ k2 \in ByteStrings
    BY <1>1
  <2>2. InRange(k2, l2, h2) <=> f = g /\ InRange(k, lo, hi)
    BY <1>6
  <2> HIDE DEF l2, h2, k2
  <2>3. InRange(encode_key(d, k2), encode_key(c, l2), encode_key(c, h2))
            <=> c = d /\ InRange(k2, l2, h2)
    BY <2>1, RangeOfName
  <2> QED BY <2>2, <2>3 DEF l2, h2, k2
<1>8. k = encode_key(w, id)
  BY DEF k
<1> QED BY <1>2, <1>3, <1>4, <1>5, <1>7, <1>8

\* An entry is in the range a lookup reads exactly when it is an entry of that
\* collection, field and value: values without NUL may begin with one another
\* (index/engine.rs:57-95).
THEOREM LookupReadsOneValue ==
    ASSUME NEW c, NEW f, NEW v, NEW d, NEW g, NEW w, NEW id,
           c \in ByteStrings, f \in ByteStrings, v \in ByteStrings,
           d \in ByteStrings, g \in ByteStrings, w \in ByteStrings, id \in ByteStrings,
           NulFree(c), NulFree(f), NulFree(v), NulFree(d), NulFree(g), NulFree(w)
    PROVE  InRange(index_key(d, g, w, id), IndexLower(c, f, v), IndexUpper(c, f, v))
               <=> c = d /\ f = g /\ v = w
<1>1. InRange(encode_key(w, id), collection_prefix_lower(v), collection_prefix_upper(v)) <=> v = w
  BY RangeOfRows
<1> QED BY <1>1, LookupRange

\* Flags, as values of an index.
Flags == {<<0>>, <<1>>}

\* A flag is one byte, which may be a NUL.
LEMMA LookupReadsOneFlag ==
    ASSUME NEW c, NEW f, NEW v, NEW d, NEW g, NEW w, NEW id,
           c \in ByteStrings, f \in ByteStrings, v \in Flags,
           d \in ByteStrings, g \in ByteStrings, w \in Flags, id \in ByteStrings,
           NulFree(c), NulFree(f), NulFree(d), NulFree(g),
           InRange(index_key(d, g, w, id), IndexLower(c, f, v), IndexUpper(c, f, v))
    PROVE  c = d /\ f = g /\ v = w
<1>1. v \in ByteStrings /\ w \in ByteStrings
  <2>1. \A b \in Bytes : <<b>> \in ByteStrings
    BY DEF ByteStrings
  <2>2. 0 \in Bytes /\ 1 \in Bytes
    BY DEF Bytes
  <2> QED BY <2>1, <2>2 DEF Flags
<1> DEFINE k == encode_key(w, id)
<1>2. /\ c = d /\ f = g
      /\ InRange(k, collection_prefix_lower(v), collection_prefix_upper(v))
  BY <1>1, LookupRange
<1>3. k \in ByteStrings /\ k[1] = w[1]
  <2>1. Len(w) = 1
    BY DEF Flags
  <2>2. \A n \in 1..Len(w) : encode_key(w, id)[n] = w[n]
    BY <1>1, KeyBytes
  <2> QED BY <1>1, <2>1, <2>2, KeyBytes
<1> HIDE DEF k
<1>4. collection_prefix_lower(v) = v \o <<0>> /\ collection_prefix_upper(v) = v \o <<1>>
  <2>1. (v \o <<0>>) \o <<>> = v \o <<0>>
    BY <1>1 DEF ByteStrings, Bytes
  <2> QED BY <2>1 DEF collection_prefix_lower, collection_prefix_upper, encode_key, SEPARATOR
<1>5. HasPrefix(k, v \o <<0>>)
  BY <1>1, <1>2, <1>3, <1>4, RangeIsPrefix
<1>6. 1 \in 1..Len(v \o <<0>>) /\ (v \o <<0>>)[1] = v[1]
  BY DEF Flags
<1>7. v[1] = w[1]
  BY <1>3, <1>5, <1>6 DEF HasPrefix
<1> QED BY <1>2, <1>7 DEF Flags
-----------------------------------------------------------------------------
(* The order of the keys, and what a table is read in.                     *)

\* A set of natural numbers has a least one.
LEMMA LeastNat ==
    ASSUME NEW T, T \subseteq Nat, T # {}
    PROVE  \E x \in T : \A y \in T : x <= y
<1> DEFINE Smaller == {pair \in Nat \X Nat : pair[1] < pair[2]}
<1>1. IsWellFoundedOn(Smaller, Nat)
  BY NatLessThanWellFounded DEF OpToRel
<1> HIDE DEF Smaller
<1>2. PICK x \in T : \A y \in T : ~(<<y, x>> \in Smaller)
  BY <1>1, WFMin
<1>3. ASSUME NEW y \in T PROVE x <= y
  <2>1. <<y, x>> \in Nat \X Nat
    OBVIOUS
  <2>2. ~(y < x)
    BY <1>2, <2>1 DEF Smaller
  <2> QED BY <2>2
<1> QED BY <1>3

LEMMA BytesOfString ==
    ASSUME NEW a \in ByteStrings
    PROVE  Len(a) \in Nat /\ \A n \in 1..Len(a) : a[n] \in Nat
<1>1. Bytes \subseteq Nat
  BY DEF Bytes
<1>2. Len(a) \in Nat /\ \A n \in 1..Len(a) : a[n] \in Bytes
  BY DEF ByteStrings
<1> QED BY <1>1, <1>2

\* No string is before itself.
LEMMA BeforeIrreflexive ==
    ASSUME NEW a \in ByteStrings
    PROVE  ~Before(a, a)
  BY BytesOfString DEF Before

LEMMA BeforeTransitive ==
    ASSUME NEW a \in ByteStrings, NEW b \in ByteStrings, NEW c \in ByteStrings,
           Before(a, b), Before(b, c)
    PROVE  Before(a, c)
<1>0. /\ Len(a) \in Nat /\ Len(b) \in Nat /\ Len(c) \in Nat
      /\ \A n \in 1..Len(a) : a[n] \in Nat
      /\ \A n \in 1..Len(b) : b[n] \in Nat
      /\ \A n \in 1..Len(c) : c[n] \in Nat
  BY BytesOfString
<1>1. PICK m \in 1..Len(b) : /\ m <= Len(a) + 1
                             /\ \A i \in 1..(m - 1) : a[i] = b[i]
                             /\ m <= Len(a) => a[m] < b[m]
  BY DEF Before
<1>2. PICK n \in 1..Len(c) : /\ n <= Len(b) + 1
                             /\ \A i \in 1..(n - 1) : b[i] = c[i]
                             /\ n <= Len(b) => b[n] < c[n]
  BY DEF Before
<1>3. CASE m < n
  <2>1. /\ m \in 1..Len(c) /\ b[m] = c[m]
        /\ \A i \in 1..(m - 1) : a[i] = c[i]
    BY <1>0, <1>1, <1>2, <1>3
  <2> QED BY <2>1, <1>1 DEF Before
<1>4. CASE m >= n
  <2>1. /\ n <= Len(a) + 1 /\ n <= Len(b)
        /\ \A i \in 1..(n - 1) : a[i] = c[i]
    BY <1>0, <1>1, <1>2, <1>4
  <2>2. ASSUME n <= Len(a) PROVE a[n] < c[n]
    <3>1. n \in 1..Len(a) /\ n \in 1..Len(b)
      BY <2>1, <2>2
    <3>2. a[n] \in Nat /\ b[n] \in Nat /\ c[n] \in Nat /\ b[n] < c[n]
      BY <3>1, <1>0, <1>2, <2>1
    <3>3. a[n] <= b[n]
      BY <3>2, <1>1, <1>4, <2>2
    <3> QED BY <3>2, <3>3
  <2> QED BY <2>1, <2>2 DEF Before
<1> QED BY <1>3, <1>4

\* Of two strings one is before the other: where they first differ, or at the
\* end of the shorter one.
LEMMA BeforeTotal ==
    ASSUME NEW a \in ByteStrings, NEW b \in ByteStrings, a # b
    PROVE  Before(a, b) \/ Before(b, a)
<1>0. /\ Len(a) \in Nat /\ Len(b) \in Nat
      /\ \A n \in 1..Len(a) : a[n] \in Nat
      /\ \A n \in 1..Len(b) : b[n] \in Nat
  BY BytesOfString
<1> DEFINE T == {n \in Nat : n \in 1..Len(a) /\ n \in 1..Len(b) /\ a[n] # b[n]}
<1>1. CASE T = {}
  <2>1. \A n \in 1..Len(a) : n <= Len(b) => a[n] = b[n]
    BY <1>0, <1>1
  <2>2. CASE Len(a) = Len(b)
    <3>1. a = b
      BY <2>1, <2>2, SeqEqual DEF ByteStrings
    <3> QED BY <3>1
  <2>3. CASE Len(a) < Len(b)
    <3>1. Len(a) + 1 \in 1..Len(b) /\ \A i \in 1..((Len(a) + 1) - 1) : a[i] = b[i]
      BY <1>0, <2>1, <2>3
    <3>2. Len(a) + 1 <= Len(a) + 1 /\ ~(Len(a) + 1 <= Len(a))
      BY <1>0
    <3> QED BY <3>1, <3>2 DEF Before
  <2>4. CASE Len(b) < Len(a)
    <3>1. Len(b) + 1 \in 1..Len(a) /\ \A i \in 1..((Len(b) + 1) - 1) : b[i] = a[i]
      BY <1>0, <2>1, <2>4
    <3>2. Len(b) + 1 <= Len(b) + 1 /\ ~(Len(b) + 1 <= Len(b))
      BY <1>0
    <3> QED BY <3>1, <3>2 DEF Before
  <2> QED BY <1>0, <2>2, <2>3, <2>4
<1>2. CASE T # {}
  <2>1. PICK n \in T : \A m \in T : n <= m
    BY <1>2, LeastNat
  <2>2. n \in 1..Len(a) /\ n \in 1..Len(b) /\ a[n] # b[n]
    OBVIOUS
  <2>3. \A i \in 1..(n - 1) : a[i] = b[i]
    <3>1. SUFFICES ASSUME NEW i \in 1..(n - 1), a[i] # b[i] PROVE FALSE
      OBVIOUS
    <3>2. i \in T /\ ~(n <= i)
      BY <1>0, <2>2, <3>1
    <3> QED BY <2>1, <3>2
  <2>4. a[n] \in Nat /\ b[n] \in Nat
    BY <1>0, <2>2
  <2>5. CASE a[n] < b[n]
    BY <1>0, <2>2, <2>3, <2>5 DEF Before
  <2>6. CASE b[n] < a[n]
    BY <1>0, <2>2, <2>3, <2>6 DEF Before
  <2> QED BY <2>2, <2>4, <2>5, <2>6
<1> QED BY <1>1, <1>2

\* How many elements of S are before x.
RankIn(S, R, x) == Cardinality(SetLessThan(x, R, S))

\* A strict total order on a finite set numbers its elements from 0.
LEMMA RanksNumber ==
    ASSUME NEW S, IsFiniteSet(S), NEW R,
           \A x \in S : <<x, x>> \notin R,
           \A x, y, z \in S : <<x, y>> \in R /\ <<y, z>> \in R => <<x, z>> \in R,
           \A x, y \in S : x # y => <<x, y>> \in R \/ <<y, x>> \in R
    PROVE  /\ Cardinality(S) \in Nat
           /\ \A x \in S : RankIn(S, R, x) \in Nat
           /\ \A x, y \in S : <<x, y>> \in R <=> RankIn(S, R, x) < RankIn(S, R, y)
           /\ \A x, y \in S : RankIn(S, R, x) = RankIn(S, R, y) => x = y
           /\ \A x \in S : RankIn(S, R, x) + 1 \in 1..Cardinality(S)
           /\ \A n \in 1..Cardinality(S) : \E x \in S : RankIn(S, R, x) = n - 1
<1> DEFINE below(x) == SetLessThan(x, R, S)
           rank(x) == RankIn(S, R, x)
           N == Cardinality(S)
<1>0. \A x \in S : rank(x) = Cardinality(below(x))
  BY DEF RankIn
<1>1. N \in Nat
  BY FS_CardinalityType
<1>b. \A x, y \in S : x \in below(y) <=> <<x, y>> \in R
  BY DEF SetLessThan
<1>c. \A x \in S : below(x) \in SUBSET S
  BY DEF SetLessThan
<1> HIDE DEF below, rank, N
<1>2. \A x \in S : IsFiniteSet(below(x)) /\ Cardinality(below(x)) <= N
  BY <1>c, FS_Subset DEF N
<1>t. \A x \in S : rank(x) \in Nat
  BY <1>0, <1>2, FS_CardinalityType
<1>3. \A x \in S : rank(x) < N
  <2>1. TAKE x \in S
  <2>2. x \notin below(x)
    BY <1>b
  <2>3. Cardinality(below(x)) # N
    BY <1>c, <2>2, FS_Subset DEF N
  <2>4. rank(x) <= N /\ rank(x) # N /\ rank(x) \in Nat
    BY <1>0, <1>2, <1>t, <2>3
  <2> QED BY <1>1, <2>4
<1>4. \A x, y \in S : <<x, y>> \in R => rank(x) < rank(y)
  <2>1. SUFFICES ASSUME NEW x \in S, NEW y \in S, <<x, y>> \in R PROVE rank(x) < rank(y)
    OBVIOUS
  <2>2. x \in below(y) /\ x \notin below(x)
    BY <1>b, <2>1
  <2>3. below(x) \in SUBSET below(y)
    BY <1>b, <1>c, <2>1
  <2>4. IsFiniteSet(below(y))
    BY <1>2
  <2>5. Cardinality(below(x)) <= Cardinality(below(y)) /\ Cardinality(below(x)) # Cardinality(below(y))
    BY <2>2, <2>3, <2>4, FS_Subset
  <2>6. rank(x) <= rank(y) /\ rank(x) # rank(y)
    BY <1>0, <2>5
  <2> QED BY <1>t, <2>6
<1>5. \A x, y \in S : rank(x) = rank(y) => x = y
  <2>1. SUFFICES ASSUME NEW x \in S, NEW y \in S, x # y PROVE rank(x) # rank(y)
    OBVIOUS
  <2>2. rank(x) < rank(y) \/ rank(y) < rank(x)
    BY <1>4, <2>1
  <2>3. rank(x) \in Nat /\ rank(y) \in Nat
    BY <1>t
  <2> QED BY <2>2, <2>3
<1>6. \A x, y \in S : rank(x) < rank(y) => <<x, y>> \in R
  <2>1. SUFFICES ASSUME NEW x \in S, NEW y \in S, rank(x) < rank(y) PROVE <<x, y>> \in R
    OBVIOUS
  <2>2. rank(x) \in Nat /\ rank(y) \in Nat
    BY <1>t
  <2>3. x # y /\ ~(rank(y) < rank(x))
    BY <2>1, <2>2
  <2> QED BY <1>4, <2>3
<1>7. \A x \in S : rank(x) + 1 \in 1..N
  BY <1>1, <1>t, <1>3
<1>8. \A n \in 1..N : \E x \in S : rank(x) = n - 1
  <2> DEFINE f == [x \in S |-> rank(x) + 1]
  <2>1. f \in [S -> 1..N]
    BY <1>7
  <2>2. \A x, y \in S : f[x] = f[y] => x = y
    <3>1. SUFFICES ASSUME NEW x \in S, NEW y \in S, f[x] = f[y] PROVE x = y
      OBVIOUS
    <3>2. rank(x) + 1 = rank(y) + 1 /\ rank(x) \in Nat /\ rank(y) \in Nat
      BY <1>t, <3>1
    <3>3. rank(x) = rank(y)
      BY <3>2
    <3> QED BY <1>5, <3>3
  <2>3. \A x \in S : f[x] - 1 = rank(x)
    BY <1>t
  <2> HIDE DEF f
  <2>4. f \in Injection(S, 1..N)
    BY <2>1, <2>2, Fun_IsInj
  <2>5. IsFiniteSet(1..N) /\ Cardinality(1..N) = N
    BY <1>1, FS_Interval
  <2>6. f \in Surjection(S, 1..N)
    BY <2>4, <2>5, FS_Injection DEF N
  <2>7. \A n \in 1..N : \E x \in S : f[x] = n
    BY <2>6, Fun_SurjectionProperties
  <2> QED BY <2>3, <2>7
<1> QED BY <1>1, <1>t, <1>4, <1>5, <1>6, <1>7, <1>8 DEF N, rank

\* InOrder lists a finite set of keys, each once, in the order of the bytes.
LEMMA InOrderLists ==
    ASSUME NEW S, IsFiniteSet(S), S \subseteq ByteStrings
    PROVE  /\ Cardinality(S) \in Nat
           /\ DOMAIN InOrder(S) = 1..Cardinality(S)
           /\ \A n \in 1..Cardinality(S) : InOrder(S)[n] \in S
           /\ \A k \in S : \E n \in 1..Cardinality(S) : InOrder(S)[n] = k
           /\ \A m, n \in 1..Cardinality(S) : m < n <=> Before(InOrder(S)[m], InOrder(S)[n])
           /\ \A m, n \in 1..Cardinality(S) : InOrder(S)[m] = InOrder(S)[n] => m = n
<1> DEFINE R == {p \in S \X S : Before(p[1], p[2])}
           rank(x) == RankIn(S, R, x)
           N == Cardinality(S)
           keys == InOrder(S)
<1>1. \A x, y \in S : <<x, y>> \in R <=> Before(x, y)
  OBVIOUS
<1>2. \A k \in S : Cardinality({l \in S : Before(l, k)}) = rank(k)
  <2>1. TAKE k \in S
  <2>2. {l \in S : Before(l, k)} = SetLessThan(k, R, S)
    BY <1>1 DEF SetLessThan
  <2> QED BY <2>2 DEF RankIn
<1> HIDE DEF R
<1>3. /\ \A x \in S : <<x, x>> \notin R
      /\ \A x, y, z \in S : <<x, y>> \in R /\ <<y, z>> \in R => <<x, z>> \in R
      /\ \A x, y \in S : x # y => <<x, y>> \in R \/ <<y, x>> \in R
  <2>1. \A x \in S : <<x, x>> \notin R
    BY <1>1, BeforeIrreflexive
  <2>2. \A x, y, z \in S : <<x, y>> \in R /\ <<y, z>> \in R => <<x, z>> \in R
    BY <1>1, BeforeTransitive
  <2>3. \A x, y \in S : x # y => <<x, y>> \in R \/ <<y, x>> \in R
    BY <1>1, BeforeTotal
  <2> QED BY <2>1, <2>2, <2>3
<1>4. /\ N \in Nat
      /\ \A x \in S : rank(x) \in Nat
      /\ \A x, y \in S : <<x, y>> \in R <=> rank(x) < rank(y)
      /\ \A x, y \in S : rank(x) = rank(y) => x = y
      /\ \A x \in S : rank(x) + 1 \in 1..N
      /\ \A n \in 1..N : \E x \in S : rank(x) = n - 1
  BY <1>3, RanksNumber
<1>5. \A n \in 1..N : keys[n] \in S /\ rank(keys[n]) = n - 1
  <2>1. TAKE n \in 1..N
  <2> DEFINE P(k) == Cardinality({l \in S : Before(l, k)}) = n - 1
  <2>2. keys[n] = CHOOSE k \in S : P(k)
    BY DEF InOrder
  <2>3. \A k \in S : P(k) <=> rank(k) = n - 1
    BY <1>2
  <2>4. \E k \in S : P(k)
    BY <1>4, <2>3
  <2> HIDE DEF P, keys, rank
  <2>5. keys[n] \in S /\ P(keys[n])
    BY <2>2, <2>4
  <2> QED BY <2>3, <2>5
<1>6. DOMAIN keys = 1..N
  BY DEF InOrder
<1> HIDE DEF rank, keys, N
<1>7. \A k \in S : \E n \in 1..N : keys[n] = k
  <2>1. TAKE k \in S
  <2>2. PICK n \in 1..N : n = rank(k) + 1
    BY <1>4
  <2>3. n - 1 = rank(k)
    BY <1>4, <2>2
  <2>4. keys[n] \in S /\ rank(keys[n]) = rank(k)
    BY <1>5, <2>3
  <2> QED BY <1>4, <2>4
<1>8. \A m, n \in 1..N : m < n <=> Before(keys[m], keys[n])
  <2>1. TAKE m, n \in 1..N
  <2>2. Before(keys[m], keys[n]) <=> rank(keys[m]) < rank(keys[n])
    BY <1>1, <1>4, <1>5
  <2>3. rank(keys[m]) = m - 1 /\ rank(keys[n]) = n - 1
    BY <1>5
  <2> QED BY <1>4, <2>2, <2>3
<1>9. \A m, n \in 1..N : keys[m] = keys[n] => m = n
  <2>1. SUFFICES ASSUME NEW m \in 1..N, NEW n \in 1..N, keys[m] = keys[n]
                 PROVE  m = n
    OBVIOUS
  <2>2. m - 1 = n - 1
    BY <2>1, <1>5
  <2> QED BY <1>4, <2>2
<1> QED BY <1>4, <1>5, <1>6, <1>7, <1>8, <1>9 DEF N, keys

\* Two rows with one key are the same row.
LEMMA RowKeyParts ==
    ASSUME NEW c \in ByteStrings, NEW d \in ByteStrings,
           NEW r \in ByteStrings, NEW s \in ByteStrings, NulFree(c), NulFree(d),
           encode_key(c, r) = encode_key(d, s)
    PROVE  c = d /\ r = s
<1>1. (c \o <<0>>) \o r = (d \o <<0>>) \o s
  BY DEF encode_key, SEPARATOR
<1>2. (c \o <<0>>) \o r \in ByteStrings
  BY KeyBytes DEF encode_key, SEPARATOR
<1>3. HasPrefix((c \o <<0>>) \o r, (d \o <<0>>) \o s) /\ HasPrefix((d \o <<0>>) \o s, (c \o <<0>>) \o r)
  <2>1. PICK k \in ByteStrings : k = (c \o <<0>>) \o r
    BY <1>2
  <2>2. HasPrefix(k, k)
    BY DEF HasPrefix, ByteStrings
  <2> QED BY <1>1, <2>1, <2>2
<1>4. c = d /\ HasPrefix(r, s)
  BY <1>3, FirstPart
<1>5. HasPrefix(s, r)
  BY <1>3, FirstPart
<1>6. Len(r) = Len(s) /\ \A n \in 1..Len(r) : r[n] = s[n]
  BY <1>4, <1>5 DEF HasPrefix, ByteStrings
<1> QED BY <1>4, <1>6, SeqEqual DEF ByteStrings

\* The last separator starts the last part.
LEMMA LastPart ==
    ASSUME NEW v \in ByteStrings, NEW w \in ByteStrings,
           NEW id \in ByteStrings, NEW jd \in ByteStrings, NulFree(id), NulFree(jd),
           encode_key(v, id) = encode_key(w, jd)
    PROVE  v = w /\ id = jd
<1> DEFINE V == encode_key(v, id)
           W == encode_key(w, jd)
<1>0. Len(v) \in Nat /\ Len(w) \in Nat /\ Len(id) \in Nat /\ Len(jd) \in Nat
  BY BytesOfString
<1>1. /\ Len(V) = Len(v) + 1 + Len(id) /\ V[Len(v) + 1] = 0
      /\ \A n \in 1..Len(v) : V[n] = v[n]
      /\ \A n \in 1..Len(id) : V[Len(v) + 1 + n] = id[n]
  BY KeyBytes
<1>2. /\ Len(W) = Len(w) + 1 + Len(jd) /\ W[Len(w) + 1] = 0
      /\ \A n \in 1..Len(w) : W[n] = w[n]
      /\ \A n \in 1..Len(jd) : W[Len(w) + 1 + n] = jd[n]
  BY KeyBytes
<1>3. V = W
  OBVIOUS
<1>4. /\ \A n \in 1..Len(id) : id[n] # 0
      /\ \A n \in 1..Len(jd) : jd[n] # 0
  BY DEF NulFree, SEPARATOR
<1> HIDE DEF V, W
<1>5. ~(Len(id) < Len(jd))
  <2>1. SUFFICES ASSUME Len(id) < Len(jd) PROVE FALSE
    OBVIOUS
  <2>2. PICK n \in 1..Len(jd) : Len(v) + 1 = Len(w) + 1 + n
    <3> DEFINE n == Len(v) - Len(w)
    <3>1. n \in 1..Len(jd) /\ Len(v) + 1 = Len(w) + 1 + n
      BY <1>0, <1>1, <1>2, <1>3, <2>1
    <3> QED BY <3>1
  <2>3. V[Len(v) + 1] = jd[n]
    BY <1>2, <1>3, <2>2
  <2> QED BY <1>1, <1>4, <2>3
<1>6. ~(Len(jd) < Len(id))
  <2>1. SUFFICES ASSUME Len(jd) < Len(id) PROVE FALSE
    OBVIOUS
  <2>2. PICK n \in 1..Len(id) : Len(w) + 1 = Len(v) + 1 + n
    <3> DEFINE n == Len(w) - Len(v)
    <3>1. n \in 1..Len(id) /\ Len(w) + 1 = Len(v) + 1 + n
      BY <1>0, <1>1, <1>2, <1>3, <2>1
    <3> QED BY <3>1
  <2>3. W[Len(w) + 1] = id[n]
    BY <1>1, <1>3, <2>2
  <2> QED BY <1>2, <1>4, <2>3
<1>7. Len(id) = Len(jd) /\ Len(v) = Len(w)
  BY <1>0, <1>1, <1>2, <1>3, <1>5, <1>6
<1>8. \A n \in 1..Len(v) : v[n] = w[n]
  BY <1>1, <1>2, <1>3, <1>7
<1>9. \A n \in 1..Len(id) : id[n] = jd[n]
  <2>1. TAKE n \in 1..Len(id)
  <2>2. V[Len(v) + 1 + n] = id[n] /\ W[Len(w) + 1 + n] = jd[n]
    BY <1>1, <1>2, <1>7
  <2> QED BY <2>2, <1>3, <1>7
<1> QED BY <1>7, <1>8, <1>9, SeqEqual DEF ByteStrings

LEMMA IndexKeyType ==
    ASSUME NEW c \in ByteStrings, NEW f \in ByteStrings, NEW v \in ByteStrings, NEW id \in ByteStrings
    PROVE  /\ index_key(c, f, v, id) \in ByteStrings
           /\ encode_key(f, encode_key(v, id)) \in ByteStrings
           /\ encode_key(v, id) \in ByteStrings
<1>1. encode_key(v, id) \in ByteStrings
  BY KeyBytes
<1>2. encode_key(f, encode_key(v, id)) \in ByteStrings
  BY <1>1, KeyBytes
<1> QED BY <1>1, <1>2, KeyBytes DEF index_key

LEMMA KeyRegroups ==
    ASSUME NEW f \in ByteStrings, NEW v \in ByteStrings, NEW id \in ByteStrings
    PROVE  encode_key(f, encode_key(v, id)) = encode_key(encode_key(f, v), id)
<1> DEFINE sep == <<0>>
<1>1. sep \in ByteStrings
  BY DEF ByteStrings, Bytes
<1>2. \A x, y \in ByteStrings : x \o y \in ByteStrings
  BY DEF ByteStrings
<1>3. \A x, y, z \in ByteStrings : (x \o y) \o z = x \o (y \o z)
  BY ConcatAssociative DEF ByteStrings
<1> HIDE DEF sep
<1>4. PICK a \in ByteStrings : a = f \o sep
  BY <1>1, <1>2
<1>5. PICK b \in ByteStrings : b = v \o sep
  BY <1>1, <1>2
<1>6. a \o (b \o id) = (a \o b) \o id
  BY <1>3
<1>7. a \o (v \o sep) = (a \o v) \o sep
  BY <1>1, <1>3
<1>8. a \o (b \o id) = ((a \o v) \o sep) \o id
  BY <1>5, <1>6, <1>7
<1> QED BY <1>4, <1>5, <1>8 DEF encode_key, SEPARATOR, sep

\* The range of a value holds all its entries, whatever the bytes of the value.
LEMMA RangeHasEntry ==
    ASSUME NEW c \in ByteStrings, NEW f \in ByteStrings, NEW v \in ByteStrings, NEW id \in ByteStrings
    PROVE  InRange(index_key(c, f, v, id), IndexLower(c, f, v), IndexUpper(c, f, v))
<1> DEFINE lo == encode_key(v, <<>>)
           hi == v \o <<SEPARATOR + 1>>
           k  == encode_key(v, id)
<1>0. <<>> \in ByteStrings
  BY DEF ByteStrings
<1>h. hi \in ByteStrings
  BY DEF ByteStrings, Bytes, SEPARATOR
<1>1. lo \in ByteStrings /\ hi \in ByteStrings /\ k \in ByteStrings
  BY <1>0, <1>h, KeyBytes
<1>2. InRange(k, lo, hi)
  <2>1. lo = v \o <<0>> /\ hi = v \o <<1>>
    BY DEF encode_key, ByteStrings, SEPARATOR, Bytes
  <2>2. HasPrefix(k, v \o <<0>>)
    <3>1. Len(lo) = Len(v) + 1 + 0 /\ lo[Len(v) + 1] = 0 /\ \A n \in 1..Len(v) : lo[n] = v[n]
      BY <1>0, KeyBytes
    <3>2. Len(k) = Len(v) + 1 + Len(id) /\ k[Len(v) + 1] = 0 /\ \A n \in 1..Len(v) : k[n] = v[n]
      BY KeyBytes
    <3>3. Len(v) \in Nat /\ Len(id) \in Nat
      BY BytesOfString
    <3> HIDE DEF lo, k
    <3>4. Len(lo) <= Len(k) /\ \A n \in 1..Len(lo) : k[n] = lo[n]
      <4>1. \A n \in 1..Len(lo) : n \in 1..Len(v) \/ n = Len(v) + 1
        BY <3>1, <3>3
      <4> QED BY <3>1, <3>2, <3>3, <4>1
    <3> QED BY <2>1, <3>4 DEF HasPrefix
  <2> QED BY <1>1, <2>1, <2>2, RangeIsPrefix
<1> HIDE DEF lo, hi, k
<1>3. /\ encode_key(f, k) \in ByteStrings /\ encode_key(f, lo) \in ByteStrings
      /\ encode_key(f, hi) \in ByteStrings
  BY <1>1, KeyBytes
<1>4. InRange(encode_key(f, k), encode_key(f, lo), encode_key(f, hi))
  BY <1>1, <1>2, SameName DEF InRange
<1>5. InRange(encode_key(c, encode_key(f, k)), encode_key(c, encode_key(f, lo)),
              encode_key(c, encode_key(f, hi)))
  <2>1. ASSUME NEW x \in ByteStrings, NEW y \in ByteStrings, NEW z \in ByteStrings, InRange(x, y, z)
        PROVE  InRange(encode_key(c, x), encode_key(c, y), encode_key(c, z))
    BY <2>1, SameName DEF InRange
  <2> QED BY <1>3, <1>4, <2>1
<1> QED BY <1>5 DEF IndexLower, IndexUpper, index_key, lo, hi, k
=============================================================================
