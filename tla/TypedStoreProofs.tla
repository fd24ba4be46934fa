-------------------------- MODULE TypedStoreProofs --------------------------
(***************************************************************************)
(* Proofs about TypedStore: what scans and lookups by bytes return, that   *)
(* sorted pages partition it, and that another schema has another hash.    *)
(***************************************************************************)
EXTENDS TypedStore, KeyspaceProofs

-----------------------------------------------------------------------------
(* Schemas and validated documents.                                        *)

SchemaOK(S) == \E raw \in Descriptors : Compiles(raw) /\ S = compile(raw)

IdOf(S, c, d) == d[S[c].idField].str

RowOf(S, c, d) == encode_key(c, IdOf(S, c, d))

KeyOf(S, c, d, n) ==
    index_key(c, S[c].indexes[n].field, encode_index_value(d[S[c].indexes[n].field]), IdOf(S, c, d))

Keys(S, c, d) == {KeyOf(S, c, d, n) : n \in DOMAIN S[c].indexes}

\* What can be in a collection.
Storable(S, c, d) ==
    /\ d \in Documents
    /\ ValidCollection(c)
    /\ validate_document(S[c], d)
    /\ S[c].idField \in DOMAIN d /\ d[S[c].idField].is = "string"
    /\ NulFree(d[S[c].idField].str)

\* What compiling leaves of a descriptor.
LEMMA SchemaShape ==
    ASSUME NEW S, SchemaOK(S)
    PROVE  /\ IsFiniteSet(DOMAIN S) /\ DOMAIN S \subseteq ByteStrings /\ Meta \notin DOMAIN S
           /\ \A c \in DOMAIN S :
                  /\ S[c].idField \in ByteStrings
                  /\ S[c].indexes \in Seq(RawIndex)
                  /\ \A n \in DOMAIN S[c].indexes :
                         /\ S[c].indexes[n].field \in ByteStrings
                         /\ IndexCompiles(S[c].fields, S[c].indexes[n])
                  /\ \E fields \in Seq(RawField) :
                         /\ S[c].fields = compile_fields(fields)
                         /\ \A n \in DOMAIN fields : TypeParses(fields[n].ty)
<1>1. PICK raw \in Descriptors : Compiles(raw) /\ S = compile(raw)
  BY DEF SchemaOK
<1>2. IsDescriptor(raw)
  BY StoreAssumption
<1>3. /\ DOMAIN S = DOMAIN raw
      /\ \A c \in DOMAIN raw : S[c] = [raw[c] EXCEPT !.fields = compile_fields(@)]
  BY <1>1 DEF compile
<1>4. IsFiniteSet(DOMAIN S) /\ DOMAIN S \subseteq ByteStrings /\ Meta \notin DOMAIN S
  BY <1>1, <1>2, <1>3 DEF IsDescriptor, Compiles
<1>5. ASSUME NEW c \in DOMAIN S
      PROVE  /\ S[c].idField \in ByteStrings
             /\ S[c].indexes \in Seq(RawIndex)
             /\ \A n \in DOMAIN S[c].indexes :
                    /\ S[c].indexes[n].field \in ByteStrings
                    /\ IndexCompiles(S[c].fields, S[c].indexes[n])
             /\ \E fields \in Seq(RawField) :
                    /\ S[c].fields = compile_fields(fields)
                    /\ \A n \in DOMAIN fields : TypeParses(fields[n].ty)
  <2>1. raw[c] \in RawCollection
    BY <1>2, <1>3 DEF IsDescriptor
  <2>2. /\ S[c].idField = raw[c].idField
        /\ S[c].indexes = raw[c].indexes
        /\ S[c].fields = compile_fields(raw[c].fields)
    BY <1>3, <2>1 DEF RawCollection
  <2>3. CollectionCompiles(raw[c])
    BY <1>1, <1>3 DEF Compiles
  <2>4. /\ raw[c].idField \in ByteStrings
        /\ raw[c].indexes \in Seq(RawIndex)
        /\ raw[c].fields \in Seq(RawField)
    BY <2>1 DEF RawCollection
  <2>5. \A n \in DOMAIN raw[c].indexes : IndexCompiles(S[c].fields, S[c].indexes[n])
    BY <2>2, <2>3 DEF CollectionCompiles
  <2>6. \A n \in DOMAIN raw[c].fields : TypeParses(raw[c].fields[n].ty)
    BY <2>3 DEF CollectionCompiles
  <2>7. \A n \in DOMAIN raw[c].indexes : raw[c].indexes[n] \in RawIndex
    BY <2>4
  <2>8. \A n \in DOMAIN raw[c].indexes : raw[c].indexes[n].field \in ByteStrings
    BY <2>7 DEF RawIndex
  <2> QED BY <2>2, <2>4, <2>5, <2>6, <2>8
<1> QED BY <1>4, <1>5

\* A type that parses is a scalar behind some arrays.
LEMMA ParsedIsTyped ==
    ASSUME NEW t \in Seq(STRING), TypeParses(t)
    PROVE  ParsedType(t).base \in ScalarTypes /\ ParsedType(t) \in [base : ScalarTypes, depth : Nat]
<1>1. PICK n \in DOMAIN t : Innermost(t, n) /\ t[n] \in ScalarTypes
  BY DEF TypeParses
<1>2. ASSUME NEW m \in DOMAIN t, Innermost(t, m) PROVE m = n
  <2>1. m \in Nat \ {0} /\ n \in Nat \ {0}
    OBVIOUS
  <2> QED BY <1>1, <1>2, <2>1 DEF Innermost
<1>3. (CHOOSE m \in DOMAIN t : Innermost(t, m)) = n
  BY <1>1, <1>2
<1>4. n - 1 \in Nat
  OBVIOUS
<1>5. ParsedType(t) = [base |-> t[n], depth |-> n - 1]
  <2> DEFINE k == CHOOSE m \in DOMAIN t : Innermost(t, m)
  <2>1. ParsedType(t) = [base |-> t[k], depth |-> k - 1]
    BY DEF ParsedType
  <2>2. k = n
    BY <1>3
  <2> HIDE DEF k
  <2> QED BY <2>1, <2>2
<1> QED BY <1>1, <1>4, <1>5

\* The first field of a name is one of the fields.
LEMMA FieldIsThere ==
    ASSUME NEW fields, NEW N \in Nat, DOMAIN fields = 1..N, NEW name, HasField(fields, name)
    PROVE  \E n \in DOMAIN fields : field(fields, name) = fields[n] /\ fields[n].name = name
<1> DEFINE T == {n \in Nat : n \in 1..N /\ fields[n].name = name}
           P(n) == fields[n].name = name /\ \A m \in 1..(n - 1) : fields[m].name # name
<1>1. T # {} /\ T \subseteq Nat
  BY DEF HasField
<1>2. PICK n \in T : \A m \in T : n <= m
  <2> HIDE DEF T
  <2> QED BY <1>1, LeastNat
<1>3. n \in DOMAIN fields /\ P(n)
  <2>1. \A m \in 1..(n - 1) : fields[m].name # name
    <3>1. SUFFICES ASSUME NEW m \in 1..(n - 1), fields[m].name = name PROVE FALSE
      OBVIOUS
    <3>2. m \in T /\ ~(n <= m)
      BY <3>1
    <3> QED BY <1>2, <3>2
  <2> QED BY <2>1
<1>4. field(fields, name) = fields[CHOOSE m \in DOMAIN fields : P(m)]
  BY DEF field
<1> HIDE DEF P
<1>5. (CHOOSE m \in DOMAIN fields : P(m)) \in DOMAIN fields /\ P(CHOOSE m \in DOMAIN fields : P(m))
  BY <1>3
<1> QED BY <1>4, <1>5 DEF P

\* A value of a scalar type is checked by itself.
LEMMA ScalarChecked ==
    ASSUME NEW ty, NEW f, NEW v, ty.depth = 0, check_value(ty, f, v)
    PROVE  CheckScalar(ty.base, f, v)
<1> DEFINE Body(g, n) ==
             IF n = 0 THEN {v}
             ELSE UNION {{x.items[k] : k \in DOMAIN x.items} : x \in {y \in g[n - 1] : y.is = "array"}}
           L == CHOOSE g : g = [n \in 0..ty.depth |-> Body(g, n)]
<1>1. \A x \in L[ty.depth] : CheckScalar(ty.base, f, x)
  BY DEF check_value
<1>2. \E g : g = [n \in 0..ty.depth |-> Body(g, n)]
  <2>1. PICK g : g = [n \in 0..ty.depth |-> {v}]
    OBVIOUS
  <2>2. [n \in 0..ty.depth |-> Body(g, n)] = [n \in 0..ty.depth |-> {v}]
    OBVIOUS
  <2> QED BY <2>1, <2>2
<1>3. L = [n \in 0..ty.depth |-> Body(L, n)]
  <2> HIDE DEF Body
  <2> QED BY <1>2
<1>4. L[0] = {v}
  <2>1. 0 \in 0..ty.depth
    OBVIOUS
  <2>2. L[0] = Body(L, 0)
    <3> HIDE DEF L, Body
    <3> QED BY <1>3, <2>1
  <2>3. Body(L, 0) = {v}
    <3> HIDE DEF L
    <3> QED OBVIOUS
  <2> HIDE DEF L, Body
  <2> QED BY <2>2, <2>3
<1> HIDE DEF L
<1> QED BY <1>1, <1>4

\* The values an index can hold, by the type of the field.
LEMMA IndexedValue ==
    ASSUME NEW S, SchemaOK(S), NEW c \in DOMAIN S, NEW n \in DOMAIN S[c].indexes
    PROVE  \E base \in ScalarTypes : \E f :
               \A d : validate_document(S[c], d) =>
                          /\ S[c].indexes[n].field \in DOMAIN d
                          /\ CheckScalar(base, f, d[S[c].indexes[n].field])
<1> DEFINE name == S[c].indexes[n].field
<1>1. PICK fields \in Seq(RawField) :
          S[c].fields = compile_fields(fields) /\ \A m \in DOMAIN fields : TypeParses(fields[m].ty)
  BY SchemaShape
<1>2. IndexCompiles(S[c].fields, S[c].indexes[n])
  BY SchemaShape
<1>3. Len(fields) \in Nat /\ DOMAIN S[c].fields = 1..Len(fields)
  BY <1>1 DEF compile_fields
<1>4. PICK m \in DOMAIN S[c].fields :
          field(S[c].fields, name) = S[c].fields[m] /\ S[c].fields[m].name = name
  <2>1. HasField(S[c].fields, name)
    BY <1>2 DEF IndexCompiles
  <2> HIDE DEF name
  <2> QED BY <1>3, <2>1, FieldIsThere
<1> DEFINE f == S[c].fields[m]
<1>5. ~f.optional /\ ~f.nullable /\ f.ty.depth = 0
  BY <1>2, <1>4 DEF IndexCompiles
<1>6. f.ty.base \in ScalarTypes
  <2>1. fields[m] \in RawField /\ TypeParses(fields[m].ty)
    BY <1>1, <1>3
  <2>2. f = [fields[m] EXCEPT !.ty = ParsedType(@)]
    BY <1>1, <1>3 DEF compile_fields
  <2>3. f.ty = ParsedType(fields[m].ty)
    BY <2>1, <2>2 DEF RawField
  <2>4. fields[m].ty \in Seq(STRING)
    BY <2>1 DEF RawField
  <2> QED BY <2>1, <2>3, <2>4, ParsedIsTyped
<1>7. ASSUME NEW d, validate_document(S[c], d)
      PROVE  name \in DOMAIN d /\ CheckScalar(f.ty.base, f, d[name])
  <2>1. IF f.name \notin DOMAIN d THEN f.optional
        ELSE IF d[f.name].is = "null" THEN f.nullable
        ELSE check_value(f.ty, f, d[f.name])
    BY <1>7 DEF validate_document
  <2>2. f.name = name
    BY <1>4
  <2> HIDE DEF f, name
  <2>3. name \in DOMAIN d /\ check_value(f.ty, f, d[name])
    BY <1>5, <2>1, <2>2
  <2> QED BY <1>5, <2>3, ScalarChecked
<1> QED BY <1>6, <1>7

\* What a scalar type lets through.
LEMMA ScalarIs ==
    ASSUME NEW base \in ScalarTypes, NEW f, NEW v, NEW w, CheckScalar(base, f, v), CheckScalar(base, f, w)
    PROVE  v.is \in {"string", "number", "boolean"} /\ v.is = w.is
<1>1. CASE base \in {"id", "string"}
  BY <1>1 DEF CheckScalar
<1>2. CASE base = "number"
  BY <1>2 DEF CheckScalar
<1>3. CASE base = "boolean"
  BY <1>3 DEF CheckScalar
<1>4. CASE base = "enum"
  BY <1>4 DEF CheckScalar
<1>5. CASE base = "date"
  BY <1>5 DEF CheckScalar
<1> QED BY <1>1, <1>2, <1>3, <1>4, <1>5 DEF ScalarTypes

\* What a value is written as in an index key.
LEMMA ValueText ==
    ASSUME NEW d \in Documents, NEW f \in DOMAIN d, d[f].is # "array"
    PROVE  /\ d[f] \in Values
           /\ encode_index_value(d[f]) \in ByteStrings
           /\ d[f].is = "number" => NulFree(encode_index_value(d[f]))
           /\ d[f].is = "string" => d[f].str \in ByteStrings /\ encode_index_value(d[f]) = d[f].str
           /\ d[f].is = "boolean" => encode_index_value(d[f]) \in {<<0>>, <<1>>}
<1>1. d[f] \in Values /\ (d[f].is = "number" => Text(d[f]) \in Seq(1..255))
  BY StoreAssumption DEF IsDocument
<1>2. CASE d[f].is = "string"
  BY <1>1, <1>2 DEF Values, encode_index_value
<1>3. CASE d[f].is = "boolean"
  <2>1. d[f] \in [is : {"boolean"}, bool : BOOLEAN]
    BY <1>1, <1>3 DEF Values
  <2>2. encode_index_value(d[f]) = IF d[f].bool THEN <<1>> ELSE <<0>>
    BY <1>3 DEF encode_index_value
  <2>3. encode_index_value(d[f]) \in {<<0>>, <<1>>}
    BY <2>1, <2>2
  <2>4. <<0>> \in ByteStrings /\ <<1>> \in ByteStrings
    BY DEF ByteStrings, Bytes
  <2> QED BY <1>1, <1>3, <2>3, <2>4
<1>4. CASE d[f].is = "number"
  <2>1. encode_index_value(d[f]) = Text(d[f]) /\ Text(d[f]) \in Seq(1..255)
    BY <1>1, <1>4 DEF encode_index_value
  <2>2. \A x : x \in 1..255 => x \in Bytes /\ x # 0
    BY DEF Bytes
  <2>3. Text(d[f]) \in ByteStrings
    BY <2>1, <2>2, SeqMonotonic DEF ByteStrings
  <2>4. NulFree(Text(d[f]))
    <3>1. \A n \in 1..Len(Text(d[f])) : Text(d[f])[n] \in 1..255
      BY <2>1, ElementOfSeq
    <3> QED BY <2>2, <3>1 DEF NulFree, SEPARATOR
  <2> QED BY <1>1, <1>4, <2>1, <2>3, <2>4
<1>5. CASE d[f].is = "null"
  <2>1. encode_index_value(d[f]) = <<0, 110>>
    BY <1>5 DEF encode_index_value
  <2>2. <<0, 110>> \in ByteStrings
    BY DEF ByteStrings, Bytes
  <2> QED BY <1>1, <1>5, <2>1, <2>2
<1>6. d[f].is \in {"string", "boolean", "number", "null"}
  BY <1>1 DEF Values
<1> QED BY <1>2, <1>3, <1>4, <1>5, <1>6

\* What is known of a document of a collection.
LEMMA StorableShape ==
    ASSUME NEW S, SchemaOK(S), NEW c \in DOMAIN S, NEW d, Storable(S, c, d)
    PROVE  /\ c \in ByteStrings /\ NulFree(c)
           /\ IdOf(S, c, d) \in ByteStrings /\ NulFree(IdOf(S, c, d))
           /\ RowOf(S, c, d) \in ByteStrings
           /\ \A n \in DOMAIN S[c].indexes :
                  LET f == S[c].indexes[n].field IN
                  /\ f \in ByteStrings /\ f \in DOMAIN d
                  /\ d[f].is \in {"string", "number", "boolean"}
                  /\ encode_index_value(d[f]) \in ByteStrings
                  /\ KeyOf(S, c, d, n) \in ByteStrings
<1>1. c \in ByteStrings /\ NulFree(c)
  BY SchemaShape DEF Storable, ValidCollection
<1>2. IdOf(S, c, d) \in ByteStrings /\ NulFree(IdOf(S, c, d))
  <2>1. d[S[c].idField].is # "array" /\ d \in Documents /\ S[c].idField \in DOMAIN d
    BY DEF Storable
  <2> QED BY <2>1, ValueText DEF Storable, IdOf
<1>3. RowOf(S, c, d) \in ByteStrings
  BY <1>1, <1>2, KeyBytes DEF RowOf
<1>4. ASSUME NEW n \in DOMAIN S[c].indexes, NEW f, f = S[c].indexes[n].field
      PROVE  /\ f \in ByteStrings /\ f \in DOMAIN d
             /\ d[f].is \in {"string", "number", "boolean"}
             /\ encode_index_value(d[f]) \in ByteStrings
             /\ KeyOf(S, c, d, n) \in ByteStrings
  <2>1. f \in ByteStrings
    BY <1>4, SchemaShape
  <2>2. PICK base \in ScalarTypes : \E fi :
            \A e : validate_document(S[c], e) => f \in DOMAIN e /\ CheckScalar(base, fi, e[f])
    BY <1>4, IndexedValue
  <2>3. f \in DOMAIN d /\ d[f].is \in {"string", "number", "boolean"} /\ d \in Documents
    BY <2>2, ScalarIs DEF Storable
  <2>4. encode_index_value(d[f]) \in ByteStrings
    BY <2>3, ValueText
  <2>5. KeyOf(S, c, d, n) \in ByteStrings
    BY <1>1, <1>2, <1>4, <2>1, <2>4, IndexKeyType DEF KeyOf
  <2> QED BY <2>1, <2>3, <2>4, <2>5
<1> QED BY <1>1, <1>2, <1>3, <1>4
-----------------------------------------------------------------------------
(* The inductive invariant.                                                *)

\* What a collection should hold has distinct ids.
HeldOK(S, hld) ==
    /\ DOMAIN hld = DOMAIN S
    /\ \A c \in DOMAIN S :
           /\ IsFiniteSet(hld[c])
           /\ \A d \in hld[c] : Storable(S, c, d)
           /\ \A a, b \in hld[c] : IdOf(S, c, a) = IdOf(S, c, b) => a = b

\* A value of a unique index has one document.
UniqueOK(S, hld) ==
    \A c \in DOMAIN S : \A n \in DOMAIN S[c].indexes : \A a, b \in hld[c] :
        /\ S[c].indexes[n].unique
        /\ a[S[c].indexes[n].field] = b[S[c].indexes[n].field]
        => a = b

\* The rows of the table are those documents and the ledger.
RowsOK(S, ent, hld, rec) ==
    /\ IsFiniteSet(DOMAIN ent)
    /\ \A c \in DOMAIN S : \A d \in hld[c] :
           RowOf(S, c, d) \in DOMAIN ent /\ ent[RowOf(S, c, d)] = d
    /\ \A key \in DOMAIN ent :
           key = LedgerKey \/ \E c \in DOMAIN S : \E d \in hld[c] : key = RowOf(S, c, d)
    /\ rec # {} => LedgerKey \in DOMAIN ent /\ ent[LedgerKey] = [is |-> "ledger", of |-> rec]

\* The documents have their entries; other entries are left over from documents
\* that could be in the collection, and lead to their ids.
IndexOK(S, idx, hld) ==
    /\ IsFiniteSet(DOMAIN idx)
    /\ \A c \in DOMAIN S : \A d \in hld[c] : Keys(S, c, d) \subseteq DOMAIN idx
    /\ \A k \in DOMAIN idx :
           \E c \in DOMAIN S : \E d \in Documents :
               Storable(S, c, d) /\ k \in Keys(S, c, d) /\ idx[k] = IdOf(S, c, d)

IInv ==
    /\ SchemaOK(ir)
    /\ HeldOK(ir, held)
    /\ UniqueOK(ir, held)
    /\ RowsOK(ir, entries, held, recorded)
    /\ IndexOK(ir, index, held)

\* Two documents with one row are in one collection and have one id; and the
\* ledger is no document's row.
LEMMA RowsTellApart ==
    ASSUME NEW S, SchemaOK(S), NEW c \in DOMAIN S, NEW e \in DOMAIN S,
           NEW a, NEW b, Storable(S, c, a), Storable(S, e, b)
    PROVE  /\ RowOf(S, c, a) = RowOf(S, e, b) => c = e /\ IdOf(S, c, a) = IdOf(S, e, b)
           /\ RowOf(S, c, a) # LedgerKey
<1>1. /\ c \in ByteStrings /\ NulFree(c) /\ IdOf(S, c, a) \in ByteStrings
      /\ e \in ByteStrings /\ NulFree(e) /\ IdOf(S, e, b) \in ByteStrings
  BY StorableShape
<1>2. RowOf(S, c, a) = RowOf(S, e, b) => c = e /\ IdOf(S, c, a) = IdOf(S, e, b)
  BY <1>1, RowKeyParts DEF RowOf
<1>3. RowOf(S, c, a) # LedgerKey
  <2>1. Meta \in ByteStrings /\ NulFree(Meta) /\ Meta # c
    BY SchemaAssumption, StoreAssumption, SchemaShape DEF ValidCollection
  <2>2. APPLIED_KEY \in ByteStrings
    BY StoreAssumption
  <2> QED BY <1>1, <2>1, <2>2, RowKeyParts DEF RowOf, LedgerKey
<1> QED BY <1>2, <1>3

\* Two documents with a common entry are in one collection and have one id.
LEMMA EntriesTellApart ==
    ASSUME NEW S, SchemaOK(S), NEW c \in DOMAIN S, NEW e \in DOMAIN S,
           NEW a, NEW b, Storable(S, c, a), Storable(S, e, b),
           NEW k, k \in Keys(S, c, a), k \in Keys(S, e, b)
    PROVE  c = e /\ IdOf(S, c, a) = IdOf(S, e, b)
<1>1. PICK n \in DOMAIN S[c].indexes : k = KeyOf(S, c, a, n)
  BY DEF Keys
<1>2. PICK m \in DOMAIN S[e].indexes : k = KeyOf(S, e, b, m)
  BY DEF Keys
<1>3. /\ c \in ByteStrings /\ NulFree(c) /\ IdOf(S, c, a) \in ByteStrings /\ NulFree(IdOf(S, c, a))
      /\ S[c].indexes[n].field \in ByteStrings
      /\ encode_index_value(a[S[c].indexes[n].field]) \in ByteStrings
  BY StorableShape
<1>4. /\ e \in ByteStrings /\ NulFree(e) /\ IdOf(S, e, b) \in ByteStrings /\ NulFree(IdOf(S, e, b))
      /\ S[e].indexes[m].field \in ByteStrings
      /\ encode_index_value(b[S[e].indexes[m].field]) \in ByteStrings
  BY StorableShape
<1> DEFINE f == S[c].indexes[n].field
           v == encode_index_value(a[f])
           i == IdOf(S, c, a)
           g == S[e].indexes[m].field
           w == encode_index_value(b[g])
           j == IdOf(S, e, b)
<1>5. index_key(c, f, v, i) = index_key(e, g, w, j)
  BY <1>1, <1>2 DEF KeyOf
<1> HIDE DEF f, v, i, g, w, j
<1>6. /\ f \in ByteStrings /\ v \in ByteStrings /\ i \in ByteStrings /\ NulFree(i)
      /\ g \in ByteStrings /\ w \in ByteStrings /\ j \in ByteStrings /\ NulFree(j)
  BY <1>3, <1>4 DEF f, v, i, g, w, j
<1>7. c = e /\ encode_key(f, encode_key(v, i)) = encode_key(g, encode_key(w, j))
  <2>1. encode_key(f, encode_key(v, i)) \in ByteStrings /\ encode_key(g, encode_key(w, j)) \in ByteStrings
    BY <1>6, IndexKeyType
  <2>2. PICK r \in ByteStrings : r = encode_key(f, encode_key(v, i))
    BY <2>1
  <2>3. PICK t \in ByteStrings : t = encode_key(g, encode_key(w, j))
    BY <2>1
  <2>4. encode_key(c, r) = encode_key(e, t)
    BY <1>5, <2>2, <2>3 DEF index_key
  <2> QED BY <1>3, <1>4, <2>2, <2>3, <2>4, RowKeyParts
<1>8. i = j
  <2>1. encode_key(f, v) \in ByteStrings /\ encode_key(g, w) \in ByteStrings
    BY <1>6, KeyBytes
  <2>2. encode_key(encode_key(f, v), i) = encode_key(encode_key(g, w), j)
    BY <1>6, <1>7, KeyRegroups
  <2> QED BY <1>6, <2>1, <2>2, LastPart
<1> QED BY <1>7, <1>8 DEF i, j

LEMMA KeysFinite ==
    ASSUME NEW S, SchemaOK(S), NEW c \in DOMAIN S, NEW d
    PROVE  IsFiniteSet(Keys(S, c, d))
<1>1. PICK N \in Nat : DOMAIN S[c].indexes = 1..N
  BY SchemaShape
<1> DEFINE f == [n \in 1..N |-> KeyOf(S, c, d, n)]
<1>2. f \in Surjection(1..N, Keys(S, c, d))
  <2>1. f \in [1..N -> Keys(S, c, d)]
    BY <1>1 DEF Keys
  <2>2. \A k \in Keys(S, c, d) : \E n \in 1..N : f[n] = k
    BY <1>1 DEF Keys
  <2> HIDE DEF f
  <2> QED BY <2>1, <2>2, Fun_IsSurj
<1>3. IsFiniteSet(1..N)
  BY FS_Interval
<1> QED BY <1>2, <1>3, FS_Surjection

LEMMA KeysOfDocAre ==
    ASSUME NEW c, NEW d
    PROVE  KeysOfDoc(c, d) = Keys(ir, c, d)
  BY DEF KeysOfDoc, Keys, KeyOf, IdOf

-----------------------------------------------------------------------------
(* What a query reads.                                                     *)

\* A table is listed in the order of its keys, each entry once.
LEMMA TableInOrder ==
    ASSUME NEW t, IsFiniteSet(DOMAIN t), DOMAIN t \subseteq ByteStrings
    PROVE  /\ Cardinality(DOMAIN t) \in Nat
           /\ DOMAIN InKeyOrder(t) = 1..Cardinality(DOMAIN t)
           /\ Len(InKeyOrder(t)) = Cardinality(DOMAIN t)
           /\ \A n \in 1..Cardinality(DOMAIN t) :
                  InOrder(DOMAIN t)[n] \in DOMAIN t /\ InKeyOrder(t)[n] = t[InOrder(DOMAIN t)[n]]
           /\ {InKeyOrder(t)[n] : n \in DOMAIN InKeyOrder(t)} = {t[k] : k \in DOMAIN t}
<1> DEFINE N == Cardinality(DOMAIN t)
           keys == InOrder(DOMAIN t)
           out == InKeyOrder(t)
<1>1. /\ N \in Nat /\ DOMAIN keys = 1..N
      /\ \A n \in 1..N : keys[n] \in DOMAIN t
      /\ \A k \in DOMAIN t : \E n \in 1..N : keys[n] = k
  BY InOrderLists
<1>2. out = [n \in 1..N |-> t[keys[n]]]
  BY <1>1 DEF InKeyOrder
<1> HIDE DEF N, keys, out
<1>3. DOMAIN out = 1..N /\ \A n \in 1..N : out[n] = t[keys[n]]
  BY <1>2
<1>4. Len(out) = N
  <2>1. out \in Seq({t[k] : k \in DOMAIN t})
    BY <1>1, <1>2
  <2> QED BY <1>1, <1>3, <2>1
<1>5. {out[n] : n \in DOMAIN out} = {t[k] : k \in DOMAIN t}
  <2>1. ASSUME NEW n \in DOMAIN out PROVE out[n] \in {t[k] : k \in DOMAIN t}
    BY <1>1, <1>3
  <2>2. ASSUME NEW k \in DOMAIN t PROVE \E n \in DOMAIN out : t[k] = out[n]
    BY <1>1, <1>3
  <2> QED BY <2>1, <2>2
<1> QED BY <1>1, <1>3, <1>4, <1>5 DEF N, keys, out

\* A row of a collection is the document of that id.
LEMMA RowIsHeld ==
    ASSUME IInv, NEW c \in DOMAIN ir, ValidCollection(c), NEW id \in ByteStrings,
           encode_key(c, id) \in DOMAIN entries
    PROVE  entries[encode_key(c, id)] \in held[c] /\ IdOf(ir, c, entries[encode_key(c, id)]) = id
<1>1. SchemaOK(ir) /\ HeldOK(ir, held) /\ RowsOK(ir, entries, held, recorded)
  BY DEF IInv
<1>2. c \in ByteStrings /\ NulFree(c)
  BY <1>1, SchemaShape DEF ValidCollection
<1>3. encode_key(c, id) # LedgerKey
  <2>1. Meta \in ByteStrings /\ NulFree(Meta) /\ Meta # c
    BY <1>1, SchemaAssumption, StoreAssumption, SchemaShape DEF ValidCollection
  <2>2. APPLIED_KEY \in ByteStrings
    BY StoreAssumption
  <2> QED BY <1>2, <2>1, <2>2, RowKeyParts DEF LedgerKey
<1>4. PICK e \in DOMAIN ir : \E d \in held[e] : encode_key(c, id) = RowOf(ir, e, d)
  BY <1>1, <1>3 DEF RowsOK
<1>5. PICK d \in held[e] : encode_key(c, id) = RowOf(ir, e, d)
  BY <1>4
<1>6. Storable(ir, e, d)
  BY <1>1 DEF HeldOK
<1>7. e \in ByteStrings /\ NulFree(e) /\ IdOf(ir, e, d) \in ByteStrings
  BY <1>1, <1>6, StorableShape
<1>8. c = e /\ id = IdOf(ir, e, d)
  BY <1>2, <1>5, <1>7, RowKeyParts DEF RowOf
<1>9. entries[RowOf(ir, e, d)] = d
  BY <1>1 DEF RowsOK
<1> QED BY <1>5, <1>8, <1>9

LEMMA FilterShape ==
    ASSUME NEW c, NEW flt \in Filters(c), flt # NoFilter
    PROVE  \E doc \in Documents : \E f \in DOMAIN doc :
               flt.field = f /\ flt.value = doc[f]
  BY DEF Filters

\* All keys and ids are strings of bytes.
LEMMA KeysAreBytes ==
    ASSUME IInv
    PROVE  /\ DOMAIN entries \subseteq ByteStrings /\ DOMAIN index \subseteq ByteStrings
           /\ \A k \in DOMAIN index : index[k] \in ByteStrings /\ NulFree(index[k])
<1>1. SchemaOK(ir) /\ HeldOK(ir, held) /\ RowsOK(ir, entries, held, recorded) /\ IndexOK(ir, index, held)
  BY DEF IInv
<1>2. DOMAIN entries \subseteq ByteStrings
  <2>1. SUFFICES ASSUME NEW key \in DOMAIN entries PROVE key \in ByteStrings
    OBVIOUS
  <2>2. CASE key = LedgerKey
    <3>1. APPLIED_KEY \in ByteStrings
      BY StoreAssumption
    <3> QED BY <2>2, <3>1, SchemaAssumption, KeyBytes DEF LedgerKey
  <2>3. CASE \E e \in DOMAIN ir : \E d \in held[e] : key = RowOf(ir, e, d)
    <3>1. PICK e \in DOMAIN ir : \E d \in held[e] : key = RowOf(ir, e, d)
      BY <2>3
    <3>2. PICK d \in held[e] : key = RowOf(ir, e, d)
      BY <3>1
    <3>3. Storable(ir, e, d)
      BY <1>1 DEF HeldOK
    <3> QED BY <1>1, <3>2, <3>3, StorableShape
  <2> QED BY <1>1, <2>2, <2>3 DEF RowsOK
<1>3. DOMAIN index \subseteq ByteStrings /\ \A k \in DOMAIN index : index[k] \in ByteStrings /\ NulFree(index[k])
  <2>1. SUFFICES ASSUME NEW k \in DOMAIN index
                 PROVE  k \in ByteStrings /\ index[k] \in ByteStrings /\ NulFree(index[k])
    OBVIOUS
  <2>2. PICK e \in DOMAIN ir : \E d \in Documents :
            Storable(ir, e, d) /\ k \in Keys(ir, e, d) /\ index[k] = IdOf(ir, e, d)
    BY <1>1 DEF IndexOK
  <2>3. PICK d \in Documents : Storable(ir, e, d) /\ k \in Keys(ir, e, d) /\ index[k] = IdOf(ir, e, d)
    BY <2>2
  <2>4. PICK n \in DOMAIN ir[e].indexes : k = KeyOf(ir, e, d, n)
    BY <2>3 DEF Keys
  <2> QED BY <1>1, <2>3, <2>4, StorableShape
<1> QED BY <1>2, <1>3

\* A scan of a collection reads the rows of its documents.
LEMMA ScanReadsRows ==
    ASSUME IInv, NEW c \in DOMAIN ir
    PROVE  LET t == list_collection(c) IN
           /\ IsFiniteSet(DOMAIN t) /\ DOMAIN t \subseteq ByteStrings
           /\ \A k \in DOMAIN t : t[k] \in held[c] /\ k = RowOf(ir, c, t[k])
           /\ \A d \in held[c] : RowOf(ir, c, d) \in DOMAIN t /\ t[RowOf(ir, c, d)] = d
<1> DEFINE t == list_collection(c)
<1>1. SchemaOK(ir) /\ HeldOK(ir, held) /\ RowsOK(ir, entries, held, recorded)
  BY DEF IInv
<1>2. \A d \in held[c] : /\ Storable(ir, c, d) /\ ValidCollection(c)
                         /\ RowOf(ir, c, d) \in DOMAIN entries /\ entries[RowOf(ir, c, d)] = d
  BY <1>1 DEF HeldOK, RowsOK, Storable
<1>3. DOMAIN entries \subseteq ByteStrings
  BY KeysAreBytes
<1>4. CASE ~ValidCollection(c)
  <2>1. DOMAIN t = {}
    BY <1>4 DEF list_collection, NoTable
  <2>2. held[c] = {}
    BY <1>2, <1>4
  <2> HIDE DEF t
  <2>3. IsFiniteSet(DOMAIN t)
    BY <2>1, FS_EmptySet
  <2> QED BY <2>1, <2>2, <2>3 DEF t
<1>5. CASE ValidCollection(c)
  <2> DEFINE lo == collection_prefix_lower(c)
             hi == collection_prefix_upper(c)
  <2>1. /\ DOMAIN t \in SUBSET DOMAIN entries
        /\ \A k \in DOMAIN entries : k \in DOMAIN t <=> InRange(k, lo, hi)
        /\ \A k \in DOMAIN t : t[k] = entries[k]
    BY <1>5 DEF list_collection, RangeOf
  <2>2. IsFiniteSet(DOMAIN t)
    BY <1>1, <2>1, FS_Subset DEF RowsOK
  <2> HIDE DEF t, lo, hi
  <2>3. c \in ByteStrings
    BY <1>1, SchemaShape
  <2>4. ASSUME NEW k \in DOMAIN t PROVE t[k] \in held[c] /\ k = RowOf(ir, c, t[k])
    <3>1. k \in DOMAIN entries /\ InRange(k, lo, hi) /\ t[k] = entries[k]
      BY <2>1
    <3>2. k # LedgerKey
      <4>1. SUFFICES ASSUME k = LedgerKey PROVE FALSE
        OBVIOUS
      <4>2. APPLIED_KEY \in ByteStrings
        BY StoreAssumption
      <4>3. Meta \in ByteStrings /\ ValidCollection(Meta) /\ c # Meta
        BY <1>1, SchemaAssumption, StoreAssumption, SchemaShape
      <4>4. InRange(encode_key(Meta, APPLIED_KEY), lo, hi)
        BY <3>1, <4>1 DEF LedgerKey
      <4> QED BY <1>5, <2>3, <4>2, <4>3, <4>4, ScanReadsOneCollection DEF lo, hi
    <3>3. PICK e \in DOMAIN ir : \E d \in held[e] : k = RowOf(ir, e, d)
      BY <1>1, <3>1, <3>2 DEF RowsOK
    <3>4. PICK d \in held[e] : k = RowOf(ir, e, d)
      BY <3>3
    <3>5. Storable(ir, e, d) /\ entries[k] = d
      BY <1>1, <3>4 DEF HeldOK, RowsOK
    <3>6. e \in ByteStrings /\ ValidCollection(e) /\ IdOf(ir, e, d) \in ByteStrings
      BY <1>1, <3>5, StorableShape DEF Storable
    <3>7. c = e
      BY <1>5, <2>3, <3>1, <3>4, <3>6, ScanReadsOneCollection DEF lo, hi, RowOf
    <3> QED BY <3>1, <3>4, <3>5, <3>7
  <2>5. ASSUME NEW d \in held[c] PROVE RowOf(ir, c, d) \in DOMAIN t /\ t[RowOf(ir, c, d)] = d
    <3>1. IdOf(ir, c, d) \in ByteStrings
      BY <1>1, <1>2, StorableShape
    <3>2. InRange(RowOf(ir, c, d), lo, hi)
      BY <1>5, <2>3, <3>1, ScanReadsOneCollection DEF lo, hi, RowOf
    <3> QED BY <1>2, <2>1, <3>2
  <2> QED BY <1>3, <2>1, <2>2, <2>4, <2>5 DEF t
<1> QED BY <1>4, <1>5

\* The candidates of a filter are documents of the collection, with all that
\* match.
LEMMA CandidatesAreHeld ==
    ASSUME IInv, NEW c \in DOMAIN ir, NEW flt \in Filters(c)
    PROVE  /\ IsFiniteSet(DOMAIN candidates(c, flt)) /\ DOMAIN candidates(c, flt) \subseteq ByteStrings
           /\ \A k \in DOMAIN candidates(c, flt) : candidates(c, flt)[k] \in held[c]
           /\ \A d \in held[c] : matches(d, flt) =>
                  \E k \in DOMAIN candidates(c, flt) : candidates(c, flt)[k] = d
<1> DEFINE ById == flt # NoFilter /\ flt.field = ir[c].idField /\ flt.value.is = "string"
           ByIndex == flt # NoFilter /\ \E n \in DOMAIN ir[c].indexes : ir[c].indexes[n].field = flt.field
<1>1. SchemaOK(ir) /\ HeldOK(ir, held) /\ RowsOK(ir, entries, held, recorded) /\ IndexOK(ir, index, held)
  BY DEF IInv
<1>2. \A d \in held[c] : /\ Storable(ir, c, d) /\ ValidCollection(c)
                         /\ RowOf(ir, c, d) = encode_key(c, IdOf(ir, c, d))
                         /\ RowOf(ir, c, d) \in DOMAIN entries /\ entries[RowOf(ir, c, d)] = d
  BY <1>1 DEF HeldOK, RowsOK, RowOf, Storable
<1>4. /\ DOMAIN entries \subseteq ByteStrings /\ DOMAIN index \subseteq ByteStrings
      /\ \A k \in DOMAIN index : index[k] \in ByteStrings /\ NulFree(index[k])
  BY KeysAreBytes
<1>5. ASSUME NEW ids, IsFiniteSet(DOMAIN ids), DOMAIN ids \subseteq ByteStrings,
             \A k \in DOMAIN ids : ids[k] \in ByteStrings
      PROVE  /\ IsFiniteSet(DOMAIN fetch(c, ids)) /\ DOMAIN fetch(c, ids) \subseteq ByteStrings
             /\ \A k \in DOMAIN fetch(c, ids) : fetch(c, ids)[k] \in held[c]
             /\ \A d \in held[c] : \A k \in DOMAIN ids : ids[k] = IdOf(ir, c, d) =>
                    k \in DOMAIN fetch(c, ids) /\ fetch(c, ids)[k] = d
  <2>1. /\ DOMAIN fetch(c, ids) \in SUBSET DOMAIN ids
        /\ \A k \in DOMAIN ids :
               k \in DOMAIN fetch(c, ids) <=> ValidCollection(c) /\ encode_key(c, ids[k]) \in DOMAIN entries
        /\ \A k \in DOMAIN fetch(c, ids) : fetch(c, ids)[k] = entries[encode_key(c, ids[k])]
    BY DEF fetch
  <2>2. IsFiniteSet(DOMAIN fetch(c, ids))
    BY <1>5, <2>1, FS_Subset
  <2>3. \A k \in DOMAIN fetch(c, ids) : fetch(c, ids)[k] \in held[c]
    BY <1>5, <2>1, RowIsHeld
  <2>4. \A d \in held[c] : \A k \in DOMAIN ids : ids[k] = IdOf(ir, c, d) =>
            k \in DOMAIN fetch(c, ids) /\ fetch(c, ids)[k] = d
    BY <1>2, <2>1
  <2> QED BY <1>5, <2>1, <2>2, <2>3, <2>4
<1>6. CASE ById
  <2> DEFINE ids == [k \in {encode_key(c, flt.value.str)} |-> flt.value.str]
  <2>1. candidates(c, flt) = fetch(c, ids)
    BY <1>6 DEF candidates
  <2>2. flt.value.str \in ByteStrings
    <3>1. PICK doc \in Documents : \E f \in DOMAIN doc : flt.field = f /\ flt.value = doc[f]
      BY <1>6, FilterShape
    <3>2. PICK f \in DOMAIN doc : flt.value = doc[f]
      BY <3>1
    <3>3. doc[f].is = "string"
      BY <1>6, <3>2
    <3> QED BY <3>2, <3>3, ValueText
  <2>3. c \in ByteStrings /\ encode_key(c, flt.value.str) \in ByteStrings
    BY <1>1, <2>2, SchemaShape, KeyBytes
  <2>4. DOMAIN ids = {encode_key(c, flt.value.str)} /\ IsFiniteSet(DOMAIN ids)
    BY FS_Singleton
  <2>5. \A k \in DOMAIN ids : ids[k] = flt.value.str
    OBVIOUS
  <2> HIDE DEF ids
  <2>6. /\ IsFiniteSet(DOMAIN fetch(c, ids)) /\ DOMAIN fetch(c, ids) \subseteq ByteStrings
        /\ \A k \in DOMAIN fetch(c, ids) : fetch(c, ids)[k] \in held[c]
        /\ \A d \in held[c] : \A k \in DOMAIN ids : ids[k] = IdOf(ir, c, d) =>
               k \in DOMAIN fetch(c, ids) /\ fetch(c, ids)[k] = d
    BY <1>5, <2>2, <2>3, <2>4, <2>5
  <2>7. ASSUME NEW d \in held[c], matches(d, flt)
        PROVE  \E k \in DOMAIN fetch(c, ids) : fetch(c, ids)[k] = d
    <3>1. d[ir[c].idField] = flt.value
      BY <1>6, <2>7 DEF matches
    <3>2. flt.value.str = IdOf(ir, c, d)
      BY <3>1 DEF IdOf
    <3> QED BY <2>4, <2>5, <2>6, <3>2
  <2> QED BY <2>1, <2>6, <2>7
<1>7. CASE ~ById /\ ByIndex
  <2> DEFINE lo == IndexLower(c, flt.field, encode_index_value(flt.value))
             hi == IndexUpper(c, flt.field, encode_index_value(flt.value))
             ids == lookup_eq(c, flt.field, flt.value)
  <2>1. candidates(c, flt) = fetch(c, ids)
    BY <1>7 DEF candidates
  <2>2. /\ DOMAIN ids \in SUBSET DOMAIN index
        /\ \A k \in DOMAIN index : k \in DOMAIN ids <=> InRange(k, lo, hi)
        /\ \A k \in DOMAIN ids : ids[k] = index[k]
    BY DEF lookup_eq, RangeOf
  <2>3. PICK n \in DOMAIN ir[c].indexes : ir[c].indexes[n].field = flt.field
    BY <1>7
  <2> HIDE DEF ids, ById, ByIndex, lo, hi
  <2>4. IsFiniteSet(DOMAIN ids) /\ DOMAIN ids \subseteq ByteStrings /\ \A k \in DOMAIN ids : ids[k] \in ByteStrings
    BY <1>1, <1>4, <2>2, FS_Subset DEF IndexOK
  <2>5. /\ IsFiniteSet(DOMAIN fetch(c, ids)) /\ DOMAIN fetch(c, ids) \subseteq ByteStrings
        /\ \A k \in DOMAIN fetch(c, ids) : fetch(c, ids)[k] \in held[c]
        /\ \A d \in held[c] : \A k \in DOMAIN ids : ids[k] = IdOf(ir, c, d) =>
               k \in DOMAIN fetch(c, ids) /\ fetch(c, ids)[k] = d
    BY <1>5, <2>4
  <2>6. ASSUME NEW d \in held[c], matches(d, flt)
        PROVE  \E k \in DOMAIN fetch(c, ids) : fetch(c, ids)[k] = d
    <3>1. d[flt.field] = flt.value
      BY <1>7, <2>6 DEF matches, ById, ByIndex
    <3>2. Storable(ir, c, d)
      BY <1>2
    <3> DEFINE k == KeyOf(ir, c, d, n)
    <3>3. k \in Keys(ir, c, d) /\ k \in DOMAIN index
      BY <1>1 DEF Keys, IndexOK
    <3>4. InRange(k, lo, hi)
      <4>1. /\ c \in ByteStrings /\ IdOf(ir, c, d) \in ByteStrings /\ flt.field \in ByteStrings
            /\ encode_index_value(d[flt.field]) \in ByteStrings
        BY <1>1, <2>3, <3>2, StorableShape
      <4>2. k = index_key(c, flt.field, encode_index_value(flt.value), IdOf(ir, c, d))
        BY <2>3, <3>1 DEF KeyOf
      <4> QED BY <3>1, <4>1, <4>2, RangeHasEntry DEF lo, hi
    <3>5. index[k] = IdOf(ir, c, d)
      <4>1. PICK e \in DOMAIN ir : \E b \in Documents :
                Storable(ir, e, b) /\ k \in Keys(ir, e, b) /\ index[k] = IdOf(ir, e, b)
        BY <1>1, <3>3 DEF IndexOK
      <4>2. PICK b \in Documents : Storable(ir, e, b) /\ k \in Keys(ir, e, b) /\ index[k] = IdOf(ir, e, b)
        BY <4>1
      <4> HIDE DEF k
      <4> QED BY <1>1, <3>2, <3>3, <4>2, EntriesTellApart
    <3> HIDE DEF k
    <3> QED BY <2>2, <2>5, <3>3, <3>4, <3>5
  <2> QED BY <2>1, <2>5, <2>6
<1>8. CASE ~ById /\ ~ByIndex
  <2>1. candidates(c, flt) = list_collection(c)
    BY <1>8 DEF candidates
  <2> QED BY <2>1, ScanReadsRows
<1> QED BY <1>6, <1>7, <1>8

\* A query finds exactly the documents of the collection that match.
LEMMA MatchedSet ==
    ASSUME IInv, NEW c \in DOMAIN ir, NEW flt \in Filters(c)
    PROVE  {matched(c, flt)[n] : n \in DOMAIN matched(c, flt)} = {d \in held[c] : matches(d, flt)}
<1> DEFINE docs == candidates(c, flt)
           t == [k \in {l \in DOMAIN docs : matches(docs[l], flt)} |-> docs[k]]
<1>1. matched(c, flt) = InKeyOrder(t)
  BY DEF matched
<1>2. /\ IsFiniteSet(DOMAIN docs) /\ DOMAIN docs \subseteq ByteStrings
      /\ \A k \in DOMAIN docs : docs[k] \in held[c]
      /\ \A d \in held[c] : matches(d, flt) => \E k \in DOMAIN docs : docs[k] = d
  BY CandidatesAreHeld
<1> HIDE DEF docs
<1>3. /\ DOMAIN t \in SUBSET DOMAIN docs
      /\ \A k \in DOMAIN docs : k \in DOMAIN t <=> matches(docs[k], flt)
      /\ \A k \in DOMAIN t : t[k] = docs[k]
  OBVIOUS
<1> HIDE DEF t
<1>4. IsFiniteSet(DOMAIN t) /\ DOMAIN t \subseteq ByteStrings
  BY <1>2, <1>3, FS_Subset
<1>5. {InKeyOrder(t)[n] : n \in DOMAIN InKeyOrder(t)} = {t[k] : k \in DOMAIN t}
  BY <1>4, TableInOrder
<1>6. {t[k] : k \in DOMAIN t} = {d \in held[c] : matches(d, flt)}
  BY <1>2, <1>3
<1> QED BY <1>1, <1>5, <1>6
-----------------------------------------------------------------------------
(* The invariant is inductive.                                             *)

\* A fresh database has no rows and no entries.
LEMMA InitIInv == Init => IInv
<1> SUFFICES ASSUME Init PROVE IInv
  OBVIOUS
<1>1. SchemaOK(ir)
  BY DEF Init, SchemaOK
<1>2. DOMAIN entries = {} /\ DOMAIN index = {} /\ recorded = {}
  BY DEF Init, NoTable
<1>3. DOMAIN held = DOMAIN ir /\ \A c \in DOMAIN ir : held[c] = {}
  BY DEF Init
<1>4. HeldOK(ir, held)
  BY <1>3, FS_EmptySet DEF HeldOK
<1>5. RowsOK(ir, entries, held, recorded)
  BY <1>2, <1>3, FS_EmptySet DEF RowsOK
<1>6. IndexOK(ir, index, held)
  BY <1>2, <1>3, FS_EmptySet DEF IndexOK
<1>7. UniqueOK(ir, held)
  BY <1>3 DEF UniqueOK
<1> QED BY <1>1, <1>4, <1>5, <1>6, <1>7 DEF IInv

LEMMA InsertIInv ==
    ASSUME IInv, NEW c \in DOMAIN ir, NEW doc \in Documents, insert(c, doc)
    PROVE  IInv'
<1> DEFINE id == IdOf(ir, c, doc)
           row == RowOf(ir, c, doc)
           news == Keys(ir, c, doc)
<1>1. SchemaOK(ir) /\ HeldOK(ir, held) /\ RowsOK(ir, entries, held, recorded) /\ IndexOK(ir, index, held)
  BY DEF IInv
<1>2. Storable(ir, c, doc)
  BY DEF insert, Insertable, Storable
<1>3. ir' = ir /\ recorded' = recorded
  BY DEF insert
<1>4. /\ DOMAIN entries' = DOMAIN entries \cup {row}
      /\ entries'[row] = doc
      /\ \A k \in DOMAIN entries : k # row => entries'[k] = entries[k]
  BY DEF insert, Put, RowOf, IdOf
<1>5. /\ DOMAIN index' = DOMAIN index \cup news
      /\ \A k \in news : index'[k] = id
      /\ \A k \in DOMAIN index : k \notin news => index'[k] = index[k]
  <2>1. KeysOfDoc(c, doc) = news
    BY KeysOfDocAre
  <2>2. index' = [k \in DOMAIN index \cup news |-> IF k \in news THEN id ELSE index[k]]
    <3> HIDE DEF news
    <3> QED BY <2>1 DEF insert, IdOf
  <2> HIDE DEF news, id
  <2> QED BY <2>2
<1>6. /\ DOMAIN held' = DOMAIN ir
      /\ held'[c] = {d \in held[c] : IdOf(ir, c, d) # id} \cup {doc}
      /\ \A e \in DOMAIN ir : e # c => held'[e] = held[e]
  BY <1>1 DEF insert, HeldOK, IdOf
<1> HIDE DEF id, row, news
<1>7. HeldOK(ir, held')
  <2>1. ASSUME NEW e \in DOMAIN ir PROVE IsFiniteSet(held'[e])
    <3>1. CASE e = c
      <4>1. IsFiniteSet({d \in held[c] : IdOf(ir, c, d) # id})
        <5>1. IsFiniteSet(held[c])
          BY <1>1 DEF HeldOK
        <5> QED BY <5>1, FS_Subset
      <4> QED BY <1>6, <3>1, <4>1, FS_AddElement
    <3>2. CASE e # c
      BY <1>1, <1>6, <3>2 DEF HeldOK
    <3> QED BY <3>1, <3>2
  <2>2. ASSUME NEW e \in DOMAIN ir, NEW d \in held'[e] PROVE Storable(ir, e, d)
    BY <1>1, <1>2, <1>6, <2>2 DEF HeldOK
  <2>3. ASSUME NEW e \in DOMAIN ir, NEW a \in held'[e], NEW b \in held'[e],
               IdOf(ir, e, a) = IdOf(ir, e, b)
        PROVE  a = b
    <3>1. CASE e = c
      <4>1. \A d \in held'[c] : d = doc \/ (d \in held[c] /\ IdOf(ir, c, d) # id)
        BY <1>6
      <4>2. id = IdOf(ir, c, doc)
        BY DEF id
      <4> QED BY <1>1, <2>3, <3>1, <4>1, <4>2 DEF HeldOK
    <3>2. CASE e # c
      BY <1>1, <1>6, <2>3, <3>2 DEF HeldOK
    <3> QED BY <3>1, <3>2
  <2> QED BY <1>6, <2>1, <2>2, <2>3 DEF HeldOK
<1>8. RowsOK(ir, entries', held', recorded')
  <2>1. IsFiniteSet(DOMAIN entries')
    <3>1. IsFiniteSet(DOMAIN entries)
      BY <1>1 DEF RowsOK
    <3> QED BY <1>4, <3>1, FS_AddElement
  <2>2. ASSUME NEW e \in DOMAIN ir, NEW d \in held'[e]
        PROVE  RowOf(ir, e, d) \in DOMAIN entries' /\ entries'[RowOf(ir, e, d)] = d
    <3>1. CASE e = c /\ d = doc
      BY <1>4, <3>1 DEF row
    <3>2. CASE ~(e = c /\ d = doc)
      <4>1. d \in held[e] /\ (e = c => IdOf(ir, c, d) # id)
        BY <1>6, <3>2
      <4>2. Storable(ir, e, d) /\ RowOf(ir, e, d) \in DOMAIN entries /\ entries[RowOf(ir, e, d)] = d
        BY <1>1, <4>1 DEF HeldOK, RowsOK
      <4>3. RowOf(ir, e, d) # row
        BY <1>1, <1>2, <4>1, <4>2, RowsTellApart DEF row, id
      <4> QED BY <1>4, <4>2, <4>3
    <3> QED BY <3>1, <3>2
  <2>3. ASSUME NEW key \in DOMAIN entries'
        PROVE  key = LedgerKey \/ \E e \in DOMAIN ir : \E d \in held'[e] : key = RowOf(ir, e, d)
    <3>1. CASE key = row
      BY <1>6, <3>1 DEF row
    <3>2. CASE key # row /\ key # LedgerKey
      <4>1. PICK e \in DOMAIN ir : \E d \in held[e] : key = RowOf(ir, e, d)
        BY <1>1, <1>4, <3>2 DEF RowsOK
      <4>2. PICK d \in held[e] : key = RowOf(ir, e, d)
        BY <4>1
      <4>3. e = c => IdOf(ir, c, d) # id
        BY <3>2, <4>2 DEF row, id, RowOf
      <4>4. d \in held'[e]
        BY <1>6, <4>3
      <4> QED BY <4>2, <4>4
    <3> QED BY <3>1, <3>2
  <2>4. recorded' # {} =>
            LedgerKey \in DOMAIN entries' /\ entries'[LedgerKey] = [is |-> "ledger", of |-> recorded']
    <3>1. row # LedgerKey
      BY <1>1, <1>2, RowsTellApart DEF row
    <3> QED BY <1>1, <1>3, <1>4, <3>1 DEF RowsOK
  <2> QED BY <2>1, <2>2, <2>3, <2>4 DEF RowsOK
<1>9. IndexOK(ir, index', held')
  <2>1. IsFiniteSet(DOMAIN index')
    <3>1. IsFiniteSet(DOMAIN index) /\ IsFiniteSet(news)
      BY <1>1, KeysFinite DEF IndexOK, news
    <3> QED BY <1>5, <3>1, FS_Union
  <2>2. ASSUME NEW e \in DOMAIN ir, NEW d \in held'[e] PROVE Keys(ir, e, d) \subseteq DOMAIN index'
    <3>1. CASE e = c /\ d = doc
      BY <1>5, <3>1 DEF news
    <3>2. CASE ~(e = c /\ d = doc)
      BY <1>1, <1>5, <1>6, <2>2, <3>2 DEF IndexOK
    <3> QED BY <3>1, <3>2
  <2>3. ASSUME NEW k \in DOMAIN index'
        PROVE  \E e \in DOMAIN ir : \E d \in Documents :
                   Storable(ir, e, d) /\ k \in Keys(ir, e, d) /\ index'[k] = IdOf(ir, e, d)
    <3>1. CASE k \in news
      BY <1>2, <1>5, <3>1 DEF news, id
    <3>2. CASE k \notin news
      BY <1>1, <1>5, <3>2 DEF IndexOK
    <3> QED BY <3>1, <3>2
  <2> QED BY <2>1, <2>2, <2>3 DEF IndexOK
<1>10. UniqueOK(ir, held')
  <2>1. ASSUME NEW n \in DOMAIN ir[c].indexes, NEW b \in held[c], ir[c].indexes[n].unique,
               doc[ir[c].indexes[n].field] = b[ir[c].indexes[n].field]
        PROVE  FALSE
    <3> DEFINE f == ir[c].indexes[n].field
               v == encode_index_value(doc[f])
               k == KeyOf(ir, c, b, n)
    <3>1. DOMAIN lookup_eq(c, f, doc[f]) = {}
      BY <2>1 DEF insert, Insertable, index_value_exists_writing
    <3>2. Storable(ir, c, b) /\ k \in DOMAIN index
      BY <1>1 DEF HeldOK, IndexOK, Keys
    <3>3. k = index_key(c, f, v, IdOf(ir, c, b))
      BY <2>1 DEF KeyOf
    <3>4. /\ c \in ByteStrings /\ f \in ByteStrings /\ v \in ByteStrings
          /\ IdOf(ir, c, b) \in ByteStrings
      BY <1>1, <1>2, <3>2, StorableShape
    <3> HIDE DEF f, v, k
    <3>5. InRange(k, IndexLower(c, f, v), IndexUpper(c, f, v))
      BY <3>3, <3>4, RangeHasEntry
    <3>6. k \in DOMAIN lookup_eq(c, f, doc[f])
      BY <3>2, <3>5 DEF lookup_eq, RangeOf, v
    <3> QED BY <3>1, <3>6
  <2>2. \A e \in DOMAIN ir : \A d \in held'[e] : d \in held[e] \/ (e = c /\ d = doc)
    BY <1>6
  <2>3. ASSUME NEW e \in DOMAIN ir, NEW n \in DOMAIN ir[e].indexes, NEW a \in held'[e], NEW b \in held'[e],
               ir[e].indexes[n].unique, a[ir[e].indexes[n].field] = b[ir[e].indexes[n].field]
        PROVE  a = b
    <3>1. CASE a \in held[e] /\ b \in held[e]
      BY <2>3, <3>1 DEF IInv, UniqueOK
    <3>2. CASE e = c /\ a = doc /\ b \in held[e]
      BY <2>1, <2>3, <3>2
    <3>3. CASE e = c /\ b = doc /\ a \in held[e]
      BY <2>1, <2>3, <3>3
    <3>4. CASE a = doc /\ b = doc
      BY <3>4
    <3> QED BY <2>2, <3>1, <3>2, <3>3, <3>4
  <2> QED BY <2>3 DEF UniqueOK
<1> QED BY <1>1, <1>3, <1>7, <1>8, <1>9, <1>10 DEF IInv

LEMMA DeleteIInv ==
    ASSUME IInv, NEW c \in DOMAIN ir, NEW flt \in Filters(c), delete(c, flt)
    PROVE  IInv'
<1> DEFINE victims == {d \in held[c] : matches(d, flt)}
           rows == {RowOf(ir, c, d) : d \in victims}
           keys == UNION {Keys(ir, c, d) : d \in victims}
<1>1. SchemaOK(ir) /\ HeldOK(ir, held) /\ RowsOK(ir, entries, held, recorded) /\ IndexOK(ir, index, held)
  BY DEF IInv
<1>2. {matched(c, flt)[n] : n \in DOMAIN matched(c, flt)} = victims
  BY MatchedSet
<1>3. ir' = ir /\ recorded' = recorded
  BY DEF delete
<1>4. entries' = [k \in DOMAIN entries \ rows |-> entries[k]]
  <2> HIDE DEF victims
  <2>1. rows = {encode_key(c, d[ir[c].idField].str) : d \in victims}
    BY DEF RowOf, IdOf
  <2> QED BY <1>2, <2>1 DEF delete
<1>5. index' = [k \in DOMAIN index \ keys |-> index[k]]
  <2> HIDE DEF victims
  <2>1. keys = UNION {KeysOfDoc(c, d) : d \in victims}
    BY KeysOfDocAre
  <2> QED BY <1>2, <2>1 DEF delete
<1>6. /\ DOMAIN held' = DOMAIN ir
      /\ \A e \in DOMAIN ir : /\ held'[e] \in SUBSET held[e]
                              /\ \A d \in held[e] : d \in held'[e] <=> ~(e = c /\ d \in victims)
  BY <1>1 DEF delete, HeldOK
<1>7. /\ \A v \in victims : v \in held[c] /\ RowOf(ir, c, v) \in rows /\ Keys(ir, c, v) \subseteq keys
      /\ \A r \in rows : \E v \in victims : r = RowOf(ir, c, v)
      /\ \A k \in keys : \E v \in victims : k \in Keys(ir, c, v)
  OBVIOUS
<1> HIDE DEF victims, rows, keys
<1>8. HeldOK(ir, held')
  <2>1. ASSUME NEW e \in DOMAIN ir PROVE IsFiniteSet(held'[e])
    <3>1. IsFiniteSet(held[e])
      BY <1>1 DEF HeldOK
    <3> QED BY <1>6, <3>1, FS_Subset
  <2> QED BY <1>1, <1>6, <2>1 DEF HeldOK
<1>9. RowsOK(ir, entries', held', recorded')
  <2>1. IsFiniteSet(DOMAIN entries')
    <3>1. IsFiniteSet(DOMAIN entries)
      BY <1>1 DEF RowsOK
    <3>2. DOMAIN entries' \in SUBSET DOMAIN entries
      BY <1>4
    <3> QED BY <3>1, <3>2, FS_Subset
  <2>2. ASSUME NEW e \in DOMAIN ir, NEW d \in held'[e]
        PROVE  RowOf(ir, e, d) \in DOMAIN entries' /\ entries'[RowOf(ir, e, d)] = d
    <3>1. d \in held[e] /\ ~(e = c /\ d \in victims)
      BY <1>6
    <3>2. Storable(ir, e, d) /\ RowOf(ir, e, d) \in DOMAIN entries /\ entries[RowOf(ir, e, d)] = d
      BY <1>1, <3>1 DEF HeldOK, RowsOK
    <3>3. RowOf(ir, e, d) \notin rows
      <4>1. SUFFICES ASSUME RowOf(ir, e, d) \in rows PROVE FALSE
        OBVIOUS
      <4>2. PICK v \in victims : RowOf(ir, e, d) = RowOf(ir, c, v)
        BY <1>7, <4>1
      <4>3. v \in held[c] /\ Storable(ir, c, v)
        BY <1>1, <1>7 DEF HeldOK
      <4>4. e = c /\ IdOf(ir, e, d) = IdOf(ir, c, v)
        BY <1>1, <3>2, <4>2, <4>3, RowsTellApart
      <4> QED BY <1>1, <3>1, <4>3, <4>4 DEF HeldOK
    <3> QED BY <1>4, <3>2, <3>3
  <2>3. ASSUME NEW key \in DOMAIN entries', key # LedgerKey
        PROVE  \E e \in DOMAIN ir : \E d \in held'[e] : key = RowOf(ir, e, d)
    <3>1. key \in DOMAIN entries /\ key \notin rows
      BY <1>4
    <3>2. PICK e \in DOMAIN ir : \E d \in held[e] : key = RowOf(ir, e, d)
      BY <1>1, <2>3, <3>1 DEF RowsOK
    <3>3. PICK d \in held[e] : key = RowOf(ir, e, d)
      BY <3>2
    <3>4. ~(e = c /\ d \in victims)
      BY <1>7, <3>1, <3>3
    <3> QED BY <1>6, <3>3, <3>4
  <2>4. recorded' # {} =>
            LedgerKey \in DOMAIN entries' /\ entries'[LedgerKey] = [is |-> "ledger", of |-> recorded']
    <3>1. LedgerKey \notin rows
      <4>1. \A v \in victims : Storable(ir, c, v)
        BY <1>1, <1>7 DEF HeldOK
      <4> QED BY <1>1, <1>7, <4>1, RowsTellApart
    <3> QED BY <1>1, <1>3, <1>4, <3>1 DEF RowsOK
  <2> QED BY <2>1, <2>2, <2>3, <2>4 DEF RowsOK
<1>10. IndexOK(ir, index', held')
  <2>1. IsFiniteSet(DOMAIN index')
    <3>1. IsFiniteSet(DOMAIN index)
      BY <1>1 DEF IndexOK
    <3>2. DOMAIN index' \in SUBSET DOMAIN index
      BY <1>5
    <3> QED BY <3>1, <3>2, FS_Subset
  <2>2. ASSUME NEW e \in DOMAIN ir, NEW d \in held'[e], NEW k \in Keys(ir, e, d)
        PROVE  k \in DOMAIN index'
    <3>1. d \in held[e] /\ ~(e = c /\ d \in victims)
      BY <1>6
    <3>2. Storable(ir, e, d) /\ k \in DOMAIN index
      BY <1>1, <3>1 DEF HeldOK, IndexOK
    <3>3. k \notin keys
      <4>1. SUFFICES ASSUME k \in keys PROVE FALSE
        OBVIOUS
      <4>2. PICK v \in victims : k \in Keys(ir, c, v)
        BY <1>7, <4>1
      <4>3. v \in held[c] /\ Storable(ir, c, v)
        BY <1>1, <1>7 DEF HeldOK
      <4>4. e = c /\ IdOf(ir, e, d) = IdOf(ir, c, v)
        BY <1>1, <3>2, <4>2, <4>3, EntriesTellApart
      <4> QED BY <1>1, <3>1, <4>3, <4>4 DEF HeldOK
    <3> QED BY <1>5, <3>2, <3>3
  <2>3. ASSUME NEW k \in DOMAIN index'
        PROVE  \E e \in DOMAIN ir : \E d \in Documents :
                   Storable(ir, e, d) /\ k \in Keys(ir, e, d) /\ index'[k] = IdOf(ir, e, d)
    BY <1>1, <1>5 DEF IndexOK
  <2> QED BY <2>1, <2>2, <2>3 DEF IndexOK
<1>11. UniqueOK(ir, held')
  BY <1>6 DEF IInv, UniqueOK
<1> QED BY <1>1, <1>3, <1>8, <1>9, <1>10, <1>11 DEF IInv

LEMMA RecordIInv ==
    ASSUME IInv, NEW ledger \in Ledgers, record(ledger)
    PROVE  IInv'
<1>1. SchemaOK(ir) /\ HeldOK(ir, held) /\ RowsOK(ir, entries, held, recorded) /\ IndexOK(ir, index, held)
  BY DEF IInv
<1>2. ir' = ir /\ index' = index /\ held' = held /\ recorded' = ledger
  BY DEF record
<1>3. /\ DOMAIN entries' = DOMAIN entries \cup {LedgerKey}
      /\ entries'[LedgerKey] = [is |-> "ledger", of |-> ledger]
      /\ \A k \in DOMAIN entries : k # LedgerKey => entries'[k] = entries[k]
  BY DEF record, Put
<1>4. RowsOK(ir, entries', held', recorded')
  <2>1. IsFiniteSet(DOMAIN entries')
    <3>1. IsFiniteSet(DOMAIN entries)
      BY <1>1 DEF RowsOK
    <3> QED BY <1>3, <3>1, FS_AddElement
  <2>2. ASSUME NEW e \in DOMAIN ir, NEW d \in held[e]
        PROVE  RowOf(ir, e, d) \in DOMAIN entries' /\ entries'[RowOf(ir, e, d)] = d
    <3>1. Storable(ir, e, d) /\ RowOf(ir, e, d) \in DOMAIN entries /\ entries[RowOf(ir, e, d)] = d
      BY <1>1 DEF HeldOK, RowsOK
    <3>2. RowOf(ir, e, d) # LedgerKey
      BY <1>1, <3>1, RowsTellApart
    <3> QED BY <1>3, <3>1, <3>2
  <2>3. \A key \in DOMAIN entries' :
            key = LedgerKey \/ \E e \in DOMAIN ir : \E d \in held[e] : key = RowOf(ir, e, d)
    BY <1>1, <1>3 DEF RowsOK
  <2> QED BY <1>2, <1>3, <2>1, <2>2, <2>3 DEF RowsOK
<1> QED BY <1>1, <1>2, <1>4 DEF IInv, UniqueOK

\* Whatever is inserted, deleted and recorded, the table holds the rows of the
\* documents and their entries, and entries left over lead to an id that a
\* document of the collection had.
THEOREM StoreInvariant == Spec => []IInv
<1>1. Init => IInv
  BY InitIInv
<1>2. IInv /\ [Next]_vars => IInv'
  <2> SUFFICES ASSUME IInv, [Next]_vars PROVE IInv'
    OBVIOUS
  <2>1. CASE \E c \in DOMAIN ir : \E doc \in Documents : insert(c, doc)
    BY <2>1, InsertIInv
  <2>2. CASE \E c \in DOMAIN ir : \E flt \in Filters(c) : delete(c, flt)
    BY <2>2, DeleteIInv
  <2>3. CASE \E ledger \in Ledgers : record(ledger)
    BY <2>3, RecordIInv
  <2>4. CASE UNCHANGED vars
    BY <2>4 DEF vars, IInv
  <2> QED BY <2>1, <2>2, <2>3, <2>4 DEF Next
<1> QED BY <1>1, <1>2, PTL DEF Spec
-----------------------------------------------------------------------------
(* Types and scans.                                                        *)

LEMMA IInvTypes == IInv => TypeOK
<1> SUFFICES ASSUME IInv PROVE TypeOK
  OBVIOUS
<1>1. SchemaOK(ir) /\ HeldOK(ir, held) /\ RowsOK(ir, entries, held, recorded)
  BY DEF IInv
<1>2. \E raw \in Descriptors : ir = compile(raw)
  BY <1>1 DEF SchemaOK
<1>3. DOMAIN held = DOMAIN ir
  BY <1>1 DEF HeldOK
<1>4. ASSUME NEW c \in DOMAIN ir, NEW doc \in held[c]
      PROVE  /\ doc \in Documents
             /\ doc[ir[c].idField].is = "string"
             /\ \A n \in DOMAIN ir[c].indexes :
                    /\ ir[c].indexes[n].field \in DOMAIN doc
                    /\ doc[ir[c].indexes[n].field].is \in {"string", "number", "boolean"}
  <2>1. Storable(ir, c, doc)
    BY <1>1 DEF HeldOK
  <2> QED BY <1>1, <2>1, StorableShape DEF Storable
<1>5. ASSUME NEW key \in DOMAIN entries \ {LedgerKey}
      PROVE  \E c \in DOMAIN ir : \E doc \in held[c] :
                 key = encode_key(c, doc[ir[c].idField].str) /\ entries[key] = doc
  <2>1. PICK c \in DOMAIN ir : \E doc \in held[c] : key = RowOf(ir, c, doc)
    BY <1>1 DEF RowsOK
  <2>2. PICK doc \in held[c] : key = RowOf(ir, c, doc)
    BY <2>1
  <2>3. entries[RowOf(ir, c, doc)] = doc
    BY <1>1 DEF RowsOK
  <2> QED BY <2>2, <2>3 DEF RowOf, IdOf
<1>6. \A key \in DOMAIN index : NulFree(index[key])
  BY KeysAreBytes
<1> QED BY <1>2, <1>3, <1>4, <1>5, <1>6 DEF TypeOK

\* Rows are validated documents under their ids, or the ledger, and an indexed
\* field of a document is there and a scalar: no array or null is ever the
\* value of an index entry.
THEOREM StoreTypes == Spec => []TypeOK
  BY StoreInvariant, IInvTypes, PTL

\* A query without a filter is a scan.
LEMMA MatchedAll ==
    ASSUME NEW c
    PROVE  NoFilter \in Filters(c) /\ matched(c, NoFilter) = InKeyOrder(list_collection(c))
<1> DEFINE docs == list_collection(c)
           t == [k \in {l \in DOMAIN docs : matches(docs[l], NoFilter)} |-> docs[k]]
<1>1. candidates(c, NoFilter) = docs
  BY DEF candidates
<1>2. docs = [k \in DOMAIN docs |-> docs[k]]
  BY DEF list_collection, RangeOf, NoTable
<1>3. {l \in DOMAIN docs : matches(docs[l], NoFilter)} = DOMAIN docs
  BY DEF matches
<1>4. matched(c, NoFilter) = InKeyOrder(t)
  BY <1>1 DEF matched
<1> HIDE DEF docs
<1>5. t = docs
  BY <1>2, <1>3
<1> QED BY <1>4, <1>5 DEF docs, Filters

\* What a scan returns, item by item.
LEMMA ScanInOrder ==
    ASSUME IInv, NEW c \in DOMAIN ir
    PROVE  LET rows == matched(c, NoFilter)
               N == Cardinality(DOMAIN list_collection(c)) IN
           /\ N \in Nat /\ DOMAIN rows = 1..N /\ Len(rows) = N
           /\ {rows[n] : n \in DOMAIN rows} = held[c]
           /\ \A n \in 1..N : rows[n] \in held[c]
           /\ \A m, n \in 1..N : m < n <=> Before(IdOf(ir, c, rows[m]), IdOf(ir, c, rows[n]))
<1> DEFINE t == list_collection(c)
           rows == InKeyOrder(t)
           N == Cardinality(DOMAIN t)
           keys == InOrder(DOMAIN t)
<1>0. matched(c, NoFilter) = rows
  BY MatchedAll
<1>1. /\ IsFiniteSet(DOMAIN t) /\ DOMAIN t \subseteq ByteStrings
      /\ \A k \in DOMAIN t : t[k] \in held[c] /\ k = RowOf(ir, c, t[k])
      /\ \A d \in held[c] : RowOf(ir, c, d) \in DOMAIN t /\ t[RowOf(ir, c, d)] = d
  BY ScanReadsRows
<1> HIDE DEF t
<1>2. /\ N \in Nat /\ DOMAIN rows = 1..N /\ Len(rows) = N
      /\ \A n \in 1..N : keys[n] \in DOMAIN t /\ rows[n] = t[keys[n]]
      /\ {rows[n] : n \in DOMAIN rows} = {t[k] : k \in DOMAIN t}
  <2>1. IsFiniteSet(DOMAIN t) /\ DOMAIN t \subseteq ByteStrings
    BY <1>1
  <2>2. N \in Nat /\ DOMAIN rows = 1..N /\ Len(rows) = N
    BY <2>1, TableInOrder
  <2>3. \A n \in 1..N : keys[n] \in DOMAIN t /\ rows[n] = t[keys[n]]
    BY <2>1, TableInOrder
  <2>4. {rows[n] : n \in DOMAIN rows} = {t[k] : k \in DOMAIN t}
    BY <2>1, TableInOrder
  <2> QED BY <2>2, <2>3, <2>4
<1>3. \A m, n \in 1..N : m < n <=> Before(keys[m], keys[n])
  BY <1>1, InOrderLists
<1> HIDE DEF N, rows, keys
<1>4. {t[k] : k \in DOMAIN t} = held[c]
  BY <1>1
<1>5. ASSUME NEW m \in 1..N, NEW n \in 1..N
      PROVE  m < n <=> Before(IdOf(ir, c, rows[m]), IdOf(ir, c, rows[n]))
  <2>1. /\ rows[m] \in held[c] /\ keys[m] = RowOf(ir, c, rows[m])
        /\ rows[n] \in held[c] /\ keys[n] = RowOf(ir, c, rows[n])
    BY <1>1, <1>2
  <2>2. SchemaOK(ir) /\ Storable(ir, c, rows[m]) /\ Storable(ir, c, rows[n])
    BY <2>1 DEF IInv, HeldOK
  <2>3. PICK i \in ByteStrings : i = IdOf(ir, c, rows[m])
    BY <2>2, StorableShape
  <2>4. PICK j \in ByteStrings : j = IdOf(ir, c, rows[n])
    BY <2>2, StorableShape
  <2>5. c \in ByteStrings /\ keys[m] = encode_key(c, i) /\ keys[n] = encode_key(c, j)
    BY <2>1, <2>2, <2>3, <2>4, StorableShape DEF RowOf
  <2> QED BY <1>3, <2>3, <2>4, <2>5, SameName
<1>6. \A n \in 1..N : rows[n] \in held[c]
  BY <1>1, <1>2
<1> QED BY <1>0, <1>2, <1>4, <1>5, <1>6 DEF t, N

LEMMA IInvScans == IInv => ScanIsExact
<1> SUFFICES ASSUME IInv PROVE ScanIsExact
  OBVIOUS
<1>1. ASSUME NEW c \in DOMAIN ir
      PROVE  LET rows  == InKeyOrder(list_collection(c))
                 id(n) == rows[n][ir[c].idField].str
             IN  /\ {rows[n] : n \in DOMAIN rows} = held[c]
                 /\ \A m, n \in DOMAIN rows : m < n => Before(id(m), id(n))
  <2>1. matched(c, NoFilter) = InKeyOrder(list_collection(c))
    BY MatchedAll
  <2> DEFINE rows == matched(c, NoFilter)
             N == Cardinality(DOMAIN list_collection(c))
  <2>2. /\ DOMAIN rows = 1..N
        /\ {rows[n] : n \in DOMAIN rows} = held[c]
        /\ \A m, n \in 1..N : m < n <=> Before(IdOf(ir, c, rows[m]), IdOf(ir, c, rows[n]))
    BY ScanInOrder
  <2> HIDE DEF N
  <2> QED BY <2>1, <2>2 DEF IdOf
<1>2. recorded # {} => entries[LedgerKey] = [is |-> "ledger", of |-> recorded]
  BY DEF IInv, RowsOK
<1> QED BY <1>1, <1>2 DEF ScanIsExact

\* A scan by bytes returns the documents of its collection, all of them, in the
\* order of their ids, whatever names and ids of bytes share the table; and no
\* write of a collection touches the migration ledger.
THEOREM ScansAreExact == Spec => []ScanIsExact
  BY StoreInvariant, IInvScans, PTL
-----------------------------------------------------------------------------
(* Lookups.                                                                *)

\* The names of indexed fields and the strings in them have no NUL.
LEMMA IndexedPartsNulFree ==
    ASSUME IndexedNulFree, NEW S, SchemaOK(S), NEW c \in DOMAIN S, NEW n \in DOMAIN S[c].indexes
    PROVE  /\ NulFree(S[c].indexes[n].field)
           /\ \A d : Storable(S, c, d) /\ d[S[c].indexes[n].field].is \in {"string", "number"} =>
                  NulFree(encode_index_value(d[S[c].indexes[n].field]))
<1>1. PICK raw \in Descriptors : Compiles(raw) /\ S = compile(raw)
  BY DEF SchemaOK
<1>2. c \in DOMAIN raw /\ S[c].indexes = raw[c].indexes
  <2>1. IsDescriptor(raw) /\ c \in DOMAIN raw /\ S[c] = [raw[c] EXCEPT !.fields = compile_fields(@)]
    BY <1>1, StoreAssumption DEF compile
  <2>2. raw[c] \in RawCollection
    BY <2>1 DEF IsDescriptor
  <2> QED BY <2>1, <2>2 DEF RawCollection
<1> DEFINE f == S[c].indexes[n].field
<1>3. NulFree(f) /\ \A d \in Documents : f \in DOMAIN d /\ d[f].is = "string" => NulFree(d[f].str)
  BY <1>1, <1>2 DEF IndexedNulFree
<1> HIDE DEF f
<1>4. ASSUME NEW d, Storable(S, c, d), d[f].is \in {"string", "number"}
      PROVE  NulFree(encode_index_value(d[f]))
  <2>1. d \in Documents /\ f \in DOMAIN d
    BY <1>4, StorableShape DEF Storable, f
  <2>2. d[f].is # "array"
    BY <1>4
  <2> QED BY <1>3, <1>4, <2>1, <2>2, ValueText
<1> QED BY <1>3, <1>4 DEF f

\* The entries a lookup of a document's value reads are entries of that value.
LEMMA EntryInRange ==
    ASSUME IInv, IndexedNulFree, NEW c \in DOMAIN ir, NEW d \in held[c],
           NEW n \in DOMAIN ir[c].indexes, NEW f, f = ir[c].indexes[n].field,
           NEW v, v = encode_index_value(d[f]),
           NEW k \in DOMAIN index, InRange(k, IndexLower(c, f, v), IndexUpper(c, f, v))
    PROVE  k = index_key(c, f, v, index[k])
<1>1. SchemaOK(ir) /\ HeldOK(ir, held) /\ IndexOK(ir, index, held)
  BY DEF IInv
<1>2. Storable(ir, c, d)
  BY <1>1 DEF HeldOK
<1>3. PICK e \in DOMAIN ir : \E b \in Documents :
          Storable(ir, e, b) /\ k \in Keys(ir, e, b) /\ index[k] = IdOf(ir, e, b)
  BY <1>1 DEF IndexOK
<1>4. PICK b \in Documents : Storable(ir, e, b) /\ k \in Keys(ir, e, b) /\ index[k] = IdOf(ir, e, b)
  BY <1>3
<1>5. PICK m \in DOMAIN ir[e].indexes : k = KeyOf(ir, e, b, m)
  BY <1>4 DEF Keys
<1>6. /\ c \in ByteStrings /\ NulFree(c) /\ f \in ByteStrings /\ NulFree(f) /\ v \in ByteStrings
      /\ f \in DOMAIN d /\ d[f].is \in {"string", "number", "boolean"}
  BY <1>1, <1>2, StorableShape, IndexedPartsNulFree
<1> DEFINE g == ir[e].indexes[m].field
           w == encode_index_value(b[g])
           i == IdOf(ir, e, b)
<1>7. /\ e \in ByteStrings /\ NulFree(e) /\ g \in ByteStrings /\ NulFree(g) /\ w \in ByteStrings
      /\ i \in ByteStrings /\ g \in DOMAIN b
  BY <1>1, <1>4, StorableShape, IndexedPartsNulFree
<1>8. k = index_key(e, g, w, i)
  BY <1>5 DEF KeyOf
<1>9. b[g].is \in {"string", "number"} => NulFree(w)
  BY <1>1, <1>4, IndexedPartsNulFree
<1>10. d[f].is \in {"string", "number"} => NulFree(v)
  BY <1>1, <1>2, IndexedPartsNulFree
<1>11. b[g].is = "boolean" => w \in {<<0>>, <<1>>}
  BY <1>4, <1>7, ValueText
<1>12. d[f].is = "boolean" => v \in {<<0>>, <<1>>}
  BY <1>2, <1>6, ValueText DEF Storable
<1>13. c = e /\ f = g => b[f].is = d[f].is
  <2>1. SUFFICES ASSUME c = e, f = g PROVE b[f].is = d[f].is
    OBVIOUS
  <2>2. PICK base \in ScalarTypes : \E fi : \A x : validate_document(ir[c], x) =>
            f \in DOMAIN x /\ CheckScalar(base, fi, x[f])
    BY <1>1, IndexedValue
  <2>3. validate_document(ir[c], b) /\ validate_document(ir[c], d)
    BY <1>2, <1>4, <2>1 DEF Storable
  <2> QED BY <2>2, <2>3, ScalarIs
<1>14. i = index[k]
  BY <1>4
<1> HIDE DEF g, w, i
<1>15. c = e /\ f = g
  <2>1. InRange(index_key(e, g, w, i), IndexLower(c, f, v), IndexUpper(c, f, v))
    BY <1>8
  <2> QED BY <1>6, <1>7, <2>1, LookupRange
<1>16. v = w
  <2>1. InRange(index_key(e, g, w, i), IndexLower(c, f, v), IndexUpper(c, f, v))
    BY <1>8
  <2>2. CASE d[f].is \in {"string", "number"}
    <3>1. NulFree(v) /\ NulFree(w)
      BY <1>9, <1>10, <1>13, <1>15, <2>2
    <3> QED BY <1>6, <1>7, <2>1, <3>1, LookupReadsOneValue
  <2>3. CASE d[f].is = "boolean"
    <3>1. v \in Flags /\ w \in Flags
      BY <1>11, <1>12, <1>13, <1>15, <2>3 DEF Flags
    <3> QED BY <1>6, <1>7, <2>1, <3>1, LookupReadsOneFlag
  <2> QED BY <1>6, <2>2, <2>3
<1> QED BY <1>8, <1>14, <1>15, <1>16

\* A document that matches is a candidate once.
LEMMA CandidatesOnce ==
    ASSUME IInv, IndexedNulFree, NEW c \in DOMAIN ir, NEW flt \in Filters(c),
           NEW k \in DOMAIN candidates(c, flt), NEW l \in DOMAIN candidates(c, flt),
           candidates(c, flt)[k] = candidates(c, flt)[l], matches(candidates(c, flt)[k], flt)
    PROVE  k = l
<1> DEFINE ById == flt # NoFilter /\ flt.field = ir[c].idField /\ flt.value.is = "string"
           ByIndex == flt # NoFilter /\ \E n \in DOMAIN ir[c].indexes : ir[c].indexes[n].field = flt.field
           d == candidates(c, flt)[k]
<1>1. CASE ById
  <2> DEFINE ids == [x \in {encode_key(c, flt.value.str)} |-> flt.value.str]
  <2>1. candidates(c, flt) = fetch(c, ids)
    BY <1>1 DEF candidates
  <2>2. DOMAIN fetch(c, ids) \subseteq {encode_key(c, flt.value.str)}
    BY DEF fetch
  <2> QED BY <2>1, <2>2
<1>2. CASE ~ById /\ ByIndex
  <2> DEFINE f == flt.field
             v == encode_index_value(flt.value)
             ids == lookup_eq(c, f, flt.value)
  <2>1. candidates(c, flt) = fetch(c, ids)
    BY <1>2 DEF candidates
  <2>2. \A x \in DOMAIN ids : x \in DOMAIN index /\ ids[x] = index[x]
                              /\ InRange(x, IndexLower(c, f, v), IndexUpper(c, f, v))
    BY DEF lookup_eq, RangeOf
  <2>3. PICK n \in DOMAIN ir[c].indexes : ir[c].indexes[n].field = f
    BY <1>2
  <2>4. d \in held[c]
    BY CandidatesAreHeld
  <2> HIDE DEF ids, f, v
  <2>5. ASSUME NEW x \in DOMAIN fetch(c, ids), fetch(c, ids)[x] = d
        PROVE  x = index_key(c, f, v, IdOf(ir, c, d))
    <3>1. /\ x \in DOMAIN ids /\ ValidCollection(c)
          /\ encode_key(c, ids[x]) \in DOMAIN entries /\ entries[encode_key(c, ids[x])] = d
      BY <2>5 DEF fetch
    <3>2. x \in DOMAIN index /\ ids[x] = index[x] /\ index[x] \in ByteStrings
          /\ InRange(x, IndexLower(c, f, v), IndexUpper(c, f, v))
      BY <2>2, <3>1, KeysAreBytes
    <3>3. index[x] = IdOf(ir, c, d)
      BY <3>1, <3>2, RowIsHeld
    <3>4. v = encode_index_value(d[f])
      BY <1>2 DEF matches, f, v
    <3>5. x = index_key(c, f, v, index[x])
      BY <2>3, <2>4, <3>2, <3>4, EntryInRange
    <3> QED BY <3>3, <3>5
  <2> HIDE DEF ById, ByIndex
  <2> QED BY <2>1, <2>5
<1>3. CASE ~ById /\ ~ByIndex
  <2>1. candidates(c, flt) = list_collection(c)
    BY <1>3 DEF candidates
  <2>2. \A x \in DOMAIN list_collection(c) : x = RowOf(ir, c, list_collection(c)[x])
    BY ScanReadsRows
  <2> HIDE DEF ById, ByIndex
  <2> QED BY <2>1, <2>2
<1> QED BY <1>1, <1>2, <1>3

\* The right documents, each once.
LEMMA MatchedOnce ==
    ASSUME IInv, IndexedNulFree, NEW c \in DOMAIN ir, NEW flt \in Filters(c)
    PROVE  Len(matched(c, flt)) = Cardinality({d \in held[c] : matches(d, flt)})
<1> DEFINE docs == candidates(c, flt)
           t == [k \in {l \in DOMAIN docs : matches(docs[l], flt)} |-> docs[k]]
           M == {d \in held[c] : matches(d, flt)}
<1>1. matched(c, flt) = InKeyOrder(t)
  BY DEF matched
<1>2. /\ IsFiniteSet(DOMAIN docs) /\ DOMAIN docs \subseteq ByteStrings
      /\ \A k \in DOMAIN docs : docs[k] \in held[c]
      /\ \A d \in held[c] : matches(d, flt) => \E k \in DOMAIN docs : docs[k] = d
  BY CandidatesAreHeld
<1>3. \A k, l \in DOMAIN docs : docs[k] = docs[l] /\ matches(docs[k], flt) => k = l
  BY CandidatesOnce
<1> HIDE DEF docs
<1>4. /\ DOMAIN t \in SUBSET DOMAIN docs
      /\ \A k \in DOMAIN docs : k \in DOMAIN t <=> matches(docs[k], flt)
      /\ \A k \in DOMAIN t : t[k] = docs[k]
      /\ t \in [DOMAIN t -> M]
  BY <1>2
<1>5. \A d \in M : \E k \in DOMAIN t : t[k] = d
  BY <1>2, <1>4
<1>6. \A k, l \in DOMAIN t : t[k] = t[l] => k = l
  BY <1>3, <1>4
<1> HIDE DEF t, M
<1>7. IsFiniteSet(DOMAIN t) /\ DOMAIN t \subseteq ByteStrings
  BY <1>2, <1>4, FS_Subset
<1>8. Len(InKeyOrder(t)) = Cardinality(DOMAIN t)
  BY <1>7, TableInOrder
<1>9. Cardinality(DOMAIN t) = Cardinality(M)
  <2>1. t \in Bijection(DOMAIN t, M)
    BY <1>4, <1>5, <1>6, Fun_IsBij
  <2>2. ExistsBijection(DOMAIN t, M)
    BY <2>1 DEF ExistsBijection
  <2> QED BY <1>7, <2>2, FS_Bijection
<1> QED BY <1>1, <1>8, <1>9 DEF M

\* The set a query finds, without any assumption on the bytes of the values.
FindsTheMatching ==
    \A c \in DOMAIN ir : \A flt \in Filters(c) :
        {matched(c, flt)[n] : n \in DOMAIN matched(c, flt)} = {d \in held[c] : matches(d, flt)}

\* Whatever the way the candidates are found and whatever bytes the values of
\* indexed fields have, an equality finds the documents that have the value, all
\* of them and no other: left-over entries and colliding keys of the index add
\* nothing and hide nothing.
THEOREM LookupsFindTheMatching == Spec => []FindsTheMatching
<1>1. IInv => FindsTheMatching
  BY MatchedSet DEF FindsTheMatching
<1> QED BY <1>1, StoreInvariant, PTL

\* When neither the name of an indexed field nor a string in it has a NUL, an
\* equality also finds each of them once, and by the value of a unique index no
\* more than one.
THEOREM LookupsFindEachOnce ==
    ASSUME IndexedNulFree
    PROVE  Spec => []LookupsAreExact
<1>1. IInv => LookupsAreExact
  <2> SUFFICES ASSUME IInv, NEW c \in DOMAIN ir, NEW flt \in Filters(c)
               PROVE  LET found == matched(c, flt) IN
                      /\ {found[n] : n \in DOMAIN found} = {d \in held[c] : matches(d, flt)}
                      /\ Len(found) = Cardinality({d \in held[c] : matches(d, flt)})
                      /\ flt # NoFilter => \A n \in DOMAIN ir[c].indexes :
                             ir[c].indexes[n].field = flt.field /\ ir[c].indexes[n].unique
                                 => Len(found) <= 1
    BY DEF LookupsAreExact
  <2> DEFINE M == {d \in held[c] : matches(d, flt)}
  <2>1. Len(matched(c, flt)) = Cardinality(M)
    BY MatchedOnce
  <2>2. ASSUME flt # NoFilter, NEW n \in DOMAIN ir[c].indexes,
               ir[c].indexes[n].field = flt.field, ir[c].indexes[n].unique
        PROVE  Len(matched(c, flt)) <= 1
    <3>1. \A a, b \in M : a = b
      BY <2>2 DEF IInv, UniqueOK, matches
    <3>2. M = {} \/ \E d : M = {d}
      BY <3>1
    <3>3. Cardinality(M) = 0 \/ Cardinality(M) = 1
      BY <3>2, FS_EmptySet, FS_Singleton
    <3> QED BY <2>1, <3>3
  <2> QED BY <2>1, <2>2, MatchedSet
<1> QED BY <1>1, StoreInvariant, PTL
-----------------------------------------------------------------------------
(* The order of a sort.                                                    *)

\* A value a sort compares.
Present(x) == x.is # "null" /\ \E d \in Documents : \E f \in DOMAIN d : x = d[f]

LEMMA PresentIs ==
    ASSUME NEW x, Present(x)
    PROVE  /\ x.is \in {"string", "number", "boolean", "array"}
           /\ x.is = "string" => x.str \in ByteStrings
           /\ x.is = "boolean" => x.bool \in BOOLEAN
           /\ x.is = "number" => /\ x.kind \in {"int", "float"} /\ x.num \in Int /\ x.half \in BOOLEAN
                                 /\ x.kind = "int" => x.half = FALSE
<1>1. PICK d \in Documents : \E f \in DOMAIN d : x = d[f]
  BY DEF Present
<1>2. PICK f \in DOMAIN d : x = d[f]
  BY <1>1
<1>3. x \in Values \/ x.is = "array"
  BY <1>2, StoreAssumption DEF IsDocument
<1>4. CASE x \in [is : {"string"}, str : ByteStrings]
  BY <1>4
<1>5. CASE x \in [is : {"boolean"}, bool : BOOLEAN]
  BY <1>5
<1>6. CASE x \in [is : {"number"}, kind : {"int"}, num : Int, half : {FALSE}]
  BY <1>6
<1>7. CASE x \in [is : {"number"}, kind : {"float"}, num : Int, half : BOOLEAN]
  BY <1>7
<1>8. x \notin [is : {"null"}]
  BY DEF Present
<1>9. CASE x.is = "array"
  BY <1>9
<1> QED BY <1>3, <1>4, <1>5, <1>6, <1>7, <1>8, <1>9 DEF Values

\* The comparison of integers and that of strings are orders.
LEMMA IntsOrder ==
    ASSUME NEW a \in Int, NEW b \in Int, NEW d \in Int
    PROVE  /\ CmpInts(a, b) \in {-1, 0, 1} /\ CmpInts(a, b) = -CmpInts(b, a)
           /\ CmpInts(a, b) = 0 <=> a = b
           /\ CmpInts(a, b) <= 0 /\ CmpInts(b, d) <= 0 =>
                  /\ CmpInts(a, d) <= 0
                  /\ CmpInts(a, b) = -1 \/ CmpInts(b, d) = -1 => CmpInts(a, d) = -1
  BY DEF CmpInts

LEMMA BytesOrder ==
    ASSUME NEW a \in ByteStrings, NEW b \in ByteStrings, NEW d \in ByteStrings
    PROVE  /\ CmpBytes(a, b) \in {-1, 0, 1} /\ CmpBytes(a, b) = -CmpBytes(b, a)
           /\ CmpBytes(a, b) = 0 <=> a = b
           /\ CmpBytes(a, b) <= 0 /\ CmpBytes(b, d) <= 0 =>
                  /\ CmpBytes(a, d) <= 0
                  /\ CmpBytes(a, b) = -1 \/ CmpBytes(b, d) = -1 => CmpBytes(a, d) = -1
<1>1. ~(Before(a, b) /\ Before(b, a))
  BY BeforeIrreflexive, BeforeTransitive
<1>2. ~Before(a, b) /\ ~Before(b, a) <=> a = b
  BY BeforeIrreflexive, BeforeTotal
<1>3. Before(a, b) /\ Before(b, d) => Before(a, d)
  BY BeforeTransitive
<1>4. ~(Before(a, d) /\ Before(d, a))
  BY BeforeIrreflexive, BeforeTransitive
<1>5. ~Before(b, d) /\ ~Before(d, b) <=> b = d
  BY BeforeIrreflexive, BeforeTotal
<1>6. ~(Before(b, d) /\ Before(d, b))
  BY BeforeIrreflexive, BeforeTransitive
<1>7. /\ CmpBytes(a, b) = IF Before(a, b) THEN -1 ELSE IF Before(b, a) THEN 1 ELSE 0
      /\ CmpBytes(b, a) = IF Before(b, a) THEN -1 ELSE IF Before(a, b) THEN 1 ELSE 0
      /\ CmpBytes(b, d) = IF Before(b, d) THEN -1 ELSE IF Before(d, b) THEN 1 ELSE 0
      /\ CmpBytes(a, d) = IF Before(a, d) THEN -1 ELSE IF Before(d, a) THEN 1 ELSE 0
  BY DEF CmpBytes
<1>8. CmpBytes(a, b) \in {-1, 0, 1} /\ CmpBytes(a, b) = -CmpBytes(b, a)
  BY <1>1, <1>7
<1>9. CmpBytes(a, b) = 0 <=> a = b
  BY <1>2, <1>7
<1>10. ASSUME CmpBytes(a, b) <= 0, CmpBytes(b, d) <= 0
       PROVE  /\ CmpBytes(a, d) <= 0
              /\ CmpBytes(a, b) = -1 \/ CmpBytes(b, d) = -1 => CmpBytes(a, d) = -1
  <2>1. Before(a, b) \/ a = b
    BY <1>2, <1>7, <1>10
  <2>2. Before(b, d) \/ b = d
    BY <1>5, <1>7, <1>10
  <2>3. CASE Before(a, b) /\ Before(b, d)
    BY <1>3, <1>7, <2>3
  <2>4. CASE a = b
    <3>1. CmpBytes(a, b) = 0 /\ CmpBytes(a, d) = CmpBytes(b, d)
      BY <1>9, <2>4
    <3> QED BY <1>10, <3>1
  <2>5. CASE b = d
    <3>1. CmpBytes(b, d) = 0
      BY <1>5, <1>7, <2>5
    <3>2. CmpBytes(a, d) = CmpBytes(a, b)
      BY <2>5
    <3> QED BY <1>10, <3>1, <3>2
  <2> QED BY <2>1, <2>2, <2>3, <2>4, <2>5
<1> QED BY <1>8, <1>9, <1>10

\* Numbers are compared by what they are.
LEMMA NumbersCompared ==
    ASSUME MixedExact, NEW x, NEW y, Present(x), Present(y), x.is = "number", y.is = "number"
    PROVE  Halves(x) \in Int /\ cmp_numbers(x, y) = CmpInts(Halves(x), Halves(y))
<1>1. /\ x.kind \in {"int", "float"} /\ x.num \in Int /\ x.half \in BOOLEAN
      /\ x.kind = "int" => x.half = FALSE
  BY PresentIs
<1>2. /\ y.kind \in {"int", "float"} /\ y.num \in Int /\ y.half \in BOOLEAN
      /\ y.kind = "int" => y.half = FALSE
  BY PresentIs
<1>3. Halves(x) \in Int /\ (x.kind = "int" => Halves(x) = 2 * x.num)
  BY <1>1 DEF Halves
<1>4. Halves(y) \in Int /\ (y.kind = "int" => Halves(y) = 2 * y.num)
  BY <1>2 DEF Halves
<1>5. CASE x.kind = "int" /\ y.kind = "int"
  <2>1. cmp_numbers(x, y) = CmpInts(x.num, y.num)
    BY <1>5 DEF cmp_numbers
  <2>2. CmpInts(x.num, y.num) = CmpInts(2 * x.num, 2 * y.num)
    BY <1>1, <1>2 DEF CmpInts
  <2> QED BY <1>3, <1>4, <1>5, <2>1, <2>2
<1>6. CASE x.kind = "float" /\ y.kind = "float"
  BY <1>3, <1>6 DEF cmp_numbers, as_f64
<1>7. CASE x.kind # y.kind
  BY <1>3, <1>7 DEF MixedExact, Present
<1> QED BY <1>1, <1>2, <1>5, <1>6, <1>7

\* Values of any types have an order.
LEMMA ValuesOrder ==
    ASSUME MixedExact, NEW x, NEW y, NEW z, Present(x), Present(y), Present(z)
    PROVE  /\ CmpPresent(x, y) \in {-1, 0, 1} /\ CmpPresent(x, y) = -CmpPresent(y, x)
           /\ CmpPresent(x, y) <= 0 /\ CmpPresent(y, z) <= 0 =>
                  /\ CmpPresent(x, z) <= 0
                  /\ CmpPresent(x, y) = -1 \/ CmpPresent(y, z) = -1 => CmpPresent(x, z) = -1
<1>1. ASSUME NEW u, Present(u)
      PROVE  /\ type_rank(u) \in 0..3
             /\ u.is = "boolean" <=> type_rank(u) = 0
             /\ u.is = "number" <=> type_rank(u) = 1
             /\ u.is = "string" <=> type_rank(u) = 2
  <2>1. u.is \in {"string", "number", "boolean", "array"}
    BY <1>1, PresentIs
  <2> QED BY <2>1 DEF type_rank
<1> DEFINE Of(b) == IF b THEN 1 ELSE 0
<1>2. ASSUME NEW u, NEW v, Present(u), Present(v)
      PROVE  /\ type_rank(u) # type_rank(v) \/ type_rank(u) = 3 =>
                    CmpPresent(u, v) = CmpInts(type_rank(u), type_rank(v))
             /\ u.is = "number" /\ v.is = "number" =>
                    CmpPresent(u, v) = CmpInts(Halves(u), Halves(v))
             /\ u.is = "string" /\ v.is = "string" => CmpPresent(u, v) = CmpBytes(u.str, v.str)
             /\ u.is = "boolean" /\ v.is = "boolean" =>
                    CmpPresent(u, v) = CmpInts(Of(u.bool), Of(v.bool))
  <2>1. type_rank(u) # type_rank(v) \/ type_rank(u) = 3 =>
            CmpPresent(u, v) = CmpInts(type_rank(u), type_rank(v))
    BY <1>1, <1>2 DEF CmpPresent
  <2>2. u.is = "number" /\ v.is = "number" => CmpPresent(u, v) = CmpInts(Halves(u), Halves(v))
    BY <1>2, NumbersCompared DEF CmpPresent
  <2>3. u.is = "string" /\ v.is = "string" => CmpPresent(u, v) = CmpBytes(u.str, v.str)
    BY DEF CmpPresent
  <2>4. ASSUME u.is = "boolean", v.is = "boolean"
        PROVE  CmpPresent(u, v) = CmpInts(Of(u.bool), Of(v.bool))
    <3>1. CmpPresent(u, v) = IF u.bool = v.bool THEN 0 ELSE IF v.bool THEN -1 ELSE 1
      BY <2>4 DEF CmpPresent
    <3>2. u.bool \in BOOLEAN /\ v.bool \in BOOLEAN
      BY <1>2, <2>4, PresentIs
    <3>3. CASE u.bool = TRUE
      BY <3>1, <3>2, <3>3 DEF CmpInts
    <3>4. CASE u.bool = FALSE
      BY <3>1, <3>2, <3>4 DEF CmpInts
    <3> QED BY <3>2, <3>3, <3>4
  <2> QED BY <2>1, <2>2, <2>3, <2>4
<1>3. type_rank(x) \in Int /\ type_rank(y) \in Int /\ type_rank(z) \in Int
  BY <1>1
<1>4. ASSUME NEW u, Present(u) PROVE Of(u.bool) \in Int
  OBVIOUS
<1> HIDE DEF Of
<1>5. CmpPresent(x, y) \in {-1, 0, 1} /\ CmpPresent(x, y) = -CmpPresent(y, x)
  <2>1. CASE type_rank(x) # type_rank(y) \/ type_rank(x) = 3
    <3>1. /\ CmpPresent(x, y) = CmpInts(type_rank(x), type_rank(y))
          /\ CmpPresent(y, x) = CmpInts(type_rank(y), type_rank(x))
      BY <1>2, <2>1
    <3> QED BY <1>3, <3>1, IntsOrder
  <2>2. CASE x.is = "number" /\ y.is = "number"
    <3>1. /\ CmpPresent(x, y) = CmpInts(Halves(x), Halves(y))
          /\ CmpPresent(y, x) = CmpInts(Halves(y), Halves(x))
      BY <1>2, <2>2
    <3>2. Halves(x) \in Int /\ Halves(y) \in Int
      BY <2>2, NumbersCompared
    <3> QED BY <3>1, <3>2, IntsOrder
  <2>3. CASE x.is = "string" /\ y.is = "string"
    <3>1. /\ CmpPresent(x, y) = CmpBytes(x.str, y.str) /\ CmpPresent(y, x) = CmpBytes(y.str, x.str)
      BY <1>2, <2>3
    <3>2. x.str \in ByteStrings /\ y.str \in ByteStrings
      BY <2>3, PresentIs
    <3> QED BY <3>1, <3>2, BytesOrder
  <2>4. CASE x.is = "boolean" /\ y.is = "boolean"
    <3>1. /\ CmpPresent(x, y) = CmpInts(Of(x.bool), Of(y.bool))
          /\ CmpPresent(y, x) = CmpInts(Of(y.bool), Of(x.bool))
      BY <1>2, <2>4
    <3> QED BY <1>4, <3>1, IntsOrder
  <2> QED BY <1>1, <2>1, <2>2, <2>3, <2>4
<1>6. ASSUME CmpPresent(x, y) <= 0, CmpPresent(y, z) <= 0
      PROVE  /\ CmpPresent(x, z) <= 0
             /\ CmpPresent(x, y) = -1 \/ CmpPresent(y, z) = -1 => CmpPresent(x, z) = -1
  <2>1. CASE type_rank(x) # type_rank(y) \/ type_rank(y) # type_rank(z)
    <3>1. type_rank(x) <= type_rank(y) /\ type_rank(y) <= type_rank(z)
      <4>1. type_rank(x) # type_rank(y) => CmpInts(type_rank(x), type_rank(y)) <= 0
        BY <1>2, <1>6
      <4>2. type_rank(y) # type_rank(z) => CmpInts(type_rank(y), type_rank(z)) <= 0
        BY <1>2, <1>6
      <4> QED BY <1>3, <4>1, <4>2 DEF CmpInts
    <3>2. type_rank(x) < type_rank(z)
      BY <1>3, <2>1, <3>1
    <3>3. CmpPresent(x, z) = CmpInts(type_rank(x), type_rank(z))
      BY <1>2, <1>3, <3>2
    <3> QED BY <1>3, <3>2, <3>3 DEF CmpInts
  <2>2. CASE type_rank(x) = 3 /\ type_rank(y) = 3 /\ type_rank(z) = 3
    <3>1. /\ CmpPresent(x, y) = CmpInts(3, 3) /\ CmpPresent(y, z) = CmpInts(3, 3)
          /\ CmpPresent(x, z) = CmpInts(3, 3)
      BY <1>2, <2>2
    <3> QED BY <3>1 DEF CmpInts
  <2>3. CASE x.is = "number" /\ y.is = "number" /\ z.is = "number"
    <3>1. /\ CmpPresent(x, y) = CmpInts(Halves(x), Halves(y))
          /\ CmpPresent(y, z) = CmpInts(Halves(y), Halves(z))
          /\ CmpPresent(x, z) = CmpInts(Halves(x), Halves(z))
      BY <1>2, <2>3
    <3>2. Halves(x) \in Int /\ Halves(y) \in Int /\ Halves(z) \in Int
      BY <2>3, NumbersCompared
    <3> QED BY <1>6, <3>1, <3>2, IntsOrder
  <2>4. CASE x.is = "string" /\ y.is = "string" /\ z.is = "string"
    <3>1. /\ CmpPresent(x, y) = CmpBytes(x.str, y.str) /\ CmpPresent(y, z) = CmpBytes(y.str, z.str)
          /\ CmpPresent(x, z) = CmpBytes(x.str, z.str)
      BY <1>2, <2>4
    <3>2. x.str \in ByteStrings /\ y.str \in ByteStrings /\ z.str \in ByteStrings
      BY <2>4, PresentIs
    <3> QED BY <1>6, <3>1, <3>2, BytesOrder
  <2>5. CASE x.is = "boolean" /\ y.is = "boolean" /\ z.is = "boolean"
    <3>1. /\ CmpPresent(x, y) = CmpInts(Of(x.bool), Of(y.bool))
          /\ CmpPresent(y, z) = CmpInts(Of(y.bool), Of(z.bool))
          /\ CmpPresent(x, z) = CmpInts(Of(x.bool), Of(z.bool))
      BY <1>2, <2>5
    <3> QED BY <1>4, <1>6, <3>1, IntsOrder
  <2> QED BY <1>1, <2>1, <2>2, <2>3, <2>4, <2>5
<1> QED BY <1>5, <1>6

\* One sort key orders the documents, those without the value behind the others.
LEMMA KeyOrder ==
    ASSUME MixedExact, NEW key, NEW a \in Documents, NEW b \in Documents, NEW d \in Documents
    PROVE  /\ CmpKey(key, a, b) \in {-1, 0, 1} /\ CmpKey(key, a, b) = -CmpKey(key, b, a)
           /\ CmpKey(key, a, b) <= 0 /\ CmpKey(key, b, d) <= 0 =>
                  /\ CmpKey(key, a, d) <= 0
                  /\ CmpKey(key, a, b) = -1 \/ CmpKey(key, b, d) = -1 => CmpKey(key, a, d) = -1
<1> DEFINE f == key.field
           Has(x) == ~is_absent(x, f)
           C(x, y) == CmpPresent(x[f], y[f])
<1>1. ASSUME NEW x \in Documents, Has(x) PROVE Present(x[f])
  BY <1>1 DEF is_absent, Present
<1>2. ASSUME NEW x, NEW y
      PROVE  /\ ~Has(x) /\ ~Has(y) => CmpKey(key, x, y) = 0
             /\ ~Has(x) /\ Has(y) => CmpKey(key, x, y) = 1
             /\ Has(x) /\ ~Has(y) => CmpKey(key, x, y) = -1
             /\ Has(x) /\ Has(y) => CmpKey(key, x, y) = IF key.dir = "desc" THEN -C(x, y) ELSE C(x, y)
  <2> HIDE DEF C
  <2>1. ~Has(x) /\ ~Has(y) => CmpKey(key, x, y) = 0
    BY DEF CmpKey
  <2>2. ~Has(x) /\ Has(y) => CmpKey(key, x, y) = 1
    BY DEF CmpKey
  <2>3. Has(x) /\ ~Has(y) => CmpKey(key, x, y) = -1
    BY DEF CmpKey
  <2>4. Has(x) /\ Has(y) => CmpKey(key, x, y) = IF key.dir = "desc" THEN -C(x, y) ELSE C(x, y)
    BY DEF CmpKey, C
  <2> QED BY <2>1, <2>2, <2>3, <2>4
<1>3. ASSUME NEW x \in Documents, NEW y \in Documents, Has(x), Has(y)
      PROVE  C(x, y) \in {-1, 0, 1} /\ C(x, y) = -C(y, x)
  BY <1>1, <1>3, ValuesOrder
<1>4. ASSUME NEW x \in Documents, NEW y \in Documents, NEW z \in Documents, Has(x), Has(y), Has(z),
             C(x, y) <= 0, C(y, z) <= 0
      PROVE  C(x, z) <= 0 /\ (C(x, y) = -1 \/ C(y, z) = -1 => C(x, z) = -1)
  BY <1>1, <1>4, ValuesOrder
<1> HIDE DEF Has, C
<1>5. CmpKey(key, a, b) \in {-1, 0, 1} /\ CmpKey(key, a, b) = -CmpKey(key, b, a)
  <2>1. CASE Has(a) /\ Has(b)
    <3>1. C(a, b) \in {-1, 0, 1} /\ C(b, a) \in {-1, 0, 1} /\ C(a, b) = -C(b, a)
      BY <1>3, <2>1
    <3>2. /\ CmpKey(key, a, b) = IF key.dir = "desc" THEN -C(a, b) ELSE C(a, b)
          /\ CmpKey(key, b, a) = IF key.dir = "desc" THEN -C(b, a) ELSE C(b, a)
      BY <1>2, <2>1
    <3> QED BY <3>1, <3>2
  <2>2. CASE ~(Has(a) /\ Has(b))
    BY <1>2, <2>2
  <2> QED BY <2>1, <2>2
<1>6. ASSUME CmpKey(key, a, b) <= 0, CmpKey(key, b, d) <= 0
      PROVE  /\ CmpKey(key, a, d) <= 0
             /\ CmpKey(key, a, b) = -1 \/ CmpKey(key, b, d) = -1 => CmpKey(key, a, d) = -1
  <2>1. CASE Has(a) /\ Has(b) /\ Has(d) /\ key.dir # "desc"
    <3>1. /\ CmpKey(key, a, b) = C(a, b) /\ CmpKey(key, b, d) = C(b, d)
          /\ CmpKey(key, a, d) = C(a, d)
      BY <1>2, <2>1
    <3> QED BY <1>4, <1>6, <2>1, <3>1
  <2>2. CASE Has(a) /\ Has(b) /\ Has(d) /\ key.dir = "desc"
    <3>1. /\ CmpKey(key, a, b) = C(b, a) /\ CmpKey(key, b, d) = C(d, b)
          /\ CmpKey(key, a, d) = C(d, a)
      <4>1. /\ CmpKey(key, a, b) = -C(a, b) /\ CmpKey(key, b, d) = -C(b, d)
            /\ CmpKey(key, a, d) = -C(a, d)
        BY <1>2, <2>2
      <4>2. /\ C(b, a) = -C(a, b) /\ C(d, b) = -C(b, d) /\ C(d, a) = -C(a, d)
        BY <1>3, <2>2
      <4> QED BY <4>1, <4>2
    <3>2. C(d, b) <= 0 /\ C(b, a) <= 0
      BY <1>6, <3>1
    <3> QED BY <1>4, <2>2, <3>1, <3>2
  <2>3. CASE ~(Has(a) /\ Has(b) /\ Has(d))
    <3>1. Has(b) => Has(a)
      BY <1>2, <1>6
    <3>2. Has(d) => Has(b)
      BY <1>2, <1>6
    <3>3. ~Has(d)
      BY <2>3, <3>1, <3>2
    <3>4. CASE Has(b)
      BY <1>2, <3>1, <3>3, <3>4
    <3>5. CASE ~Has(b)
      BY <1>2, <3>3, <3>5
    <3> QED BY <3>4, <3>5
  <2> QED BY <2>1, <2>2, <2>3
<1> QED BY <1>5, <1>6

\* A document with an id.
HasId(idField, d) == d \in Documents /\ d[idField].str \in ByteStrings

\* The comparisons of a sort one after another, the one of the ids last.
NthCmp(sort, idField, n, a, b) ==
    IF n \in DOMAIN sort THEN CmpKey(sort[n], a, b) ELSE CmpBytes(a[idField].str, b[idField].str)

LEMMA NthOrder ==
    ASSUME MixedExact, NEW sort, NEW idField, NEW n, NEW a, NEW b, NEW d,
           HasId(idField, a), HasId(idField, b), HasId(idField, d)
    PROVE  /\ NthCmp(sort, idField, n, a, b) \in {-1, 0, 1}
           /\ NthCmp(sort, idField, n, a, b) = -NthCmp(sort, idField, n, b, a)
           /\ NthCmp(sort, idField, n, a, b) <= 0 /\ NthCmp(sort, idField, n, b, d) <= 0 =>
                  /\ NthCmp(sort, idField, n, a, d) <= 0
                  /\ NthCmp(sort, idField, n, a, b) = -1 \/ NthCmp(sort, idField, n, b, d) = -1
                         => NthCmp(sort, idField, n, a, d) = -1
<1>1. CASE n \in DOMAIN sort
  BY <1>1, KeyOrder DEF NthCmp, HasId
<1>2. CASE n \notin DOMAIN sort
  BY <1>2, BytesOrder DEF NthCmp, HasId
<1> QED BY <1>1, <1>2

\* The first comparison that tells two documents apart is theirs.
LEMMA FirstTold ==
    ASSUME NEW opts, NEW idField, NEW N \in Nat, DOMAIN opts.sort = 1..N, NEW a, NEW b
    PROVE  \E m \in 1..(N + 1) :
               /\ CmpDocs(opts, idField, a, b) = NthCmp(opts.sort, idField, m, a, b)
               /\ \A k \in 1..(m - 1) : NthCmp(opts.sort, idField, k, a, b) = 0
               /\ m # N + 1 => NthCmp(opts.sort, idField, m, a, b) # 0
<1> DEFINE ords == [n \in DOMAIN opts.sort |-> CmpKey(opts.sort[n], a, b)]
           told == {n \in DOMAIN ords : ords[n] # 0}
           Nth(n) == NthCmp(opts.sort, idField, n, a, b)
<1>1. CmpDocs(opts, idField, a, b) =
          IF told = {} THEN CmpBytes(a[idField].str, b[idField].str) ELSE ords[Min(told)]
  BY DEF CmpDocs
<1>2. \A n \in 1..N : Nth(n) = ords[n]
  BY DEF NthCmp
<1>3. Nth(N + 1) = CmpBytes(a[idField].str, b[idField].str)
  BY DEF NthCmp
<1>4. told \subseteq 1..N /\ \A n \in 1..N : n \in told <=> ords[n] # 0
  OBVIOUS
<1> HIDE DEF ords, told, Nth
<1>5. CASE told = {}
  <2>1. \A k \in 1..N : Nth(k) = 0
    BY <1>2, <1>4, <1>5
  <2>2. CmpDocs(opts, idField, a, b) = Nth(N + 1)
    BY <1>1, <1>3, <1>5
  <2> QED BY <2>1, <2>2 DEF Nth
<1>6. CASE told # {}
  <2>1. told \subseteq Nat
    BY <1>4
  <2>2. \E m \in told : \A n \in told : m <= n
    BY <1>6, <2>1, LeastNat
  <2>3. Min(told) \in told /\ \A n \in told : Min(told) <= n
    BY <2>2 DEF Min
  <2>4. PICK m \in 1..N : m = Min(told)
    BY <1>4, <2>3
  <2>5. CmpDocs(opts, idField, a, b) = Nth(m) /\ Nth(m) # 0
    BY <1>1, <1>2, <1>4, <1>6, <2>3, <2>4
  <2>6. \A k \in 1..(m - 1) : Nth(k) = 0
    <3>1. SUFFICES ASSUME NEW k \in 1..(m - 1) PROVE Nth(k) = 0
      OBVIOUS
    <3>2. k \in 1..N /\ ~(m <= k)
      OBVIOUS
    <3>3. k \notin told
      BY <2>3, <2>4, <3>2
    <3> QED BY <1>2, <1>4, <3>2, <3>3
  <2>7. m \in 1..(N + 1)
    OBVIOUS
  <2> QED BY <2>5, <2>6, <2>7 DEF Nth
<1> QED BY <1>5, <1>6

\* Documents are in a total order under a sort.
LEMMA DocsOrder ==
    ASSUME MixedExact, NEW opts, NEW idField, NEW N \in Nat, DOMAIN opts.sort = 1..N,
           NEW a, NEW b, NEW d, HasId(idField, a), HasId(idField, b), HasId(idField, d)
    PROVE  /\ CmpDocs(opts, idField, a, b) \in {-1, 0, 1}
           /\ CmpDocs(opts, idField, a, b) = -CmpDocs(opts, idField, b, a)
           /\ CmpDocs(opts, idField, a, b) = 0 => a[idField].str = b[idField].str
           /\ CmpDocs(opts, idField, a, a) = 0
           /\ CmpDocs(opts, idField, a, b) = -1 /\ CmpDocs(opts, idField, b, d) = -1 =>
                  CmpDocs(opts, idField, a, d) = -1
<1> DEFINE Nth(n, x, y) == NthCmp(opts.sort, idField, n, x, y)
           Cmp(x, y) == CmpDocs(opts, idField, x, y)
           Is(x) == HasId(idField, x)
<1>1. ASSUME NEW n, NEW x, NEW y, NEW z, Is(x), Is(y), Is(z)
      PROVE  /\ Nth(n, x, y) \in {-1, 0, 1}
             /\ Nth(n, x, y) = -Nth(n, y, x)
             /\ Nth(n, x, y) <= 0 /\ Nth(n, y, z) <= 0 =>
                    /\ Nth(n, x, z) <= 0
                    /\ Nth(n, x, y) = -1 \/ Nth(n, y, z) = -1 => Nth(n, x, z) = -1
  BY <1>1, NthOrder
<1>2. ASSUME NEW x, NEW y
      PROVE  \E m \in 1..(N + 1) : /\ Cmp(x, y) = Nth(m, x, y)
                                   /\ \A k \in 1..(m - 1) : Nth(k, x, y) = 0
                                   /\ m # N + 1 => Nth(m, x, y) # 0
  <2>1. \E m \in 1..(N + 1) :
            /\ CmpDocs(opts, idField, x, y) = NthCmp(opts.sort, idField, m, x, y)
            /\ \A k \in 1..(m - 1) : NthCmp(opts.sort, idField, k, x, y) = 0
            /\ m # N + 1 => NthCmp(opts.sort, idField, m, x, y) # 0
    BY FirstTold
  <2> QED BY <2>1
<1>3. ASSUME NEW x, NEW y, Is(x), Is(y) PROVE Nth(N + 1, x, y) = 0 <=> x[idField].str = y[idField].str
  <2>1. Nth(N + 1, x, y) = CmpBytes(x[idField].str, y[idField].str)
    BY DEF NthCmp
  <2> QED BY <1>3, <2>1, BytesOrder DEF HasId
<1>4. Is(a) /\ Is(b) /\ Is(d)
  OBVIOUS
<1> HIDE DEF Nth, Cmp, Is
<1>5. PICK m \in 1..(N + 1) : /\ Cmp(a, b) = Nth(m, a, b)
                              /\ \A k \in 1..(m - 1) : Nth(k, a, b) = 0
                              /\ m # N + 1 => Nth(m, a, b) # 0
  BY <1>2
<1>6. Cmp(a, b) \in {-1, 0, 1}
  <2>1. Cmp(a, b) = Nth(m, a, b)
    BY <1>5
  <2>2. Nth(m, a, b) \in {-1, 0, 1}
    BY <1>1, <1>4
  <2> QED BY <2>1, <2>2
<1>7. Cmp(a, b) = -Cmp(b, a)
  <2>1. PICK l \in 1..(N + 1) : /\ Cmp(b, a) = Nth(l, b, a)
                                /\ \A k \in 1..(l - 1) : Nth(k, b, a) = 0
                                /\ l # N + 1 => Nth(l, b, a) # 0
    BY <1>2
  <2>2. \A n \in 1..(N + 1) : Nth(n, b, a) \in {-1, 0, 1} /\ Nth(n, a, b) = -Nth(n, b, a)
    BY <1>1, <1>4
  <2>3. ~(l < m) /\ ~(m < l)
    <3>1. ASSUME l < m PROVE FALSE
      <4>1. l \in 1..(m - 1) /\ l # N + 1
        BY <3>1
      <4> QED BY <1>5, <2>1, <2>2, <4>1
    <3>2. ASSUME m < l PROVE FALSE
      <4>1. m \in 1..(l - 1) /\ m # N + 1
        BY <3>2
      <4> QED BY <1>5, <2>1, <2>2, <4>1
    <3> QED BY <3>1, <3>2
  <2>4. l = m
    BY <2>3
  <2> QED BY <1>5, <2>1, <2>2, <2>4
<1>8. ASSUME Cmp(a, b) = 0 PROVE a[idField].str = b[idField].str
  BY <1>3, <1>4, <1>5, <1>8
<1>9. Cmp(a, a) = 0
  <2>1. PICK l \in 1..(N + 1) : Cmp(a, a) = Nth(l, a, a)
    BY <1>2
  <2>2. Nth(l, a, a) \in {-1, 0, 1} /\ Nth(l, a, a) = -Nth(l, a, a)
    BY <1>1, <1>4
  <2> QED BY <2>1, <2>2
<1>10. ASSUME Cmp(a, b) = -1, Cmp(b, d) = -1 PROVE Cmp(a, d) = -1
  <2>1. PICK l \in 1..(N + 1) : /\ Cmp(b, d) = Nth(l, b, d)
                                /\ \A k \in 1..(l - 1) : Nth(k, b, d) = 0
                                /\ l # N + 1 => Nth(l, b, d) # 0
    BY <1>2
  <2>2. PICK j \in 1..(N + 1) : /\ Cmp(a, d) = Nth(j, a, d)
                                /\ \A k \in 1..(j - 1) : Nth(k, a, d) = 0
                                /\ j # N + 1 => Nth(j, a, d) # 0
    BY <1>2
  <2> DEFINE i == IF l < m THEN l ELSE m
  <2>3. i \in 1..(N + 1) /\ i <= m /\ i <= l /\ (i = m \/ i = l)
    OBVIOUS
  <2> HIDE DEF i
  <2>4. Nth(i, a, b) <= 0 /\ Nth(i, b, d) <= 0 /\ (Nth(i, a, b) = -1 \/ Nth(i, b, d) = -1)
    <3>1. i = m \/ i \in 1..(m - 1)
      BY <2>3
    <3>2. i = l \/ i \in 1..(l - 1)
      BY <2>3
    <3>3. Nth(m, a, b) = -1 /\ Nth(l, b, d) = -1
      BY <1>5, <1>10, <2>1
    <3>4. IF i = m THEN Nth(i, a, b) = -1 ELSE Nth(i, a, b) = 0
      BY <1>5, <3>1, <3>3
    <3>5. IF i = l THEN Nth(i, b, d) = -1 ELSE Nth(i, b, d) = 0
      BY <2>1, <3>2, <3>3
    <3> QED BY <2>3, <3>4, <3>5
  <2>5. Nth(i, a, d) = -1
    BY <1>1, <1>4, <2>4
  <2>6. ASSUME NEW k \in 1..(i - 1) PROVE Nth(k, a, d) = 0
    <3>1. k \in 1..(m - 1) /\ k \in 1..(l - 1)
      BY <2>3
    <3>2. Nth(k, a, b) = 0 /\ Nth(k, b, d) = 0
      BY <1>5, <2>1, <3>1
    <3>3. Nth(k, b, a) = 0 /\ Nth(k, d, b) = 0
      <4>1. Nth(k, a, b) = -Nth(k, b, a) /\ Nth(k, b, a) \in {-1, 0, 1}
        BY <1>1, <1>4
      <4>2. Nth(k, b, d) = -Nth(k, d, b) /\ Nth(k, d, b) \in {-1, 0, 1}
        BY <1>1, <1>4
      <4> QED BY <3>2, <4>1, <4>2
    <3>4. Nth(k, a, d) <= 0
      BY <1>1, <1>4, <3>2
    <3>5. Nth(k, d, a) <= 0
      BY <1>1, <1>4, <3>3
    <3>6. Nth(k, a, d) = -Nth(k, d, a) /\ Nth(k, d, a) \in {-1, 0, 1}
      BY <1>1, <1>4
    <3> QED BY <3>4, <3>5, <3>6
  <2>7. ~(j < i)
    <3>1. ASSUME j < i PROVE FALSE
      <4>1. j \in 1..(i - 1) /\ j # N + 1
        BY <2>3, <3>1
      <4> QED BY <2>2, <2>6, <4>1
    <3> QED BY <3>1
  <2>8. ~(i < j)
    <3>1. ASSUME i < j PROVE FALSE
      <4>1. i \in 1..(j - 1)
        BY <2>3, <3>1
      <4> QED BY <2>2, <2>5, <4>1
    <3> QED BY <3>1
  <2>9. i = j
    BY <2>3, <2>7, <2>8
  <2> QED BY <2>2, <2>5, <2>9
<1> QED BY <1>6, <1>7, <1>8, <1>9, <1>10 DEF Cmp

LEMMA HeldHasId ==
    ASSUME IInv, NEW c \in DOMAIN ir, NEW d \in held[c]
    PROVE  HasId(ir[c].idField, d)
<1>1. SchemaOK(ir) /\ Storable(ir, c, d)
  BY DEF IInv, HeldOK
<1> QED BY <1>1, StorableShape DEF Storable, HasId, IdOf

\* Whatever the sort, the order of the documents of a collection is total, and
\* those without a value of the first field are last: when numbers of the two
\* kinds compare as what they are.
THEOREM SortsAreTotal ==
    ASSUME MixedExact
    PROVE  Spec => []OrderIsTotal
<1>1. IInv => OrderIsTotal
  <2> SUFFICES ASSUME IInv, NEW c \in DOMAIN ir, NEW sort \in ValidSorts(c) \ {<<>>},
                      NEW a \in held[c], NEW b \in held[c]
               PROVE  LET Cmp(x, y) == CmpDocs([sort |-> sort], ir[c].idField, x, y) IN
                      /\ Cmp(a, b) = 0 <=> a = b
                      /\ Cmp(a, b) = -Cmp(b, a)
                      /\ is_absent(a, sort[1].field) /\ ~is_absent(b, sort[1].field) => Cmp(a, b) = 1
                      /\ \A d \in held[c] : Cmp(a, b) = -1 /\ Cmp(b, d) = -1 => Cmp(a, d) = -1
    BY DEF OrderIsTotal
  <2> DEFINE opts == [sort |-> sort]
             idField == ir[c].idField
  <2>1. PICK N \in Nat : DOMAIN sort = 1..N /\ N # 0
    <3>1. sort \in Seq([field : ByteStrings, dir : {"asc", "desc"}]) /\ sort # <<>>
      BY StoreAssumption DEF ValidSorts
    <3>2. DOMAIN sort = 1..Len(sort) /\ Len(sort) \in Nat /\ Len(sort) # 0
      BY <3>1
    <3> QED BY <3>2
  <2>2. DOMAIN opts.sort = 1..N /\ opts.sort = sort
    BY <2>1
  <2>3. \A d \in held[c] : HasId(idField, d)
    BY HeldHasId
  <2>4. a[idField].str = b[idField].str => a = b
    BY DEF IInv, HeldOK, IdOf
  <2> HIDE DEF opts, idField
  <2>5. /\ CmpDocs(opts, idField, a, b) = 0 <=> a = b
        /\ CmpDocs(opts, idField, a, b) = -CmpDocs(opts, idField, b, a)
    BY <2>2, <2>3, <2>4, DocsOrder
  <2>6. ASSUME NEW d \in held[c], CmpDocs(opts, idField, a, b) = -1, CmpDocs(opts, idField, b, d) = -1
        PROVE  CmpDocs(opts, idField, a, d) = -1
    BY <2>2, <2>3, <2>6, DocsOrder
  <2>7. ASSUME is_absent(a, sort[1].field), ~is_absent(b, sort[1].field)
        PROVE  CmpDocs(opts, idField, a, b) = 1
    <3>1. PICK m \in 1..(N + 1) :
              /\ CmpDocs(opts, idField, a, b) = NthCmp(sort, idField, m, a, b)
              /\ \A k \in 1..(m - 1) : NthCmp(sort, idField, k, a, b) = 0
      BY <2>2, FirstTold
    <3>2. NthCmp(sort, idField, 1, a, b) = 1
      BY <2>1, <2>7 DEF NthCmp, CmpKey
    <3>3. m = 1
      BY <3>1, <3>2
    <3> QED BY <3>1, <3>2, <3>3
  <2> QED BY <2>5, <2>6, <2>7 DEF opts, idField
<1> QED BY <1>1, StoreInvariant, PTL
-----------------------------------------------------------------------------
(* Pages.                                                                  *)

LEMMA MinOfTwo ==
    ASSUME NEW x \in Nat, NEW y \in Nat
    PROVE  Min({x, y}) = IF x <= y THEN x ELSE y
<1> DEFINE m == IF x <= y THEN x ELSE y
<1>1. m \in {x, y} /\ \A z \in {x, y} : m <= z
  OBVIOUS
<1>2. \A z \in {x, y} : (\A w \in {x, y} : z <= w) => z = m
  OBVIOUS
<1> HIDE DEF m
<1>3. Min({x, y}) = m
  BY <1>1, <1>2 DEF Min
<1> QED BY <1>3 DEF m

\* A list of documents with distinct ids.
Distinct(idField, docs, M) ==
    /\ DOMAIN docs = 1..M
    /\ \A n \in 1..M : HasId(idField, docs[n])
    /\ \A m, n \in 1..M : docs[m][idField].str = docs[n][idField].str => m = n

\* out has the documents of docs, in the order of the sort when there is one.
Reordered(opts, idField, docs, M, out) ==
    /\ DOMAIN out = 1..M
    /\ \A n \in 1..M : \E m \in 1..M : out[n] = docs[m]
    /\ \A m \in 1..M : \E n \in 1..M : out[n] = docs[m]
    /\ opts.sort # <<>> => \A m, n \in 1..M : m < n => CmpDocs(opts, idField, out[m], out[n]) = -1

\* Sorting permutes the documents and puts them in order.
LEMMA SortedInOrder ==
    ASSUME MixedExact, NEW opts, NEW idField, NEW docs, NEW M, M \in Nat, Distinct(idField, docs, M),
           \E K \in Nat : DOMAIN opts.sort = 1..K
    PROVE  Reordered(opts, idField, docs, M, Sorted(opts, idField, docs))
<1> DEFINE Cmp(m, n) == CmpDocs(opts, idField, docs[m], docs[n])
           R == {p \in (1..M) \X (1..M) : Ahead(opts, idField, docs, p[1], p[2])}
           out == Sorted(opts, idField, docs)
<1>0. CASE opts.sort = <<>>
  <2>1. out = docs
    BY <1>0 DEF Sorted
  <2> QED BY <1>0, <2>1 DEF Distinct, Reordered
<1>a. CASE opts.sort # <<>>
  <2>1. \A m, n, l \in 1..M : /\ Cmp(m, n) \in {-1, 0, 1}
                              /\ Cmp(m, n) = -Cmp(n, m)
                              /\ Cmp(m, n) = 0 => m = n
                              /\ Cmp(m, m) = 0
                              /\ Cmp(m, n) = -1 /\ Cmp(n, l) = -1 => Cmp(m, l) = -1
    <3> SUFFICES ASSUME NEW m \in 1..M, NEW n \in 1..M, NEW l \in 1..M
                 PROVE  /\ Cmp(m, n) \in {-1, 0, 1}
                        /\ Cmp(m, n) = -Cmp(n, m)
                        /\ Cmp(m, n) = 0 => m = n
                        /\ Cmp(m, m) = 0
                        /\ Cmp(m, n) = -1 /\ Cmp(n, l) = -1 => Cmp(m, l) = -1
      OBVIOUS
    <3>1. HasId(idField, docs[m]) /\ HasId(idField, docs[n]) /\ HasId(idField, docs[l])
      BY DEF Distinct
    <3>2. /\ Cmp(m, n) \in {-1, 0, 1}
          /\ Cmp(m, n) = -Cmp(n, m)
          /\ Cmp(m, n) = 0 => docs[m][idField].str = docs[n][idField].str
          /\ Cmp(m, m) = 0
          /\ Cmp(m, n) = -1 /\ Cmp(n, l) = -1 => Cmp(m, l) = -1
      <4>1. PICK K \in Nat : DOMAIN opts.sort = 1..K
        OBVIOUS
      <4> QED BY <3>1, <4>1, DocsOrder
    <3> QED BY <3>2 DEF Distinct
  <2>2. \A m, n \in 1..M : <<m, n>> \in R <=> Ahead(opts, idField, docs, m, n)
    OBVIOUS
  <2>3. \A m, n \in 1..M : Ahead(opts, idField, docs, m, n) <=> Cmp(m, n) < 0 \/ (Cmp(m, n) = 0 /\ m < n)
    BY DEF Ahead
  <2> HIDE DEF R, Cmp
  <2>4. \A m, n \in 1..M : <<m, n>> \in R <=> Cmp(m, n) = -1
    <3> SUFFICES ASSUME NEW m \in 1..M, NEW n \in 1..M PROVE <<m, n>> \in R <=> Cmp(m, n) = -1
      OBVIOUS
    <3>1. Cmp(m, n) \in {-1, 0, 1} /\ (Cmp(m, n) = 0 => m = n)
      BY <2>1
    <3> QED BY <2>2, <2>3, <3>1
  <2> DEFINE Rank(m) == RankIn(1..M, R, m)
  <2>5. /\ \A m \in 1..M : Rank(m) \in Nat
        /\ \A m, n \in 1..M : <<m, n>> \in R <=> Rank(m) < Rank(n)
        /\ \A m, n \in 1..M : Rank(m) = Rank(n) => m = n
        /\ \A m \in 1..M : Rank(m) + 1 \in 1..M
        /\ \A n \in 1..M : \E m \in 1..M : Rank(m) = n - 1
    <3>1. IsFiniteSet(1..M) /\ Cardinality(1..M) = M
      BY FS_Interval
    <3>2. \A m \in 1..M : <<m, m>> \notin R
      BY <2>1, <2>4
    <3>3. \A m, n, l \in 1..M : <<m, n>> \in R /\ <<n, l>> \in R => <<m, l>> \in R
      BY <2>1, <2>4
    <3>4. \A m, n \in 1..M : m # n => <<m, n>> \in R \/ <<n, m>> \in R
      <4> SUFFICES ASSUME NEW m \in 1..M, NEW n \in 1..M, m # n PROVE Cmp(m, n) = -1 \/ Cmp(n, m) = -1
        BY <2>4
      <4>1. Cmp(m, n) \in {-1, 0, 1} /\ Cmp(m, n) = -Cmp(n, m) /\ Cmp(m, n) # 0
        BY <2>1
      <4>2. Cmp(n, m) \in {-1, 0, 1}
        BY <2>1
      <4> QED BY <4>1, <4>2
    <3> DEFINE S == 1..M
    <3>5. /\ IsFiniteSet(S) /\ Cardinality(S) = M
          /\ \A x \in S : <<x, x>> \notin R
          /\ \A x, y, z \in S : <<x, y>> \in R /\ <<y, z>> \in R => <<x, z>> \in R
          /\ \A x, y \in S : x # y => <<x, y>> \in R \/ <<y, x>> \in R
      BY <3>1, <3>2, <3>3, <3>4
    <3> HIDE DEF S
    <3>6. /\ \A x \in S : RankIn(S, R, x) \in Nat
          /\ \A x, y \in S : <<x, y>> \in R <=> RankIn(S, R, x) < RankIn(S, R, y)
          /\ \A x, y \in S : RankIn(S, R, x) = RankIn(S, R, y) => x = y
          /\ \A x \in S : RankIn(S, R, x) + 1 \in 1..Cardinality(S)
          /\ \A n \in 1..Cardinality(S) : \E x \in S : RankIn(S, R, x) = n - 1
      BY <3>5, RanksNumber
    <3> QED BY <3>5, <3>6 DEF S
  <2>6. \A m \in 1..M : Cardinality({l \in DOMAIN docs : Ahead(opts, idField, docs, l, m)}) = Rank(m)
    <3> SUFFICES ASSUME NEW m \in 1..M
                 PROVE  {l \in DOMAIN docs : Ahead(opts, idField, docs, l, m)} = SetLessThan(m, R, 1..M)
      BY DEF RankIn
    <3>1. DOMAIN docs = 1..M
      BY DEF Distinct
    <3> QED BY <2>2, <3>1 DEF SetLessThan
  <2> DEFINE Pos(n) == CHOOSE m \in 1..M : Rank(m) = n - 1
  <2>7. out = [n \in 1..M |-> docs[Pos(n)]]
    <3>1. DOMAIN docs = 1..M
      BY DEF Distinct
    <3> DEFINE From(n) == CHOOSE m \in 1..M :
                   Cardinality({l \in DOMAIN docs : Ahead(opts, idField, docs, l, m)}) = n - 1
    <3>2. out = [n \in 1..M |-> docs[From(n)]]
      BY <1>a, <3>1 DEF Sorted
    <3>3. \A n \in 1..M : Pos(n) = From(n)
      <4> HIDE DEF Rank
      <4> QED BY <2>6
    <3> HIDE DEF Pos, From, out
    <3> QED BY <3>2, <3>3
  <2> HIDE DEF Rank
  <2>8. \A n \in 1..M : Pos(n) \in 1..M /\ Rank(Pos(n)) = n - 1
    BY <2>5
  <2>9. \A m \in 1..M : \E n \in 1..M : Pos(n) = m
    <3> SUFFICES ASSUME NEW m \in 1..M PROVE Pos(Rank(m) + 1) = m /\ Rank(m) + 1 \in 1..M
      OBVIOUS
    <3>1. Rank(m) + 1 \in 1..M /\ Rank(m) \in Nat
      BY <2>5
    <3>2. Pos(Rank(m) + 1) \in 1..M /\ Rank(Pos(Rank(m) + 1)) = Rank(m)
      BY <2>8, <3>1
    <3> QED BY <2>5, <3>1, <3>2
  <2> HIDE DEF Pos, out
  <2>10. DOMAIN out = 1..M /\ \A n \in 1..M : out[n] = docs[Pos(n)]
    BY <2>7
  <2>11. ASSUME NEW m \in 1..M, NEW n \in 1..M, m < n
         PROVE  CmpDocs(opts, idField, out[m], out[n]) = -1
    <3>1. Rank(Pos(m)) < Rank(Pos(n))
      BY <2>8, <2>11
    <3>2. Cmp(Pos(m), Pos(n)) = -1
      BY <2>4, <2>5, <2>8, <3>1
    <3> QED BY <2>10, <3>2 DEF Cmp
  <2>12. Reordered(opts, idField, docs, M, out)
    BY <2>8, <2>9, <2>10, <2>11 DEF Reordered
  <2> QED BY <2>12 DEF out
<1> QED BY <1>0, <1>a

\* A page is the part of the sorted documents that begins behind the offset.
LEMMA PageIs ==
    ASSUME NEW opts, NEW idField, NEW docs, NEW T, Sorted(opts, idField, docs) \in Seq(T),
           opts.offset \in Nat, opts.limit = NoLimit \/ (opts.limit \in Nat /\ opts.limit # NoLimit)
    PROVE  LET all == Sorted(opts, idField, docs)
               M == Len(all)
               page == apply(opts, idField, docs) IN
           /\ page \in Seq(T) /\ Len(page) = CountAfter(opts, M)
           /\ Len(page) = IF opts.offset > M THEN 0
                          ELSE IF opts.limit = NoLimit \/ M - opts.offset <= opts.limit
                               THEN M - opts.offset ELSE opts.limit
           /\ \A k \in 1..Len(page) : opts.offset + k \in 1..M /\ page[k] = all[opts.offset + k]
<1> DEFINE all == Sorted(opts, idField, docs)
           page == apply(opts, idField, docs)
           M == Len(all)
           start == Min({opts.offset, Len(all)})
           left == Len(all) - start
           cnt == IF opts.limit = NoLimit THEN left ELSE Min({opts.limit, left})
<1>0. M \in Nat
  OBVIOUS
<1>1. page = SubSeq(all, start + 1, start + cnt)
  BY DEF apply, Cut
<1>2. start = IF opts.offset <= M THEN opts.offset ELSE M
  BY <1>0, MinOfTwo
<1>3. left = (IF opts.offset > M THEN 0 ELSE M - opts.offset) /\ left \in Nat /\ start \in Nat
  BY <1>0, <1>2
<1>7. all \in Seq(T) /\ Len(all) = M
  OBVIOUS
<1> HIDE DEF all, start, left, page, M
<1>4. cnt = IF opts.limit = NoLimit \/ left <= opts.limit THEN left ELSE opts.limit
  BY <1>3, MinOfTwo
<1>5. CountAfter(opts, M) = cnt
  BY <1>3 DEF CountAfter
<1>6. cnt \in Nat /\ cnt <= left /\ start + cnt <= M
  BY <1>0, <1>2, <1>3, <1>4
<1> HIDE DEF cnt
<1>8. /\ page \in Seq(T) /\ Len(page) = cnt
      /\ \A k \in 1..cnt : page[k] = all[start + k]
  <2>1. \A i \in (start + 1)..(start + cnt) : all[i] \in T
    BY <1>3, <1>6, <1>7
  <2> DEFINE lo == start + 1
             hi == start + cnt
  <2>2. lo \in Int /\ hi \in Int /\ hi - lo + 1 = cnt
    BY <1>3, <1>6
  <2> HIDE DEF lo, hi
  <2>3. /\ SubSeq(all, lo, hi) \in Seq(T)
        /\ Len(SubSeq(all, lo, hi)) = IF lo <= hi THEN hi - lo + 1 ELSE 0
        /\ \A i \in 1..(hi - lo + 1) : SubSeq(all, lo, hi)[i] = all[lo + i - 1]
    BY <2>1, <2>2, SubSeqProperties DEF lo, hi
  <2>4. page = SubSeq(all, lo, hi)
    BY <1>1 DEF lo, hi
  <2>5. Len(page) = cnt
    BY <1>6, <2>2, <2>3, <2>4
  <2>6. ASSUME NEW k \in 1..cnt PROVE page[k] = all[start + k]
    <3>1. page[k] = all[lo + k - 1]
      BY <2>2, <2>3, <2>4
    <3>2. lo + k - 1 = start + k
      BY <1>3, <1>6 DEF lo
    <3> QED BY <3>1, <3>2
  <2> QED BY <2>3, <2>4, <2>5, <2>6
<1>9. \A k \in 1..cnt : start = opts.offset
  BY <1>0, <1>2, <1>3, <1>6
<1>10. \A k \in 1..Len(page) : opts.offset + k \in 1..M /\ page[k] = all[opts.offset + k]
  <2> SUFFICES ASSUME NEW k \in 1..Len(page)
               PROVE  opts.offset + k \in 1..M /\ page[k] = all[opts.offset + k]
    OBVIOUS
  <2>1. k \in 1..cnt /\ k \in Nat /\ k >= 1
    BY <1>6, <1>8
  <2>2. start = opts.offset /\ page[k] = all[start + k]
    BY <1>8, <1>9, <2>1
  <2>3. start + k \in 1..M
    BY <1>0, <1>3, <1>6, <2>1
  <2> QED BY <2>2, <2>3
<1>11. Len(page) = IF opts.offset > M THEN 0
                   ELSE IF opts.limit = NoLimit \/ M - opts.offset <= opts.limit
                        THEN M - opts.offset ELSE opts.limit
  BY <1>0, <1>3, <1>4, <1>8
<1> QED BY <1>5, <1>8, <1>10, <1>11 DEF all, page, M

LEMMA HeldListed ==
    ASSUME IInv, NEW c \in DOMAIN ir
    PROVE  LET docs == matched(c, NoFilter)
               M == Cardinality(held[c]) IN
           /\ M \in Nat /\ docs \in Seq(held[c]) /\ Len(docs) = M
           /\ Distinct(ir[c].idField, docs, M)
           /\ \A d \in held[c] : \E n \in 1..M : docs[n] = d
<1> DEFINE docs == matched(c, NoFilter)
           N == Cardinality(DOMAIN list_collection(c))
<1>1. /\ N \in Nat /\ DOMAIN docs = 1..N /\ Len(docs) = N
      /\ {docs[n] : n \in DOMAIN docs} = held[c]
      /\ \A n \in 1..N : docs[n] \in held[c]
      /\ \A m, n \in 1..N : m < n <=> Before(IdOf(ir, c, docs[m]), IdOf(ir, c, docs[n]))
  BY ScanInOrder
<1>2. docs = [n \in 1..N |-> docs[n]]
  <2>1. docs = InKeyOrder(list_collection(c))
    BY MatchedAll
  <2>2. docs = [n \in DOMAIN docs |-> docs[n]]
    BY <2>1 DEF InKeyOrder
  <2> HIDE DEF docs
  <2> QED BY <1>1, <2>2
<1> HIDE DEF docs, N
<1>3. \A d \in held[c] : HasId(ir[c].idField, d)
  BY HeldHasId
<1>4. \A m, n \in 1..N : docs[m][ir[c].idField].str = docs[n][ir[c].idField].str => m = n
  <2> SUFFICES ASSUME NEW m \in 1..N, NEW n \in 1..N,
                      docs[m][ir[c].idField].str = docs[n][ir[c].idField].str
               PROVE  m = n
    OBVIOUS
  <2>1. IdOf(ir, c, docs[m]) = IdOf(ir, c, docs[n]) /\ IdOf(ir, c, docs[m]) \in ByteStrings
    BY <1>1, <1>3 DEF IdOf, HasId
  <2>2. ~(m < n) /\ ~(n < m)
    BY <1>1, <2>1, BeforeIrreflexive
  <2> QED BY <1>1, <2>2
<1>5. \A d \in held[c] : \E n \in 1..N : docs[n] = d
  BY <1>1
<1>6. docs \in [1..N -> held[c]]
  BY <1>1, <1>2
<1>7. docs \in Seq(held[c])
  BY <1>1, <1>6
<1>8. Cardinality(held[c]) = N
  <2>1. docs \in Bijection(1..N, held[c])
    BY <1>4, <1>5, <1>6, Fun_IsBij
  <2>2. ExistsBijection(1..N, held[c])
    BY <2>1 DEF ExistsBijection
  <2>3. IsFiniteSet(1..N) /\ Cardinality(1..N) = N
    BY <1>1, FS_Interval
  <2> QED BY <2>2, <2>3, FS_Bijection
<1> QED BY <1>1, <1>3, <1>4, <1>5, <1>7, <1>8 DEF docs, Distinct

LEMMA NoGaps ==
    ASSUME IInv, MixedExact, NEW c \in DOMAIN ir, NEW sort \in ValidSorts(c), NEW size \in PageSizes
    PROVE  LET docs      == matched(c, NoFilter)
               find(l,o) == apply([sort |-> sort, limit |-> l, offset |-> o], ir[c].idField, docs)
               all       == find(NoLimit, 0)
               page(n)   == find(size, (n - 1) * size)
           IN  /\ ListsAll(c, sort, all)
               /\ \A n \in 1..(Len(docs) + 1) :
                      /\ Len(page(n)) = CountAfter([limit |-> size, offset |-> (n - 1) * size], Len(docs))
                      /\ IsPage(page(n), (n - 1) * size, size, all)
<1> DEFINE docs == matched(c, NoFilter)
           M == Cardinality(held[c])
           idField == ir[c].idField
           Opts(l, o) == [sort |-> sort, limit |-> l, offset |-> o]
           sorted == Sorted([sort |-> sort], idField, docs)
           find(l, o) == apply(Opts(l, o), idField, docs)
           all == find(NoLimit, 0)
           page(n) == find(size, (n - 1) * size)
<1>1. /\ M \in Nat /\ docs \in Seq(held[c]) /\ Len(docs) = M
      /\ Distinct(idField, docs, M)
      /\ \A d \in held[c] : \E n \in 1..M : docs[n] = d
  BY HeldListed
<1>2. PICK K \in Nat : DOMAIN sort = 1..K
  <2>1. sort \in Seq([field : ByteStrings, dir : {"asc", "desc"}])
    BY StoreAssumption DEF ValidSorts
  <2>2. DOMAIN sort = 1..Len(sort) /\ Len(sort) \in Nat
    BY <2>1
  <2> QED BY <2>2
<1>3. size \in Nat /\ size # 0 /\ size # NoLimit
  BY StoreAssumption, QueryAssumption
<1>4. ASSUME NEW l, NEW o
      PROVE  /\ Sorted(Opts(l, o), idField, docs) = sorted
             /\ Opts(l, o).offset = o /\ Opts(l, o).limit = l /\ Opts(l, o).sort = sort
             /\ CountAfter(Opts(l, o), M) = CountAfter([limit |-> l, offset |-> o], M)
  <2>1. \A m, n : Ahead(Opts(l, o), idField, docs, m, n) <=> Ahead([sort |-> sort], idField, docs, m, n)
    BY DEF Ahead, CmpDocs
  <2>2. Sorted(Opts(l, o), idField, docs) = sorted
    <3> DEFINE s == [sort |-> sort]
               Num(t, m) == Cardinality({x \in DOMAIN docs : Ahead(t, idField, docs, x, m)})
               At(t, n) == CHOOSE m \in DOMAIN docs : Num(t, m) = n - 1
    <3>1. \A m : Num(Opts(l, o), m) = Num(s, m)
      BY <2>1
    <3>2. \A n : At(Opts(l, o), n) = At(s, n)
      <4> HIDE DEF Num
      <4> QED BY <3>1
    <3>3. /\ Sorted(Opts(l, o), idField, docs) = IF sort = <<>> THEN docs
                                                 ELSE [n \in DOMAIN docs |-> docs[At(Opts(l, o), n)]]
          /\ sorted = IF sort = <<>> THEN docs ELSE [n \in DOMAIN docs |-> docs[At(s, n)]]
      BY DEF Sorted
    <3> HIDE DEF At, Num, docs, sorted, Opts, s
    <3> QED BY <3>2, <3>3
  <2>3. CountAfter(Opts(l, o), M) = CountAfter([limit |-> l, offset |-> o], M)
    BY DEF CountAfter
  <2> QED BY <2>2, <2>3
<1>5. /\ DOMAIN sorted = 1..M
      /\ \A n \in 1..M : \E m \in 1..M : sorted[n] = docs[m]
      /\ \A m \in 1..M : \E n \in 1..M : sorted[n] = docs[m]
      /\ sort # <<>> => \A m, n \in 1..M : m < n =>
                            CmpDocs([sort |-> sort], idField, sorted[m], sorted[n]) = -1
  <2> DEFINE s == [sort |-> sort]
  <2>1. DOMAIN s.sort = 1..K /\ s.sort = sort
    BY <1>2
  <2> HIDE DEF s, docs, M, idField
  <2>2. Reordered(s, idField, docs, M, Sorted(s, idField, docs))
    <3>1. \E K1 \in Nat : DOMAIN s.sort = 1..K1
      BY <1>2, <2>1
    <3>2. M \in Nat /\ Distinct(idField, docs, M)
      BY <1>1
    <3> QED BY <3>1, <3>2, SortedInOrder
  <2>3. Reordered(s, idField, docs, M, sorted)
    BY <2>2 DEF s
  <2> HIDE DEF sorted
  <2>4. /\ DOMAIN sorted = 1..M
        /\ \A n \in 1..M : \E m \in 1..M : sorted[n] = docs[m]
        /\ \A m \in 1..M : \E n \in 1..M : sorted[n] = docs[m]
        /\ sort # <<>> => \A m, n \in 1..M : m < n =>
                              CmpDocs(s, idField, sorted[m], sorted[n]) = -1
    BY <2>1, <2>3 DEF Reordered
  <2> QED BY <2>4 DEF s
<1>6. sorted \in Seq(held[c]) /\ Len(sorted) = M
  <2>1. sorted = [n \in 1..M |-> sorted[n]]
    <3>1. sorted = [n \in DOMAIN sorted |-> sorted[n]]
      <4>1. docs = [n \in DOMAIN docs |-> docs[n]]
        BY <1>1
      <4> HIDE DEF docs
      <4>2. CASE sort = <<>>
        <5>1. sorted = docs
          BY <4>2 DEF Sorted
        <5> HIDE DEF sorted
        <5> QED BY <4>1, <5>1
      <4>3. CASE sort # <<>>
        BY <4>3 DEF Sorted
      <4> QED BY <4>2, <4>3
    <3> HIDE DEF sorted
    <3> QED BY <1>5, <3>1
  <2>2. \A n \in 1..M : sorted[n] \in held[c]
    <3> HIDE DEF sorted, docs, M
    <3>1. \A m \in 1..M : docs[m] \in held[c]
      BY <1>1
    <3> QED BY <1>5, <3>1
  <2> HIDE DEF sorted, M
  <2>3. sorted \in [1..M -> held[c]]
    BY <2>1, <2>2
  <2> QED BY <1>1, <2>3
<1> HIDE DEF sorted, M, docs, idField, Opts
<1>7. ASSUME NEW l, l = NoLimit \/ (l \in Nat /\ l # NoLimit), NEW o \in Nat
      PROVE  /\ find(l, o) \in Seq(held[c])
             /\ Len(find(l, o)) = CountAfter([limit |-> l, offset |-> o], M)
             /\ Len(find(l, o)) = IF o > M THEN 0
                                  ELSE IF l = NoLimit \/ M - o <= l THEN M - o ELSE l
             /\ \A k \in 1..Len(find(l, o)) : o + k \in 1..M /\ find(l, o)[k] = sorted[o + k]
  <2> DEFINE opts == Opts(l, o)
  <2>1. /\ Sorted(opts, idField, docs) = sorted /\ opts.offset = o /\ opts.limit = l
        /\ CountAfter(opts, M) = CountAfter([limit |-> l, offset |-> o], M)
    BY <1>4
  <2> HIDE DEF opts
  <2>2. LET a == Sorted(opts, idField, docs)
            p == apply(opts, idField, docs) IN
        /\ p \in Seq(held[c]) /\ Len(p) = CountAfter(opts, M)
        /\ Len(p) = IF opts.offset > M THEN 0
                    ELSE IF opts.limit = NoLimit \/ M - opts.offset <= opts.limit
                         THEN M - opts.offset ELSE opts.limit
        /\ \A k \in 1..Len(p) : opts.offset + k \in 1..M /\ p[k] = a[opts.offset + k]
    <3>1. Sorted(opts, idField, docs) \in Seq(held[c]) /\ Len(Sorted(opts, idField, docs)) = M
      BY <1>6, <2>1
    <3>2. opts.offset \in Nat /\ (opts.limit = NoLimit \/ (opts.limit \in Nat /\ opts.limit # NoLimit))
      BY <1>7, <2>1
    <3> QED BY <3>1, <3>2, PageIs
  <2>3. find(l, o) = apply(opts, idField, docs)
    BY DEF opts
  <2> QED BY <1>7, <2>1, <2>2, <2>3
<1> HIDE DEF find
<1>8. DOMAIN all = 1..M /\ Len(all) = M /\ \A n \in 1..M : all[n] = sorted[n]
  <2>1. /\ all \in Seq(held[c]) /\ Len(all) = IF 0 > M THEN 0 ELSE M - 0
        /\ \A k \in 1..Len(all) : all[k] = sorted[0 + k]
    BY <1>7
  <2> HIDE DEF all
  <2>2. Len(all) = M
    BY <1>1, <2>1
  <2> QED BY <2>1, <2>2
<1> HIDE DEF all
<1>9. {all[n] : n \in DOMAIN all} = held[c]
  <2>1. \A n \in 1..M : sorted[n] \in held[c]
    BY <1>6
  <2>2. \A d \in held[c] : \E n \in 1..M : sorted[n] = d
    BY <1>1, <1>5
  <2> QED BY <1>8, <2>1, <2>2
<1>10. sort # <<>> => \A m, n \in DOMAIN all : m < n =>
           CmpDocs([sort |-> sort], idField, all[m], all[n]) = -1
  BY <1>5, <1>8
<1>11. ASSUME NEW n \in 1..(M + 1)
       PROVE  /\ Len(page(n)) = CountAfter([limit |-> size, offset |-> (n - 1) * size], M)
              /\ IsPage(page(n), (n - 1) * size, size, all)
  <2>1. (n - 1) * size \in Nat
    <3>1. n - 1 \in Nat
      BY <1>1
    <3> DEFINE p == n - 1
    <3> HIDE DEF p
    <3>2. p \in Nat
      BY <3>1 DEF p
    <3>3. p * size \in Nat
      BY <1>3, <3>2
    <3> QED BY <3>3 DEF p
  <2>2. PICK o \in Nat : o = (n - 1) * size
    BY <2>1
  <2> DEFINE pg == find(size, o)
  <2>3. page(n) = pg
    BY <2>2
  <2>4. /\ pg \in Seq(held[c])
        /\ Len(pg) = CountAfter([limit |-> size, offset |-> o], M)
        /\ Len(pg) = IF o > M THEN 0 ELSE IF M - o <= size THEN M - o ELSE size
        /\ \A k \in 1..Len(pg) : o + k \in 1..M /\ pg[k] = sorted[o + k]
    BY <1>3, <1>7
  <2> HIDE DEF pg
  <2>5. DOMAIN pg = 1..Len(pg)
    BY <2>4
  <2>6. ASSUME NEW k \in 1..size
        PROVE  /\ k \in DOMAIN pg <=> o + k \in DOMAIN all
               /\ k \in DOMAIN pg => pg[k] = all[o + k]
    <3>1. k \in 1..Len(pg) <=> o + k \in 1..M
      BY <1>1, <1>3, <2>4
    <3> QED BY <1>8, <2>4, <2>5, <3>1
  <2>7. IsPage(pg, o, size, all)
    BY <2>6 DEF IsPage
  <2> HIDE DEF page
  <2> QED BY <2>2, <2>3, <2>4, <2>7
<1>12. Len(docs) = M
  BY <1>1
<1> HIDE DEF page
<1>13. ListsAll(c, sort, all)
  BY <1>8, <1>9, <1>10 DEF ListsAll, M, idField
<1>14. \A n \in 1..(Len(docs) + 1) :
           /\ Len(page(n)) = CountAfter([limit |-> size, offset |-> (n - 1) * size], Len(docs))
           /\ IsPage(page(n), (n - 1) * size, size, all)
  BY <1>11, <1>12
<1> QED BY <1>13, <1>14 DEF page, all, find, Opts, docs, M, idField

\* For every sort, every page size and any number of documents, the pages of a
\* query are the consecutive pieces of one ordered list of all the documents of
\* the collection, each once, and count tells the length of each page: when
\* numbers of the two kinds compare as what they are.
THEOREM PagesAreAPartition ==
    ASSUME MixedExact
    PROVE  Spec => []PagesPartition
<1>1. IInv => PagesPartition
  BY NoGaps DEF PagesPartition
<1> QED BY <1>1, StoreInvariant, PTL

-----------------------------------------------------------------------------
(* A list of sequences, one behind the other.                              *)

\* What the recursion of FlattenSeq computes for the first i sequences, i <= k.
Flattens(f, k, seqs) == f = [i \in 1..k |-> IF i = 1 THEN seqs[i] ELSE f[i - 1] \o seqs[i]]

\* The recursion has a solution, and FlattenSeq is the last of its values.
LEMMA FlattenUnfolds ==
    ASSUME NEW U, NEW n \in Nat \ {0}, NEW seqs \in [1..n -> Seq(U)]
    PROVE  \E f \in [1..n -> Seq(U)] :
               /\ Flattens(f, n, seqs)
               /\ FlattenSeq(seqs) = f[n]
<1> DEFINE Solves(f, k) == f = [i \in 1..k |-> IF i = 1 THEN seqs[i] ELSE f[i - 1] \o seqs[i]]
           T == {k \in 1..n : ~\E f \in [1..k -> Seq(U)] : Solves(f, k)}
<1>1. T = {}
  <2> SUFFICES ASSUME T # {} PROVE FALSE
    OBVIOUS
  <2>0. T \subseteq Nat /\ T # {} /\ T \subseteq 1..n
    <3>1. T \subseteq 1..n
      OBVIOUS
    <3> HIDE DEF T
    <3> QED BY <3>1
  <2>1. PICK k \in T : \A j \in T : k <= j
    <3> HIDE DEF T
    <3> QED BY <2>0, LeastNat
  <2>2. k # 1
    <3> DEFINE f == [i \in 1..1 |-> seqs[i]]
    <3>1. f \in [1..1 -> Seq(U)] /\ Solves(f, 1)
      OBVIOUS
    <3> QED BY <2>1, <3>1
  <2>3. k - 1 \in 1..n /\ k - 1 \notin T /\ k \in 1..n
    <3>1. k \in 1..n /\ k - 1 \in 1..n
      BY <2>0, <2>2
    <3> HIDE DEF T
    <3> QED BY <2>1, <3>1
  <2>4. PICK f \in [1..(k - 1) -> Seq(U)] : Solves(f, k - 1)
    BY <2>3
  <2> DEFINE g == [i \in 1..k |-> IF i <= k - 1 THEN f[i] ELSE f[k - 1] \o seqs[k]]
  <2>5. g \in [1..k -> Seq(U)]
    BY <2>3, <2>4, <2>2
  <2>6. Solves(g, k)
    <3> HIDE DEF g
    <3>1. ASSUME NEW i \in 1..k
          PROVE  g[i] = IF i = 1 THEN seqs[i] ELSE g[i - 1] \o seqs[i]
      <4>1. CASE i = k
        <5>1. g[k] = f[k - 1] \o seqs[k] /\ g[k - 1] = f[k - 1]
          BY <2>3 DEF g
        <5> QED BY <2>2, <4>1, <5>1
      <4>2. CASE i # k
        <5>1. i \in 1..(k - 1) /\ (i # 1 => i - 1 \in 1..(k - 1))
          BY <2>3, <4>2
        <5>2. g[i] = f[i] /\ (i # 1 => g[i - 1] = f[i - 1])
          BY <2>3, <5>1 DEF g
        <5>3. f[i] = IF i = 1 THEN seqs[i] ELSE f[i - 1] \o seqs[i]
          <6> HIDE DEF g
          <6> QED BY <2>4, <5>1
        <5> QED BY <5>2, <5>3
      <4> QED BY <4>1, <4>2
    <3> QED BY <2>5, <3>1
  <2> QED BY <2>1, <2>5, <2>6
<1>2. PICK f \in [1..n -> Seq(U)] : Solves(f, n)
  <2>1. n \in 1..n
    OBVIOUS
  <2> QED BY <1>1, <2>1
<1> DEFINE flatten[i \in 1..Len(seqs)] == IF i = 1 THEN seqs[i] ELSE flatten[i - 1] \o seqs[i]
<1>3. Len(seqs) = n
  OBVIOUS
<1>4. FlattenSeq(seqs) = flatten[n]
  BY <1>3 DEF FlattenSeq
<1>5. flatten = [i \in 1..n |-> IF i = 1 THEN seqs[i] ELSE flatten[i - 1] \o seqs[i]]
  BY <1>2, <1>3
<1>6. Solves(flatten, n)
  BY <1>5
<1> HIDE DEF flatten
<1>7. flatten \in [1..n -> Seq(U)]
  <2> DEFINE B == {i \in 1..n : flatten[i] \notin Seq(U)}
  <2>1. B = {}
    <3> SUFFICES ASSUME B # {} PROVE FALSE
      OBVIOUS
    <3>1. B \subseteq Nat
      OBVIOUS
    <3>2. PICK i \in B : \A j \in B : i <= j
      <4> HIDE DEF B
      <4> QED BY <3>1, LeastNat
    <3>3. i \in 1..n /\ (i # 1 => i - 1 \in 1..n /\ i - 1 \notin B)
      <4>1. i \in 1..n /\ (i # 1 => i - 1 \in 1..n)
        OBVIOUS
      <4> HIDE DEF B
      <4> QED BY <3>2, <4>1
    <3>4. flatten[i] = IF i = 1 THEN seqs[i] ELSE flatten[i - 1] \o seqs[i]
      BY <1>6, <3>3
    <3>5. i # 1 => flatten[i - 1] \in Seq(U)
      BY <3>3
    <3>6. seqs[i] \in Seq(U)
      BY <3>3
    <3> HIDE DEF Solves
    <3>7. flatten[i] \in Seq(U)
      BY <3>4, <3>5, <3>6
    <3> QED BY <3>2, <3>7
  <2>2. flatten = [i \in 1..n |-> flatten[i]]
    BY <1>6
  <2> QED BY <2>1, <2>2
<1> QED BY <1>4, <1>6, <1>7 DEF Flattens

\* One step of the recursion.
Follows(f, i, seqs) ==
    /\ i = 1 => f[i] = seqs[i]
    /\ i # 1 => f[i] = f[i - 1] \o seqs[i]

LEMMA FlattensAt ==
    ASSUME NEW k, NEW f, NEW seqs, NEW i, k \in Nat, Flattens(f, k, seqs), i \in 1..k
    PROVE  Follows(f, i, seqs)
<1> DEFINE g == [n \in 1..k |-> IF n = 1 THEN seqs[n] ELSE f[n - 1] \o seqs[n]]
<1>1. f = g
  BY DEF Flattens
<1>2. /\ i = 1 => g[i] = seqs[i]
      /\ i # 1 => g[i] = f[i - 1] \o seqs[i]
  OBVIOUS
<1> HIDE DEF g
<1> QED BY <1>1, <1>2 DEF Follows

SameUpTo(f, g, k) == \A i \in 1..k : f[i] = g[i]

\* It has one.
LEMMA FlattensOnce ==
    ASSUME NEW k, NEW f, NEW g, NEW seqs, NEW more, k \in Nat,
           Flattens(f, k, seqs), Flattens(g, k, more), SameUpTo(seqs, more, k)
    PROVE  SameUpTo(f, g, k)
<1> DEFINE T == {i \in 1..k : f[i] # g[i]}
<1> SUFFICES ASSUME T # {} PROVE FALSE
  BY DEF SameUpTo
<1>1. T \subseteq Nat /\ T \subseteq 1..k
  OBVIOUS
<1>2. PICK i \in T : \A j \in T : i <= j
  <2> HIDE DEF T
  <2> QED BY <1>1, LeastNat
<1>3. i \in 1..k /\ (i # 1 => i - 1 \in 1..k /\ i - 1 \notin T)
  <2>1. i \in 1..k /\ (i # 1 => i - 1 \in 1..k)
    BY <1>1
  <2> HIDE DEF T
  <2> QED BY <1>2, <2>1
<1>j. PICK j : j = i - 1
  OBVIOUS
<1>4. Follows(f, i, seqs) /\ Follows(g, i, more)
  BY <1>3, FlattensAt
<1>5. /\ i = 1 => f[i] = seqs[i] /\ g[i] = more[i]
      /\ i # 1 => f[i] = f[j] \o seqs[i] /\ g[i] = g[j] \o more[i]
  BY <1>4, <1>j DEF Follows
<1>6. (i # 1 => f[j] = g[j]) /\ seqs[i] = more[i]
  BY <1>3, <1>j DEF SameUpTo
<1>7. f[i] = g[i]
  <2> HIDE DEF T
  <2>1. CASE i = 1
    BY <1>5, <1>6, <2>1
  <2>2. CASE i # 1
    BY <1>5, <1>6, <2>2
  <2> QED BY <2>1, <2>2
<1> QED BY <1>7

LEMMA FlattenFront ==
    ASSUME NEW U, NEW n \in Nat, NEW seqs \in [1..n -> Seq(U)]
    PROVE  /\ FlattenSeq(seqs) \in Seq(U)
           /\ n = 0 => FlattenSeq(seqs) = <<>>
           /\ n # 0 => FlattenSeq(seqs) = FlattenSeq([i \in 1..(n - 1) |-> seqs[i]]) \o seqs[n]
<1>1. CASE n = 0
  <2>1. seqs = <<>> /\ Len(seqs) = 0
    BY <1>1
  <2> QED BY <1>1, <2>1 DEF FlattenSeq
<1>2. CASE n # 0
  <2>1. PICK f \in [1..n -> Seq(U)] : Flattens(f, n, seqs) /\ FlattenSeq(seqs) = f[n]
    BY <1>2, FlattenUnfolds
  <2> DEFINE front == [i \in 1..(n - 1) |-> seqs[i]]
  <2>p. PICK p : p = n - 1
    OBVIOUS
  <2>2. /\ n = 1 => f[n] = seqs[n]
        /\ n # 1 => f[n] = f[p] \o seqs[n]
    <3>1. n \in 1..n
      BY <1>2
    <3>2. Follows(f, n, seqs)
      BY <2>1, <3>1, FlattensAt
    <3> QED BY <2>p, <3>2 DEF Follows
  <2>3. CASE n = 1
    <3>1. front = <<>> /\ Len(front) = 0
      BY <2>3
    <3>2. FlattenSeq(front) = <<>>
      BY <3>1 DEF FlattenSeq
    <3>3. <<>> \o seqs[1] = seqs[1]
      BY <2>3
    <3> QED BY <1>2, <2>1, <2>2, <2>3, <3>2, <3>3
  <2>4. CASE n # 1
    <3>1. n - 1 \in Nat \ {0} /\ front \in [1..(n - 1) -> Seq(U)]
      BY <1>2, <2>4
    <3>2. PICK g \in [1..(n - 1) -> Seq(U)] : Flattens(g, n - 1, front) /\ FlattenSeq(front) = g[p]
      <4> HIDE DEF front
      <4> QED BY <2>p, <3>1, FlattenUnfolds
    <3> DEFINE h == [i \in 1..(n - 1) |-> f[i]]
    <3>3. Flattens(h, n - 1, seqs)
      <4>1. \A i \in 1..(n - 1) : f[i] = IF i = 1 THEN seqs[i] ELSE f[i - 1] \o seqs[i]
        <5> SUFFICES ASSUME NEW i \in 1..(n - 1)
                     PROVE  f[i] = IF i = 1 THEN seqs[i] ELSE f[i - 1] \o seqs[i]
          OBVIOUS
        <5>1. i \in 1..n
          OBVIOUS
        <5>2. Follows(f, i, seqs)
          BY <2>1, <5>1, FlattensAt
        <5> QED BY <5>2 DEF Follows
      <4>2. \A i \in 1..(n - 1) : h[i] = IF i = 1 THEN seqs[i] ELSE h[i - 1] \o seqs[i]
        BY <1>2, <4>1
      <4>3. h = [i \in 1..(n - 1) |-> h[i]]
        OBVIOUS
      <4> HIDE DEF h
      <4> QED BY <4>2, <4>3 DEF Flattens
    <3>4. \A i \in 1..(n - 1) : seqs[i] = front[i]
      OBVIOUS
    <3>5. \A i \in 1..(n - 1) : h[i] = g[i]
      <4>1. p \in Nat
        BY <2>p, <3>1
      <4> HIDE DEF h, front
      <4>2. Flattens(h, p, seqs) /\ Flattens(g, p, front) /\ \A i \in 1..p : seqs[i] = front[i]
        BY <2>p, <3>2, <3>3, <3>4
      <4>3. \A i \in 1..p : h[i] = g[i]
        <5>1. SameUpTo(seqs, front, p)
          BY <4>2 DEF SameUpTo
        <5>2. SameUpTo(h, g, p)
          BY <4>1, <4>2, <5>1, FlattensOnce
        <5> QED BY <5>2 DEF SameUpTo
      <4> QED BY <2>p, <4>3
    <3>6. f[p] = g[p]
      BY <2>p, <3>1, <3>5
    <3>7. FlattenSeq(seqs) = FlattenSeq(front) \o seqs[n]
      BY <2>1, <2>2, <2>4, <3>2, <3>6
    <3>8. f[n] \in Seq(U)
      <4>1. n \in 1..n
        BY <1>2
      <4> QED BY <2>1, <4>1
    <3> QED BY <1>2, <2>1, <3>7, <3>8
  <2> QED BY <2>3, <2>4
<1> QED BY <1>1, <1>2

-----------------------------------------------------------------------------
(* What can be read back from a stream of symbols.                         *)

Symbols == Int \cup SUBSET ByteStrings

\* Two words begin the same stream.
Meet(u, x, v, y) == u \o x = v \o y

\* Words of one length that begin the same stream are the same.
LEMMA SameLength ==
    ASSUME NEW u, NEW v, NEW x, NEW y, u \in Seq(Symbols), v \in Seq(Symbols), x \in Seq(Symbols),
           y \in Seq(Symbols), Len(u) = Len(v), Meet(u, x, v, y)
    PROVE  u = v /\ x = y
<1>1. u \o x = v \o y
  BY DEF Meet
<1>2. \A i \in 1..Len(u) : u[i] = (u \o x)[i] /\ v[i] = (v \o y)[i]
  OBVIOUS
<1>3. u = v
  BY <1>1, <1>2
<1>4. u \o x = u \o y
  BY <1>1, <1>3
<1> QED BY <1>3, <1>4, ConcatSimplifications

Regroups(u, v, w) == (u \o v) \o w = u \o (v \o w)

LEMMA Regroup ==
    ASSUME NEW u, NEW v, NEW w, u \in Seq(Symbols), v \in Seq(Symbols), w \in Seq(Symbols)
    PROVE  Regroups(u, v, w)
<1> DEFINE S == Symbols
<1>1. u \in Seq(S) /\ v \in Seq(S) /\ w \in Seq(S)
  OBVIOUS
<1> HIDE DEF S
<1> QED BY <1>1, ConcatAssociative DEF Regroups

\* What comes first can be split off.
LEMMA MeetShift ==
    ASSUME NEW u, NEW v, NEW w, NEW z, NEW x, NEW y, u \in Seq(Symbols), v \in Seq(Symbols), w \in Seq(Symbols),
           z \in Seq(Symbols), x \in Seq(Symbols), y \in Seq(Symbols), Meet(u \o w, x, v \o z, y)
    PROVE  Meet(u, w \o x, v, z \o y)
<1>1. Regroups(u, w, x) /\ Regroups(v, z, y)
  BY Regroup
<1>2. (u \o w) \o x = u \o (w \o x) /\ (v \o z) \o y = v \o (z \o y)
  BY <1>1 DEF Regroups
<1> QED BY <1>1, <1>2 DEF Meet

\* Streams that begin differently are different.
LEMMA MeetFirst ==
    ASSUME NEW u, NEW v, NEW x, NEW y, NEW i, u \in Seq(Symbols), v \in Seq(Symbols), x \in Seq(Symbols),
           y \in Seq(Symbols), Meet(u, x, v, y), i \in 1..Len(u), i \in 1..Len(v)
    PROVE  u[i] = v[i]
<1>1. u \o x = v \o y
  BY DEF Meet
<1>2. u[i] = (u \o x)[i] /\ v[i] = (v \o y)[i]
  OBVIOUS
<1> QED BY <1>1, <1>2

\* The words of e can be read back from a stream.
Decodable(e) ==
    /\ \A a \in DOMAIN e : e[a] \in Seq(Symbols)
    /\ \A a, b \in DOMAIN e, x, y \in Seq(Symbols) : Meet(e[a], x, e[b], y) => a = b /\ x = y

\* The words of the first n elements of s.
Coding(e, s, n) == FlattenSeq([i \in 1..n |-> e[s[i]]])

LEMMA CodingIs ==
    ASSUME NEW e, NEW s, NEW n, n \in Nat, Decodable(e), \A i \in 1..n : s[i] \in DOMAIN e
    PROVE  /\ Coding(e, s, n) \in Seq(Symbols)
           /\ n = 0 => Coding(e, s, n) = <<>>
           /\ n # 0 => Coding(e, s, n) = Coding(e, s, n - 1) \o e[s[n]]
<1> DEFINE seqs == [i \in 1..n |-> e[s[i]]]
           front == [i \in 1..(n - 1) |-> e[s[i]]]
<1>1. seqs \in [1..n -> Seq(Symbols)]
  BY DEF Decodable
<1>2. n # 0 => front = [i \in 1..(n - 1) |-> seqs[i]] /\ seqs[n] = e[s[n]]
  OBVIOUS
<1>3. Coding(e, s, n) = FlattenSeq(seqs) /\ Coding(e, s, n - 1) = FlattenSeq(front)
  BY DEF Coding
<1> HIDE DEF seqs, front
<1>4. /\ FlattenSeq(seqs) \in Seq(Symbols)
      /\ n = 0 => FlattenSeq(seqs) = <<>>
      /\ n # 0 => FlattenSeq(seqs) = FlattenSeq([i \in 1..(n - 1) |-> seqs[i]]) \o seqs[n]
  BY <1>1, FlattenFront
<1>5. CASE n = 0
  BY <1>3, <1>4, <1>5
<1>6. CASE n # 0
  BY <1>2, <1>3, <1>4, <1>6
<1> QED BY <1>5, <1>6

\* As many words of a code can be read back as one knows to be there.
LEMMA WordsTold ==
    ASSUME NEW e, NEW s, NEW t, NEW n, NEW x, NEW y, Decodable(e), n \in Nat,
           x \in Seq(Symbols), y \in Seq(Symbols), \A i \in 1..n : s[i] \in DOMAIN e /\ t[i] \in DOMAIN e,
           Meet(Coding(e, s, n), x, Coding(e, t, n), y)
    PROVE  SameUpTo(s, t, n) /\ x = y
<1> DEFINE Good(m, w, z) == Meet(Coding(e, s, m), w, Coding(e, t, m), z) => SameUpTo(s, t, m) /\ w = z
           T == {m \in 0..n : \E w, z \in Seq(Symbols) : ~Good(m, w, z)}
<1>1. T = {}
  <2> SUFFICES ASSUME T # {} PROVE FALSE
    OBVIOUS
  <2>1. T \subseteq Nat /\ T \subseteq 0..n
    <3>1. T \subseteq 0..n
      OBVIOUS
    <3> HIDE DEF T
    <3> QED BY <3>1
  <2>2. PICK m \in T : \A j \in T : m <= j
    <3> HIDE DEF T
    <3> QED BY <2>1, LeastNat
  <2>3. PICK w \in Seq(Symbols), z \in Seq(Symbols) : ~Good(m, w, z)
    BY <2>2
  <2>4. m \in 0..n /\ m \in Nat
    BY <2>1, <2>2
  <2>5. m # 0
    <3> SUFFICES ASSUME m = 0 PROVE FALSE
      OBVIOUS
    <3>1. Coding(e, s, m) = <<>> /\ Coding(e, t, m) = <<>>
      <4>1. \A i \in 1..m : s[i] \in DOMAIN e /\ t[i] \in DOMAIN e
        BY <2>4
      <4> QED BY <2>4, <4>1, CodingIs
    <3>2. <<>> \o w = w /\ <<>> \o z = z
      OBVIOUS
    <3>3. SameUpTo(s, t, m)
      BY DEF SameUpTo
    <3>4. Meet(Coding(e, s, m), w, Coding(e, t, m), z) => w = z
      BY <3>1, <3>2 DEF Meet
    <3> HIDE DEF T
    <3> QED BY <2>3, <3>3, <3>4
  <2>p. PICK p : p = m - 1
    OBVIOUS
  <2>6. p \in 0..n /\ p \in Nat /\ p \notin T /\ m \in 1..n
    <3>1. p \in 0..n /\ p \in Nat /\ p < m /\ m \in 1..n
      BY <2>4, <2>5, <2>p
    <3> HIDE DEF T
    <3> QED BY <2>2, <3>1
  <2>7. Meet(Coding(e, s, m), w, Coding(e, t, m), z) /\ ~(SameUpTo(s, t, m) /\ w = z)
    BY <2>3
  <2> DEFINE a == Coding(e, s, p)
             b == Coding(e, t, p)
             c == e[s[m]]
             d == e[t[m]]
  <2>8. a \in Seq(Symbols) /\ b \in Seq(Symbols)
    <3>1. \A i \in 1..p : s[i] \in DOMAIN e /\ t[i] \in DOMAIN e
      BY <2>6
    <3> QED BY <2>6, <3>1, CodingIs
  <2>9. c \in Seq(Symbols) /\ d \in Seq(Symbols)
    BY <2>6 DEF Decodable
  <2>10. Coding(e, s, m) = a \o c /\ Coding(e, t, m) = b \o d
    <3>1. \A i \in 1..m : s[i] \in DOMAIN e /\ t[i] \in DOMAIN e
      BY <2>4
    <3> QED BY <2>4, <2>5, <2>p, <3>1, CodingIs
  <2>11. Good(p, c \o w, d \o z)
    <3>1. c \o w \in Seq(Symbols) /\ d \o z \in Seq(Symbols)
      BY <2>9
    <3> HIDE DEF c, d, Good
    <3> QED BY <2>6, <3>1
  <2> HIDE DEF a, b, c, d, T
  <2>12. Meet(a, c \o w, b, d \o z)
    BY <2>7, <2>8, <2>9, <2>10, MeetShift
  <2>13. SameUpTo(s, t, p) /\ Meet(c, w, d, z)
    BY <2>11, <2>12 DEF a, b, Meet
  <2>14. s[m] = t[m] /\ w = z
    BY <2>6, <2>13 DEF c, d, Decodable
  <2>15. SameUpTo(s, t, m)
    BY <2>4, <2>p, <2>13, <2>14 DEF SameUpTo
  <2> QED BY <2>7, <2>14, <2>15
<1>2. n \in 0..n
  OBVIOUS
<1>3. Good(n, x, y)
  BY <1>1, <1>2
<1> QED BY <1>3

\* The words of a and b: who reads one of them knows which and where it ends.
Tells(u, v, a, b) ==
    /\ u \in Seq(Symbols) /\ v \in Seq(Symbols)
    /\ \A x, y \in Seq(Symbols) : Meet(u, x, v, y) => a = b /\ x = y

LEMMA TellsBoth ==
    ASSUME NEW u, NEW v, NEW w, NEW z, NEW a, NEW b, NEW c, NEW d, Tells(u, v, a, b), Tells(w, z, c, d)
    PROVE  Tells(u \o w, v \o z, <<a, c>>, <<b, d>>)
<1>1. /\ u \in Seq(Symbols) /\ v \in Seq(Symbols) /\ w \in Seq(Symbols) /\ z \in Seq(Symbols)
  BY DEF Tells
<1>2. u \o w \in Seq(Symbols) /\ v \o z \in Seq(Symbols)
  BY <1>1
<1>3. ASSUME NEW x \in Seq(Symbols), NEW y \in Seq(Symbols), Meet(u \o w, x, v \o z, y)
      PROVE  <<a, c>> = <<b, d>> /\ x = y
  <2>1. w \o x \in Seq(Symbols) /\ z \o y \in Seq(Symbols)
    BY <1>1
  <2>2. Meet(u, w \o x, v, z \o y)
    BY <1>1, <1>3, MeetShift
  <2>3. a = b /\ w \o x = z \o y
    BY <2>1, <2>2 DEF Tells
  <2>4. c = d /\ x = y
    BY <2>3 DEF Meet, Tells
  <2> QED BY <2>3, <2>4
<1> QED BY <1>2, <1>3 DEF Tells

\* A string, after its length.
LEMMA FeedTells ==
    ASSUME NEW a, NEW b, a \in ByteStrings, b \in ByteStrings
    PROVE  Tells(Feed(a), Feed(b), a, b)
<1>1. a \in Seq(Symbols) /\ b \in Seq(Symbols)
  <2>1. Bytes \subseteq Symbols
    BY DEF Bytes, Symbols
  <2>2. a \in Seq(Bytes) /\ b \in Seq(Bytes)
    BY DEF ByteStrings
  <2>3. \A i \in 1..Len(a) : a[i] \in Symbols
    BY <2>1, <2>2
  <2>4. \A i \in 1..Len(b) : b[i] \in Symbols
    BY <2>1, <2>2
  <2> QED BY <2>2, <2>3, <2>4
<1> DEFINE u == <<Len(a)>>
           v == <<Len(b)>>
<1>2. u \in Seq(Symbols) /\ v \in Seq(Symbols) /\ Len(u) = Len(v)
  BY <1>1 DEF Symbols
<1>3. ASSUME NEW x \in Seq(Symbols), NEW y \in Seq(Symbols), Meet(u \o a, x, v \o b, y)
      PROVE  a = b /\ x = y
  <2> HIDE DEF u, v
  <2>w. PICK w, z : w = a \o x /\ z = b \o y
    OBVIOUS
  <2>1. Meet(u, w, v, z)
    BY <1>1, <1>2, <1>3, <2>w, MeetShift
  <2>2. w \in Seq(Symbols) /\ z \in Seq(Symbols)
    BY <1>1, <2>w
  <2>3. u = v /\ w = z
    BY <1>2, <2>1, <2>2, SameLength
  <2>4. Len(a) = Len(b)
    BY <2>3 DEF u, v
  <2>5. Meet(a, x, b, y)
    BY <2>w, <2>3 DEF Meet
  <2> QED BY <1>1, <2>4, <2>5, SameLength
<1>4. u \o a \in Seq(Symbols) /\ v \o b \in Seq(Symbols)
  BY <1>1, <1>2
<1> QED BY <1>3, <1>4 DEF Tells, Feed

\* One symbol, told from another.
LEMMA SymbolTells ==
    ASSUME NEW p, NEW q, NEW a, NEW b, p \in Symbols, q \in Symbols, p = q => a = b
    PROVE  Tells(<<p>>, <<q>>, a, b)
<1> DEFINE u == <<p>>
           v == <<q>>
<1>1. u \in Seq(Symbols) /\ v \in Seq(Symbols) /\ Len(u) = Len(v)
  OBVIOUS
<1>2. u = v => p = q
  OBVIOUS
<1> HIDE DEF u, v
<1>3. ASSUME NEW x \in Seq(Symbols), NEW y \in Seq(Symbols), Meet(u, x, v, y)
      PROVE  a = b /\ x = y
  BY <1>1, <1>2, <1>3, SameLength
<1>4. Tells(u, v, a, b)
  BY <1>1, <1>3 DEF Tells
<1> QED BY <1>4 DEF u, v

LEMMA FlagTells ==
    ASSUME NEW a, NEW b, a \in BOOLEAN, b \in BOOLEAN
    PROVE  Tells(FeedFlag(a), FeedFlag(b), a, b)
<1> DEFINE p == IF a THEN 1 ELSE 0
           q == IF b THEN 1 ELSE 0
<1>1. p \in Symbols /\ q \in Symbols
  BY DEF Symbols
<1>2. p = q => a = b
  OBVIOUS
<1>3. FeedFlag(a) = <<p>> /\ FeedFlag(b) = <<q>>
  BY DEF FeedFlag
<1> HIDE DEF p, q
<1>4. Tells(<<p>>, <<q>>, a, b)
  BY <1>1, <1>2, SymbolTells
<1> QED BY <1>3, <1>4

\* A symbol after a mark, or a mark that it is missing.
LEMMA OptionTells ==
    ASSUME NEW none, NEW a, NEW b, a = none \/ a \in Symbols, b = none \/ b \in Symbols
    PROVE  Tells(IF a = none THEN <<0>> ELSE <<1, a>>, IF b = none THEN <<0>> ELSE <<1, b>>, a, b)
<1> DEFINE u == IF a = none THEN <<0>> ELSE <<1, a>>
           v == IF b = none THEN <<0>> ELSE <<1, b>>
<1>1. u \in Seq(Symbols) /\ v \in Seq(Symbols)
  <2>1. 0 \in Symbols /\ 1 \in Symbols
    BY DEF Symbols
  <2>2. u \in Seq(Symbols)
    BY <2>1
  <2>3. v \in Seq(Symbols)
    BY <2>1
  <2> QED BY <2>2, <2>3
<1>2. /\ Len(u) = (IF a = none THEN 1 ELSE 2) /\ u[1] = (IF a = none THEN 0 ELSE 1) /\ (a # none => u[2] = a)
      /\ Len(v) = (IF b = none THEN 1 ELSE 2) /\ v[1] = (IF b = none THEN 0 ELSE 1) /\ (b # none => v[2] = b)
  OBVIOUS
<1> HIDE DEF u, v
<1>3. ASSUME NEW x \in Seq(Symbols), NEW y \in Seq(Symbols), Meet(u, x, v, y)
      PROVE  a = b /\ x = y
  <2>1. u[1] = v[1]
    <3>1. 1 \in 1..Len(u) /\ 1 \in 1..Len(v)
      BY <1>2
    <3> QED BY <1>1, <1>3, <3>1, MeetFirst
  <2>2. Len(u) = Len(v)
    BY <1>2, <2>1
  <2>3. u = v /\ x = y
    BY <1>1, <1>3, <2>2, SameLength
  <2> QED BY <1>2, <2>3
<1>4. Tells(u, v, a, b)
  BY <1>1, <1>3 DEF Tells
<1> QED BY <1>4 DEF u, v

\* The depth of an array is where its marks end.
TypedType == [base : ScalarTypes, depth : Nat]

LEMMA TypeTells ==
    ASSUME NEW a, NEW b, a \in TypedType, b \in TypedType
    PROVE  Tells(feed_field_type(a), feed_field_type(b), a, b)
<1>1. /\ Marker[a.base] \in 1..6 /\ Marker[b.base] \in 1..6
      /\ Marker[a.base] = Marker[b.base] => a.base = b.base
  BY DEF TypedType, ScalarTypes, Marker
<1>2. a.depth \in Nat /\ b.depth \in Nat
  BY DEF TypedType
<1>p. PICK p, q : p = Marker[a.base] /\ q = Marker[b.base]
  OBVIOUS
<1>m. PICK m, n : m = a.depth /\ n = b.depth
  OBVIOUS
<1> DEFINE u == [i \in 1..m |-> 16] \o <<p>>
           v == [i \in 1..n |-> 16] \o <<q>>
<1>3. feed_field_type(a) = u /\ feed_field_type(b) = v
  BY <1>p, <1>m DEF feed_field_type
<1>4. m \in Nat /\ n \in Nat /\ p \in 1..6 /\ q \in 1..6
  BY <1>1, <1>2, <1>p, <1>m
<1>5. 16 \in Symbols /\ p \in Symbols /\ q \in Symbols
  BY <1>4 DEF Symbols
<1>6. /\ u \in Seq(Symbols) /\ Len(u) = m + 1 /\ u[m + 1] = p /\ \A i \in 1..m : u[i] = 16
      /\ v \in Seq(Symbols) /\ Len(v) = n + 1 /\ v[n + 1] = q /\ \A i \in 1..n : v[i] = 16
  <2> DEFINE c == [i \in 1..m |-> 16]
             d == [i \in 1..n |-> 16]
  <2>1. c \in Seq(Symbols) /\ Len(c) = m /\ d \in Seq(Symbols) /\ Len(d) = n
    BY <1>4, <1>5
  <2>2. (\A i \in 1..m : c[i] = 16) /\ \A i \in 1..n : d[i] = 16
    OBVIOUS
  <2> HIDE DEF c, d
  <2>3. /\ c \o <<p>> \in Seq(Symbols) /\ Len(c \o <<p>>) = m + 1 /\ (c \o <<p>>)[m + 1] = p
        /\ \A i \in 1..m : (c \o <<p>>)[i] = 16
    BY <1>4, <1>5, <2>1, <2>2
  <2>4. /\ d \o <<q>> \in Seq(Symbols) /\ Len(d \o <<q>>) = n + 1 /\ (d \o <<q>>)[n + 1] = q
        /\ \A i \in 1..n : (d \o <<q>>)[i] = 16
    BY <1>4, <1>5, <2>1, <2>2
  <2> QED BY <2>3, <2>4 DEF c, d
<1> HIDE DEF u, v
<1>t. u \in Seq(Symbols) /\ v \in Seq(Symbols)
  BY <1>6
<1>7. ASSUME NEW x \in Seq(Symbols), NEW y \in Seq(Symbols), Meet(u, x, v, y)
      PROVE  a = b /\ x = y
  <2>1. ~(m < n)
    <3> SUFFICES ASSUME m < n PROVE FALSE
      OBVIOUS
    <3>k. PICK k : k = m + 1
      OBVIOUS
    <3>1. k \in 1..Len(u) /\ k \in 1..Len(v) /\ k \in 1..n
      BY <1>4, <1>6, <3>k
    <3>2. u[k] = v[k]
      BY <1>t, <1>7, <3>1, MeetFirst
    <3> QED BY <1>4, <1>6, <3>k, <3>1, <3>2
  <2>2. ~(n < m)
    <3> SUFFICES ASSUME n < m PROVE FALSE
      OBVIOUS
    <3>k. PICK k : k = n + 1
      OBVIOUS
    <3>1. k \in 1..Len(u) /\ k \in 1..Len(v) /\ k \in 1..m
      BY <1>4, <1>6, <3>k
    <3>2. u[k] = v[k]
      BY <1>t, <1>7, <3>1, MeetFirst
    <3> QED BY <1>4, <1>6, <3>k, <3>1, <3>2
  <2>3. m = n /\ Len(u) = Len(v)
    BY <1>4, <1>6, <2>1, <2>2
  <2>4. u = v /\ x = y
    BY <1>6, <1>7, <2>3, SameLength
  <2>5. p = q
    BY <1>6, <2>3, <2>4
  <2>6. a.base = b.base /\ a.depth = b.depth
    BY <1>1, <1>p, <1>m, <2>3, <2>5
  <2> QED BY <2>4, <2>6 DEF TypedType
<1>8. Tells(u, v, a, b)
  BY <1>6, <1>7 DEF Tells
<1> QED BY <1>3, <1>8

\* A list, after its length, of what the words of a code stand for.
LEMMA ListTells ==
    ASSUME NEW e, NEW s, NEW t, Decodable(e), s \in Seq(DOMAIN e), t \in Seq(DOMAIN e)
    PROVE  Tells(<<Len(s)>> \o Coding(e, s, Len(s)), <<Len(t)>> \o Coding(e, t, Len(t)), s, t)
<1>m. PICK m, n : m = Len(s) /\ n = Len(t)
  OBVIOUS
<1> DEFINE u == <<m>>
           v == <<n>>
           c == Coding(e, s, m)
           d == Coding(e, t, n)
<1>1. /\ m \in Nat /\ n \in Nat
      /\ (\A i \in 1..m : s[i] \in DOMAIN e) /\ \A i \in 1..n : t[i] \in DOMAIN e
  BY <1>m
<1>2. c \in Seq(Symbols) /\ d \in Seq(Symbols)
  BY <1>1, CodingIs
<1>3. u \in Seq(Symbols) /\ v \in Seq(Symbols) /\ Len(u) = Len(v) /\ (u = v => m = n)
  BY <1>1 DEF Symbols
<1>4. ASSUME NEW x \in Seq(Symbols), NEW y \in Seq(Symbols), Meet(u \o c, x, v \o d, y)
      PROVE  s = t /\ x = y
  <2>w. PICK w, z : w = c \o x /\ z = d \o y
    OBVIOUS
  <2> HIDE DEF u, v, c, d
  <2>1. Meet(u, w, v, z)
    BY <1>2, <1>3, <1>4, <2>w, MeetShift
  <2>2. w \in Seq(Symbols) /\ z \in Seq(Symbols)
    BY <1>2, <2>w
  <2>3. u = v /\ w = z
    BY <1>3, <2>1, <2>2, SameLength
  <2>4. m = n /\ Meet(c, x, d, y)
    BY <1>3, <2>w, <2>3 DEF Meet
  <2>5. \A i \in 1..m : s[i] \in DOMAIN e /\ t[i] \in DOMAIN e
    BY <1>1, <2>4
  <2>6. Meet(Coding(e, s, m), x, Coding(e, t, m), y)
    BY <2>4 DEF c, d
  <2>7. SameUpTo(s, t, m) /\ x = y
    BY <1>1, <2>5, <2>6, WordsTold
  <2>8. s = t
    <3> DEFINE D == DOMAIN e
    <3>1. s \in Seq(D) /\ t \in Seq(D)
      OBVIOUS
    <3>2. Len(s) = Len(t) /\ \A i \in 1..Len(s) : s[i] = t[i]
      BY <1>m, <2>4, <2>7 DEF SameUpTo
    <3> HIDE DEF D
    <3> QED BY <3>1, <3>2, SeqEqual
  <2> QED BY <2>7, <2>8
<1>5. u \o c \in Seq(Symbols) /\ v \o d \in Seq(Symbols)
  BY <1>2, <1>3
<1>6. Tells(u \o c, v \o d, s, t)
  BY <1>4, <1>5 DEF Tells
<1> QED BY <1>m, <1>6

\* A field as compiling leaves it.
TypedField ==
    [name : ByteStrings, ty : TypedType, optional : BOOLEAN, nullable : BOOLEAN, int : BOOLEAN,
     email : BOOLEAN, min : {NoBound} \cup Int, max : {NoBound} \cup Int,
     regex : {NoRegex} \cup SUBSET ByteStrings, variants : Seq(ByteStrings)]

LEMMA BoundTells ==
    ASSUME NEW a, NEW b, a \in {NoBound} \cup Int, b \in {NoBound} \cup Int
    PROVE  Tells(FeedBound(a), FeedBound(b), a, b)
<1>1. (a = NoBound \/ a \in Symbols) /\ (b = NoBound \/ b \in Symbols)
  BY DEF Symbols
<1> QED BY <1>1, OptionTells DEF FeedBound

FeedRegex(r) == IF r = NoRegex THEN <<0>> ELSE <<1, r>>

LEMMA RegexTells ==
    ASSUME NEW a, NEW b, a \in {NoRegex} \cup SUBSET ByteStrings, b \in {NoRegex} \cup SUBSET ByteStrings
    PROVE  Tells(FeedRegex(a), FeedRegex(b), a, b)
<1>1. (a = NoRegex \/ a \in Symbols) /\ (b = NoRegex \/ b \in Symbols)
  BY DEF Symbols
<1> QED BY <1>1, OptionTells DEF FeedRegex

\* Words that tell what they stand for are a code.
LEMMA TellsDecodes ==
    ASSUME NEW e, \A a, b \in DOMAIN e : Tells(e[a], e[b], a, b)
    PROVE  Decodable(e)
BY DEF Tells, Decodable

StringWords == [a \in ByteStrings |-> Feed(a)]

LEMMA StringsDecode == Decodable(StringWords) /\ DOMAIN StringWords = ByteStrings
<1>1. \A a, b \in ByteStrings : Tells(Feed(a), Feed(b), a, b)
  BY FeedTells
<1>2. DOMAIN StringWords = ByteStrings /\ \A a \in ByteStrings : StringWords[a] = Feed(a)
  BY DEF StringWords
<1>3. \A a, b \in DOMAIN StringWords : Tells(StringWords[a], StringWords[b], a, b)
  BY <1>1, <1>2
<1> QED BY <1>2, <1>3, TellsDecodes

LEMMA VariantsTell ==
    ASSUME NEW a, NEW b, a \in Seq(ByteStrings), b \in Seq(ByteStrings)
    PROVE  Tells(FeedEach(a, Feed), FeedEach(b, Feed), a, b)
<1> DEFINE Fed(s) == <<Len(s)>> \o FlattenSeq([n \in DOMAIN s |-> Feed(s[n])])
<1>1. ASSUME NEW s, s \in Seq(ByteStrings)
      PROVE  Fed(s) = <<Len(s)>> \o Coding(StringWords, s, Len(s))
  <2>1. [n \in DOMAIN s |-> Feed(s[n])] = [n \in 1..Len(s) |-> StringWords[s[n]]]
    BY <1>1 DEF StringWords
  <2> QED BY <2>1 DEF Coding
<1>2. Tells(<<Len(a)>> \o Coding(StringWords, a, Len(a)), <<Len(b)>> \o Coding(StringWords, b, Len(b)), a, b)
  BY StringsDecode, ListTells
<1>3. Fed(a) = <<Len(a)>> \o Coding(StringWords, a, Len(a))
  BY <1>1
<1>4. Fed(b) = <<Len(b)>> \o Coding(StringWords, b, Len(b))
  BY <1>1
<1> HIDE DEF Fed
<1>5. Tells(Fed(a), Fed(b), a, b)
  BY <1>2, <1>3, <1>4
<1> QED BY <1>5 DEF Fed, FeedEach

LEMMA FieldTells ==
    ASSUME NEW f, NEW g, f \in TypedField, g \in TypedField
    PROVE  Tells(FeedField(f), FeedField(g), f, g)
<1>1. /\ f.name \in ByteStrings /\ g.name \in ByteStrings /\ f.ty \in TypedType /\ g.ty \in TypedType
      /\ f.optional \in BOOLEAN /\ g.optional \in BOOLEAN /\ f.nullable \in BOOLEAN /\ g.nullable \in BOOLEAN
      /\ f.int \in BOOLEAN /\ g.int \in BOOLEAN /\ f.email \in BOOLEAN /\ g.email \in BOOLEAN
      /\ f.min \in {NoBound} \cup Int /\ g.min \in {NoBound} \cup Int
      /\ f.max \in {NoBound} \cup Int /\ g.max \in {NoBound} \cup Int
      /\ f.regex \in {NoRegex} \cup SUBSET ByteStrings /\ g.regex \in {NoRegex} \cup SUBSET ByteStrings
      /\ f.variants \in Seq(ByteStrings) /\ g.variants \in Seq(ByteStrings)
  BY DEF TypedField
<1> DEFINE U1 == Feed(f.name)
           V1 == Feed(g.name)
           A1 == f.name
           B1 == g.name
<1>2. Tells(U1, V1, A1, B1)
  BY <1>1, FeedTells
<1> HIDE DEF U1, V1, A1, B1
<1> DEFINE U2 == U1 \o feed_field_type(f.ty)
           V2 == V1 \o feed_field_type(g.ty)
           A2 == <<A1, f.ty>>
           B2 == <<B1, g.ty>>
<1>3. Tells(U2, V2, A2, B2)
  <2>1. Tells(feed_field_type(f.ty), feed_field_type(g.ty), f.ty, g.ty)
    BY <1>1, TypeTells
  <2> QED BY <1>2, <2>1, TellsBoth
<1> HIDE DEF U2, V2, A2, B2
<1> DEFINE U3 == U2 \o FeedFlag(f.optional)
           V3 == V2 \o FeedFlag(g.optional)
           A3 == <<A2, f.optional>>
           B3 == <<B2, g.optional>>
<1>4. Tells(U3, V3, A3, B3)
  <2>1. Tells(FeedFlag(f.optional), FeedFlag(g.optional), f.optional, g.optional)
    BY <1>1, FlagTells
  <2> QED BY <1>3, <2>1, TellsBoth
<1> HIDE DEF U3, V3, A3, B3
<1> DEFINE U4 == U3 \o FeedFlag(f.nullable)
           V4 == V3 \o FeedFlag(g.nullable)
           A4 == <<A3, f.nullable>>
           B4 == <<B3, g.nullable>>
<1>5. Tells(U4, V4, A4, B4)
  <2>1. Tells(FeedFlag(f.nullable), FeedFlag(g.nullable), f.nullable, g.nullable)
    BY <1>1, FlagTells
  <2> QED BY <1>4, <2>1, TellsBoth
<1> HIDE DEF U4, V4, A4, B4
<1> DEFINE U5 == U4 \o FeedFlag(f.int)
           V5 == V4 \o FeedFlag(g.int)
           A5 == <<A4, f.int>>
           B5 == <<B4, g.int>>
<1>6. Tells(U5, V5, A5, B5)
  <2>1. Tells(FeedFlag(f.int), FeedFlag(g.int), f.int, g.int)
    BY <1>1, FlagTells
  <2> QED BY <1>5, <2>1, TellsBoth
<1> HIDE DEF U5, V5, A5, B5
<1> DEFINE U6 == U5 \o FeedFlag(f.email)
           V6 == V5 \o FeedFlag(g.email)
           A6 == <<A5, f.email>>
           B6 == <<B5, g.email>>
<1>7. Tells(U6, V6, A6, B6)
  <2>1. Tells(FeedFlag(f.email), FeedFlag(g.email), f.email, g.email)
    BY <1>1, FlagTells
  <2> QED BY <1>6, <2>1, TellsBoth
<1> HIDE DEF U6, V6, A6, B6
<1> DEFINE U7 == U6 \o FeedBound(f.min)
           V7 == V6 \o FeedBound(g.min)
           A7 == <<A6, f.min>>
           B7 == <<B6, g.min>>
<1>8. Tells(U7, V7, A7, B7)
  <2>1. Tells(FeedBound(f.min), FeedBound(g.min), f.min, g.min)
    BY <1>1, BoundTells
  <2> QED BY <1>7, <2>1, TellsBoth
<1> HIDE DEF U7, V7, A7, B7
<1> DEFINE U8 == U7 \o FeedBound(f.max)
           V8 == V7 \o FeedBound(g.max)
           A8 == <<A7, f.max>>
           B8 == <<B7, g.max>>
<1>9. Tells(U8, V8, A8, B8)
  <2>1. Tells(FeedBound(f.max), FeedBound(g.max), f.max, g.max)
    BY <1>1, BoundTells
  <2> QED BY <1>8, <2>1, TellsBoth
<1> HIDE DEF U8, V8, A8, B8
<1> DEFINE U9 == U8 \o FeedRegex(f.regex)
           V9 == V8 \o FeedRegex(g.regex)
           A9 == <<A8, f.regex>>
           B9 == <<B8, g.regex>>
<1>10. Tells(U9, V9, A9, B9)
  <2>1. Tells(FeedRegex(f.regex), FeedRegex(g.regex), f.regex, g.regex)
    BY <1>1, RegexTells
  <2> QED BY <1>9, <2>1, TellsBoth
<1> HIDE DEF U9, V9, A9, B9
<1> DEFINE U10 == U9 \o FeedEach(f.variants, Feed)
           V10 == V9 \o FeedEach(g.variants, Feed)
           A10 == <<A9, f.variants>>
           B10 == <<B9, g.variants>>
<1>11. Tells(U10, V10, A10, B10)
  <2>1. Tells(FeedEach(f.variants, Feed), FeedEach(g.variants, Feed), f.variants, g.variants)
    BY <1>1, VariantsTell
  <2> QED BY <1>10, <2>1, TellsBoth
<1> HIDE DEF U10, V10, A10, B10
<1>12. FeedField(f) = U10 /\ FeedField(g) = V10
  BY DEF FeedField, FeedRegex, U1, U2, U3, U4, U5, U6, U7, U8, U9, U10, V1, V2, V3, V4, V5, V6, V7, V8, V9, V10
<1>13. A10 = B10 => f = g
  <2>1. A10 = B10 =>
            /\ f.name = g.name /\ f.ty = g.ty /\ f.optional = g.optional /\ f.nullable = g.nullable
            /\ f.int = g.int /\ f.email = g.email /\ f.min = g.min /\ f.max = g.max
            /\ f.regex = g.regex /\ f.variants = g.variants
    BY DEF A1, A2, A3, A4, A5, A6, A7, A8, A9, A10, B1, B2, B3, B4, B5, B6, B7, B8, B9, B10
  <2> QED BY <2>1 DEF TypedField
<1> QED BY <1>11, <1>12, <1>13 DEF Tells

FieldWords == [f \in TypedField |-> FeedField(f)]

LEMMA FieldsDecode == Decodable(FieldWords) /\ DOMAIN FieldWords = TypedField
<1>1. \A f, g \in TypedField : Tells(FeedField(f), FeedField(g), f, g)
  BY FieldTells
<1>2. DOMAIN FieldWords = TypedField /\ \A f \in TypedField : FieldWords[f] = FeedField(f)
  BY DEF FieldWords
<1>3. \A f, g \in DOMAIN FieldWords : Tells(FieldWords[f], FieldWords[g], f, g)
  BY <1>1, <1>2
<1> QED BY <1>2, <1>3, TellsDecodes

FeedFields(s) == <<Len(s)>> \o FlattenSeq([n \in DOMAIN s |-> FeedField(s[n])])

LEMMA FieldsTell ==
    ASSUME NEW a, NEW b, a \in Seq(TypedField), b \in Seq(TypedField)
    PROVE  Tells(FeedFields(a), FeedFields(b), a, b)
<1>1. ASSUME NEW s, s \in Seq(TypedField)
      PROVE  FeedFields(s) = <<Len(s)>> \o Coding(FieldWords, s, Len(s))
  <2>1. [n \in DOMAIN s |-> FeedField(s[n])] = [n \in 1..Len(s) |-> FieldWords[s[n]]]
    BY <1>1 DEF FieldWords
  <2> QED BY <2>1 DEF Coding, FeedFields
<1>2. Tells(<<Len(a)>> \o Coding(FieldWords, a, Len(a)), <<Len(b)>> \o Coding(FieldWords, b, Len(b)), a, b)
  BY FieldsDecode, ListTells
<1>3. FeedFields(a) = <<Len(a)>> \o Coding(FieldWords, a, Len(a))
  BY <1>1
<1>4. FeedFields(b) = <<Len(b)>> \o Coding(FieldWords, b, Len(b))
  BY <1>1
<1> QED BY <1>2, <1>3, <1>4

FeedIndex(i) == Feed(i.field) \o FeedFlag(i.unique)

LEMMA IndexTells ==
    ASSUME NEW i, NEW j, i \in RawIndex, j \in RawIndex
    PROVE  Tells(FeedIndex(i), FeedIndex(j), i, j)
<1>1. /\ i.field \in ByteStrings /\ j.field \in ByteStrings /\ i.unique \in BOOLEAN /\ j.unique \in BOOLEAN
      /\ i.field = j.field /\ i.unique = j.unique => i = j
  BY DEF RawIndex
<1>2. Tells(Feed(i.field), Feed(j.field), i.field, j.field)
  BY <1>1, FeedTells
<1>3. Tells(FeedFlag(i.unique), FeedFlag(j.unique), i.unique, j.unique)
  BY <1>1, FlagTells
<1>4. Tells(FeedIndex(i), FeedIndex(j), <<i.field, i.unique>>, <<j.field, j.unique>>)
  BY <1>2, <1>3, TellsBoth DEF FeedIndex
<1>5. <<i.field, i.unique>> = <<j.field, j.unique>> => i = j
  BY <1>1
<1> QED BY <1>4, <1>5 DEF Tells

IndexWords == [i \in RawIndex |-> FeedIndex(i)]

LEMMA IndexesDecode == Decodable(IndexWords) /\ DOMAIN IndexWords = RawIndex
<1>1. \A i, j \in RawIndex : Tells(FeedIndex(i), FeedIndex(j), i, j)
  BY IndexTells
<1>2. DOMAIN IndexWords = RawIndex /\ \A i \in RawIndex : IndexWords[i] = FeedIndex(i)
  BY DEF IndexWords
<1>3. \A i, j \in DOMAIN IndexWords : Tells(IndexWords[i], IndexWords[j], i, j)
  BY <1>1, <1>2
<1> QED BY <1>2, <1>3, TellsDecodes

FeedIndexes(s) == <<Len(s)>> \o FlattenSeq([n \in DOMAIN s |-> FeedIndex(s[n])])

LEMMA IndexesTell ==
    ASSUME NEW a, NEW b, a \in Seq(RawIndex), b \in Seq(RawIndex)
    PROVE  Tells(FeedIndexes(a), FeedIndexes(b), a, b)
<1>1. ASSUME NEW s, s \in Seq(RawIndex)
      PROVE  FeedIndexes(s) = <<Len(s)>> \o Coding(IndexWords, s, Len(s))
  <2>1. [n \in DOMAIN s |-> FeedIndex(s[n])] = [n \in 1..Len(s) |-> IndexWords[s[n]]]
    BY <1>1 DEF IndexWords
  <2> QED BY <2>1 DEF Coding, FeedIndexes
<1>2. Tells(<<Len(a)>> \o Coding(IndexWords, a, Len(a)), <<Len(b)>> \o Coding(IndexWords, b, Len(b)), a, b)
  BY IndexesDecode, ListTells
<1>3. FeedIndexes(a) = <<Len(a)>> \o Coding(IndexWords, a, Len(a))
  BY <1>1
<1>4. FeedIndexes(b) = <<Len(b)>> \o Coding(IndexWords, b, Len(b))
  BY <1>1
<1> QED BY <1>2, <1>3, <1>4

TypedCollection == [idField : ByteStrings, fields : Seq(TypedField), indexes : Seq(RawIndex)]

LEMMA FeedCollectionIs ==
    ASSUME NEW name, NEW c
    PROVE  FeedCollection(name, c) =
               ((Feed(name) \o Feed(c.idField)) \o FeedFields(c.fields)) \o FeedIndexes(c.indexes)
BY DEF FeedCollection, FeedEach, FeedFields, FeedIndexes, FeedIndex

LEMMA CollectionTells ==
    ASSUME NEW a, NEW b, NEW c, NEW d, a \in ByteStrings, b \in ByteStrings,
           c \in TypedCollection, d \in TypedCollection
    PROVE  Tells(FeedCollection(a, c), FeedCollection(b, d), <<a, c>>, <<b, d>>)
<1>1. /\ c.idField \in ByteStrings /\ d.idField \in ByteStrings
      /\ c.fields \in Seq(TypedField) /\ d.fields \in Seq(TypedField)
      /\ c.indexes \in Seq(RawIndex) /\ d.indexes \in Seq(RawIndex)
      /\ c.idField = d.idField /\ c.fields = d.fields /\ c.indexes = d.indexes => c = d
  BY DEF TypedCollection
<1> DEFINE U1 == Feed(a) \o Feed(c.idField)
           V1 == Feed(b) \o Feed(d.idField)
           A1 == <<a, c.idField>>
           B1 == <<b, d.idField>>
<1>2. Tells(U1, V1, A1, B1)
  <2>1. Tells(Feed(a), Feed(b), a, b)
    BY FeedTells
  <2>2. Tells(Feed(c.idField), Feed(d.idField), c.idField, d.idField)
    BY <1>1, FeedTells
  <2> QED BY <2>1, <2>2, TellsBoth
<1> HIDE DEF U1, V1, A1, B1
<1> DEFINE U2 == U1 \o FeedFields(c.fields)
           V2 == V1 \o FeedFields(d.fields)
           A2 == <<A1, c.fields>>
           B2 == <<B1, d.fields>>
<1>3. Tells(U2, V2, A2, B2)
  <2>1. Tells(FeedFields(c.fields), FeedFields(d.fields), c.fields, d.fields)
    BY <1>1, FieldsTell
  <2> QED BY <1>2, <2>1, TellsBoth
<1> HIDE DEF U2, V2, A2, B2
<1>4. Tells(U2 \o FeedIndexes(c.indexes), V2 \o FeedIndexes(d.indexes), <<A2, c.indexes>>, <<B2, d.indexes>>)
  <2>1. Tells(FeedIndexes(c.indexes), FeedIndexes(d.indexes), c.indexes, d.indexes)
    BY <1>1, IndexesTell
  <2> QED BY <1>3, <2>1, TellsBoth
<1>5. <<A2, c.indexes>> = <<B2, d.indexes>> => <<a, c>> = <<b, d>>
  BY <1>1 DEF A1, B1, A2, B2
<1>6. /\ FeedCollection(a, c) = U2 \o FeedIndexes(c.indexes)
      /\ FeedCollection(b, d) = V2 \o FeedIndexes(d.indexes)
  BY FeedCollectionIs DEF U1, V1, U2, V2
<1> QED BY <1>4, <1>5, <1>6 DEF Tells

\* A collection feeds something.
LEMMA CollectionFeeds ==
    ASSUME NEW a, NEW c, a \in ByteStrings, c \in TypedCollection
    PROVE  FeedCollection(a, c) # <<>>
<1> DEFINE u == Feed(a)
           v == Feed(c.idField)
           w == FeedFields(c.fields)
           z == FeedIndexes(c.indexes)
<1>1. u \in Seq(Symbols) /\ v \in Seq(Symbols) /\ w \in Seq(Symbols) /\ z \in Seq(Symbols)
  <2>1. c.idField \in ByteStrings /\ c.fields \in Seq(TypedField) /\ c.indexes \in Seq(RawIndex)
    BY DEF TypedCollection
  <2> QED BY <2>1, FeedTells, FieldsTell, IndexesTell DEF Tells
<1>2. Len(u) # 0
  <2>1. <<Len(a)>> \in Seq(Nat) /\ a \in Seq(Nat)
    <3>1. Len(a) \in Nat /\ \A i \in 1..Len(a) : a[i] \in Nat
      BY BytesOfString
    <3>2. a \in Seq(Bytes)
      BY DEF ByteStrings
    <3>3. a \in Seq(Nat)
      BY <3>1, <3>2
    <3> QED BY <3>1, <3>3
  <2> QED BY <2>1 DEF Feed
<1>3. FeedCollection(a, c) = ((u \o v) \o w) \o z
  BY FeedCollectionIs
<1> HIDE DEF u, v, w, z
<1>4. u \o v \in Seq(Symbols) /\ Len(u \o v) # 0
  BY <1>1, <1>2
<1> DEFINE p == u \o v
<1> HIDE DEF p
<1>5. p \in Seq(Symbols) /\ Len(p) # 0
  BY <1>4 DEF p
<1>6. p \o w \in Seq(Symbols) /\ Len(p \o w) # 0
  BY <1>1, <1>5
<1> DEFINE q == p \o w
<1> HIDE DEF q
<1>7. q \in Seq(Symbols) /\ Len(q) # 0
  BY <1>6 DEF q
<1>8. Len(q \o z) # 0
  BY <1>1, <1>7
<1> QED BY <1>3, <1>8 DEF p, q

Continues(v, u) == \E z \in Seq(Symbols) : z # <<>> /\ v = u \o z

\* More words make a longer stream.
LEMMA CodingRest ==
    ASSUME NEW e, NEW s, NEW m, NEW n, m \in Nat, n \in Nat, m < n, Decodable(e),
           \A i \in 1..n : s[i] \in DOMAIN e, \A a \in DOMAIN e : e[a] # <<>>
    PROVE  Continues(Coding(e, s, n), Coding(e, s, m))
<1> DEFINE Longer(k) == \E z \in Seq(Symbols) : z # <<>> /\ Coding(e, s, k) = Coding(e, s, m) \o z
           T == {k \in (m + 1)..n : ~Longer(k)}
<1>0. Coding(e, s, m) \in Seq(Symbols)
  <2>1. \A i \in 1..m : s[i] \in DOMAIN e
    OBVIOUS
  <2> QED BY <2>1, CodingIs
<1>1. T = {}
  <2> SUFFICES ASSUME T # {} PROVE FALSE
    OBVIOUS
  <2>1. T \subseteq Nat /\ T \subseteq (m + 1)..n
    <3>1. T \subseteq (m + 1)..n
      OBVIOUS
    <3>2. (m + 1)..n \subseteq Nat
      OBVIOUS
    <3> HIDE DEF T
    <3> QED BY <3>1, <3>2
  <2>2. PICK k \in T : \A j \in T : k <= j
    <3> HIDE DEF T
    <3> QED BY <2>1, LeastNat
  <2>3. ~Longer(k)
    BY <2>2
  <2> HIDE DEF T
  <2>4. k \in (m + 1)..n /\ k \in Nat /\ k # 0
    BY <2>1, <2>2
  <2>p. PICK p : p = k - 1
    OBVIOUS
  <2>5. p \in Nat /\ k \in 1..n /\ p < k /\ m <= p
    BY <2>4, <2>p
  <2>6. Coding(e, s, k) = Coding(e, s, p) \o e[s[k]]
    <3>1. \A i \in 1..k : s[i] \in DOMAIN e
      BY <2>4
    <3> QED BY <2>4, <2>p, <3>1, CodingIs
  <2>w. PICK w : w = e[s[k]]
    OBVIOUS
  <2>7. w \in Seq(Symbols) /\ w # <<>>
    BY <2>5, <2>w DEF Decodable
  <2>8. CASE p = m
    BY <2>3, <2>6, <2>7, <2>8, <2>w
  <2>9. CASE p # m
    <3>1. p \in (m + 1)..n /\ p \notin T
      BY <2>2, <2>4, <2>5, <2>9
    <3>2. PICK z \in Seq(Symbols) : z # <<>> /\ Coding(e, s, p) = Coding(e, s, m) \o z
      BY <3>1 DEF T
    <3>3. z \o w \in Seq(Symbols) /\ z \o w # <<>>
      BY <2>7, <3>2
    <3>a. PICK a : a = Coding(e, s, m)
      OBVIOUS
    <3>4. Regroups(a, z, w)
      BY <1>0, <2>7, <3>a, Regroup
    <3>5. Coding(e, s, k) = a \o (z \o w)
      BY <2>6, <2>w, <3>2, <3>a, <3>4 DEF Regroups
    <3> QED BY <2>3, <3>3, <3>5, <3>a
  <2> QED BY <2>8, <2>9
<1>2. n \in (m + 1)..n
  OBVIOUS
<1> QED BY <1>1, <1>2 DEF Continues

\* No stream is two numbers of words.
LEMMA NoMoreWords ==
    ASSUME NEW e, NEW s, NEW t, NEW m, NEW n, m \in Nat, n \in Nat, m < n, Decodable(e),
           \A i \in 1..m : s[i] \in DOMAIN e, \A i \in 1..n : t[i] \in DOMAIN e,
           \A a \in DOMAIN e : e[a] # <<>>,
           Coding(e, s, m) = Coding(e, t, n)
    PROVE  FALSE
<1>1. PICK z \in Seq(Symbols) : z # <<>> /\ Coding(e, t, n) = Coding(e, t, m) \o z
  <2>1. Continues(Coding(e, t, n), Coding(e, t, m))
    BY CodingRest
  <2> QED BY <2>1 DEF Continues
<1>2. \A i \in 1..m : s[i] \in DOMAIN e /\ t[i] \in DOMAIN e
  OBVIOUS
<1>3. Coding(e, s, m) \in Seq(Symbols)
  BY <1>2, CodingIs
<1>4. Coding(e, s, m) \o <<>> = Coding(e, s, m) /\ <<>> \in Seq(Symbols)
  BY <1>3
<1>x. PICK x : x = <<>>
  OBVIOUS
<1>5. Meet(Coding(e, s, m), x, Coding(e, t, m), z) /\ x \in Seq(Symbols) /\ z \in Seq(Symbols)
  BY <1>1, <1>4, <1>x DEF Meet
<1>6. SameUpTo(s, t, m) /\ x = z
  BY <1>2, <1>5, WordsTold
<1> QED BY <1>1, <1>6, <1>x

CollectionWords == [p \in ByteStrings \X TypedCollection |-> FeedCollection(p[1], p[2])]

LEMMA CollectionsDecode ==
    /\ Decodable(CollectionWords) /\ DOMAIN CollectionWords = ByteStrings \X TypedCollection
    /\ \A p \in DOMAIN CollectionWords : CollectionWords[p] # <<>>
<1>1. DOMAIN CollectionWords = ByteStrings \X TypedCollection
  BY DEF CollectionWords
<1>2. ASSUME NEW p \in DOMAIN CollectionWords, NEW q \in DOMAIN CollectionWords
      PROVE  Tells(CollectionWords[p], CollectionWords[q], p, q) /\ CollectionWords[p] # <<>>
  <2>1. PICK a, c : p = <<a, c>> /\ a \in ByteStrings /\ c \in TypedCollection
    BY <1>1
  <2>2. PICK b, d : q = <<b, d>> /\ b \in ByteStrings /\ d \in TypedCollection
    BY <1>1
  <2>3. CollectionWords[p] = FeedCollection(a, c) /\ CollectionWords[q] = FeedCollection(b, d)
    BY <2>1, <2>2 DEF CollectionWords
  <2>4. Tells(FeedCollection(a, c), FeedCollection(b, d), <<a, c>>, <<b, d>>)
    BY <2>1, <2>2, CollectionTells
  <2>5. FeedCollection(a, c) # <<>>
    BY <2>1, CollectionFeeds
  <2> QED BY <2>1, <2>2, <2>3, <2>4, <2>5
<1>3. \A p, q \in DOMAIN CollectionWords : Tells(CollectionWords[p], CollectionWords[q], p, q)
  BY <1>2
<1>4. Decodable(CollectionWords)
  BY <1>3, TellsDecodes
<1> QED BY <1>1, <1>2, <1>4

\* What compiles has the typed form.
LEMMA SchemaTyped ==
    ASSUME NEW S, SchemaOK(S)
    PROVE  S = [c \in DOMAIN S |-> S[c]] /\ \A c \in DOMAIN S : S[c] \in TypedCollection
<1>1. PICK raw \in Descriptors : Compiles(raw) /\ S = compile(raw)
  BY DEF SchemaOK
<1>2. S = [c \in DOMAIN S |-> S[c]]
  BY <1>1 DEF compile
<1>3. ASSUME NEW c \in DOMAIN S PROVE S[c] \in TypedCollection
  <2>1. PICK fields \in Seq(RawField) :
            /\ S[c].fields = compile_fields(fields)
            /\ \A n \in DOMAIN fields : TypeParses(fields[n].ty)
    BY SchemaShape
  <2>2. ASSUME NEW n \in DOMAIN fields PROVE compile_fields(fields)[n] \in TypedField
    <3>1. fields[n] \in RawField
      BY <2>1
    <3>2. ParsedType(fields[n].ty) \in TypedType
      <4>1. fields[n].ty \in Seq(STRING)
        BY <3>1 DEF RawField
      <4>2. TypeParses(fields[n].ty)
        BY <2>1, <2>2
      <4> QED BY <4>1, <4>2, ParsedIsTyped DEF TypedType
    <3>3. compile_fields(fields)[n] = [fields[n] EXCEPT !.ty = ParsedType(@)]
      BY DEF compile_fields
    <3> QED BY <3>1, <3>2, <3>3 DEF RawField, TypedField
  <2>3. S[c].fields \in Seq(TypedField)
    <3>1. /\ DOMAIN compile_fields(fields) = DOMAIN fields
          /\ compile_fields(fields) = [n \in DOMAIN fields |-> compile_fields(fields)[n]]
      BY DEF compile_fields
    <3>2. DOMAIN fields = 1..Len(fields) /\ Len(fields) \in Nat
      BY <2>1
    <3>f. PICK g : g = compile_fields(fields)
      OBVIOUS
    <3>3. g = [n \in 1..Len(fields) |-> g[n]] /\ \A n \in 1..Len(fields) : g[n] \in TypedField
      BY <2>2, <3>1, <3>2, <3>f
    <3>4. g \in Seq(TypedField)
      BY <3>2, <3>3
    <3> QED BY <2>1, <3>4, <3>f
  <2>4. S[c].idField \in ByteStrings /\ S[c].indexes \in Seq(RawIndex)
    BY SchemaShape
  <2>5. S[c] = [idField |-> S[c].idField, fields |-> S[c].fields, indexes |-> S[c].indexes]
    <3>1. raw[c] \in RawCollection /\ c \in DOMAIN raw
      <4>1. DOMAIN S = DOMAIN raw
        BY <1>1 DEF compile
      <4> QED BY <4>1, StoreAssumption DEF IsDescriptor
    <3>2. S[c] = [raw[c] EXCEPT !.fields = compile_fields(@)]
      BY <1>1, <3>1 DEF compile
    <3> QED BY <3>1, <3>2 DEF RawCollection
  <2> QED BY <2>3, <2>4, <2>5 DEF TypedCollection
<1> QED BY <1>2, <1>3

\* The streams of two schemas tell them apart.
LEMMA HashTellsSchemas ==
    ASSUME NEW S, NEW R, SchemaOK(S), SchemaOK(R), schema_hash(S) = schema_hash(R)
    PROVE  S = R
<1> DEFINE names(Q) == InOrder(DOMAIN Q)
           list(Q) == [i \in 1..Cardinality(DOMAIN Q) |-> <<names(Q)[i], Q[names(Q)[i]]>>]
           size(Q) == Cardinality(DOMAIN Q)
<1>1. ASSUME NEW Q, SchemaOK(Q)
      PROVE  /\ size(Q) \in Nat
             /\ \A i \in 1..size(Q) : names(Q)[i] \in DOMAIN Q
             /\ \A c \in DOMAIN Q : \E i \in 1..size(Q) : names(Q)[i] = c
             /\ \A i \in 1..size(Q) : list(Q)[i] \in DOMAIN CollectionWords
             /\ schema_hash(Q) = Coding(CollectionWords, list(Q), size(Q))
  <2>1. IsFiniteSet(DOMAIN Q) /\ DOMAIN Q \subseteq ByteStrings
    BY <1>1, SchemaShape
  <2>2. /\ size(Q) \in Nat
        /\ DOMAIN names(Q) = 1..size(Q)
        /\ \A i \in 1..size(Q) : names(Q)[i] \in DOMAIN Q
        /\ \A c \in DOMAIN Q : \E i \in 1..size(Q) : names(Q)[i] = c
    BY <2>1, InOrderLists, FS_CardinalityType
  <2>3. \A c \in DOMAIN Q : Q[c] \in TypedCollection
    BY <1>1, SchemaTyped
  <2>4. ASSUME NEW i \in 1..size(Q)
        PROVE  /\ list(Q)[i] \in DOMAIN CollectionWords
               /\ CollectionWords[list(Q)[i]] = FeedCollection(names(Q)[i], Q[names(Q)[i]])
    <3>1. names(Q)[i] \in ByteStrings /\ Q[names(Q)[i]] \in TypedCollection
      BY <2>1, <2>2, <2>3
    <3>2. list(Q)[i] = <<names(Q)[i], Q[names(Q)[i]]>>
      OBVIOUS
    <3> HIDE DEF list, names
    <3> QED BY <3>1, <3>2 DEF CollectionWords
  <2>5. schema_hash(Q) = FlattenSeq([i \in DOMAIN names(Q) |-> FeedCollection(names(Q)[i], Q[names(Q)[i]])])
    BY DEF schema_hash
  <2>6. [i \in DOMAIN names(Q) |-> FeedCollection(names(Q)[i], Q[names(Q)[i]])] =
            [i \in 1..size(Q) |-> CollectionWords[list(Q)[i]]]
    <3> HIDE DEF list, names, size
    <3> QED BY <2>2, <2>4
  <2> HIDE DEF list, names, size
  <2> QED BY <2>2, <2>4, <2>5, <2>6 DEF Coding
<1>p. PICK m, n, s, t : m = size(S) /\ n = size(R) /\ s = list(S) /\ t = list(R)
  OBVIOUS
<1>2. /\ m \in Nat /\ \A i \in 1..m : s[i] \in DOMAIN CollectionWords
      /\ schema_hash(S) = Coding(CollectionWords, s, m)
  <2> HIDE DEF list, size, names
  <2> QED BY <1>1, <1>p
<1>3. /\ n \in Nat /\ \A i \in 1..n : t[i] \in DOMAIN CollectionWords
      /\ schema_hash(R) = Coding(CollectionWords, t, n)
  <2> HIDE DEF list, size, names
  <2> QED BY <1>1, <1>p
<1>4. Coding(CollectionWords, s, m) = Coding(CollectionWords, t, n)
  BY <1>2, <1>3
<1>5. Decodable(CollectionWords) /\ \A p \in DOMAIN CollectionWords : CollectionWords[p] # <<>>
  BY CollectionsDecode
<1>6. ~(m < n)
  BY <1>2, <1>3, <1>4, <1>5, NoMoreWords
<1>7. ~(n < m)
  BY <1>2, <1>3, <1>4, <1>5, NoMoreWords
<1>8. m = n
  BY <1>2, <1>3, <1>6, <1>7
<1>9. SameUpTo(s, t, m)
  <2>1. Meet(Coding(CollectionWords, s, m), <<>>, Coding(CollectionWords, t, m), <<>>)
    BY <1>4, <1>8 DEF Meet
  <2>2. \A i \in 1..m : s[i] \in DOMAIN CollectionWords /\ t[i] \in DOMAIN CollectionWords
    BY <1>2, <1>3, <1>8
  <2>3. <<>> \in Seq(Symbols)
    OBVIOUS
  <2> QED BY <1>2, <1>5, <2>1, <2>2, <2>3, WordsTold
<1>10. \A i \in 1..m : names(S)[i] = names(R)[i] /\ S[names(S)[i]] = R[names(R)[i]]
  <2> SUFFICES ASSUME NEW i \in 1..m
               PROVE  names(S)[i] = names(R)[i] /\ S[names(S)[i]] = R[names(R)[i]]
    OBVIOUS
  <2>1. s[i] = <<names(S)[i], S[names(S)[i]]>>
    BY <1>p
  <2>2. t[i] = <<names(R)[i], R[names(R)[i]]>>
    BY <1>p, <1>8
  <2>3. s[i] = t[i]
    BY <1>9 DEF SameUpTo
  <2> HIDE DEF names
  <2> QED BY <2>1, <2>2, <2>3
<1>11. DOMAIN S = DOMAIN R /\ \A c \in DOMAIN S : S[c] = R[c]
  <2>1. /\ \A i \in 1..m : names(S)[i] \in DOMAIN S
        /\ \A c \in DOMAIN S : \E i \in 1..m : names(S)[i] = c
    <3> HIDE DEF names, list
    <3> QED BY <1>1, <1>p
  <2>2. /\ \A i \in 1..m : names(R)[i] \in DOMAIN R
        /\ \A c \in DOMAIN R : \E i \in 1..m : names(R)[i] = c
    <3> HIDE DEF names, list
    <3> QED BY <1>1, <1>p, <1>8
  <2> HIDE DEF names
  <2> QED BY <1>10, <2>1, <2>2
<1>12. S = [c \in DOMAIN S |-> S[c]] /\ R = [c \in DOMAIN R |-> R[c]]
  BY SchemaTyped
<1> QED BY <1>11, <1>12

\* For any descriptors, two schemas that compile to different forms have
\* different hashes, whatever their collections, fields and indexes feed.
THEOREM HashesTellApart == Spec => []SameHashSameSchema
<1>1. IInv => SameHashSameSchema
  <2> SUFFICES ASSUME IInv, NEW raw \in Descriptors, Compiles(raw),
                      schema_hash(compile(raw)) = schema_hash(ir)
               PROVE  compile(raw) = ir
    BY DEF SameHashSameSchema
  <2>1. SchemaOK(compile(raw)) /\ SchemaOK(ir)
    BY DEF IInv, SchemaOK
  <2> QED BY <2>1, HashTellsSchemas
<1> QED BY <1>1, StoreInvariant, PTL
=============================================================================
