----------------------------- MODULE TypedStore -----------------------------
(***************************************************************************)
(* Several collections of one schema in the two tables of the database,    *)
(* down to the bytes of their keys: inserts of validated documents,        *)
(* queries with sort, offset and limit, deletes, and the migration ledger, *)
(* which lives in the same table.                                          *)
(*                                                                         *)
(* One call at a time (Collection has the interleavings); documents are    *)
(* stored and decoded as they are (IdentityCodec).                         *)
(***************************************************************************)
EXTENDS QueryOptions

CONSTANTS
    APPLIED_KEY, \* the key of the ledger in the collection _meta
    Descriptors, \* schemas the database may be opened with, good or bad
    Documents,   \* what callers try to insert, good or bad
    Ledgers,     \* contents of the migration ledger
    Sorts,       \* sorts callers ask for
    PageSizes,   \* limits of callers who turn pages
    Text(_)      \* what serde_json writes for a number

Values ==
    [is : {"string"}, str : ByteStrings] \cup [is : {"boolean"}, bool : BOOLEAN]
    \cup [is : {"number"}, kind : {"int"}, num : Int, half : {FALSE}]
    \cup [is : {"number"}, kind : {"float"}, num : Int, half : BOOLEAN]
    \cup [is : {"null"}]

\* A JSON object; only what the validation sees of the items of an array.
IsDocument(doc) ==
    /\ DOMAIN doc \subseteq ByteStrings
    /\ \A f \in DOMAIN doc :
           \/ doc[f] \in Values /\ (doc[f].is = "number" => Text(doc[f]) \in Seq(1..255))
           \/ doc[f].is = "array"

ASSUME StoreAssumption ==
    /\ ValidCollection(Meta) /\ APPLIED_KEY \in ByteStrings
    /\ \A raw \in Descriptors : IsDescriptor(raw)
    /\ \A doc \in Documents : IsDocument(doc)
    /\ \A sort \in Sorts : sort \in Seq([field : ByteStrings, dir : {"asc", "desc"}])
    /\ PageSizes \subseteq Nat \ {0}

VARIABLES
    ir,      \* the compiled schema
    entries, \* table `entries`: composite key to document or ledger
    index,   \* table `index_entries`: index key to id
    held,    \* history: what each collection should hold
    recorded \* history: what was last recorded in the ledger

vars == <<ir, entries, index, held, recorded>>

NoTable == [key \in {} |-> 0]

Put(table, key, val) ==
    [k \in DOMAIN table \cup {key} |-> IF k = key THEN val ELSE table[k]]

RangeOf(table, lo, hi) == [k \in {l \in DOMAIN table : InRange(l, lo, hi)} |-> table[k]]

\* What a table holds, in the order of its keys.
InKeyOrder(table) ==
    LET keys == InOrder(DOMAIN table) IN [n \in DOMAIN keys |-> table[keys[n]]]

\* META_COLLECTION and APPLIED_KEY.
LedgerKey == encode_key(Meta, APPLIED_KEY)

Init ==
    /\ \E raw \in Descriptors : Compiles(raw) /\ ir = compile(raw)
    /\ entries = NoTable
    /\ index = NoTable
    /\ held = [c \in DOMAIN ir |-> {}]
    /\ recorded = {}
-----------------------------------------------------------------------------
(* Index entries.                                                          *)

\* Numbers by their text: 1 and 1.0 are two values.
encode_index_value(v) ==
    CASE v.is = "string" -> v.str
      [] v.is = "boolean" -> IF v.bool THEN <<1>> ELSE <<0>>
      [] v.is = "number" -> Text(v)
      [] OTHER -> <<0, 110>>

\* The ids, under their index keys.
lookup_eq(c, f, v) ==
    RangeOf(index, IndexLower(c, f, encode_index_value(v)), IndexUpper(c, f, encode_index_value(v)))

index_value_exists_writing(c, f, v) == DOMAIN lookup_eq(c, f, v) # {}

KeysOfDoc(c, doc) ==
    {index_key(c, ir[c].indexes[n].field, encode_index_value(doc[ir[c].indexes[n].field]),
               doc[ir[c].idField].str) : n \in DOMAIN ir[c].indexes}
-----------------------------------------------------------------------------
(* Queries. A filter is an equality on one field, or none.                 *)

NoFilter == [field |-> <<>>]

matches(doc, flt) ==
    flt = NoFilter \/ (flt.field \in DOMAIN doc /\ doc[flt.field] = flt.value)

\* Every operation on the rows of a collection refuses a name that is empty or
\* has a NUL; a caller who gets the error has no documents.
list_collection(c) ==
    IF ValidCollection(c) THEN RangeOf(entries, collection_prefix_lower(c), collection_prefix_upper(c))
    ELSE NoTable

\* The rows of some ids, those that are there.
fetch(c, ids) ==
    [k \in {l \in DOMAIN ids : ValidCollection(c) /\ encode_key(c, ids[l]) \in DOMAIN entries} |->
        entries[encode_key(c, ids[k])]]

\* Documents under the keys they are found by: one get, a lookup with the rows
\* that are there, or a scan.
candidates(c, flt) ==
    IF flt # NoFilter /\ flt.field = ir[c].idField /\ flt.value.is = "string"
    THEN fetch(c, [k \in {encode_key(c, flt.value.str)} |-> flt.value.str])
    ELSE IF flt # NoFilter /\ \E n \in DOMAIN ir[c].indexes : ir[c].indexes[n].field = flt.field
    THEN fetch(c, lookup_eq(c, flt.field, flt.value))
    ELSE list_collection(c)

matched(c, flt) ==
    LET docs == candidates(c, flt)
    IN  InKeyOrder([k \in {l \in DOMAIN docs : matches(docs[l], flt)} |-> docs[k]])
-----------------------------------------------------------------------------
\* A document that does not validate, has no id or one with a NUL, takes a value
\* of a unique index, or has no key in its collection leaves nothing behind.
Insertable(c, doc) ==
    /\ validate_document(ir[c], doc)
    /\ ir[c].idField \in DOMAIN doc /\ doc[ir[c].idField].is = "string"
    /\ NulFree(doc[ir[c].idField].str)
    /\ \A n \in DOMAIN ir[c].indexes :
           LET i == ir[c].indexes[n] IN
               i.unique => ~index_value_exists_writing(c, i.field, doc[i.field])
    /\ ValidCollection(c)

\* Entries of an overwritten document stay in the index.
insert(c, doc) ==
    /\ Insertable(c, doc)
    /\ LET id == doc[ir[c].idField].str IN
           /\ entries' = Put(entries, encode_key(c, id), doc)
           /\ index' = [k \in DOMAIN index \cup KeysOfDoc(c, doc) |->
                            IF k \in KeysOfDoc(c, doc) THEN id ELSE index[k]]
           /\ held' = [held EXCEPT ![c] = {d \in @ : d[ir[c].idField].str # id} \cup {doc}]
    /\ UNCHANGED <<ir, recorded>>

\* delete: the victims that were found, with their index entries.
delete(c, flt) ==
    LET found   == matched(c, flt)
        victims == {found[n] : n \in DOMAIN found}
        rows    == {encode_key(c, d[ir[c].idField].str) : d \in victims}
        keys    == UNION {KeysOfDoc(c, d) : d \in victims}
    IN  /\ victims # {}
        /\ entries' = [k \in DOMAIN entries \ rows |-> entries[k]]
        /\ index' = [k \in DOMAIN index \ keys |-> index[k]]
        /\ held' = [held EXCEPT ![c] = {d \in @ : ~matches(d, flt)}]
        /\ UNCHANGED <<ir, recorded>>

\* Runner::run writes the ledger as a row of _meta.
record(ledger) ==
    /\ recorded \subseteq ledger
    /\ entries' = Put(entries, LedgerKey, [is |-> "ledger", of |-> ledger])
    /\ recorded' = ledger
    /\ UNCHANGED <<ir, index, held>>

Filters(c) ==
    {NoFilter} \cup
    UNION {{[field |-> f, value |-> doc[f]] :
               f \in {ir[c].fields[n].name : n \in DOMAIN ir[c].fields} \cap DOMAIN doc} :
              doc \in Documents}

Next ==
    \/ \E c \in DOMAIN ir :
           \/ \E doc \in Documents : insert(c, doc)
           \/ \E flt \in Filters(c) : delete(c, flt)
    \/ \E ledger \in Ledgers : record(ledger)

Spec == Init /\ [][Next]_vars
-----------------------------------------------------------------------------
\* Every variable has its type: rows are validated documents under their ids,
\* or the ledger, and an indexed field of a document is there and a scalar.
TypeOK ==
    /\ \E raw \in Descriptors : ir = compile(raw)
    /\ DOMAIN held = DOMAIN ir
    /\ \A c \in DOMAIN ir : \A doc \in held[c] :
           /\ doc \in Documents
           /\ doc[ir[c].idField].is = "string"
           /\ \A n \in DOMAIN ir[c].indexes :
                  /\ ir[c].indexes[n].field \in DOMAIN doc
                  /\ doc[ir[c].indexes[n].field].is \in {"string", "number", "boolean"}
    /\ \A key \in DOMAIN entries \ {LedgerKey} :
           \E c \in DOMAIN ir : \E doc \in held[c] :
               key = encode_key(c, doc[ir[c].idField].str) /\ entries[key] = doc
    /\ \A key \in DOMAIN index : NulFree(index[key])

\* A scan of a collection reads exactly the documents inserted into that
\* collection and not deleted, in the order of their ids, whatever the names
\* of its neighbours in the table; and no collection reaches the ledger.
ScanIsExact ==
    /\ \A c \in DOMAIN ir :
           LET rows  == InKeyOrder(list_collection(c))
               id(n) == rows[n][ir[c].idField].str
           IN  /\ {rows[n] : n \in DOMAIN rows} = held[c]
               /\ \A m, n \in DOMAIN rows : m < n => Before(id(m), id(n))
    /\ recorded # {} => entries[LedgerKey] = [is |-> "ledger", of |-> recorded]

\* Index keys join their parts with NULs. Names of collections and ids have none;
\* names of indexed fields and strings in them are not checked, and are taken to
\* have none.
IndexedNulFree ==
    \A raw \in Descriptors : \A c \in DOMAIN raw : \A n \in DOMAIN raw[c].indexes :
        LET f == raw[c].indexes[n].field IN
            /\ NulFree(f)
            /\ \A doc \in Documents :
                   f \in DOMAIN doc /\ doc[f].is = "string" => NulFree(doc[f].str)

\* An equality finds exactly the documents of the collection that have the
\* value, each once, whichever way the candidates are found: by id, through
\* an index with its left-over entries, or in a scan; and one document at most
\* by the value of a unique index.
LookupsAreExact ==
    \A c \in DOMAIN ir : \A flt \in Filters(c) :
        LET found == matched(c, flt) IN
            /\ {found[n] : n \in DOMAIN found} = {d \in held[c] : matches(d, flt)}
            /\ Len(found) = Cardinality({d \in held[c] : matches(d, flt)})
            /\ flt # NoFilter => \A n \in DOMAIN ir[c].indexes :
                   ir[c].indexes[n].field = flt.field /\ ir[c].indexes[n].unique => Len(found) <= 1

ValidSorts(c) == {s \in Sorts : validate_sort_fields(ir[c], [sort |-> s])}

\* All the documents of a collection, each once, in the order of a sort.
ListsAll(c, sort, all) ==
    /\ {all[n] : n \in DOMAIN all} = held[c] /\ Len(all) = Cardinality(held[c])
    /\ sort # <<>> => \A m, n \in DOMAIN all : m < n =>
                          CmpDocs([sort |-> sort], ir[c].idField, all[m], all[n]) = -1

\* The items of a list behind those that come before, as many as fit.
IsPage(page, before, size, all) ==
    \A k \in 1..size :
        /\ k \in DOMAIN page <=> before + k \in DOMAIN all
        /\ k \in DOMAIN page => page[k] = all[before + k]

\* A query returns all the documents of the collection, each once, in the order
\* asked for; a reader who turns its pages sees it item by item and without a
\* gap, for every page size; and count tells how many documents a page has.
PagesPartition ==
    \A c \in DOMAIN ir : \A sort \in ValidSorts(c), size \in PageSizes :
        LET docs      == matched(c, NoFilter)
            find(l,o) == apply([sort |-> sort, limit |-> l, offset |-> o], ir[c].idField, docs)
            all       == find(NoLimit, 0)
        IN  /\ ListsAll(c, sort, all)
            /\ \A n \in 1..(Len(docs) + 1) :
                   LET before == (n - 1) * size
                       page   == find(size, before)
                   IN  /\ Len(page) = CountAfter([limit |-> size, offset |-> before], Len(docs))
                       /\ IsPage(page, before, size, all)

\* A float and an integer are compared as floats, which is exact for the integers
\* that have one, as those of JavaScript.
MixedExact ==
    \A a, b \in Documents : \A f \in DOMAIN a, g \in DOMAIN b :
        a[f].is = "number" /\ b[g].is = "number" /\ a[f].kind # b[g].kind =>
            cmp_numbers(a[f], b[g]) = CmpInts(Halves(a[f]), Halves(b[g]))

\* The order of a sort is total on the documents of a collection, so that the
\* same documents always come in the same order; those without a value are
\* last in both directions.
OrderIsTotal ==
    \A c \in DOMAIN ir : \A sort \in ValidSorts(c) \ {<<>>} :
        LET Cmp(a, b) == CmpDocs([sort |-> sort], ir[c].idField, a, b) IN
            \A a, b \in held[c] :
                /\ Cmp(a, b) = 0 <=> a = b
                /\ Cmp(a, b) = -Cmp(b, a)
                /\ is_absent(a, sort[1].field) /\ ~is_absent(b, sort[1].field) => Cmp(a, b) = 1
                /\ \A d \in held[c] : Cmp(a, b) = -1 /\ Cmp(b, d) = -1 => Cmp(a, d) = -1

\* Another schema never has the hash of the one the database is open with.
SameHashSameSchema ==
    \A raw \in Descriptors :
        Compiles(raw) /\ schema_hash(compile(raw)) = schema_hash(ir) => compile(raw) = ir
=============================================================================
