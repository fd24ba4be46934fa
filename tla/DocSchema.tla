----------------------------- MODULE DocSchema ------------------------------
(***************************************************************************)
(* Schemas and the validation of documents.                                *)
(*                                                                         *)
(* A descriptor, what the builders of the TypeScript side send, maps names *)
(* of collections to [idField, fields, indexes]; compiling it either fails *)
(* or gives the typed form every insert is validated against. A field type *)
(* of a descriptor is the sequence of its nested descriptors' types, as    *)
(* <<"array", "array", "string">>: <<"array">> has no items, and a scalar  *)
(* may have items too. A value is a record tagged with its JSON type; a    *)
(* number is an integer or a float, and num plus a half when it has a      *)
(* fraction.                                                               *)
(***************************************************************************)
EXTENDS Integers, Keyspace, SequencesExt

CONSTANTS
    Meta,     \* the collection _meta of the migration ledger
    NoBound,  \* no min, no max
    NoRegex   \* no pattern; a pattern is the set of the strings it matches

ASSUME SchemaAssumption == Meta \in ByteStrings

RawField ==
    [name : ByteStrings, ty : Seq(STRING), optional : BOOLEAN, nullable : BOOLEAN, int : BOOLEAN,
     email : BOOLEAN, min : {NoBound} \cup Int, max : {NoBound} \cup Int,
     regex : {NoRegex} \cup SUBSET ByteStrings, variants : Seq(ByteStrings)]

RawIndex == [field : ByteStrings, unique : BOOLEAN]

RawCollection == [idField : ByteStrings, fields : Seq(RawField), indexes : Seq(RawIndex)]

\* What serde reads from the descriptor of the TypeScript side.
IsDescriptor(raw) ==
    /\ IsFiniteSet(DOMAIN raw) /\ DOMAIN raw \subseteq ByteStrings
    /\ raw \in [DOMAIN raw -> RawCollection]

ScalarTypes == {"id", "string", "number", "boolean", "enum", "date"}

\* The recursion ends at the first type that is no array and does not look at
\* what it has for items.
Innermost(t, n) == t[n] # "array" /\ \A m \in 1..(n - 1) : t[m] = "array"

TypeParses(t) ==
    \E n \in DOMAIN t :
        Innermost(t, n) /\ t[n] \in ScalarTypes /\ (n > 1 => t[n] # "id")

ParsedType(t) ==
    LET n == CHOOSE m \in DOMAIN t : Innermost(t, m) IN [base |-> t[n], depth |-> n - 1]

compile_fields(fields) ==
    [n \in DOMAIN fields |-> [fields[n] EXCEPT !.ty = ParsedType(@)]]

\* CollectionIr::field: the first field of that name.
HasField(fields, name) == \E n \in DOMAIN fields : fields[n].name = name
field(fields, name) ==
    fields[CHOOSE n \in DOMAIN fields :
               /\ fields[n].name = name
               /\ \A m \in 1..(n - 1) : fields[m].name # name]

HasIdField(c, fields) ==
    \E n \in DOMAIN fields :
        fields[n].name = c.idField /\ fields[n].ty = [base |-> "id", depth |-> 0]

\* MUTANT: a field that may be null can be indexed.
IndexCompilesNullable(fields, i) ==
    /\ HasField(fields, i.field)
    /\ field(fields, i.field).ty.depth = 0

IndexCompiles(fields, i) ==
    /\ HasField(fields, i.field)
    /\ LET f == field(fields, i.field) IN ~f.optional /\ ~f.nullable /\ f.ty.depth = 0

CollectionCompiles(c) ==
    /\ \A n \in DOMAIN c.fields : TypeParses(c.fields[n].ty)
    /\ LET fields == compile_fields(c.fields) IN
           HasIdField(c, fields) /\ \A n \in DOMAIN c.indexes : IndexCompiles(fields, c.indexes[n])

Compiles(raw) == Meta \notin DOMAIN raw /\ \A name \in DOMAIN raw : CollectionCompiles(raw[name])

compile(raw) ==
    [name \in DOMAIN raw |-> [raw[name] EXCEPT !.fields = compile_fields(@)]]
-----------------------------------------------------------------------------
(* schema_hash: SHA-256, taken to be injective, of a stream of bytes. A    *)
(* length or a bound is one element of it.                                 *)

Feed(bytes) == <<Len(bytes)>> \o bytes
FeedFlag(b) == <<IF b THEN 1 ELSE 0>>
FeedBound(m) == IF m = NoBound THEN <<0>> ELSE <<1, m>>

Marker == [id |-> 1, string |-> 2, number |-> 3, boolean |-> 4, date |-> 5, enum |-> 6]
feed_field_type(ty) == [n \in 1..ty.depth |-> 16] \o <<Marker[ty.base]>>

FeedEach(s, Fed(_)) == <<Len(s)>> \o FlattenSeq([n \in DOMAIN s |-> Fed(s[n])])

\* MUTANT: how many variants there are is not fed.
FeedFieldUncounted(f) ==
    Feed(f.name) \o feed_field_type(f.ty)
    \o FeedFlag(f.optional) \o FeedFlag(f.nullable) \o FeedFlag(f.int) \o FeedFlag(f.email)
    \o FeedBound(f.min) \o FeedBound(f.max)
    \o (IF f.regex = NoRegex THEN <<0>> ELSE <<1, f.regex>>)
    \o FlattenSeq([n \in DOMAIN f.variants |-> Feed(f.variants[n])])

FeedField(f) ==
    Feed(f.name) \o feed_field_type(f.ty)
    \o FeedFlag(f.optional) \o FeedFlag(f.nullable) \o FeedFlag(f.int) \o FeedFlag(f.email)
    \o FeedBound(f.min) \o FeedBound(f.max)
    \o (IF f.regex = NoRegex THEN <<0>> ELSE <<1, f.regex>>)
    \o FeedEach(f.variants, Feed)

FeedCollection(name, c) ==
    Feed(name) \o Feed(c.idField)
    \o FeedEach(c.fields, FeedField)
    \o FeedEach(c.indexes, LAMBDA i : Feed(i.field) \o FeedFlag(i.unique))

\* Collections come in the order of their names, whatever the descriptor's.
schema_hash(ir) ==
    LET names == InOrder(DOMAIN ir)
    IN  FlattenSeq([n \in DOMAIN names |-> FeedCollection(names[n], ir[names[n]])])
-----------------------------------------------------------------------------
(* validate_document.                                                      *)

Halves(v) == 2 * v.num + IF v.half THEN 1 ELSE 0

Within(f, halves) ==
    /\ f.min # NoBound => ~(halves < 2 * f.min)
    /\ f.max # NoBound => ~(halves > 2 * f.max)

AT == 64

\* chars().count(): Unicode scalar values, not bytes. In UTF-8 a byte of 128 to
\* 191 continues a character.
Chars(s) == Cardinality({n \in DOMAIN s : s[n] \notin 128..191})

CheckScalar(base, f, v) ==
    CASE base \in {"id", "string"} ->
             /\ v.is = "string"
             /\ Within(f, 2 * Chars(v.str))
             /\ f.email => \E n \in DOMAIN v.str : v.str[n] = AT
             /\ f.regex # NoRegex => v.str \in f.regex
      [] base = "number" ->
             /\ v.is = "number"
             /\ f.int => ~v.half
             /\ Within(f, Halves(v))
      [] base = "boolean" -> v.is = "boolean"
      [] base = "enum" -> v.is = "string" /\ \E n \in DOMAIN f.variants : f.variants[n] = v.str
      [] base = "date" -> v.is = "string"

\* The items of an array are checked with the constraints of its field.
check_value(ty, f, v) ==
    LET Level[n \in 0..ty.depth] ==
            IF n = 0 THEN {v}
            ELSE UNION {{x.items[k] : k \in DOMAIN x.items} :
                           x \in {y \in Level[n - 1] : y.is = "array"}}
    IN  /\ \A n \in 0..(ty.depth - 1) : \A x \in Level[n] : x.is = "array"
        /\ \A x \in Level[ty.depth] : CheckScalar(ty.base, f, x)

validate_document(c, doc) ==
    /\ \A name \in DOMAIN doc : HasField(c.fields, name)
    /\ \A n \in DOMAIN c.fields :
           LET f == c.fields[n] IN
               IF f.name \notin DOMAIN doc THEN f.optional
               ELSE IF doc[f.name].is = "null" THEN f.nullable
               ELSE check_value(f.ty, f, doc[f.name])
=============================================================================
