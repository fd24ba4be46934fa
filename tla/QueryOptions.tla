---------------------------- MODULE QueryOptions ----------------------------
(***************************************************************************)
(* Sort, offset and limit of a query.                                      *)
(*                                                                         *)
(* Options are [sort, limit, offset]; sort lists fields with directions,   *)
(* the first one first. An ordering is -1, 0 or 1.                         *)
(***************************************************************************)
EXTENDS DocSchema

CONSTANTS
    NoLimit,  \* all that is left after the offset
    Exact     \* the largest integer up to which a float has every integer

ASSUME QueryAssumption == Exact \in Nat /\ NoLimit \notin Nat

\* find and count refuse the options otherwise.
validate_sort_fields(c, opts) ==
    \A n \in DOMAIN opts.sort :
        LET name == opts.sort[n].field IN HasField(c.fields, name) /\ field(c.fields, name).ty.depth = 0

is_absent(doc, name) == name \notin DOMAIN doc \/ doc[name].is = "null"

CmpInts(a, b) == IF a < b THEN -1 ELSE IF b < a THEN 1 ELSE 0
CmpBytes(a, b) == IF Before(a, b) THEN -1 ELSE IF Before(b, a) THEN 1 ELSE 0

\* The double nearest to an integer: to even beyond Exact.
Nearest(n) == IF n \in -Exact..Exact \/ n % 2 = 0 THEN n ELSE IF n % 4 = 1 THEN n - 1 ELSE n + 1
as_f64(v) == IF v.kind = "int" THEN 2 * Nearest(v.num) ELSE Halves(v)

\* Two integers exactly, otherwise as floats.
cmp_numbers(x, y) ==
    IF x.kind = "int" /\ y.kind = "int" THEN CmpInts(x.num, y.num)
    ELSE CmpInts(as_f64(x), as_f64(y))

type_rank(v) == CASE v.is = "boolean" -> 0 [] v.is = "number" -> 1 [] v.is = "string" -> 2 [] OTHER -> 3

CmpPresent(x, y) ==
    CASE x.is = "number" /\ y.is = "number" -> cmp_numbers(x, y)
      [] x.is = "string" /\ y.is = "string" -> CmpBytes(x.str, y.str)
      [] x.is = "boolean" /\ y.is = "boolean" ->
             IF x.bool = y.bool THEN 0 ELSE IF y.bool THEN -1 ELSE 1
      [] OTHER -> CmpInts(type_rank(x), type_rank(y))

\* One sort key. A null or missing value is last in both directions.
CmpKey(key, a, b) ==
    CASE is_absent(a, key.field) /\ is_absent(b, key.field) -> 0
      [] is_absent(a, key.field) /\ ~is_absent(b, key.field) -> 1
      [] ~is_absent(a, key.field) /\ is_absent(b, key.field) -> -1
      [] OTHER -> LET ord == CmpPresent(a[key.field], b[key.field])
                  IN  IF key.dir = "desc" THEN -ord ELSE ord

\* MUTANT: documents with equal keys are equal.
CmpDocsUntied(opts, idField, a, b) ==
    LET ords == [n \in DOMAIN opts.sort |-> CmpKey(opts.sort[n], a, b)]
        told == {n \in DOMAIN ords : ords[n] # 0}
    IN  IF told = {} THEN 0 ELSE ords[Min(told)]

\* The first key that tells two documents apart, at last the id.
CmpDocs(opts, idField, a, b) ==
    LET ords == [n \in DOMAIN opts.sort |-> CmpKey(opts.sort[n], a, b)]
        told == {n \in DOMAIN ords : ords[n] # 0}
    IN  IF told = {} THEN CmpBytes(a[idField].str, b[idField].str) ELSE ords[Min(told)]

\* sort_by is stable: a document goes behind the lesser ones and behind the
\* equal ones that were ahead of it.
Ahead(opts, idField, docs, m, n) ==
    LET ord == CmpDocs(opts, idField, docs[m], docs[n]) IN ord < 0 \/ (ord = 0 /\ m < n)

Sorted(opts, idField, docs) ==
    IF opts.sort = <<>> THEN docs
    ELSE [n \in DOMAIN docs |->
             docs[CHOOSE m \in DOMAIN docs :
                      Cardinality({l \in DOMAIN docs : Ahead(opts, idField, docs, l, m)}) = n - 1]]

\* MUTANT: the limit counts from the first document, not from the offset.
ApplyLimitFirst(opts, idField, docs) ==
    LET sorted == Sorted(opts, idField, docs)
        last   == IF opts.limit = NoLimit THEN Len(sorted) ELSE Min({opts.limit, Len(sorted)})
    IN  SubSeq(sorted, opts.offset + 1, last)

\* What is there from the offset, no more than the limit.
Cut(opts, docs) ==
    LET start == Min({opts.offset, Len(docs)})
        left  == Len(docs) - start
        n     == IF opts.limit = NoLimit THEN left ELSE Min({opts.limit, left})
    IN  SubSeq(docs, start + 1, start + n)

apply(opts, idField, docs) == Cut(opts, Sorted(opts, idField, docs))

\* count_with: the offset may exceed the total.
CountAfter(opts, total) ==
    LET left == IF opts.offset > total THEN 0 ELSE total - opts.offset
    IN  IF opts.limit = NoLimit THEN left ELSE Min({opts.limit, left})
=============================================================================
