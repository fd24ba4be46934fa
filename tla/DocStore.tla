------------------------------ MODULE DocStore ------------------------------
(***************************************************************************)
(* The committed contents of one NookDB collection and the operations that *)
(* src/crates/nookdb-core/src/collection.rs builds on the two redb tables: *)
(* `entries` (id -> document) and `index_entries`                          *)
(* ({collection}\0{field}\0{value}\0{doc_id} -> doc_id).                   *)
(*                                                                         *)
(* Everything here is a pure operator on a store                           *)
(*   [docs : Ids -> Docs \cup {NoDoc}, idx : SUBSET IndexKeys, raw]        *)
(* so that the state machine of Collection.tla, its proofs and the         *)
(* abstract specification share one definition of each operation.          *)
(*                                                                         *)
(* A document is a function from its fields to opaque values; byte         *)
(* encodings are injective on NUL-free ids, so an index key is the triple  *)
(* it encodes. `raw` is a history component: the ids whose row was last    *)
(* written by a restore (WriteTx::put_raw / clear_entries), which does not *)
(* maintain `index_entries`.                                               *)
(***************************************************************************)
EXTENDS Naturals, Sequences, FiniteSets

CONSTANTS
    Ids,      \* document ids
    Fields,   \* fields of a document other than its id
    Indexed,  \* fields carrying a secondary index
    Unique,   \* the indexed fields whose index is unique
    Vals,     \* field values (required, non-null scalars)
    NoDoc,    \* no row stored under an id
    NoId      \* a filter that does not constrain the id

Docs == [Fields -> Vals]

ASSUME SchemaAssumption ==
    /\ Unique \subseteq Indexed
    /\ Indexed \subseteq Fields
    /\ NoDoc \notin Docs
    /\ NoId \notin Ids

IndexKeys == Indexed \X Vals \X Ids

Stores == [docs : [Ids -> Docs \cup {NoDoc}],
           idx  : SUBSET IndexKeys,
           raw  : SUBSET Ids]

EmptyStore == [docs |-> [i \in Ids |-> NoDoc], idx |-> {}, raw |-> {}]

Partial(S, T) == UNION {[D -> T] : D \in SUBSET S}

\* A result set or a set of victims: documents by id.
DocMaps == Partial(Ids, Docs)

\* Primary-key equality, bare equalities, and operator conditions
\* ($ne, $in, $gt, ...) as the set of values each one accepts.
FilterSpace == [id   : Ids \cup {NoId},
                eq   : Partial(Fields, Vals),
                oper : Partial(Fields, SUBSET Vals)]

\* Operations of a write transaction: an insert, a delete by filter replayed
\* from a buffer, a delete of the documents found beforehand.
Ops == [op : {"insert"}, id : Ids, doc : Docs]
       \cup [op : {"deleteMany"}, flt : FilterSpace]
       \cup [op : {"victims"}, docs : DocMaps]

Live(s) == {i \in Ids : s.docs[i] # NoDoc}
-----------------------------------------------------------------------------
(* Queries: Collection::matches, candidates, find_with.                    *)

Matches(i, d, flt) ==
    /\ flt.id # NoId => flt.id = i
    /\ \A f \in DOMAIN flt.eq : d[f] = flt.eq[f]
    /\ \A f \in DOMAIN flt.oper : d[f] \in flt.oper[f]

Matching(s, flt) == {i \in Live(s) : Matches(i, s.docs[i], flt)}

\* Bare equality on an indexed field, and no primary-key equality.
UsesIndex(flt) == flt.id = NoId /\ Indexed \cap DOMAIN flt.eq # {}

\* The first declared index whose field the filter constrains.
ChosenField(flt) == CHOOSE f \in Indexed \cap DOMAIN flt.eq : TRUE

\* lookup_eq on the chosen index: ids only, from `index_entries`.
Lookup(s, flt) ==
    {i \in Ids : <<ChosenField(flt), flt.eq[ChosenField(flt)], i>> \in s.idx}

\* The rows considered: one get, an index lookup, or a full scan.
Candidates(s, flt) ==
    IF flt.id # NoId THEN {flt.id}
    ELSE IF UsesIndex(flt) THEN Lookup(s, flt)
    ELSE Ids

\* MUTANT: candidates are trusted, neither skipped when their row is gone
\* nor filtered again.
FetchUnfiltered(s, cand, flt) == [i \in cand |-> s.docs[i]]

\* Fetches the candidate rows and re-filters them.
Fetch(s, cand, flt) == [i \in cand \cap Matching(s, flt) |-> s.docs[i]]

\* find when both of its reads see the same committed state.
FindIn(s, flt) == Fetch(s, Candidates(s, flt), flt)
-----------------------------------------------------------------------------
(* Writes, inside one write transaction.                                   *)

KeysOf(i, d) == {<<f, d[f], i>> : f \in Indexed}

\* index_value_exists_writing over every unique index; the entry of the
\* document's own id counts too.
Conflicts(s, d) == \E f \in Unique, i \in Ids : <<f, d[f], i>> \in s.idx

\* MUTANT: no index entry for an overwritten document.
PutRowOnly(s, i, d) ==
    [docs |-> [s.docs EXCEPT ![i] = d],
     idx  |-> IF s.docs[i] = NoDoc THEN s.idx \cup KeysOf(i, d) ELSE s.idx,
     raw  |-> s.raw \ {i}]

\* tx.put (insert or overwrite) then put_index_entry for every index. The
\* entries of an overwritten document are not removed.
Put(s, i, d) ==
    [docs |-> [s.docs EXCEPT ![i] = d],
     idx  |-> s.idx \cup KeysOf(i, d),
     raw  |-> s.raw \ {i}]

\* MUTANT: index entries are deleted by value, whoever owns them.
RemoveByValue(s, victims) ==
    [docs |-> [i \in Ids |-> IF i \in DOMAIN victims THEN NoDoc ELSE s.docs[i]],
     idx  |-> {k \in s.idx :
                 \A i \in DOMAIN victims : victims[i][k[1]] # k[2]},
     raw  |-> s.raw \ DOMAIN victims]

\* delete_victims_in_tx: index entries are removed by the victims' values,
\* rows by their ids.
RemoveVictims(s, victims) ==
    [docs |-> [i \in Ids |-> IF i \in DOMAIN victims THEN NoDoc ELSE s.docs[i]],
     idx  |-> s.idx \ UNION {KeysOf(i, victims[i]) : i \in DOMAIN victims},
     raw  |-> s.raw \ DOMAIN victims]

\* read_backup's write transaction: clear_entries empties both tables, and
\* put_raw writes rows without index entries.
RestoreRows(s, rows, overwrite) ==
    [docs |-> [i \in Ids |-> IF i \in DOMAIN rows THEN rows[i]
                             ELSE IF overwrite THEN NoDoc ELSE s.docs[i]],
     idx  |-> IF overwrite THEN {} ELSE s.idx,
     raw  |-> IF overwrite THEN Ids ELSE s.raw \cup DOMAIN rows]
-----------------------------------------------------------------------------
(* What a store should satisfy.                                            *)

\* Every document not written by a restore has all its index entries.
FullyIndexed(s) ==
    \A i \in Live(s) \ s.raw : KeysOf(i, s.docs[i]) \subseteq s.idx

\* No two documents written by inserts agree on a unique field.
NoDuplicates(s) ==
    \A i, j \in Live(s) \ s.raw : \A f \in Unique :
        s.docs[i][f] = s.docs[j][f] => i = j

\* The fast paths return what a scan returns, for documents not written by
\* a restore.
FastPathsAgree(s, flt) == Matching(s, flt) \ s.raw \subseteq DOMAIN FindIn(s, flt)
=============================================================================
