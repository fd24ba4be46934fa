-------------------------- MODULE CollectionProofs --------------------------
(***************************************************************************)
(* Type correctness, the safety properties and the refinement of           *)
(* UniqueStore, for every schema, number of callers, set of filters and    *)
(* length of transaction.                                                  *)
(***************************************************************************)
EXTENDS Collection, TLAPS, SequenceTheorems

(***************************************************************************)
(* What the operations of DocStore preserve, for every schema, id set and  *)
(* filter.                                                                 *)
(***************************************************************************)
\* The initial store satisfies everything (Database::open, empty tables).
LEMMA EmptyStoreGood ==
    /\ EmptyStore \in Stores
    /\ FullyIndexed(EmptyStore)
    /\ NoDuplicates(EmptyStore)
BY DEF EmptyStore, Stores, FullyIndexed, NoDuplicates, Live

\* A live id of a store holds a document.
LEMMA LiveHoldsDoc ==
    ASSUME NEW s \in Stores, NEW i \in Live(s)
    PROVE  i \in Ids /\ s.docs[i] \in Docs
BY DEF Stores, Live

\* Matching ids are live (Collection::find only returns stored rows).
LEMMA MatchingIsLive ==
    ASSUME NEW s, NEW flt
    PROVE  Matching(s, flt) \subseteq Live(s) /\ Live(s) \subseteq Ids
BY DEF Matching, Live

\* What find fetches is a map from ids to documents.
LEMMA FetchType ==
    ASSUME NEW s \in Stores, NEW found, NEW flt
    PROVE  Fetch(s, found, flt) \in DocMaps
<1> DEFINE D == found \cap Matching(s, flt)
<1>1. D \in SUBSET Ids
    BY MatchingIsLive
<1>2. \A i \in D : s.docs[i] \in Docs
    BY MatchingIsLive, LiveHoldsDoc
<1>3. Fetch(s, found, flt) \in [D -> Docs]
    BY <1>2 DEF Fetch
<1> QED
    BY <1>1, <1>3 DEF DocMaps, Partial

\* The domain of a map from ids is a set of ids, its values documents.
LEMMA DocMapsDomain ==
    ASSUME NEW m \in DocMaps
    PROVE  /\ DOMAIN m \subseteq Ids
           /\ \A i \in DOMAIN m : m[i] \in Docs
           /\ m \in [DOMAIN m -> Docs]
BY DEF DocMaps, Partial

\* Every index entry of a document is an index key.
LEMMA KeysOfType ==
    ASSUME NEW i \in Ids, NEW d \in Docs
    PROVE  KeysOf(i, d) \subseteq IndexKeys
BY SchemaAssumption DEF KeysOf, IndexKeys, Docs
-----------------------------------------------------------------------------
\* insert_validated_in_tx keeps documents covered by the index.
LEMMA PutIndexed ==
    ASSUME NEW s \in Stores, NEW i \in Ids, NEW d \in Docs, FullyIndexed(s)
    PROVE  Put(s, i, d) \in Stores /\ FullyIndexed(Put(s, i, d))
<1> DEFINE p == Put(s, i, d)
<1>1. p \in Stores
    BY KeysOfType DEF Put, Stores
<1>2. SUFFICES ASSUME NEW j \in Live(p) \ p.raw
               PROVE  KeysOf(j, p.docs[j]) \subseteq p.idx
    BY <1>1 DEF FullyIndexed
<1>3. CASE j = i
    BY <1>3 DEF Put, Stores
<1>4. CASE j # i
    <2>1. j \in Live(s) \ s.raw /\ p.docs[j] = s.docs[j]
        BY <1>4 DEF Put, Stores, Live
    <2> QED
        BY <2>1 DEF FullyIndexed, Put
<1> QED
    BY <1>3, <1>4

\* The conflict pre-check, which reads index entries only, is enough to keep
\* unique values unique: coverage turns a clash of documents into an entry.
LEMMA PutUnique ==
    ASSUME NEW s \in Stores, NEW i \in Ids, NEW d \in Docs,
           FullyIndexed(s), NoDuplicates(s), ~Conflicts(s, d)
    PROVE  NoDuplicates(Put(s, i, d))
<1> DEFINE p == Put(s, i, d)
<1>1. ASSUME NEW j \in Live(p) \ p.raw, j # i
      PROVE  j \in Live(s) \ s.raw /\ p.docs[j] = s.docs[j]
    BY <1>1 DEF Put, Stores, Live
<1>2. p.docs[i] = d
    BY DEF Put, Stores
<1>3. ASSUME NEW j \in Live(p) \ p.raw, j # i, NEW f \in Unique
      PROVE  p.docs[j][f] # d[f]
    <2>1. <<f, s.docs[j][f], j>> \in s.idx
        BY <1>1, <1>3, SchemaAssumption DEF FullyIndexed, KeysOf
    <2>2. j \in Ids
        BY <1>3 DEF Live
    <2> QED
        BY <1>1, <1>3, <2>1, <2>2 DEF Conflicts
<1>4. SUFFICES ASSUME NEW j \in Live(p) \ p.raw, NEW k \in Live(p) \ p.raw,
                      NEW f \in Unique, p.docs[j][f] = p.docs[k][f]
               PROVE  j = k
    BY DEF NoDuplicates
<1>5. CASE j # i /\ k # i
    BY <1>1, <1>4, <1>5 DEF NoDuplicates
<1>6. CASE j = i /\ k # i
    BY <1>2, <1>3, <1>4, <1>6
<1>7. CASE j # i /\ k = i
    BY <1>2, <1>3, <1>4, <1>7
<1> QED
    BY <1>5, <1>6, <1>7

\* Removing victims cannot uncover a document that stays: the entries
\* removed all name a victim.
LEMMA RemoveIndexed ==
    ASSUME NEW s \in Stores, NEW victims \in DocMaps, FullyIndexed(s)
    PROVE  /\ RemoveVictims(s, victims) \in Stores
           /\ FullyIndexed(RemoveVictims(s, victims))
<1> DEFINE r == RemoveVictims(s, victims)
<1>1. r \in Stores
    BY DEF RemoveVictims, Stores
<1>2. SUFFICES ASSUME NEW j \in Live(r) \ r.raw
               PROVE  KeysOf(j, r.docs[j]) \subseteq r.idx
    BY <1>1 DEF FullyIndexed
<1>3. j \notin DOMAIN victims /\ j \in Live(s) \ s.raw /\ r.docs[j] = s.docs[j]
    BY DEF RemoveVictims, Live
<1>4. KeysOf(j, s.docs[j]) \subseteq s.idx
    BY <1>3 DEF FullyIndexed
<1>5. \A i \in DOMAIN victims : KeysOf(i, victims[i]) \cap KeysOf(j, s.docs[j]) = {}
    BY <1>3 DEF KeysOf
<1> QED
    BY <1>3, <1>4, <1>5 DEF RemoveVictims

\* Removing rows creates no duplicate.
LEMMA RemoveUnique ==
    ASSUME NEW s \in Stores, NEW victims \in DocMaps, NoDuplicates(s)
    PROVE  NoDuplicates(RemoveVictims(s, victims))
BY DEF NoDuplicates, RemoveVictims, Live

\* A restore keeps what FullyIndexed and NoDuplicates say of rows it did
\* not write; of those it wrote they say nothing.
LEMMA RestoreGood ==
    ASSUME NEW s \in Stores, NEW rs \in DocMaps, NEW overwrite \in BOOLEAN,
           FullyIndexed(s), NoDuplicates(s)
    PROVE  /\ RestoreRows(s, rs, overwrite) \in Stores
           /\ FullyIndexed(RestoreRows(s, rs, overwrite))
           /\ NoDuplicates(RestoreRows(s, rs, overwrite))
<1> DEFINE r == RestoreRows(s, rs, overwrite)
<1>1. r \in Stores
    BY DocMapsDomain DEF RestoreRows, Stores
<1>2. ASSUME NEW j \in Live(r) \ r.raw
      PROVE  ~overwrite /\ j \in Live(s) \ s.raw /\ r.docs[j] = s.docs[j]
    BY DEF RestoreRows, Live
<1>3. ~overwrite => r.idx = s.idx
    BY DEF RestoreRows
<1>4. FullyIndexed(r)
    BY <1>2, <1>3 DEF FullyIndexed
<1>5. NoDuplicates(r)
    BY <1>2 DEF NoDuplicates
<1> QED
    BY <1>1, <1>4, <1>5
-----------------------------------------------------------------------------
\* The field served by the index is indexed and constrained by the filter.
LEMMA ChosenFieldIndexed ==
    ASSUME NEW flt, UsesIndex(flt)
    PROVE  ChosenField(flt) \in Indexed \cap DOMAIN flt.eq
BY DEF UsesIndex, ChosenField

\* An index lookup finds every matching document that is fully indexed.
LEMMA LookupComplete ==
    ASSUME NEW s, NEW flt, UsesIndex(flt), FullyIndexed(s)
    PROVE  Matching(s, flt) \ s.raw \subseteq Lookup(s, flt)
<1> DEFINE f == ChosenField(flt)
<1>1. f \in Indexed /\ f \in DOMAIN flt.eq
    BY ChosenFieldIndexed
<1> SUFFICES ASSUME NEW i \in Matching(s, flt), i \notin s.raw
             PROVE  i \in Lookup(s, flt)
    OBVIOUS
<1>2. i \in Live(s) /\ i \in Ids /\ s.docs[i][f] = flt.eq[f]
    BY <1>1 DEF Matching, Matches, Live
<1>3. <<f, s.docs[i][f], i>> \in KeysOf(i, s.docs[i])
    BY <1>1 DEF KeysOf
<1>4. <<f, flt.eq[f], i>> \in s.idx
    BY <1>2, <1>3 DEF FullyIndexed
<1> QED
    BY <1>2, <1>4 DEF Lookup

\* The fast paths of `candidates` lose no document a scan would return.
LEMMA CandidatesComplete ==
    ASSUME NEW s, NEW flt, FullyIndexed(s)
    PROVE  FastPathsAgree(s, flt)
<1>1. CASE flt.id # NoId
    BY <1>1 DEF FastPathsAgree, FindIn, Fetch, Candidates, Matching, Matches
<1>2. CASE UsesIndex(flt)
    BY <1>2, LookupComplete
        DEF FastPathsAgree, FindIn, Fetch, Candidates, UsesIndex
<1>3. CASE flt.id = NoId /\ ~UsesIndex(flt)
    BY <1>3, MatchingIsLive DEF FastPathsAgree, FindIn, Fetch, Candidates
<1> QED
    BY <1>1, <1>2, <1>3
-----------------------------------------------------------------------------
(* Types.                                                                  *)

\* A query of either kind is well typed (used by every call that finds).
LEMMA StartQueryType ==
    ASSUME TypeOK, NEW t \in Callers, NEW flt \in Filters,
           NEW for \in {"find", "delete", "update"},
           NEW patch \in Partial(Fields, Vals),
           pc' \in [Callers -> Places], StartQuery(t, flt, for, patch)
    PROVE  TypeOK'
<1>1. [flt |-> flt, for |-> for, patch |-> patch] \in Queries
    BY CallerAssumption DEF Queries
<1>2. query' \in [Callers -> Queries]
    BY <1>1 DEF TypeOK, StartQuery
<1>3. Settled(db, flt) \in SUBSET Ids
    BY MatchingIsLive DEF Settled
<1>4. seen' \in [Callers -> SUBSET SUBSET Ids]
    BY <1>3 DEF TypeOK, StartQuery
<1> QED
    BY <1>2, <1>4 DEF TypeOK, StartQuery, storeVars, fileVars

LEMMA NothingType ==
    ASSUME NEW S, NEW T
    PROVE  Nothing \in Partial(S, T)
<1>1. Nothing \in [{} -> T]
    BY DEF Nothing
<1>2. {} \in SUBSET S
    OBVIOUS
<1> QED
    BY <1>1, <1>2 DEF Partial

LEMMA NoQueryType == NoQuery \in Queries
BY NothingType DEF NoQuery, NoFilter, Queries, FilterSpace

\* What the buffer of a caller may hold.
LEMMA OpTypes ==
    /\ \A i \in Ids, d \in Docs : InsertOp(i, d) \in Ops
    /\ \A flt \in FilterSpace : DeleteManyOp(flt) \in Ops
    /\ \A m \in DocMaps : VictimsOp(m) \in Ops
BY DEF InsertOp, DeleteManyOp, VictimsOp, Ops

LEMMA ByIdType == \A i \in Ids : ById(i) \in FilterSpace
BY NothingType DEF ById, FilterSpace

LEMMA MergeType ==
    ASSUME NEW d \in Docs, NEW patch \in Partial(Fields, Vals)
    PROVE  Merge(d, patch) \in Docs
BY DEF Merge, Docs, Partial

\* The operation a caller is about to run, by its kind.
LEMMA NextOpType ==
    ASSUME TypeOK, NEW t \in Callers, NEW kind, NextOp(t, kind)
    PROVE  /\ Head(ops[t]) \in Ops
           /\ kind = "insert" => Head(ops[t]).id \in Ids /\ Head(ops[t]).doc \in Docs
           /\ kind = "victims" => Head(ops[t]).docs \in DocMaps
<1>1. ops[t] \in Seq(Ops) /\ ops[t] # <<>>
    BY DEF TypeOK, NextOp
<1>2. Head(ops[t]) \in Ops
    BY <1>1
<1> QED
    BY <1>2 DEF Ops, NextOp

LEMMA ConsumeType ==
    ASSUME TypeOK, NEW t \in Callers, NEW kind, NextOp(t, kind), ConsumeOp(t),
           work' \in Stores, touched' \in SUBSET Ids
    PROVE  TypeOK'
<1>1. Tail(ops[t]) \in Seq(Ops)
    BY DEF TypeOK, NextOp
<1>2. ops' \in [Callers -> Seq(Ops)]
    BY <1>1 DEF TypeOK, ConsumeOp
<1> QED
    BY <1>2 DEF TypeOK, ConsumeOp, fileVars

LEMMA ObserveType ==
    ASSUME TypeOK, NEW s \in Stores, Observe(s)
    PROVE  seen' \in [Callers -> SUBSET SUBSET Ids]
<1>1. \A t \in Callers : Settled(s, query[t].flt) \in SUBSET Ids
    BY MatchingIsLive DEF Settled
<1> QED
    BY <1>1 DEF TypeOK, Observe

LEMMA EndWriteType ==
    ASSUME TypeOK, NEW t \in Callers, EndWrite(t)
    PROVE  /\ writer' \in Callers \cup {NoCaller}
           /\ work' \in Stores
           /\ touched' \in SUBSET Ids
           /\ pc' \in [Callers -> Places]
           /\ ops' \in [Callers -> Seq(Ops)]
           /\ txOwner' \in Callers \cup {NoCaller}
           /\ UNCHANGED <<query, cand, todo>>
<1>1. <<>> \in Seq(Ops)
    OBVIOUS
<1> QED
    BY <1>1, EmptyStoreGood DEF TypeOK, EndWrite, Places

LEMMA BufferType ==
    ASSUME TypeOK, NEW t \in Callers, NEW op \in Ops, Buffer(t, op)
    PROVE  TypeOK'
<1>1. Append(ops[t], op) \in Seq(Ops)
    BY DEF TypeOK
<1>2. ops' \in [Callers -> Seq(Ops)]
    BY <1>1 DEF TypeOK, Buffer
<1> QED
    BY <1>2 DEF TypeOK, Buffer, storeVars, fileVars

LEMMA FinishQueryType ==
    ASSUME TypeOK, NEW t \in Callers, NEW from, FinishQuery(t, from)
    PROVE  TypeOK'
<1> DEFINE found == Fetch(db, from, query[t].flt)
<1>1. found \in DocMaps
    BY FetchType DEF TypeOK
<1>2. VictimsOp(found) \in Ops
    BY <1>1, OpTypes
<1>3. <<VictimsOp(found)>> \in Seq(Ops)
    BY <1>2
<1>4. /\ pc' \in [Callers -> Places]
      /\ ops' \in [Callers -> Seq(Ops)]
      /\ todo' \in [Callers -> DocMaps]
    <2> USE DEF TypeOK, FinishQuery, Deliver, Places
    <2>1. CASE query[t].for = "find"
        BY <2>1
    <2>2. CASE query[t].for = "delete"
        BY <2>2, <1>3
    <2>3. CASE query[t].for = "update"
        BY <2>3, <1>1
    <2> QED
        BY <2>1, <2>2, <2>3 DEF Queries
<1>5. query' \in [Callers -> Queries]
    BY NoQueryType DEF TypeOK, FinishQuery
<1>6. cand' \in [Callers -> SUBSET Ids] /\ seen' \in [Callers -> SUBSET SUBSET Ids]
    BY DEF TypeOK, FinishQuery
<1> QED
    BY <1>4, <1>5, <1>6 DEF TypeOK, FinishQuery, storeVars, fileVars
-----------------------------------------------------------------------------
\* One iteration of an update buffers well-formed operations.
LEMMA MergeOneType ==
    ASSUME TypeOK, NEW t \in Callers, MergeOne(t)
    PROVE  TypeOK'
<1>1. PICK i \in DOMAIN todo[t] :
        /\ ops' = [ops EXCEPT ![t] = @ \o
             <<DeleteManyOp(ById(i)),
               InsertOp(i, Merge(todo[t][i], query[t].patch))>>]
        /\ todo' = [todo EXCEPT ![t] = [j \in DOMAIN @ \ {i} |-> @[j]]]
    BY DEF MergeOne
<1>2. todo[t] \in DocMaps /\ query[t].patch \in Partial(Fields, Vals)
    BY DEF TypeOK, Queries
<1>3. i \in Ids /\ todo[t][i] \in Docs
    BY <1>2, DocMapsDomain
<1>4. DeleteManyOp(ById(i)) \in Ops
    BY <1>3, ByIdType, OpTypes
<1>5. InsertOp(i, Merge(todo[t][i], query[t].patch)) \in Ops
    BY <1>2, <1>3, MergeType, OpTypes
<1>6. <<DeleteManyOp(ById(i)),
        InsertOp(i, Merge(todo[t][i], query[t].patch))>> \in Seq(Ops)
    BY <1>4, <1>5
<1>7. ops[t] \in Seq(Ops)
    BY DEF TypeOK
<1>8. ops' \in [Callers -> Seq(Ops)]
    BY <1>1, <1>6, <1>7, ConcatProperties DEF TypeOK
<1>9. [j \in DOMAIN todo[t] \ {i} |-> todo[t][j]] \in DocMaps
    <2>1. DOMAIN todo[t] \ {i} \in SUBSET Ids
        BY <1>2, DocMapsDomain
    <2>2. [j \in DOMAIN todo[t] \ {i} |-> todo[t][j]]
             \in [DOMAIN todo[t] \ {i} -> Docs]
        BY <1>2, DocMapsDomain
    <2> QED
        BY <2>1, <2>2 DEF DocMaps, Partial
<1>10. todo' \in [Callers -> DocMaps]
    BY <1>1, <1>9 DEF TypeOK
<1> QED
    BY <1>8, <1>10 DEF TypeOK, MergeOne, storeVars, fileVars

\* What a caller's step leaves well typed.
LEMMA CallerStepType ==
    ASSUME TypeOK, NEW t \in Callers, CallerStep(t)
    PROVE  TypeOK'
<1>1. ASSUME NEW flt \in Filters, CallFind(t, flt) \/ CallDelete(t, flt)
      PROVE  TypeOK'
    <2>1. pc' \in [Callers -> Places]
        BY <1>1 DEF TypeOK, CallFind, CallDelete, Goto, Places
    <2> QED
        BY <1>1, <2>1, StartQueryType, NothingType DEF CallFind, CallDelete
<1>2. CASE LookupIndex(t)
    BY <1>2 DEF TypeOK, LookupIndex, Goto, Places, Lookup, storeVars, fileVars
<1>3. CASE ReadOnce(t) \/ FetchRows(t)
    BY <1>3, FinishQueryType DEF ReadOnce, FetchRows
<1>4. ASSUME NEW i \in Ids, NEW d \in Docs, CallInsert(t, i, d)
      PROVE  TypeOK'
    <2>1. <<InsertOp(i, d)>> \in Seq(Ops)
        BY OpTypes
    <2> QED
        BY <1>4, <2>1 DEF TypeOK, CallInsert, Goto, Places, storeVars, fileVars
<1>5. ASSUME NEW i \in Ids, NEW d \in Docs, TxInsert(t, i, d)
      PROVE  TypeOK'
    BY <1>5, OpTypes, BufferType DEF TxInsert
<1>6. CASE OpenTransaction(t)
    BY <1>6 DEF TypeOK, OpenTransaction, Goto, Places, storeVars, fileVars
<1>7. ASSUME NEW flt \in Filters, TxDelete(t, flt)
      PROVE  TypeOK'
    BY <1>7, OpTypes, BufferType, CallerAssumption DEF TxDelete
<1>8. ASSUME NEW flt \in Filters, NEW patch \in Patches, TxUpdate(t, flt, patch)
      PROVE  TypeOK'
    <2>1. pc' \in [Callers -> Places]
        BY <1>8 DEF TypeOK, TxUpdate, Goto, Places
    <2> QED
        BY <1>8, <2>1, StartQueryType, CallerAssumption DEF TxUpdate
<1>9. CASE MergeOne(t)
    BY <1>9, MergeOneType
<1>10. CASE EndUpdate(t)
    BY <1>10, NoQueryType DEF TypeOK, EndUpdate, Goto, Places, storeVars, fileVars
<1>11. CASE CommitTransaction(t)
    BY <1>11 DEF TypeOK, CommitTransaction, Goto, Places, storeVars, fileVars
<1>12. CASE ThrowInCallback(t)
    <2>1. Nothing \in DocMaps /\ <<>> \in Seq(Ops)
        BY NothingType DEF DocMaps
    <2> QED
        BY <1>12, <2>1, NoQueryType
           DEF TypeOK, ThrowInCallback, Places, storeVars, fileVars
<1>13. CASE BeginWrite(t)
    BY <1>13 DEF TypeOK, BeginWrite, Goto, Places, fileVars
<1>14. CASE RunInsert(t)
    <2>1. Put(work, Head(ops[t]).id, Head(ops[t]).doc) \in Stores
        BY <1>14, NextOpType, KeysOfType DEF RunInsert, TypeOK, Put, Stores
    <2> QED
        BY <1>14, <2>1, NextOpType, ConsumeType DEF RunInsert, TypeOK
<1>15. CASE RunDeleteMany(t) \/ RunVictims(t)
    <2>1. ASSUME NEW victims, Remove(victims)
          PROVE  work' \in Stores /\ touched' \in SUBSET Ids
        BY <2>1 DEF TypeOK, Remove, RemoveVictims, Stores, Live
    <2> QED
        BY <1>15, <2>1, ConsumeType DEF RunDeleteMany, RunVictims
<1>16. CASE Commit(t)
    BY <1>16, EndWriteType, ObserveType DEF Commit, TypeOK, fileVars
<1>17. CASE Abort(t)
    BY <1>17, EndWriteType DEF Abort, TypeOK, fileVars
<1> QED
    BY <1>1, <1>2, <1>3, <1>4, <1>5, <1>6, <1>7, <1>8, <1>9, <1>10, <1>11,
       <1>12, <1>13, <1>14, <1>15, <1>16, <1>17 DEF CallerStep

\* Every reachable state is well typed, whatever the callers do.
THEOREM TypeCorrect == Spec => []TypeOK
<1>1. Init => TypeOK
    <2> SUFFICES ASSUME Init PROVE TypeOK
        OBVIOUS
    <2>1. Nothing \in DocMaps /\ <<>> \in Seq(Ops)
        BY NothingType DEF DocMaps
    <2> QED
        BY <2>1, EmptyStoreGood, NoQueryType, CallerAssumption
           DEF Init, TypeOK, Places
<1>2. TypeOK /\ [Next]_vars => TypeOK'
    <2> SUFFICES ASSUME TypeOK, [Next]_vars PROVE TypeOK'
        OBVIOUS
    <2>1. ASSUME NEW t \in Callers, CallerStep(t) PROVE TypeOK'
        BY <2>1, CallerStepType
    <2>2. CASE Backup
        <3>1. [i \in Live(db) |-> db.docs[i]] \in [Live(db) -> Docs]
            BY LiveHoldsDoc DEF TypeOK
        <3>2. [i \in Live(db) |-> db.docs[i]] \in DocMaps
            BY <3>1, MatchingIsLive DEF DocMaps, Partial
        <3> QED
            BY <2>2, <3>2 DEF TypeOK, Backup, storeVars
    <2>3. ASSUME NEW overwrite \in BOOLEAN, Restore(overwrite) PROVE TypeOK'
        <3>1. db' \in Stores
            BY <2>3, DocMapsDomain DEF TypeOK, Restore, RestoreRows, Stores
        <3>2. seen' \in [Callers -> SUBSET SUBSET Ids]
            BY <2>3, <3>1, ObserveType DEF Restore
        <3>3. restores' \in 0..MaxRestores
            BY <2>3, CallerAssumption DEF TypeOK, Restore
        <3> QED
            BY <2>3, <3>1, <3>2, <3>3 DEF TypeOK, Restore
    <2>4. CASE UNCHANGED vars
        BY <2>4 DEF TypeOK, vars
    <2> QED
        BY <2>1, <2>2, <2>3, <2>4 DEF Next
<1> QED
    BY <1>1, <1>2, PTL DEF Spec
-----------------------------------------------------------------------------
(* The inductive invariant.                                                *)

\* The committed store and the one being written are covered by the index
\* and free of duplicates.
StoresGood ==
    /\ FullyIndexed(db) /\ NoDuplicates(db)
    /\ FullyIndexed(work) /\ NoDuplicates(work)

\* The caller running a write closure is the one holding the write lock.
WriterKnown == \A t \in Callers : pc[t] = "write" <=> writer = t

\* The history of an open query includes the current committed store.
QueriesTracked ==
    \A t \in Callers :
        pc[t] \in {"find", "fetch"} => Settled(db, query[t].flt) \in seen[t]

IInv ==
    /\ TypeOK
    /\ StoresGood
    /\ WriterKnown
    /\ WriterSeesCommitted
    /\ QueriesTracked
    /\ StableMatchesFound

\* The steps of a caller that are not steps of its write transaction leave
\* both stores and the lock alone.
LEMMA CallerFrame ==
    ASSUME NEW t \in Callers, CallerStep(t)
    PROVE  \/ UNCHANGED storeVars
           \/ BeginWrite(t)
           \/ RunInsert(t) \/ RunDeleteMany(t) \/ RunVictims(t)
           \/ Commit(t) \/ Abort(t)
<1>1. ASSUME NEW flt \in Filters, CallFind(t, flt) \/ CallDelete(t, flt)
      PROVE  UNCHANGED storeVars
    BY <1>1 DEF CallFind, CallDelete, StartQuery
<1>2. CASE LookupIndex(t) \/ ReadOnce(t) \/ FetchRows(t)
    BY <1>2 DEF LookupIndex, ReadOnce, FetchRows, FinishQuery
<1>3. ASSUME NEW i \in Ids, NEW d \in Docs, CallInsert(t, i, d) \/ TxInsert(t, i, d)
      PROVE  UNCHANGED storeVars
    BY <1>3 DEF CallInsert, TxInsert, Buffer
<1>4. ASSUME NEW flt \in Filters, TxDelete(t, flt)
      PROVE  UNCHANGED storeVars
    BY <1>4 DEF TxDelete, Buffer
<1>5. ASSUME NEW flt \in Filters, NEW patch \in Patches, TxUpdate(t, flt, patch)
      PROVE  UNCHANGED storeVars
    BY <1>5 DEF TxUpdate, StartQuery
<1>6. CASE \/ OpenTransaction(t) \/ MergeOne(t) \/ EndUpdate(t)
           \/ CommitTransaction(t) \/ ThrowInCallback(t)
    BY <1>6 DEF OpenTransaction, MergeOne, EndUpdate, CommitTransaction,
                ThrowInCallback
<1> QED
    BY <1>1, <1>2, <1>3, <1>4, <1>5, <1>6 DEF CallerStep

\* What replaying one buffered operation does to the open transaction.
LEMMA RunStep ==
    ASSUME IInv, NEW t \in Callers,
           RunInsert(t) \/ RunDeleteMany(t) \/ RunVictims(t)
    PROVE  /\ FullyIndexed(work') /\ NoDuplicates(work')
           /\ \A i \in Ids \ touched' : work'.docs[i] = work.docs[i]
           /\ touched \subseteq touched'
           /\ UNCHANGED <<db, writer, event, pc, query, cand, seen>>
<1> USE DEF IInv
<1>1. work \in Stores
    BY DEF TypeOK
<1>2. CASE RunInsert(t)
    <2> DEFINE i == Head(ops[t]).id
               d == Head(ops[t]).doc
    <2>1. i \in Ids /\ d \in Docs
        BY <1>2, NextOpType DEF RunInsert
    <2>2. ~Conflicts(work, d) /\ work' = Put(work, i, d) /\ touched' = touched \cup {i}
        BY <1>2 DEF RunInsert
    <2>3. FullyIndexed(work') /\ NoDuplicates(work')
        BY <1>1, <2>1, <2>2, PutIndexed, PutUnique DEF StoresGood
    <2>4. \A j \in Ids \ touched' : work'.docs[j] = work.docs[j]
        BY <1>1, <2>1, <2>2 DEF Put, Stores
    <2> QED
        BY <1>2, <2>2, <2>3, <2>4 DEF RunInsert, ConsumeOp
<1>3. ASSUME NEW victims \in DocMaps, Remove(victims)
      PROVE  /\ FullyIndexed(work') /\ NoDuplicates(work')
             /\ \A i \in Ids \ touched' : work'.docs[i] = work.docs[i]
             /\ touched \subseteq touched'
    <2>1. FullyIndexed(work') /\ NoDuplicates(work')
        BY <1>1, <1>3, RemoveIndexed, RemoveUnique DEF StoresGood, Remove
    <2>2. \A i \in Ids \ touched' : work'.docs[i] = work.docs[i]
        BY <1>1, <1>3 DEF Remove, RemoveVictims, Live, Stores
    <2> QED
        BY <1>3, <2>1, <2>2 DEF Remove
<1>4. CASE RunDeleteMany(t)
    BY <1>3, <1>4, FetchType DEF RunDeleteMany, ConsumeOp, FindIn, TypeOK
<1>5. CASE RunVictims(t)
    BY <1>3, <1>5, NextOpType DEF RunVictims, ConsumeOp
<1> QED
    BY <1>2, <1>4, <1>5
-----------------------------------------------------------------------------
LEMMA StoresGoodStep == IInv /\ [Next]_vars => StoresGood'
<1> SUFFICES ASSUME IInv, [Next]_vars PROVE StoresGood'
    OBVIOUS
<1> USE DEF IInv
<1>1. ASSUME NEW t \in Callers, CallerStep(t) PROVE StoresGood'
    <2>1. CASE UNCHANGED storeVars
        BY <2>1 DEF StoresGood, storeVars
    <2>2. CASE BeginWrite(t)
        BY <2>2 DEF StoresGood, BeginWrite
    <2>3. CASE RunInsert(t) \/ RunDeleteMany(t) \/ RunVictims(t)
        BY <2>3, RunStep DEF StoresGood
    <2>4. CASE Commit(t)
        BY <2>4, EmptyStoreGood DEF StoresGood, Commit, EndWrite
    <2>5. CASE Abort(t)
        BY <2>5, EmptyStoreGood DEF StoresGood, Abort, EndWrite
    <2> QED
        BY <1>1, <2>1, <2>2, <2>3, <2>4, <2>5, CallerFrame
<1>2. CASE Backup
    BY <1>2 DEF Backup, StoresGood, storeVars
<1>3. ASSUME NEW overwrite \in BOOLEAN, Restore(overwrite) PROVE StoresGood'
    <2>1. db \in Stores /\ rows \in DocMaps
        BY <1>3 DEF TypeOK, Restore
    <2> QED
        BY <1>3, <2>1, RestoreGood DEF Restore, StoresGood
<1>4. CASE UNCHANGED vars
    BY <1>4 DEF StoresGood, vars
<1> QED
    BY <1>1, <1>2, <1>3, <1>4 DEF Next

\* A step outside a write closure neither enters nor leaves one.
LEMMA WriterKnownStep == IInv /\ [Next]_vars => WriterKnown'
<1> SUFFICES ASSUME IInv, [Next]_vars PROVE WriterKnown'
    OBVIOUS
<1> USE DEF IInv
<1>1. ASSUME NEW t \in Callers, CallerStep(t) PROVE WriterKnown'
    <2> USE CallerAssumption DEF WriterKnown, TypeOK
    <2>1. ASSUME writer' = writer, pc[t] # "write",
                 pc' = pc \/ \E p \in Places \ {"write"} : pc' = [pc EXCEPT ![t] = p]
          PROVE  WriterKnown'
        BY <2>1
    <2>2. ASSUME NEW flt \in Filters, CallFind(t, flt) \/ CallDelete(t, flt)
          PROVE  WriterKnown'
        BY <2>1, <2>2 DEF CallFind, CallDelete, StartQuery, Goto, storeVars, Places
    <2>3. CASE LookupIndex(t)
        BY <2>1, <2>3 DEF LookupIndex, Goto, storeVars, Places
    <2>4. CASE ReadOnce(t) \/ FetchRows(t)
        BY <2>1, <2>4 DEF ReadOnce, FetchRows, FinishQuery, Deliver, storeVars, Places
    <2>5. ASSUME NEW i \in Ids, NEW d \in Docs, CallInsert(t, i, d) \/ TxInsert(t, i, d)
          PROVE  WriterKnown'
        BY <2>1, <2>5 DEF CallInsert, TxInsert, Buffer, Goto, storeVars, Places
    <2>6. CASE OpenTransaction(t) \/ EndUpdate(t) \/ CommitTransaction(t)
        BY <2>1, <2>6 DEF OpenTransaction, EndUpdate, CommitTransaction, Goto,
                          storeVars, Places
    <2>7. ASSUME NEW flt \in Filters, TxDelete(t, flt)
          PROVE  WriterKnown'
        BY <2>1, <2>7 DEF TxDelete, Buffer, storeVars
    <2>8. ASSUME NEW flt \in Filters, NEW patch \in Patches, TxUpdate(t, flt, patch)
          PROVE  WriterKnown'
        BY <2>1, <2>8 DEF TxUpdate, StartQuery, Goto, storeVars, Places
    <2>9. CASE MergeOne(t) \/ ThrowInCallback(t)
        BY <2>1, <2>9 DEF MergeOne, ThrowInCallback, storeVars, Places
    <2>10. CASE BeginWrite(t)
        BY <2>10 DEF BeginWrite, Goto
    <2>11. CASE RunInsert(t) \/ RunDeleteMany(t) \/ RunVictims(t)
        BY <2>11, RunStep
    <2>12. CASE Commit(t) \/ Abort(t)
        BY <2>12 DEF Commit, Abort, EndWrite
    <2> QED
        BY <1>1, <2>2, <2>3, <2>4, <2>5, <2>6, <2>7, <2>8, <2>9, <2>10, <2>11,
           <2>12 DEF CallerStep
<1>2. CASE Backup
    BY <1>2 DEF Backup, WriterKnown, storeVars
<1>3. ASSUME NEW overwrite \in BOOLEAN, Restore(overwrite) PROVE WriterKnown'
    BY <1>3 DEF Restore, WriterKnown
<1>4. CASE UNCHANGED vars
    BY <1>4 DEF WriterKnown, vars
<1> QED
    BY <1>1, <1>2, <1>3, <1>4 DEF Next

LEMMA WriterSeesCommittedStep == IInv /\ [Next]_vars => WriterSeesCommitted'
<1> SUFFICES ASSUME IInv, [Next]_vars PROVE WriterSeesCommitted'
    OBVIOUS
<1> USE DEF IInv
<1>1. ASSUME NEW t \in Callers, CallerStep(t) PROVE WriterSeesCommitted'
    <2>1. CASE UNCHANGED storeVars
        BY <2>1 DEF WriterSeesCommitted, storeVars
    <2>2. CASE BeginWrite(t)
        BY <2>2 DEF WriterSeesCommitted, BeginWrite
    <2>3. CASE RunInsert(t) \/ RunDeleteMany(t) \/ RunVictims(t)
        BY <2>3, RunStep DEF WriterSeesCommitted
    <2>4. CASE Commit(t) \/ Abort(t)
        BY <2>4 DEF WriterSeesCommitted, Commit, Abort, EndWrite
    <2> QED
        BY <1>1, <2>1, <2>2, <2>3, <2>4, CallerFrame
<1>2. CASE Backup
    BY <1>2 DEF Backup, WriterSeesCommitted, storeVars
<1>3. ASSUME NEW overwrite \in BOOLEAN, Restore(overwrite)
      PROVE  WriterSeesCommitted'
    BY <1>3 DEF Restore, WriterSeesCommitted
<1>4. CASE UNCHANGED vars
    BY <1>4 DEF WriterSeesCommitted, vars
<1> QED
    BY <1>1, <1>2, <1>3, <1>4 DEF Next
-----------------------------------------------------------------------------
\* What the two invariants about open queries say of one caller.
QueryGood(u) ==
    pc[u] \in {"find", "fetch"} =>
        /\ Settled(db, query[u].flt) \in seen[u]
        /\ pc[u] = "fetch" => Always(u) \subseteq cand[u]

LEMMA QueryGoodAll ==
    (\A u \in Callers : QueryGood(u)) <=> QueriesTracked /\ StableMatchesFound
BY DEF QueryGood, QueriesTracked, StableMatchesFound

\* A caller whose query the step does not touch, or closes.
LEMMA QueryIdle ==
    ASSUME NEW u \in Callers, QueryGood(u), db' = db,
           pc'[u] \in {"find", "fetch"} =>
               /\ pc'[u] = pc[u] /\ query'[u] = query[u]
               /\ seen'[u] = seen[u] /\ cand'[u] = cand[u]
    PROVE  QueryGood(u)'
BY DEF QueryGood, Always

\* A commit or a restore extends the history of an open query: fewer ids
\* match in all of it.
LEMMA QueryObserve ==
    ASSUME NEW u \in Callers, QueryGood(u), Observe(db'),
           cand' = cand, query' = query,
           pc'[u] \in {"find", "fetch"} => pc'[u] = pc[u]
    PROVE  QueryGood(u)'
<1> SUFFICES ASSUME pc'[u] \in {"find", "fetch"} PROVE QueryGood(u)'
    BY DEF QueryGood
<1>1. seen'[u] = seen[u] \cup {Settled(db', query[u].flt)}
    BY DEF Observe
<1>2. Always(u)' \subseteq Always(u)
    BY <1>1 DEF Always
<1> QED
    BY <1>1, <1>2 DEF QueryGood

\* A query that starts sees the committed store first.
LEMMA QueryStart ==
    ASSUME TypeOK, NEW t \in Callers, NEW flt, NEW for, NEW patch,
           \A u \in Callers : QueryGood(u),
           StartQuery(t, flt, for, patch), pc' = [pc EXCEPT ![t] = "find"]
    PROVE  \A u \in Callers : QueryGood(u)'
<1> SUFFICES ASSUME NEW u \in Callers PROVE QueryGood(u)'
    OBVIOUS
<1> USE DEF TypeOK, StartQuery, storeVars
<1>1. CASE u = t
    BY <1>1 DEF QueryGood
<1>2. CASE u # t
    BY <1>2, QueryIdle
<1> QED
    BY <1>1, <1>2

\* The index lookup returns every id that has matched so far.
LEMMA QueryLookup ==
    ASSUME TypeOK, FullyIndexed(db), NEW t \in Callers,
           \A u \in Callers : QueryGood(u), LookupIndex(t)
    PROVE  \A u \in Callers : QueryGood(u)'
<1> SUFFICES ASSUME NEW u \in Callers PROVE QueryGood(u)'
    OBVIOUS
<1> USE DEF TypeOK, LookupIndex, Goto, storeVars
<1>1. CASE u = t
    <2>1. Settled(db, query[t].flt) \in seen[t]
        BY DEF QueryGood
    <2>2. Always(t) \subseteq Settled(db, query[t].flt)
        BY <2>1 DEF Always
    <2>3. Settled(db, query[t].flt) \subseteq Lookup(db, query[t].flt)
        BY LookupComplete DEF Settled
    <2>4. Always(t)' \subseteq cand'[t]
        BY <2>2, <2>3 DEF Always
    <2> QED
        BY <1>1, <2>1, <2>4 DEF QueryGood
<1>2. CASE u # t
    BY <1>2, QueryIdle
<1> QED
    BY <1>1, <1>2

LEMMA QueriesStep ==
    IInv /\ [Next]_vars => QueriesTracked' /\ StableMatchesFound'
<1> SUFFICES ASSUME IInv, [Next]_vars PROVE \A u \in Callers : QueryGood(u)'
    BY QueryGoodAll DEF QueryGood, QueriesTracked, StableMatchesFound
<1>0. TypeOK /\ FullyIndexed(db) /\ \A u \in Callers : QueryGood(u)
    BY QueryGoodAll DEF IInv, StoresGood
<1>1. ASSUME NEW t \in Callers, CallerStep(t)
      PROVE  \A u \in Callers : QueryGood(u)'
    <2> USE <1>0
    <2>1. ASSUME NEW flt \in Filters, CallFind(t, flt) \/ CallDelete(t, flt)
          PROVE  \A u \in Callers : QueryGood(u)'
        BY <2>1, QueryStart DEF CallFind, CallDelete, Goto
    <2>2. CASE LookupIndex(t)
        BY <2>2, QueryLookup
    <2>3. CASE ReadOnce(t) \/ FetchRows(t)
        <3> SUFFICES ASSUME NEW u \in Callers PROVE QueryGood(u)'
            OBVIOUS
        <3> USE DEF ReadOnce, FetchRows, FinishQuery, Deliver, TypeOK, storeVars
        <3>1. pc'[t] \notin {"find", "fetch"} /\ \A w \in Callers \ {t} : pc'[w] = pc[w]
            BY <2>3
        <3> QED
            BY <2>3, <3>1, QueryIdle
    <2>4. ASSUME NEW i \in Ids, NEW d \in Docs, CallInsert(t, i, d) \/ TxInsert(t, i, d)
          PROVE  \A u \in Callers : QueryGood(u)'
        BY <2>4, QueryIdle DEF CallInsert, TxInsert, Buffer, Goto, TypeOK, storeVars
    <2>5. CASE OpenTransaction(t) \/ CommitTransaction(t)
        BY <2>5, QueryIdle DEF OpenTransaction, CommitTransaction, Goto, TypeOK,
                               storeVars
    <2>6. ASSUME NEW flt \in Filters, TxDelete(t, flt)
          PROVE  \A u \in Callers : QueryGood(u)'
        BY <2>6, QueryIdle DEF TxDelete, Buffer, storeVars
    <2>7. ASSUME NEW flt \in Filters, NEW patch \in Patches, TxUpdate(t, flt, patch)
          PROVE  \A u \in Callers : QueryGood(u)'
        BY <2>7, QueryStart DEF TxUpdate, Goto
    <2>8. CASE MergeOne(t) \/ EndUpdate(t) \/ ThrowInCallback(t)
        BY <2>8, QueryIdle DEF MergeOne, EndUpdate, ThrowInCallback, Goto, TypeOK,
                               storeVars
    <2>9. CASE BeginWrite(t)
        BY <2>9, QueryIdle DEF BeginWrite, Goto, TypeOK
    <2>10. CASE RunInsert(t) \/ RunDeleteMany(t) \/ RunVictims(t)
        BY <2>10, RunStep, QueryIdle
    <2>11. CASE Commit(t)
        BY <2>11, QueryObserve DEF Commit, EndWrite, TypeOK
    <2>12. CASE Abort(t)
        BY <2>12, QueryIdle DEF Abort, EndWrite, TypeOK
    <2> QED
        BY <1>1, <2>1, <2>2, <2>3, <2>4, <2>5, <2>6, <2>7, <2>8, <2>9, <2>10,
           <2>11, <2>12 DEF CallerStep
<1>2. CASE Backup
    BY <1>0, <1>2, QueryIdle DEF Backup, storeVars
<1>3. ASSUME NEW overwrite \in BOOLEAN, Restore(overwrite)
      PROVE  \A u \in Callers : QueryGood(u)'
    BY <1>0, <1>3, QueryObserve DEF Restore
<1>4. CASE UNCHANGED vars
    BY <1>0, <1>4, QueryIdle DEF vars
<1> QED
    BY <1>1, <1>2, <1>3, <1>4 DEF Next
-----------------------------------------------------------------------------
(* The theorems.                                                           *)

LEMMA InitInvariant == Init => IInv
<1> SUFFICES ASSUME Init PROVE IInv
    OBVIOUS
<1>1. TypeOK
    <2>1. Nothing \in DocMaps /\ <<>> \in Seq(Ops)
        BY NothingType DEF DocMaps
    <2> QED
        BY <2>1, EmptyStoreGood, NoQueryType, CallerAssumption
           DEF Init, TypeOK, Places
<1>2. StoresGood
    BY EmptyStoreGood DEF Init, StoresGood
<1>3. WriterKnown /\ WriterSeesCommitted /\ QueriesTracked /\ StableMatchesFound
    BY CallerAssumption
       DEF Init, WriterKnown, WriterSeesCommitted, QueriesTracked, StableMatchesFound
<1> QED
    BY <1>1, <1>2, <1>3 DEF IInv

\* The invariant is inductive.
THEOREM Invariant == Spec => []IInv
<1>1. TypeOK /\ IInv /\ TypeOK' /\ [Next]_vars => IInv'
    BY StoresGoodStep, WriterKnownStep, WriterSeesCommittedStep, QueriesStep DEF IInv
<1> QED
    BY <1>1, InitInvariant, TypeCorrect, PTL DEF Spec

\* Whatever callers interleave, every committed document an insert wrote is
\* covered by all its indexes (Collection::delete, delete_in_tx).
THEOREM IndexAlwaysCovers == Spec => []IndexCoversDocuments
<1>1. IInv => IndexCoversDocuments
    BY DEF IInv, StoresGood, IndexCoversDocuments
<1> QED
    BY <1>1, Invariant, PTL

\* A unique index admits no duplicates (Collection::insert and its batch
\* form, whose pre-check reads index entries only).
THEOREM UniqueIndexesHold == Spec => []UniqueValues
<1>1. IInv => UniqueValues
    BY DEF IInv, StoresGood, UniqueValues
<1> QED
    BY <1>1, Invariant, PTL

\* The fast paths of `candidates` lose no document a scan would return.
THEOREM FastPathsLoseNothing == Spec => []FastPathsComplete
<1>1. IInv => FastPathsComplete
    BY CandidatesComplete DEF IInv, StoresGood, FastPathsComplete
<1> QED
    BY <1>1, Invariant, PTL

\* A document that matches throughout a find is among the rows it reads,
\* although the lookup and the fetch are two read transactions.
THEOREM StableMatchesAreFound == Spec => []StableMatchesFound
<1>1. IInv => StableMatchesFound
    BY DEF IInv
<1> QED
    BY <1>1, Invariant, PTL

\* The committed store does not move under an open write transaction
\* (delete_in_tx reads it there).
THEOREM WriterReadsItsBase == Spec => []WriterSeesCommitted
<1>1. IInv => WriterSeesCommitted
    BY DEF IInv
<1> QED
    BY <1>1, Invariant, PTL

\* A commit's event names every document it changed, restores apart
\* (WriteTx::put and delete push the change-set, Database::write sends it).
THEOREM CommitsAreReported == Spec => ChangesReported
<1> DEFINE Reported ==
        \A i \in Ids :
            db'.docs[i] # db.docs[i] /\ i \notin db'.raw => i \in event'
<1>1. IInv /\ [Next]_vars => [Reported]_vars
    <2> SUFFICES ASSUME IInv, Next PROVE Reported
        OBVIOUS
    <2>1. ASSUME NEW t \in Callers, CallerStep(t) PROVE Reported
        <3>1. CASE Commit(t)
            <4>1. writer # NoCaller
                BY <3>1, CallerAssumption DEF IInv, WriterKnown, Commit
            <4> QED
                BY <3>1, <4>1 DEF IInv, WriterSeesCommitted, Commit
        <3>2. CASE UNCHANGED storeVars
            BY <3>2 DEF storeVars
        <3>3. CASE BeginWrite(t) \/ Abort(t)
            BY <3>3 DEF BeginWrite, Abort
        <3>4. CASE RunInsert(t) \/ RunDeleteMany(t) \/ RunVictims(t)
            BY <3>4, RunStep
        <3> QED
            BY <2>1, <3>1, <3>2, <3>3, <3>4, CallerFrame
    <2>2. CASE Backup
        BY <2>2 DEF Backup, storeVars
    <2>3. ASSUME NEW overwrite \in BOOLEAN, Restore(overwrite) PROVE Reported
        BY <2>3 DEF Restore, RestoreRows, IInv, TypeOK, Stores
    <2> QED
        BY <2>1, <2>2, <2>3 DEF Next
<1> QED
    BY <1>1, Invariant, PTL DEF Spec, ChangesReported

(***************************************************************************)
(* Collection implements UniqueStore, for every schema, number of callers, *)
(* set of filters and length of transaction: the index paths, their stale  *)
(* entries and the interleaving of callers do not show in the documents.   *)
(***************************************************************************)
\* Both modules mean the same by documents, filters and operations.
LEMMA SameData ==
    Store!DocMaps = DocMaps /\ Store!Ops = Ops
  <1>1. Store!DocMaps = DocMaps
    BY DEF Store!DocMaps, DocMaps, Store!Partial, Partial, Store!Docs, Docs
  <1>2. Store!FilterSpace = FilterSpace
    BY DEF Store!FilterSpace, FilterSpace, Store!Partial, Partial
  <1>3. Store!Docs = Docs
    BY DEF Store!Docs, Docs
  <1> QED
    BY <1>1, <1>2, <1>3 DEF Store!Ops, Ops

\* The initial states map to the initial state.
LEMMA InitMaps == Init => Store!Init
  BY DEF Init, EmptyStore, Store!Init, Store!NoDocs

\* The operation at the head of the open transaction's script.
LEMMA ScriptStep ==
    ASSUME IInv, NEW t \in Callers, NEW kind, NextOp(t, kind), ConsumeOp(t)
    PROVE  Store!Runs(kind)
  <1>1. writer = t /\ writer # NoCaller /\ writer' = writer
    BY CallerAssumption DEF IInv, WriterKnown, NextOp, ConsumeOp
  <1>2. ops'[t] = Tail(ops[t])
    BY DEF IInv, TypeOK, ConsumeOp
  <1> QED
    BY <1>1, <1>2 DEF NextOp, ConsumeOp, Store!Runs

\* An insert whose check of the index finds nothing meets no document with
\* its unique values, for the entries cover the documents.
LEMMA InsertMaps ==
    ASSUME IInv, NEW t \in Callers, RunInsert(t)
    PROVE  Store!Insert
  <1> DEFINE i == Head(ops[t]).id
             d == Head(ops[t]).doc
  <1>1. Store!Runs("insert")
    BY ScriptStep DEF RunInsert
  <1>2. writer = t /\ writer # NoCaller
    BY CallerAssumption DEF IInv, WriterKnown, RunInsert, NextOp
  <1>3. ~Conflicts(work, d) /\ work' = Put(work, i, d)
    BY DEF RunInsert
  <1>4. ASSUME NEW j \in Ids \ work.raw, NEW f \in Unique, work.docs[j] # NoDoc
        PROVE  work.docs[j][f] # d[f]
    <2>1. KeysOf(j, work.docs[j]) \subseteq work.idx
      BY <1>4 DEF IInv, StoresGood, FullyIndexed, Live
    <2>2. <<f, work.docs[j][f], j>> \in work.idx
      BY <2>1, SchemaAssumption DEF KeysOf
    <2>3. <<f, d[f], j>> \notin work.idx
      BY <1>3 DEF Conflicts
    <2> QED BY <2>2, <2>3
  <1> QED
    BY <1>1, <1>2, <1>3, <1>4 DEF Put, Store!Insert

\* The victims of a buffered delete are what a scan of the committed
\* documents would find, up to restored ones.
LEMMA DeleteManyMaps ==
    ASSUME IInv, NEW t \in Callers, RunDeleteMany(t)
    PROVE  Store!DeleteMany
  <1> DEFINE flt      == Head(ops[t]).flt
             matching == {i \in Ids : db.docs[i] # NoDoc /\ Matches(i, db.docs[i], flt)}
             found    == DOMAIN FindIn(db, flt)
  <1>1. Store!Runs("deleteMany")
    BY ScriptStep DEF RunDeleteMany
  <1>2. writer = t /\ writer # NoCaller
    BY CallerAssumption DEF IInv, WriterKnown, RunDeleteMany, NextOp
  <1>3. work' = RemoveVictims(work, FindIn(db, flt))
    BY DEF RunDeleteMany, Remove
  <1>4. matching = Matching(db, flt)
    BY DEF Matching, Live
  <1>5. found \subseteq matching
    BY <1>4 DEF FindIn, Fetch
  <1>6. matching \ db.raw \subseteq found
    BY <1>4, CandidatesComplete DEF FastPathsAgree, IInv, StoresGood
  <1>7. (matching \ found) \in SUBSET db.raw /\ matching \ (matching \ found) = found
    BY <1>5, <1>6
  <1>8. Store!Remove(found)
    BY <1>3 DEF RemoveVictims, Store!Remove
  <1>9. \E missed \in SUBSET db.raw : Store!Remove(matching \ missed)
    <2> HIDE DEF matching, found
    <2> QED BY <1>7, <1>8
  <1> QED
    BY <1>1, <1>2, <1>9 DEF Store!DeleteMany, Store!Matches, Matches

LEMMA VictimsMap ==
    ASSUME IInv, NEW t \in Callers, RunVictims(t)
    PROVE  Store!DeleteVictims
  <1>1. Store!Runs("victims")
    BY ScriptStep DEF RunVictims
  <1>2. writer = t /\ writer # NoCaller
    BY CallerAssumption DEF IInv, WriterKnown, RunVictims, NextOp
  <1>3. work' = RemoveVictims(work, Head(ops[t]).docs)
    BY DEF RunVictims, Remove
  <1> QED
    BY <1>1, <1>2, <1>3 DEF RemoveVictims, Store!Remove, Store!DeleteVictims

\* A caller's step outside its write transaction does not touch the script
\* of whoever holds the lock.
LEMMA ScriptKept ==
    ASSUME IInv, NEW t \in Callers, pc[t] # "write", UNCHANGED storeVars,
           \A u \in Callers \ {t} : ops'[u] = ops[u]
    PROVE  UNCHANGED Store!vars
  <1>1. writer # NoCaller => writer \in Callers /\ writer # t
    BY DEF IInv, TypeOK, WriterKnown
  <1> QED
    BY <1>1 DEF storeVars, Store!vars

LEMMA OutsideSteps ==
    ASSUME IInv, NEW t \in Callers, CallerStep(t)
    PROVE  \/ UNCHANGED Store!vars
           \/ BeginWrite(t) \/ RunInsert(t) \/ RunDeleteMany(t) \/ RunVictims(t)
           \/ Commit(t) \/ Abort(t)
  <1> DEFINE Outside == /\ pc[t] # "write" /\ UNCHANGED storeVars
                        /\ \A u \in Callers \ {t} : ops'[u] = ops[u]
  <1> USE DEF TypeOK, IInv
  <1>1. ASSUME NEW flt \in Filters, CallFind(t, flt) \/ CallDelete(t, flt)
        PROVE  Outside
    BY <1>1 DEF CallFind, CallDelete, StartQuery, Goto
  <1>2. ASSUME LookupIndex(t) PROVE Outside
    BY <1>2 DEF LookupIndex, Goto
  <1>3. ASSUME ReadOnce(t) \/ FetchRows(t) PROVE Outside
    BY <1>3 DEF ReadOnce, FetchRows, FinishQuery, Deliver
  <1>4. ASSUME NEW i \in Ids, NEW d \in Docs, CallInsert(t, i, d) \/ TxInsert(t, i, d)
        PROVE  Outside
    BY <1>4 DEF CallInsert, TxInsert, Buffer, Goto
  <1>5. ASSUME NEW flt \in Filters, TxDelete(t, flt) PROVE Outside
    BY <1>5 DEF TxDelete, Buffer
  <1>6. ASSUME NEW flt \in Filters, NEW patch \in Patches, TxUpdate(t, flt, patch)
        PROVE  Outside
    BY <1>6 DEF TxUpdate, StartQuery, Goto
  <1>7. ASSUME OpenTransaction(t) \/ EndUpdate(t) \/ CommitTransaction(t) PROVE Outside
    BY <1>7 DEF OpenTransaction, EndUpdate, CommitTransaction, Goto
  <1>8. ASSUME MergeOne(t) PROVE Outside
    <2>1. PICK i \in DOMAIN todo[t] :
            ops' = [ops EXCEPT ![t] = @ \o
                      <<DeleteManyOp(ById(i)),
                        InsertOp(i, Merge(todo[t][i], query[t].patch))>>]
      BY <1>8 DEF MergeOne
    <2> QED BY <1>8, <2>1 DEF MergeOne
  <1>9. ASSUME ThrowInCallback(t) PROVE Outside
    BY <1>9 DEF ThrowInCallback
  <1>10. Outside => UNCHANGED Store!vars
    BY ScriptKept
  <1> HIDE DEF Outside
  <1> QED
    BY <1>1, <1>2, <1>3, <1>4, <1>5, <1>6, <1>7, <1>8, <1>9, <1>10 DEF CallerStep

LEMMA BeginMaps ==
    ASSUME IInv, NEW t \in Callers, BeginWrite(t)
    PROVE  Store!Begin
  <1>1. ops[t] \in Seq(Ops) /\ ops' = ops /\ writer = NoCaller /\ writer' = t
    BY DEF IInv, TypeOK, BeginWrite
  <1>2. writer' # NoCaller /\ ops'[writer'] \in Seq(Store!Ops)
    BY <1>1, CallerAssumption, SameData
  <1> QED
    BY <1>1, <1>2 DEF BeginWrite, Store!Begin

LEMMA EndMaps ==
    ASSUME IInv, NEW t \in Callers, Commit(t) \/ Abort(t)
    PROVE  Store!Commit \/ Store!Abort
  <1>1. writer = t /\ writer # NoCaller
    BY CallerAssumption DEF IInv, WriterKnown, Commit, Abort
  <1>2. Store!Close
    BY <1>1 DEF Commit, Abort, EndWrite, EmptyStore, Store!Close, Store!NoDocs
  <1>3. CASE Commit(t)
    BY <1>1, <1>2, <1>3 DEF Commit, Store!Commit
  <1>4. CASE Abort(t)
    BY <1>2, <1>4 DEF Abort, Store!Abort
  <1> QED BY <1>3, <1>4

\* A restore that does not overwrite finds the collection empty, so both
\* kinds leave the documents of the backup and nothing else.
LEMMA RestoreMaps ==
    ASSUME IInv, NEW overwrite \in BOOLEAN, Restore(overwrite)
    PROVE  Store!Restore
  <1>1. rows \in DocMaps /\ db \in Stores
    BY DEF IInv, TypeOK, Restore
  <1>2. db' = RestoreRows(db, rows, overwrite) /\ writer = NoCaller
        /\ UNCHANGED <<writer, work, ops>>
    BY DEF Restore
  <1>3. CASE overwrite
    BY <1>1, <1>2, <1>3, SameData DEF RestoreRows, Store!Restore
  <1>4. CASE ~overwrite
    <2>1. Live(db) = {}
      BY <1>4 DEF Restore
    <2>2. db.docs = Store!NoDocs
      BY <1>1, <2>1 DEF Live, Stores, Store!NoDocs
    <2>3. db'.docs = [i \in Ids |-> IF i \in DOMAIN rows THEN rows[i] ELSE NoDoc]
      BY <1>2, <1>4, <2>2 DEF RestoreRows, Store!NoDocs
    <2>4. db'.raw = db.raw \cup DOMAIN rows
      BY <1>2, <1>4 DEF RestoreRows
    <2> QED
      BY <1>1, <1>2, <2>2, <2>3, <2>4, SameData DEF Store!Restore
  <1> QED BY <1>3, <1>4

LEMMA StepMaps == IInv /\ [Next]_vars => [Store!Next]_(Store!vars)
  <1> SUFFICES ASSUME IInv, [Next]_vars PROVE Store!Next \/ UNCHANGED Store!vars
    OBVIOUS
  <1>1. ASSUME NEW t \in Callers, CallerStep(t)
        PROVE  Store!Next \/ UNCHANGED Store!vars
    BY <1>1, OutsideSteps, BeginMaps, InsertMaps, DeleteManyMaps, VictimsMap, EndMaps
       DEF Store!Next
  <1>2. CASE Backup
    BY <1>2 DEF Backup, storeVars, Store!vars
  <1>3. ASSUME NEW overwrite \in BOOLEAN, Restore(overwrite) PROVE Store!Next
    BY <1>3, RestoreMaps DEF Store!Next
  <1>4. CASE UNCHANGED vars
    BY <1>4 DEF vars, Store!vars
  <1> QED
    BY <1>1, <1>2, <1>3, <1>4 DEF Next

\* The collection implements the store without an index.
THEOREM CollectionImplementsStore == Spec => ImplementsUniqueStore
  <1> QED
    BY InitMaps, StepMaps, Invariant, PTL DEF Spec, ImplementsUniqueStore, Store!Spec
=============================================================================
