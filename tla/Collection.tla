----------------------------- MODULE Collection -----------------------------
(***************************************************************************)
(* Concurrent callers of one collection. Each call of the NAPI binding     *)
(* runs on its own blocking-pool thread, so callers interleave at every    *)
(* database transaction: reads see the last committed store, and at most   *)
(* one write transaction is open at a time (redb's begin_write blocks).    *)
(*                                                                         *)
(* A caller inserts, finds, deletes, or runs the db.transaction(cb) of     *)
(* packages/nookdb/src/database.ts: operations are buffered and replayed   *)
(* in one write transaction at commit. Reads inside cb, and the victims of *)
(* a buffered delete, come from the committed store and not from the       *)
(* buffer.                                                                 *)
(*                                                                         *)
(* backup and restore copy whole tables (backup.rs).                       *)
(***************************************************************************)
EXTENDS DocStore

CONSTANTS
    Callers,      \* concurrent calls in flight
    Filters,      \* filters callers use
    Patches,      \* patches of update: partial documents without the id
    MaxOps,       \* bound on the operations one transaction buffers
    MaxRestores,  \* bound on restores in one behaviour
    NoCaller,     \* nobody holds the write lock / the transaction flag
    NoRows        \* no backup was taken yet

ASSUME CallerAssumption ==
    /\ Filters \subseteq FilterSpace
    /\ Patches \subseteq Partial(Fields, Vals)
    /\ MaxOps \in Nat
    /\ MaxRestores \in Nat
    /\ NoCaller \notin Callers
    /\ NoRows \notin DocMaps

VARIABLES
    db,        \* committed store
    writer,    \* holder of redb's write transaction
    work,      \* the store as the open write transaction sees it
    touched,   \* ids in the open transaction's change-set (WriteTx.touched)
    event,     \* change-set of the last commit (CommitEvent), {} if none sent
    txOwner,   \* caller inside db.transaction (inWriteTxnFlags)
    pc,        \* where each caller is
    query,     \* the find a caller is executing, and what it is for
    cand,      \* ids returned by its index lookup
    todo,      \* matches an update has still to buffer
    ops,       \* operations to run in the caller's write transaction
    seen,      \* history: matches in each committed store since the call
    rows,      \* contents of the last backup file
    restores   \* number of restores, bounded by MaxRestores

vars == <<db, writer, work, touched, event, txOwner, pc, query, cand, todo,
          ops, seen, rows, restores>>

storeVars == <<db, writer, work, touched, event>>
fileVars  == <<rows, restores>>

\* The partial function with nothing in it: no matches, no patch, ...
Nothing == [x \in {} |-> x]

NoFilter  == [id |-> NoId, eq |-> Nothing, oper |-> Nothing]
ById(i)   == [id |-> i, eq |-> Nothing, oper |-> Nothing]

NoQuery == [flt |-> NoFilter, for |-> "find", patch |-> Nothing]

InsertOp(i, d)    == [op |-> "insert", id |-> i, doc |-> d]
DeleteManyOp(flt) == [op |-> "deleteMany", flt |-> flt]
VictimsOp(found)  == [op |-> "victims", docs |-> found]

Merge(d, patch) ==
    [f \in Fields |-> IF f \in DOMAIN patch THEN patch[f] ELSE d[f]]

Init ==
    /\ db = EmptyStore
    /\ writer = NoCaller
    /\ work = EmptyStore
    /\ touched = {}
    /\ event = {}
    /\ txOwner = NoCaller
    /\ pc = [t \in Callers |-> "idle"]
    /\ query = [t \in Callers |-> NoQuery]
    /\ cand = [t \in Callers |-> {}]
    /\ todo = [t \in Callers |-> Nothing]
    /\ ops = [t \in Callers |-> <<>>]
    /\ seen = [t \in Callers |-> {}]
    /\ rows = NoRows
    /\ restores = 0

Goto(t, from, to) == pc[t] = from /\ pc' = [pc EXCEPT ![t] = to]
-----------------------------------------------------------------------------
(* Finding: one read transaction, or two when an index serves the filter.  *)

\* Matches a snapshot query must report, not counting restored rows.
Settled(s, flt) == Matching(s, flt) \ s.raw

StartQuery(t, flt, for, patch) ==
    /\ query' = [query EXCEPT ![t] = [flt |-> flt, for |-> for, patch |-> patch]]
    /\ seen' = [seen EXCEPT ![t] = {Settled(db, flt)}]
    /\ UNCHANGED <<storeVars, fileVars, txOwner, cand, todo, ops>>

CallFind(t, flt) ==
    /\ Goto(t, "idle", "find")
    /\ StartQuery(t, flt, "find", Nothing)

CallDelete(t, flt) ==
    /\ Goto(t, "idle", "find")
    /\ StartQuery(t, flt, "delete", Nothing)

\* First read transaction of the index path.
LookupIndex(t) ==
    /\ UsesIndex(query[t].flt)
    /\ Goto(t, "find", "fetch")
    /\ cand' = [cand EXCEPT ![t] = Lookup(db, query[t].flt)]
    /\ UNCHANGED <<storeVars, fileVars, txOwner, query, todo, ops, seen>>

\* The result goes back to the caller of find, becomes the victims of a
\* delete, or the documents an update rewrites.
Deliver(t, found) ==
    \/ /\ query[t].for = "find"
       /\ pc' = [pc EXCEPT ![t] = "idle"]
       /\ UNCHANGED <<ops, todo>>
    \/ /\ query[t].for = "delete"
       /\ IF DOMAIN found = {}
          THEN /\ pc' = [pc EXCEPT ![t] = "idle"]
               /\ UNCHANGED ops
          ELSE /\ pc' = [pc EXCEPT ![t] = "begin"]
               /\ ops' = [ops EXCEPT ![t] = <<VictimsOp(found)>>]
       /\ UNCHANGED todo
    \/ /\ query[t].for = "update"
       /\ pc' = [pc EXCEPT ![t] = "merge"]
       /\ todo' = [todo EXCEPT ![t] = found]
       /\ UNCHANGED ops

FinishQuery(t, from) ==
    /\ Deliver(t, Fetch(db, from, query[t].flt))
    /\ cand' = [cand EXCEPT ![t] = {}]
    /\ seen' = [seen EXCEPT ![t] = {}]
    /\ query' = [query EXCEPT ![t] =
                    IF query[t].for = "update" THEN @ ELSE NoQuery]
    /\ UNCHANGED <<storeVars, fileVars, txOwner>>

\* The id path and the scan read everything in one transaction.
ReadOnce(t) ==
    /\ pc[t] = "find"
    /\ ~UsesIndex(query[t].flt)
    /\ FinishQuery(t, Candidates(db, query[t].flt))

\* Second read transaction of the index path.
FetchRows(t) ==
    /\ pc[t] = "fetch"
    /\ FinishQuery(t, cand[t])
-----------------------------------------------------------------------------
(* Calls that write.                                                       *)

CallInsert(t, i, d) ==
    /\ Goto(t, "idle", "begin")
    /\ ops' = [ops EXCEPT ![t] = <<InsertOp(i, d)>>]
    /\ UNCHANGED <<storeVars, fileVars, txOwner, query, cand, todo, seen>>

OpenTransaction(t) ==
    /\ txOwner = NoCaller
    /\ Goto(t, "idle", "callback")
    /\ txOwner' = t
    /\ UNCHANGED <<storeVars, fileVars, query, cand, todo, ops, seen>>

Buffer(t, op) ==
    /\ pc[t] = "callback"
    /\ Len(ops[t]) < MaxOps
    /\ ops' = [ops EXCEPT ![t] = Append(@, op)]
    /\ UNCHANGED <<storeVars, fileVars, txOwner, pc, query, cand, todo, seen>>

TxInsert(t, i, d) == Buffer(t, InsertOp(i, d))

TxDelete(t, flt) == Buffer(t, DeleteManyOp(flt))

\* applyUpdateLoop starts with tx.find.
TxUpdate(t, flt, patch) ==
    /\ Len(ops[t]) < MaxOps
    /\ Goto(t, "callback", "find")
    /\ StartQuery(t, flt, "update", patch)

\* One iteration of applyUpdateLoop: delete({id}), then insert(merged).
MergeOne(t) ==
    /\ pc[t] = "merge"
    /\ Len(ops[t]) + 2 <= MaxOps
    /\ \E i \in DOMAIN todo[t] :
        /\ ops' = [ops EXCEPT ![t] = @ \o
             <<DeleteManyOp(ById(i)),
               InsertOp(i, Merge(todo[t][i], query[t].patch))>>]
        /\ todo' = [todo EXCEPT ![t] = [j \in DOMAIN @ \ {i} |-> @[j]]]
    /\ UNCHANGED <<storeVars, fileVars, txOwner, pc, query, cand, seen>>

EndUpdate(t) ==
    /\ DOMAIN todo[t] = {}
    /\ Goto(t, "merge", "callback")
    /\ query' = [query EXCEPT ![t] = NoQuery]
    /\ UNCHANGED <<storeVars, fileVars, txOwner, cand, todo, ops, seen>>

\* cb returned: commitWriteTxn.
CommitTransaction(t) ==
    /\ Goto(t, "callback", "begin")
    /\ UNCHANGED <<storeVars, fileVars, txOwner, query, cand, todo, ops, seen>>

\* cb threw: rollbackWriteTxn drops the buffer.
ThrowInCallback(t) ==
    /\ pc[t] \in {"callback", "merge"}
    /\ pc' = [pc EXCEPT ![t] = "idle"]
    /\ ops' = [ops EXCEPT ![t] = <<>>]
    /\ todo' = [todo EXCEPT ![t] = Nothing]
    /\ query' = [query EXCEPT ![t] = NoQuery]
    /\ txOwner' = NoCaller
    /\ UNCHANGED <<storeVars, fileVars, cand, seen>>
-----------------------------------------------------------------------------
(* Database::write and the closures it runs.                               *)

BeginWrite(t) ==
    /\ writer = NoCaller
    /\ Goto(t, "begin", "write")
    /\ writer' = t
    /\ work' = db
    /\ touched' = {}
    /\ UNCHANGED <<db, event, fileVars, txOwner, query, cand, todo, ops, seen>>

NextOp(t, kind) ==
    /\ pc[t] = "write"
    /\ ops[t] # <<>>
    /\ Head(ops[t]).op = kind

ConsumeOp(t) ==
    /\ ops' = [ops EXCEPT ![t] = Tail(@)]
    /\ UNCHANGED <<db, writer, event, fileVars, txOwner, pc, query, cand, todo,
                   seen>>

\* MUTANT: the change-set misses inserted documents.
RunInsertUnreported(t) ==
    /\ NextOp(t, "insert")
    /\ LET op == Head(ops[t]) IN
        /\ ~Conflicts(work, op.doc)
        /\ work' = Put(work, op.id, op.doc)
        /\ UNCHANGED touched
    /\ ConsumeOp(t)

\* MUTANT: no conflict check.
RunInsertUnchecked(t) ==
    /\ NextOp(t, "insert")
    /\ LET op == Head(ops[t]) IN
        /\ work' = Put(work, op.id, op.doc)
        /\ touched' = touched \cup {op.id}
    /\ ConsumeOp(t)

\* insert_validated_in_tx when no unique index holds the value.
RunInsert(t) ==
    /\ NextOp(t, "insert")
    /\ LET op == Head(ops[t]) IN
        /\ ~Conflicts(work, op.doc)
        /\ work' = Put(work, op.id, op.doc)
        /\ touched' = touched \cup {op.id}
    /\ ConsumeOp(t)

Remove(victims) ==
    /\ work' = RemoveVictims(work, victims)
    /\ touched' = touched \cup (DOMAIN victims \cap Live(work))

\* delete_in_tx: the victims come from the committed store. No commit can
\* fall between its reads, this caller being the writer.
RunDeleteMany(t) ==
    /\ NextOp(t, "deleteMany")
    /\ Remove(FindIn(db, Head(ops[t]).flt))
    /\ ConsumeOp(t)

\* delete: the victims were read before the write transaction began.
RunVictims(t) ==
    /\ NextOp(t, "victims")
    /\ Remove(Head(ops[t]).docs)
    /\ ConsumeOp(t)

\* The write closure is over: the lock goes, and with it db.transaction's
\* flag, buffer and handle.
EndWrite(t) ==
    /\ writer' = NoCaller
    /\ work' = EmptyStore
    /\ touched' = {}
    /\ pc' = [pc EXCEPT ![t] = "idle"]
    /\ ops' = [ops EXCEPT ![t] = <<>>]
    /\ txOwner' = IF txOwner = t THEN NoCaller ELSE txOwner
    /\ UNCHANGED <<query, cand, todo>>

\* Every open query sees one more committed store.
Observe(s) ==
    seen' = [t \in Callers |->
               IF pc[t] \in {"find", "fetch"}
               THEN seen[t] \cup {Settled(s, query[t].flt)} ELSE seen[t]]

\* Commit, then dispatch of the CommitEvent unless nothing was touched.
Commit(t) ==
    /\ pc[t] = "write"
    /\ ops[t] = <<>>
    /\ db' = work
    /\ event' = touched
    /\ Observe(work)
    /\ EndWrite(t)
    /\ UNCHANGED fileVars

\* A unique conflict, an invalid document, a storage error or a panic
\* rolls the transaction back.
Abort(t) ==
    /\ pc[t] = "write"
    /\ EndWrite(t)
    /\ UNCHANGED <<db, event, seen, fileVars>>
-----------------------------------------------------------------------------
(* backup.rs                                                               *)

\* write_backup: one read transaction over `entries`. (Bound: a backup
\* nothing can restore is not taken.)
Backup ==
    /\ restores < MaxRestores
    /\ rows' = [i \in Live(db) |-> db.docs[i]]
    /\ UNCHANGED <<storeVars, restores, txOwner, pc, query, cand, todo, ops,
                   seen>>

\* read_backup once the stream has been parsed and its checksum verified:
\* one write transaction, and no change-set, hence no CommitEvent.
Restore(overwrite) ==
    /\ rows # NoRows
    /\ restores < MaxRestores
    /\ writer = NoCaller
    /\ ~overwrite => Live(db) = {}
    /\ db' = RestoreRows(db, rows, overwrite)
    /\ event' = {}
    /\ Observe(db')
    /\ restores' = restores + 1
    /\ UNCHANGED <<writer, work, touched, txOwner, pc, query, cand, todo, ops,
                   rows>>
-----------------------------------------------------------------------------
CallerStep(t) ==
    \/ \E flt \in Filters : CallFind(t, flt) \/ CallDelete(t, flt)
    \/ LookupIndex(t) \/ ReadOnce(t) \/ FetchRows(t)
    \/ \E i \in Ids, d \in Docs : CallInsert(t, i, d) \/ TxInsert(t, i, d)
    \/ OpenTransaction(t)
    \/ \E flt \in Filters : TxDelete(t, flt)
    \/ \E flt \in Filters, patch \in Patches : TxUpdate(t, flt, patch)
    \/ MergeOne(t) \/ EndUpdate(t)
    \/ CommitTransaction(t) \/ ThrowInCallback(t)
    \/ BeginWrite(t)
    \/ RunInsert(t) \/ RunDeleteMany(t) \/ RunVictims(t)
    \/ Commit(t) \/ Abort(t)

Next ==
    \/ \E t \in Callers : CallerStep(t)
    \/ Backup
    \/ \E overwrite \in BOOLEAN : Restore(overwrite)

Spec == Init /\ [][Next]_vars
-----------------------------------------------------------------------------
(* Type invariant.                                                         *)

Queries == [flt : FilterSpace, for : {"find", "delete", "update"},
            patch : Partial(Fields, Vals)]

Places == {"idle", "find", "fetch", "callback", "merge", "begin", "write"}

\* Every variable holds a value of its type.
TypeOK ==
    /\ db \in Stores
    /\ work \in Stores
    /\ writer \in Callers \cup {NoCaller}
    /\ touched \in SUBSET Ids
    /\ event \in SUBSET Ids
    /\ txOwner \in Callers \cup {NoCaller}
    /\ pc \in [Callers -> Places]
    /\ query \in [Callers -> Queries]
    /\ cand \in [Callers -> SUBSET Ids]
    /\ todo \in [Callers -> DocMaps]
    /\ ops \in [Callers -> Seq(Ops)]
    /\ seen \in [Callers -> SUBSET SUBSET Ids]
    /\ rows \in DocMaps \cup {NoRows}
    /\ restores \in 0..MaxRestores
-----------------------------------------------------------------------------
(* Safety.                                                                 *)

\* Whatever the callers interleave, every committed document that an insert
\* wrote has an entry in each of its indexes: a delete that removes entries
\* by a stale victim's values (collection.rs:268) removes the row as well.
IndexCoversDocuments == FullyIndexed(db)

\* A unique index admits no duplicates, however inserts, racing deletes and
\* replayed transactions interleave (insert's pre-check, collection.rs:387,
\* only looks at index entries, some of which may be stale).
UniqueValues == NoDuplicates(db)

\* The id and index fast paths of `candidates` miss no document a full scan
\* would return (collection.rs:123: they "can only narrow").
FastPathsComplete == \A flt \in Filters : FastPathsAgree(db, flt)

Always(t) == {i \in Ids : \A m \in seen[t] : i \in m}

\* A document that matched in every store committed since a find began is
\* among the rows the find reads, although the index lookup and the row
\* fetch are two read transactions (collection.rs:144-154).
StableMatchesFound ==
    \A t \in Callers : pc[t] = "fetch" => Always(t) \subseteq cand[t]

\* While a transaction is open the committed store does not move under it:
\* what delete_in_tx reads at commit time is what its victims are removed
\* from, up to the transaction's own writes.
WriterSeesCommitted ==
    writer # NoCaller =>
        \A i \in Ids \ touched : work.docs[i] = db.docs[i]

\* Each commit's CommitEvent names every document the commit changed, but
\* for those a restore rewrote (storage.rs put / delete push `touched`).
ChangesReported ==
    [][\A i \in Ids :
         db'.docs[i] # db.docs[i] /\ i \notin db'.raw => i \in event']_vars
-----------------------------------------------------------------------------
(* Refinement.                                                             *)

Store == INSTANCE UniqueStore WITH
    docs      <- db.docs,
    bare      <- db.raw,
    open      <- writer # NoCaller,
    script    <- IF writer = NoCaller THEN <<>> ELSE ops[writer],
    draft     <- work.docs,
    draftBare <- work.raw

\* Callers may forget the index: whatever they interleave, each write
\* transaction does to the documents what its operations say, at once or not
\* at all (collection.rs:392 runs the unique check on the open transaction,
\* collection.rs:328 resolves victims on the committed store).
ImplementsUniqueStore == Store!Spec
-----------------------------------------------------------------------------
(* What a comment says and some interleavings contradict.                  *)

\* collection.rs:348 - insert fails with Conflict when "a unique-index value
\* already exists". A stale entry makes it fail when no document has it.
ConflictIsReal ==
    \A t \in Callers :
        NextOp(t, "insert") /\ Conflicts(work, Head(ops[t]).doc) =>
            \E i \in Live(work), f \in Unique :
                work.docs[i][f] = Head(ops[t]).doc[f]
=============================================================================
