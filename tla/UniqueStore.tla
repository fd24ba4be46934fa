----------------------------- MODULE UniqueStore -----------------------------
(***************************************************************************)
(* What the callers of one collection may rely on, without a word about    *)
(* index entries, read transactions or the order in which callers run:     *)
(*                                                                         *)
(*   - a write transaction runs its operations one by one on a private     *)
(*     draft of the committed documents, and takes effect entirely at      *)
(*     commit or not at all;                                               *)
(*   - an insert that succeeds met no document with its unique value;      *)
(*   - a buffered delete removes what matched its filter in the committed  *)
(*     documents, and a delete the victims it was given.                   *)
(*                                                                         *)
(* Documents a restore wrote are `bare`: no unique check sees them, and a  *)
(* delete may or may not.                                                  *)
(***************************************************************************)
EXTENDS DocStore

VARIABLES
    docs,      \* committed documents
    bare,      \* ids of those a restore wrote
    open,      \* a write transaction is open
    script,    \* the operations it has still to run
    draft,     \* the documents as it sees them
    draftBare  \* `bare` as it sees it

vars == <<docs, bare, open, script, draft, draftBare>>

NoDocs == [i \in Ids |-> NoDoc]

Init ==
    /\ docs = NoDocs
    /\ bare = {}
    /\ open = FALSE
    /\ script = <<>>
    /\ draft = NoDocs
    /\ draftBare = {}

Begin ==
    /\ ~open
    /\ open' = TRUE
    /\ script' \in Seq(Ops)
    /\ draft' = docs
    /\ draftBare' = bare
    /\ UNCHANGED <<docs, bare>>

Runs(kind) ==
    /\ open
    /\ script # <<>>
    /\ Head(script).op = kind
    /\ script' = Tail(script)
    /\ UNCHANGED <<docs, bare, open>>

Insert ==
    /\ Runs("insert")
    /\ LET i == Head(script).id
           d == Head(script).doc
       IN  /\ \A j \in Ids \ draftBare, f \in Unique :
                draft[j] # NoDoc => draft[j][f] # d[f]
           /\ draft' = [draft EXCEPT ![i] = d]
           /\ draftBare' = draftBare \ {i}

Remove(ids) ==
    /\ draft' = [i \in Ids |-> IF i \in ids THEN NoDoc ELSE draft[i]]
    /\ draftBare' = draftBare \ ids

DeleteMany ==
    /\ Runs("deleteMany")
    /\ LET matching == {i \in Ids : docs[i] # NoDoc /\ Matches(i, docs[i], Head(script).flt)}
       IN  \E missed \in SUBSET bare : Remove(matching \ missed)

DeleteVictims ==
    /\ Runs("victims")
    /\ Remove(DOMAIN Head(script).docs)

Close ==
    /\ open
    /\ open' = FALSE
    /\ script' = <<>>
    /\ draft' = NoDocs
    /\ draftBare' = {}

Commit ==
    /\ Close
    /\ script = <<>>
    /\ docs' = draft
    /\ bare' = draftBare

Abort ==
    /\ Close
    /\ UNCHANGED <<docs, bare>>

Restore ==
    /\ ~open
    /\ \E rows \in DocMaps :
        \/ /\ docs' = [i \in Ids |-> IF i \in DOMAIN rows THEN rows[i] ELSE NoDoc]
           /\ bare' = Ids
        \/ /\ docs = NoDocs
           /\ docs' = [i \in Ids |-> IF i \in DOMAIN rows THEN rows[i] ELSE NoDoc]
           /\ bare' = bare \cup DOMAIN rows
    /\ UNCHANGED <<open, script, draft, draftBare>>

Next ==
    \/ Begin \/ Insert \/ DeleteMany \/ DeleteVictims
    \/ Commit \/ Abort \/ Restore

Spec == Init /\ [][Next]_vars
=============================================================================
