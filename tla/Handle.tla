------------------------------- MODULE Handle -------------------------------
(***************************************************************************)
(* The life cycle of an open database: JsDatabase of                       *)
(* crates/nookdb-napi/src/database.rs under the handle that                *)
(* packages/nookdb/src/database.ts builds on it.                           *)
(*                                                                         *)
(* JavaScript runs one step at a time and calls into the binding. close    *)
(* and liveCancel run at once on its thread. Every other method is a task  *)
(* on the pool of the runtime: it takes clones of the shared engine or     *)
(* database under a lock, works without the lock, and answers later, so    *)
(* calls overtake each other and run on after close. The database file is  *)
(* released when the last clone is dropped.                                *)
(*                                                                         *)
(* What the calls read and write is modelled by Collection.tla, what the   *)
(* subscriptions see by Live.tla and LiveQuery.tla. The handle has a       *)
(* schema, as the one with transactions and live queries always does.      *)
(***************************************************************************)
EXTENDS Naturals, Sequences, FiniteSets, Functions

CONSTANTS
    Uses,          \* typed operations, tx.find among them, each called once
    Lives,         \* calls of live, each called once
    Transactions,  \* calls of db.transaction, each called once
    Ops,           \* tx.insert and tx.delete, each called once
    NoTransaction  \* not through a transaction

ASSUME HandleAssumption == NoTransaction \notin Transactions

VARIABLES
    open,      \* inner is Some(DbHandle)
    file,      \* the Arc<CoreDatabase> is alive: the file is locked
    engine,    \* the Arc<LiveEngine> is alive
    use,       \* place of each typed operation, and the transaction it reads in
    live,      \* place of each call of live
    liveSubs,  \* live_subs, the registry of the binding
    core,      \* subscriptions in the engine's own table
    deaf,      \* sinks marked closed
    late,      \* history: calls of live that had the engine when close ran
    forgotten, \* history: entries removed by a close of the closed database
    inTxn,     \* inWriteTxnFlags.get(native)
    nextTx,    \* next_tx_id
    txStates,  \* tx_states: the buffered operations of each handle
    tx,        \* each transaction: its place and handle
    replay,    \* operations commit_write_txn took from the table, or wrote
    op         \* each buffered operation: its transaction and place

liveVars == <<live, liveSubs, core, deaf, late, forgotten>>
txVars   == <<inTxn, nextTx, txStates, tx, replay, op>>
vars     == <<open, file, engine, use, liveVars, txVars>>

\* An operation remembers which of its transaction had been acknowledged when
\* it was called: `after` is history.
Idle == [at |-> "idle", tx |-> NoTransaction, after |-> {}]

Init ==
    /\ open = TRUE
    /\ file = TRUE
    /\ engine = TRUE
    /\ use = [u \in Uses |-> [at |-> "idle", tx |-> NoTransaction]]
    /\ live = [c \in Lives |-> "idle"]
    /\ liveSubs = {}
    /\ core = {}
    /\ deaf = {}
    /\ late = {}
    /\ forgotten = {}
    /\ inTxn = FALSE
    /\ nextTx = 1
    /\ txStates = <<>>
    /\ tx = [t \in Transactions |-> [at |-> "idle", handle |-> 0]]
    /\ replay = [t \in Transactions |-> <<>>]
    /\ op = [o \in Ops |-> Idle]
-----------------------------------------------------------------------------
(* Who keeps the engine and the database alive.                            *)

\* MUTANT: an entry of the registry keeps a clone of the engine.
EngineHeldByRegistry ==
    \/ open
    \/ \E c \in Lives : live[c] = "holding"
    \/ liveSubs # {}

EngineHeld == open \/ \E c \in Lives : live[c] = "holding"

\* MUTANT: a transaction borrows the handle's database instead of keeping a
\* clone of its own.
DatabaseHeldNoBuffer ==
    \/ open
    \/ engine
    \/ \E u \in Uses : use[u].at = "holding"
    \/ \E t \in Transactions : tx[t].at \in {"granted", "replaying"}

DatabaseHeld ==
    \/ open
    \/ engine
    \/ DOMAIN txStates # {}
    \/ \E u \in Uses : use[u].at = "holding"
    \/ \E t \in Transactions : tx[t].at \in {"granted", "replaying"}

\* The last clone is dropped: LiveEngine's Drop stops the worker and with it
\* the engine's table goes.
DropEngine ==
    /\ engine
    /\ ~EngineHeld
    /\ engine' = FALSE
    /\ core' = {}
    /\ UNCHANGED <<open, file, use, live, liveSubs, deaf, late, forgotten, txVars>>

ReleaseFile ==
    /\ file
    /\ ~DatabaseHeld
    /\ file' = FALSE
    /\ UNCHANGED <<open, engine, use, liveVars, txVars>>
-----------------------------------------------------------------------------
(* Typed operations, and the reads of a transaction.                       *)

\* The handle of t is in the table.
Buffered(t) == tx[t].handle \in DOMAIN txStates

UseAt(u, place) == use' = [use EXCEPT ![u] = [at |-> place, tx |-> NoTransaction]]

Begun(t) == tx[t].handle # 0

\* find, insert, delete ... of the database, or tx.find and its like.
CallUse(u, t) ==
    /\ use[u].at = "idle"
    /\ t # NoTransaction => Begun(t)
    /\ use' = [use EXCEPT ![u] = [at |-> "called", tx |-> t]]
    /\ UNCHANGED <<open, file, engine, liveVars, txVars>>

\* tx_find, tx_find_one, tx_count: the handle must be in the table, and then
\* they call the find of the database, which takes no notice of it.
CheckHandle(u) ==
    /\ use[u].at = "called"
    /\ use[u].tx # NoTransaction
    /\ UseAt(u, IF Buffered(use[u].tx) THEN "called" ELSE "ended")
    /\ UNCHANGED <<open, file, engine, liveVars, txVars>>

\* get_db, get_db_and_schema, get_db_and_optional_schema.
Acquire(u) ==
    /\ use[u].at = "called"
    /\ use[u].tx = NoTransaction
    /\ UseAt(u, IF open THEN "holding" ELSE "ended")
    /\ UNCHANGED <<open, file, engine, liveVars, txVars>>

\* The blocking closure ends, well or with an error, and drops its clone.
Finish(u) ==
    /\ use[u].at = "holding"
    /\ UseAt(u, "ended")
    /\ UNCHANGED <<open, file, engine, liveVars, txVars>>
-----------------------------------------------------------------------------
(* Live queries.                                                           *)

LiveAt(c, place) == live' = [live EXCEPT ![c] = place]

CallLive(c) ==
    /\ live[c] = "idle"
    /\ LiveAt(c, "called")
    /\ UNCHANGED <<open, file, engine, use, liveSubs, core, deaf, late, forgotten, txVars>>

\* get_live_engine, then the parsing of filter and options, which may fail.
AcquireEngine(c) ==
    /\ live[c] = "called"
    /\ \/ open /\ LiveAt(c, "holding")
       \/ LiveAt(c, "rejected")
    /\ UNCHANGED <<open, file, engine, use, liveSubs, core, deaf, late, forgotten, txVars>>

\* LiveEngine::register on the blocking pool, which drops its clone.
Register(c) ==
    /\ live[c] = "holding"
    /\ LiveAt(c, "registered")
    /\ core' = core \cup {c}
    /\ UNCHANGED <<open, file, engine, use, liveSubs, deaf, late, forgotten, txVars>>

\* live_registry_insert, and the answer.
Enter(c) ==
    /\ live[c] = "registered"
    /\ LiveAt(c, "resolved")
    /\ liveSubs' = liveSubs \cup {c}
    /\ UNCHANGED <<open, file, engine, use, core, deaf, late, forgotten, txVars>>

\* live_cancel: an id the registry does not know is no error.
LiveCancel(c) ==
    /\ live[c] = "resolved"
    /\ LiveAt(c, "cancelled")
    /\ liveSubs' = liveSubs \ {c}
    /\ deaf' = IF c \in liveSubs THEN deaf \cup {c} ELSE deaf
    /\ core' = IF c \in liveSubs /\ open THEN core \ {c} ELSE core
    /\ UNCHANGED <<open, file, engine, use, late, forgotten, txVars>>

\* The worker drops a subscription whose sink is closed.
Reap(c) ==
    /\ engine
    /\ c \in core \cap deaf
    /\ core' = core \ {c}
    /\ UNCHANGED <<open, file, engine, use, live, liveSubs, deaf, late, forgotten, txVars>>

\* MUTANT: the registry is cleared as if the database were closed already: its
\* sinks are not closed nor its subscriptions cancelled.
CloseClears ==
    /\ open' = FALSE
    /\ liveSubs' = {}
    /\ late' = IF open THEN {c \in Lives : live[c] \in {"holding", "registered"}} ELSE late
    /\ forgotten' = IF open THEN forgotten ELSE forgotten \cup liveSubs
    /\ UNCHANGED <<file, engine, use, live, core, deaf, txVars>>

\* close: detaches every subscription in the registry, then gives up the
\* handle. Calls that have their clones, and tx_states, are left alone.
CloseOpen ==
    /\ open
    /\ deaf' = deaf \cup liveSubs
    /\ core' = core \ liveSubs
    /\ late' = {c \in Lives : live[c] \in {"holding", "registered"}}
    /\ UNCHANGED forgotten

\* close again, which nothing forbids: the engine is gone from the handle, so
\* the entries of late registrations go without their sinks being closed.
CloseClosed ==
    /\ ~open
    /\ forgotten' = forgotten \cup liveSubs
    /\ UNCHANGED <<core, deaf, late>>

Close ==
    /\ open' = FALSE
    /\ liveSubs' = {}
    /\ CloseOpen \/ CloseClosed
    /\ UNCHANGED <<file, engine, use, live, txVars>>
-----------------------------------------------------------------------------
(* Transactions.                                                           *)

TxAt(t, place) == tx' = [tx EXCEPT ![t].at = place]

\* MUTANT: the flag is only set once begin_write_txn has answered.
TransactionFlagsLate(t) ==
    /\ tx[t].at = "idle"
    /\ UNCHANGED inTxn
    /\ TxAt(t, IF inTxn THEN "nested" ELSE "beginning")
    /\ UNCHANGED <<open, file, engine, use, liveVars, nextTx, txStates, replay, op>>

\* db.transaction(cb), from anywhere, the callback of another included.
Transaction(t) ==
    /\ tx[t].at = "idle"
    /\ inTxn' = TRUE
    /\ TxAt(t, IF inTxn THEN "nested" ELSE "beginning")
    /\ UNCHANGED <<open, file, engine, use, liveVars, nextTx, txStates, replay, op>>

\* begin_write_txn clones the database, or finds it closed.
GrantBegin(t) ==
    /\ tx[t].at = "beginning"
    /\ TxAt(t, IF open THEN "granted" ELSE "refused")
    /\ UNCHANGED <<open, file, engine, use, liveVars, inTxn, nextTx, txStates, replay, op>>

\* MUTANT: the counter of handles runs the wrong way.
InsertStateDown(t) ==
    /\ tx[t].at = "granted"
    /\ tx' = [tx EXCEPT ![t] = [at |-> "callback", handle |-> nextTx]]
    /\ nextTx' = nextTx - 1
    /\ txStates' = [h \in DOMAIN txStates \cup {nextTx} |->
                       IF h = nextTx THEN <<>> ELSE txStates[h]]
    /\ UNCHANGED <<open, file, engine, use, liveVars, inTxn, replay, op>>

\* MUTANT: the number of a finished transaction is used again.
InsertStateReuses(t) ==
    /\ tx[t].at = "granted"
    /\ tx' = [tx EXCEPT ![t] = [at |-> "callback", handle |-> nextTx]]
    /\ txStates' = [h \in DOMAIN txStates \cup {nextTx} |->
                       IF h = nextTx THEN <<>> ELSE txStates[h]]
    /\ UNCHANGED <<open, file, engine, use, liveVars, inTxn, nextTx, replay, op>>

\* begin_write_txn mints the handle and enters an empty buffer, which keeps
\* the clone; then the promise resolves and the callback runs.
InsertState(t) ==
    /\ tx[t].at = "granted"
    /\ tx' = [tx EXCEPT ![t] = [at |-> "callback", handle |-> nextTx]]
    /\ nextTx' = nextTx + 1
    /\ txStates' = [h \in DOMAIN txStates \cup {nextTx} |->
                       IF h = nextTx THEN <<>> ELSE txStates[h]]
    /\ UNCHANGED <<open, file, engine, use, liveVars, inTxn, replay, op>>

Acknowledged(t) == {o \in Ops : op[o].tx = t /\ op[o].at = "acknowledged"}

\* tx.insert or tx.delete. Nothing makes the callback await it, and nothing
\* keeps the proxy from being used when the transaction is over.
CallOp(o, t) ==
    /\ op[o].at = "idle"
    /\ Begun(t)
    /\ op' = [op EXCEPT ![o] = [at |-> "called", tx |-> t,
                                after |-> Acknowledged(t)]]
    /\ UNCHANGED <<open, file, engine, use, liveVars, inTxn, nextTx, txStates, tx, replay>>

\* MUTANT: operations are pushed in front.
PushFront(o) ==
    /\ op[o].at = "called"
    /\ Buffered(op[o].tx)
    /\ txStates' = [txStates EXCEPT ![tx[op[o].tx].handle] = <<o>> \o @]
    /\ op' = [op EXCEPT ![o].at = "acknowledged"]
    /\ UNCHANGED <<open, file, engine, use, liveVars, inTxn, nextTx, tx, replay>>

\* tx_insert, tx_delete_many: push onto the buffer, if there still is one.
Push(o) ==
    /\ op[o].at = "called"
    /\ Buffered(op[o].tx)
    /\ txStates' = [txStates EXCEPT ![tx[op[o].tx].handle] = Append(@, o)]
    /\ op' = [op EXCEPT ![o].at = "acknowledged"]
    /\ UNCHANGED <<open, file, engine, use, liveVars, inTxn, nextTx, tx, replay>>

RefuseOp(o) ==
    /\ op[o].at = "called"
    /\ ~Buffered(op[o].tx)
    /\ op' = [op EXCEPT ![o] = [Idle EXCEPT !.at = "rejected"]]
    /\ UNCHANGED <<open, file, engine, use, liveVars, inTxn, nextTx, txStates, tx, replay>>

CallbackReturns(t) ==
    /\ tx[t].at = "callback"
    /\ TxAt(t, "committing")
    /\ UNCHANGED <<open, file, engine, use, liveVars, inTxn, nextTx, txStates, replay, op>>

CallbackThrows(t) ==
    /\ tx[t].at = "callback"
    /\ TxAt(t, "rollingBack")
    /\ UNCHANGED <<open, file, engine, use, liveVars, inTxn, nextTx, txStates, replay, op>>

\* commit_write_txn first takes the buffer, and with it the clone, out of the
\* table. It does not look whether the database is open.
TakeState(t) ==
    /\ tx[t].at = "committing"
    /\ Buffered(t)
    /\ TxAt(t, "replaying")
    /\ replay' = [replay EXCEPT ![t] = txStates[tx[t].handle]]
    /\ txStates' = Restrict(txStates, DOMAIN txStates \ {tx[t].handle})
    /\ UNCHANGED <<open, file, engine, use, liveVars, inTxn, nextTx, op>>

\* The replay commits, or an operation fails and nothing is written; then
\* the catch of db.transaction rolls back.
Replay(t) ==
    /\ tx[t].at = "replaying"
    /\ \/ TxAt(t, "committed") /\ UNCHANGED replay
       \/ TxAt(t, "rollingBack") /\ replay' = [replay EXCEPT ![t] = <<>>]
    /\ UNCHANGED <<open, file, engine, use, liveVars, inTxn, nextTx, txStates, op>>

\* rollback_write_txn; that the buffer may be gone is ignored.
DiscardState(t) ==
    /\ tx[t].at = "rollingBack"
    /\ TxAt(t, "rolledBack")
    /\ txStates' = Restrict(txStates, DOMAIN txStates \ {tx[t].handle})
    /\ UNCHANGED <<open, file, engine, use, liveVars, inTxn, nextTx, replay, op>>

\* MUTANT: the flag is cleared in the finally only, which a failed begin
\* does not reach.
SettleInFinally(t) ==
    /\ tx[t].at \in {"committed", "rolledBack", "refused"}
    /\ TxAt(t, IF tx[t].at = "committed" THEN "resolved" ELSE "rejected")
    /\ inTxn' = (tx[t].at = "refused")
    /\ UNCHANGED <<open, file, engine, use, liveVars, nextTx, txStates, replay, op>>

\* The promise of db.transaction settles, after the flag is cleared.
Settle(t) ==
    /\ tx[t].at \in {"committed", "rolledBack", "refused"}
    /\ TxAt(t, IF tx[t].at = "committed" THEN "resolved" ELSE "rejected")
    /\ inTxn' = FALSE
    /\ UNCHANGED <<open, file, engine, use, liveVars, nextTx, txStates, replay, op>>
-----------------------------------------------------------------------------
Drops       == DropEngine \/ ReleaseFile
UseStep(u)  == CheckHandle(u) \/ Acquire(u) \/ Finish(u)
LiveStep(c) == AcquireEngine(c) \/ Register(c) \/ Enter(c)
OpStep(o)   == Push(o) \/ RefuseOp(o)
TxStep(t)   == \/ GrantBegin(t) \/ InsertState(t) \/ TakeState(t) \/ Replay(t)
               \/ DiscardState(t) \/ Settle(t)

Next ==
    \/ Drops
    \/ Close
    \/ \E u \in Uses : UseStep(u) \/ \E t \in Transactions \cup {NoTransaction} : CallUse(u, t)
    \/ \E c \in Lives : CallLive(c) \/ LiveStep(c) \/ LiveCancel(c) \/ Reap(c)
    \/ \E t \in Transactions :
          Transaction(t) \/ CallbackReturns(t) \/ CallbackThrows(t) \/ TxStep(t)
    \/ \E o \in Ops : OpStep(o) \/ \E t \in Transactions : CallOp(o, t)

Spec == Init /\ [][Next]_vars

\* Tasks on the pool run, and the event loop handles their answers. Nothing is
\* assumed of the consumer: a callback may never end.
FairSpec ==
    /\ Spec
    /\ WF_vars(DropEngine) /\ WF_vars(ReleaseFile)
    /\ \A u \in Uses : WF_vars(UseStep(u))
    /\ \A c \in Lives : WF_vars(LiveStep(c))
    /\ \A t \in Transactions : WF_vars(TxStep(t))
    /\ \A o \in Ops : WF_vars(OpStep(o))
-----------------------------------------------------------------------------
TypeOK ==
    /\ open \in BOOLEAN /\ file \in BOOLEAN /\ engine \in BOOLEAN
    /\ use \in [Uses -> [at : {"idle", "called", "holding", "ended"},
                         tx : Transactions \cup {NoTransaction}]]
    /\ live \in [Lives -> {"idle", "called", "holding", "registered", "resolved",
                           "cancelled", "rejected"}]
    /\ liveSubs \in SUBSET Lives
    /\ core \in SUBSET Lives
    /\ deaf \in SUBSET Lives
    /\ late \in SUBSET Lives
    /\ forgotten \in SUBSET Lives
    /\ inTxn \in BOOLEAN
    /\ nextTx \in Nat \ {0}
    /\ DOMAIN txStates \in SUBSET (1..nextTx-1)
    /\ txStates \in [DOMAIN txStates -> Seq(Ops)]
    /\ tx \in [Transactions ->
                 [at : {"idle", "nested", "beginning", "granted", "refused", "callback",
                        "committing", "replaying", "committed", "rollingBack",
                        "rolledBack", "resolved", "rejected"},
                  handle : 0..nextTx-1]]
    /\ replay \in [Transactions -> Seq(Ops)]
    /\ op \in [Ops -> [at : {"idle", "called", "acknowledged", "rejected"},
                       tx : Transactions \cup {NoTransaction},
                       after : SUBSET Ops]]

InProgress(t) == tx[t].at \notin {"idle", "nested", "resolved", "rejected"}

\* At most one call of db.transaction is between its start and the moment its
\* promise settles, and the table holds the buffer of no other: whichever way
\* transactions end, and whatever is closed meanwhile, no buffer stays behind.
OneTransaction ==
    /\ \A t, u \in Transactions : InProgress(t) /\ InProgress(u) => t = u
    /\ \A h \in DOMAIN txStates :
          \E t \in Transactions : tx[t].handle = h /\ InProgress(t)

\* What a transaction writes is what it acknowledged: a tx.insert that was not
\* awaited is in the commit or is rejected, never acknowledged and lost, and
\* one made through the proxy of a finished transaction gets into no other's
\* buffer. A transaction that does not commit writes nothing.
AckedIsWritten ==
    \A t \in Transactions :
        IF tx[t].at \in {"replaying", "committed", "resolved"}
        THEN Range(replay[t]) = Acknowledged(t)
        ELSE replay[t] = <<>>

InOrder(s) ==
    \A i, j \in DOMAIN s :
        i < j => /\ s[i] # s[j]
                 /\ s[j] \notin op[s[i]].after

\* Operations are replayed once each, and never before one that had been
\* awaited when they were called. Those not awaited may change places: each is
\* a task of its own.
AwaitedOrder == \A t \in Transactions : InOrder(replay[t])

\* The replay of a transaction is what its caller was told, in an order its
\* caller can have meant, whatever was not awaited and whatever came late.
ReplayIsFaithful == AckedIsWritten /\ AwaitedOrder

\* The binding's registry, the engine's table and the sinks agree: a consumer
\* that holds an id and neither cancelled nor saw the database closed has its
\* subscription in the engine; the engine has none that nobody can cancel, but
\* those being registered, those the worker is about to drop and those a second
\* close forgot; close leaves behind, for a second one to forget, only
\* registrations that had the engine when it ran; and what was forgotten is
\* gone when the engine is.
RegistryInStep ==
    /\ \A c \in Lives : live[c] \in {"resolved", "cancelled"} =>
                           (c \in liveSubs <=> c \notin deaf \cup forgotten)
    /\ open => liveSubs \subseteq core
    /\ core \subseteq liveSubs \cup deaf \cup forgotten
                       \cup {c \in Lives : live[c] = "registered"}
    /\ ~open => liveSubs \cup forgotten \subseteq late
    /\ open => forgotten = {}
    /\ ~engine => core = {}

\* Work that began before close ends on an open file: a read or write that has
\* its clone, a registration, and a transaction from begin to the end of its
\* replay.
FileOutlivesWork ==
    /\ (\E u \in Uses : use[u].at = "holding") => file
    /\ (\E c \in Lives : live[c] = "holding") => engine /\ file
    /\ (\E t \in Transactions :
           tx[t].at \in {"granted", "callback", "committing", "replaying"}) => file

InCallback == \E t \in Transactions : tx[t].at = "callback"

\* close releases the file, once the calls in flight are over, unless the
\* callback of a transaction never ends.
FileIsReleased == (<>[]~InCallback) => (~open ~> ~file)

\* Transactions are not refused as nested for ever: the flag is free, or the
\* callback of a transaction runs, again and again.
FlagIsReleased == []<>(inTxn => InCallback)
=============================================================================
