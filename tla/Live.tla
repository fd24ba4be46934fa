-------------------------------- MODULE Live --------------------------------
(***************************************************************************)
(* The reactive engine: src/crates/nookdb-core/src/live.rs, fed by the     *)
(* post-commit notifier of notify.rs.                                      *)
(*                                                                         *)
(* A write transaction commits and then, its lock released, dispatches its *)
(* change-set on its own thread: on_commit marks the subscriptions of the  *)
(* touched collections dirty and wakes the single worker thread, which     *)
(* drains the dirty set, recomputes each query and emits the result.       *)
(* Registration, cancellation, a consumer that goes away and the engine's  *)
(* Drop run on other threads. Every critical section is one step; nothing  *)
(* is held between two of them.                                            *)
(*                                                                         *)
(* A collection's contents are its version, the number of commits that     *)
(* touched it. A query result is the pair of versions its two reads saw    *)
(* (Collection::candidates looks ids up and fetches rows in two read       *)
(* transactions; a query that reads once is the case where they agree).    *)
(***************************************************************************)
EXTENDS Naturals, FiniteSets

CONSTANTS
    Collections,
    Subs,         \* subscription ids, each given out once (next_id)
    CollOf,       \* the collection each subscription queries
    Writers,      \* threads that commit
    MaxVersion,   \* bound on the commits to one collection
    NoSub         \* the worker is between two subscriptions

ASSUME LiveAssumption ==
    /\ CollOf \in [Subs -> Collections]
    /\ MaxVersion \in Nat
    /\ NoSub \notin Subs

VARIABLES
    version,    \* committed version of each collection
    wpc,        \* where each writer is
    wrote,      \* collections of its commit event, until on_commit saw it
    observing,  \* the engine's observer is registered with the notifier
    wake,       \* LiveShared.wake
    shutdown,   \* LiveShared.shutdown
    engine,     \* how far LiveEngine's Drop has come
    subs,       \* LiveShared.subs: ids registered
    dirty,      \* those marked dirty
    closed,     \* those whose sink is closed
    rpc,        \* where each call to register is
    initial,    \* the snapshot it is computing
    worker,     \* where the worker is
    work,       \* subscriptions it drained and has not handled yet
    item,       \* the one it handles now
    result,     \* the snapshot it is computing
    dead,       \* those found closed in this pass
    last,       \* the last snapshot each consumer was given
    since       \* history: the version when the subscription was inserted, and
                \* before that when its registration began

vars == <<version, wpc, wrote, observing, wake, shutdown, engine, subs, dirty,
          closed, rpc, initial, worker, work, item, result, dead, last, since>>

writerVars == <<version, wpc, wrote>>
engineVars == <<observing, shutdown, engine>>
callVars   == <<closed, rpc, initial>>
workerVars == <<work, item, result, dead>>
viewVars   == <<last, since>>

Versions == 0..MaxVersion

\* The versions the two reads of a query saw: what its envelope tells. (The
\* query may fail, its envelope is then that of the error; it is emitted and
\* replaced by the next one all the same.)
Results == [ids : Versions, rows : Versions]

NoResult == [ids |-> 0, rows |-> 0]

VersionFor(s) == version[CollOf[s]]

Registering == {s \in Subs : rpc[s] \in {"lookup", "fetch", "insert"}}

Init ==
    /\ version = [c \in Collections |-> 0]
    /\ wpc = [w \in Writers |-> "idle"]
    /\ wrote = [w \in Writers |-> {}]
    /\ observing = TRUE
    /\ wake = FALSE
    /\ shutdown = FALSE
    /\ engine = "open"
    /\ subs = {}
    /\ dirty = {}
    /\ closed = {}
    /\ rpc = [s \in Subs |-> "new"]
    /\ initial = [s \in Subs |-> NoResult]
    /\ worker = "check"
    /\ work = {}
    /\ item = NoSub
    /\ result = NoResult
    /\ dead = {}
    /\ last = [s \in Subs |-> NoResult]
    /\ since = [s \in Subs |-> 0]
-----------------------------------------------------------------------------
(* Committing threads: Database::write, Notifier::dispatch, on_commit.     *)

WriterGoto(w, from, to) == wpc[w] = from /\ wpc' = [wpc EXCEPT ![w] = to]

\* The transaction commits; its change-set is not dispatched yet.
Commit(w, touched) ==
    /\ \A c \in touched : version[c] < MaxVersion
    /\ WriterGoto(w, "idle", "dispatch")
    /\ version' = [c \in Collections |->
                      IF c \in touched THEN version[c] + 1 ELSE version[c]]
    /\ wrote' = [wrote EXCEPT ![w] = touched]
    /\ UNCHANGED <<engineVars, wake, subs, dirty, callVars, worker, workerVars,
                   viewVars>>

\* dispatch upgrades the registered observers under the slots lock.
Dispatch(w) ==
    /\ WriterGoto(w, "dispatch", IF observing THEN "mark" ELSE "idle")
    /\ wrote' = IF observing THEN wrote ELSE [wrote EXCEPT ![w] = {}]
    /\ UNCHANGED <<version, engineVars, wake, subs, dirty, callVars,
                   worker, workerVars, viewVars>>

Touches(w, s) == CollOf[s] \in wrote[w]

\* on_commit marks the subscriptions of the touched collections.
Mark(w) ==
    LET hit == IF engine = "gone" THEN {} ELSE {s \in subs : Touches(w, s)} IN
    /\ WriterGoto(w, "mark", IF hit = {} THEN "idle" ELSE "wake")
    /\ dirty' = dirty \cup hit
    /\ wrote' = [wrote EXCEPT ![w] = {}]
    /\ UNCHANGED <<version, engineVars, wake, subs, callVars, worker,
                   workerVars, viewVars>>

\* Mutant: the flag is raised only for a worker that sleeps.
SetWakeIfAsleep(w) ==
    /\ WriterGoto(w, "wake", "notify")
    /\ wake' = (wake \/ worker = "asleep")
    /\ UNCHANGED <<version, wrote, engineVars, subs, dirty, callVars, worker,
                   workerVars, viewVars>>

\* wake_worker sets the flag under its lock ...
SetWake(w) ==
    /\ WriterGoto(w, "wake", "notify")
    /\ wake' = TRUE
    /\ UNCHANGED <<version, wrote, engineVars, subs, dirty, callVars, worker,
                   workerVars, viewVars>>

\* ... and notifies the condition variable after releasing it.
Roused == IF worker = "asleep" THEN "check" ELSE worker

Notify(w) ==
    /\ WriterGoto(w, "notify", "idle")
    /\ worker' = Roused
    /\ UNCHANGED <<version, wrote, engineVars, wake, subs, dirty, callVars,
                   workerVars, viewVars>>
-----------------------------------------------------------------------------
(* register, cancel, and a sink whose JS side goes away.                   *)

RegisterGoto(s, from, to) == rpc[s] = from /\ rpc' = [rpc EXCEPT ![s] = to]

StartRegister(s) ==
    /\ engine = "open"
    /\ RegisterGoto(s, "new", "lookup")
    /\ since' = [since EXCEPT ![s] = VersionFor(s)]
    /\ UNCHANGED <<writerVars, engineVars, wake, subs, dirty, closed, initial,
                   worker, workerVars, last>>

\* recompute_envelope for the initial snapshot, before any lock is taken.
InitialLookup(s) ==
    /\ RegisterGoto(s, "lookup", "fetch")
    /\ initial' = [initial EXCEPT ![s] =
                      [ids |-> VersionFor(s), rows |-> VersionFor(s)]]
    /\ UNCHANGED <<writerVars, engineVars, wake, subs, dirty, closed, worker,
                   workerVars, viewVars>>

InitialFetch(s) ==
    /\ RegisterGoto(s, "fetch", "insert")
    /\ initial' = [initial EXCEPT ![s].rows = VersionFor(s)]
    /\ UNCHANGED <<writerVars, engineVars, wake, subs, dirty, closed, worker,
                   workerVars, viewVars>>

\* The subscription is inserted clean and the snapshot returned.
Insert(s) ==
    /\ RegisterGoto(s, "insert", "returned")
    /\ subs' = subs \cup {s}
    /\ last' = [last EXCEPT ![s] = initial[s]]
    /\ initial' = [initial EXCEPT ![s] = NoResult]
    /\ since' = [since EXCEPT ![s] = VersionFor(s)]
    /\ UNCHANGED <<writerVars, engineVars, wake, dirty, closed, worker,
                   workerVars>>

\* Mutant: the mark outlives the subscription.
CancelKeepsMark(s) ==
    /\ engine = "open"
    /\ s \in subs
    /\ subs' = subs \ {s}
    /\ UNCHANGED <<writerVars, engineVars, wake, dirty, callVars, worker,
                   workerVars, viewVars>>

Cancel(s) ==
    /\ engine = "open"
    /\ s \in subs
    /\ subs' = subs \ {s}
    /\ dirty' = dirty \ {s}
    /\ UNCHANGED <<writerVars, engineVars, wake, callVars, worker, workerVars,
                   viewVars>>

\* TsfnSink::mark_closed.
CloseSink(s) ==
    /\ rpc[s] = "returned"
    /\ s \notin closed
    /\ closed' = closed \cup {s}
    /\ UNCHANGED <<writerVars, engineVars, wake, subs, dirty, rpc, initial,
                   worker, workerVars, viewVars>>
-----------------------------------------------------------------------------
(* worker_loop.                                                            *)

WorkerGoto(from, to) == worker = from /\ worker' = to

\* The wait loop, under the wake lock: sleep, or consume the flag.
CheckWake ==
    /\ WorkerGoto("check", IF wake \/ shutdown THEN "woken" ELSE "asleep")
    /\ wake' = FALSE
    /\ UNCHANGED <<writerVars, engineVars, subs, dirty, callVars, workerVars,
                   viewVars>>

\* A condition variable may wake without a notification.
SpuriousWakeup ==
    /\ WorkerGoto("asleep", "check")
    /\ UNCHANGED <<writerVars, engineVars, wake, subs, dirty, callVars,
                   workerVars, viewVars>>

CheckShutdown ==
    /\ WorkerGoto("woken", IF shutdown THEN "exited" ELSE "drain")
    /\ UNCHANGED <<writerVars, engineVars, wake, subs, dirty, callVars,
                   workerVars, viewVars>>

\* Takes the dirty subscriptions and clears their flags.
Drain ==
    /\ WorkerGoto("drain", "items")
    /\ work' = dirty
    /\ dirty' = {}
    /\ UNCHANGED <<writerVars, engineVars, wake, subs, callVars, item, result,
                   dead, viewVars>>

\* The next drained subscription; one whose sink is closed dies.
TakeItem(s) ==
    /\ s \in work
    /\ work' = work \ {s}
    /\ IF s \in closed
       THEN /\ WorkerGoto("items", "items")
            /\ dead' = dead \cup {s}
            /\ UNCHANGED item
       ELSE /\ WorkerGoto("items", "contains")
            /\ item' = s
            /\ UNCHANGED dead
    /\ UNCHANGED <<writerVars, engineVars, wake, subs, dirty, callVars, result,
                   viewVars>>

\* Mutant: a subscription cancelled since it was drained is not passed over.
SkipNone ==
    /\ WorkerGoto("contains", "lookup")
    /\ UNCHANGED <<writerVars, engineVars, wake, subs, dirty, callVars, work,
                   item, result, dead, viewVars>>

\* It may have been cancelled since it was drained.
CheckCancelled ==
    /\ WorkerGoto("contains", IF item \in subs THEN "lookup" ELSE "items")
    /\ item' = IF item \in subs THEN item ELSE NoSub
    /\ UNCHANGED <<writerVars, engineVars, wake, subs, dirty, callVars, work,
                   result, dead, viewVars>>

\* recompute_envelope.
RecomputeLookup ==
    /\ WorkerGoto("lookup", "fetch")
    /\ result' = [ids |-> VersionFor(item), rows |-> VersionFor(item)]
    /\ UNCHANGED <<writerVars, engineVars, wake, subs, dirty, callVars, work,
                   item, dead, viewVars>>

RecomputeFetch ==
    /\ WorkerGoto("fetch", "emit")
    /\ result' = [result EXCEPT !.rows = VersionFor(item)]
    /\ UNCHANGED <<writerVars, engineVars, wake, subs, dirty, callVars, work,
                   item, dead, viewVars>>

\* TsfnSink::emit gives up once the sink is closed ...
CheckSink ==
    /\ WorkerGoto("emit", IF item \in closed THEN "items" ELSE "deliver")
    /\ item' = IF item \in closed THEN NoSub ELSE item
    /\ result' = IF item \in closed THEN NoResult ELSE result
    /\ UNCHANGED <<writerVars, engineVars, wake, subs, dirty, callVars, work,
                   dead, viewVars>>

\* ... and else queues the envelope for the consumer.
Deliver ==
    /\ WorkerGoto("deliver", "items")
    /\ last' = [last EXCEPT ![item] = result]
    /\ item' = NoSub
    /\ result' = NoResult
    /\ UNCHANGED <<writerVars, engineVars, wake, subs, dirty, callVars, work,
                   dead, since>>

EndPass ==
    /\ work = {}
    /\ WorkerGoto("items", "check")
    /\ dead' = {}

\* Mutants: the wake flag, or the marks, are cleared after the pass; the
\* dead stay registered.
ReapLowersWake ==
    /\ EndPass
    /\ wake' = FALSE
    /\ subs' = subs \ dead
    /\ dirty' = dirty \ dead
    /\ UNCHANGED <<writerVars, engineVars, callVars, work, item, result, viewVars>>

ReapUnmarks ==
    /\ EndPass
    /\ subs' = subs \ dead
    /\ dirty' = {}
    /\ UNCHANGED <<writerVars, engineVars, wake, callVars, work, item, result,
                   viewVars>>

ReapNobody ==
    /\ EndPass
    /\ UNCHANGED <<writerVars, engineVars, wake, subs, dirty, callVars, work,
                   item, result, viewVars>>

\* End of the pass: the dead are removed.
Reap ==
    /\ EndPass
    /\ subs' = subs \ dead
    /\ dirty' = dirty \ dead
    /\ UNCHANGED <<writerVars, engineVars, wake, callVars, work, item, result,
                   viewVars>>

WorkerStep ==
    \/ CheckWake \/ CheckShutdown \/ Drain
    \/ \E s \in Subs : TakeItem(s)
    \/ CheckCancelled \/ RecomputeLookup \/ RecomputeFetch
    \/ CheckSink \/ Deliver \/ Reap
-----------------------------------------------------------------------------
(* Drop of the engine, once nobody holds it: a register in flight does.    *)

BeginDrop ==
    /\ engine = "open"
    /\ Registering = {}
    /\ engine' = "stopping"
    /\ shutdown' = TRUE
    /\ UNCHANGED <<writerVars, observing, wake, subs, dirty, callVars, worker,
                   workerVars, viewVars>>

\* Mutant: join without waking the worker.
DropJoinsAtOnce ==
    /\ engine = "stopping"
    /\ engine' = "joining"
    /\ UNCHANGED <<writerVars, observing, shutdown, wake, subs, dirty, callVars,
                   worker, workerVars, viewVars>>

DropSetWake ==
    /\ engine = "stopping"
    /\ engine' = "notifying"
    /\ wake' = TRUE
    /\ UNCHANGED <<writerVars, observing, shutdown, subs, dirty, callVars,
                   worker, workerVars, viewVars>>

DropNotify ==
    /\ engine = "notifying"
    /\ engine' = "joining"
    /\ worker' = Roused
    /\ UNCHANGED <<writerVars, observing, shutdown, wake, subs, dirty, callVars,
                   workerVars, viewVars>>

\* join returns, then the fields go: the observer is unregistered.
DropJoin ==
    /\ engine = "joining"
    /\ worker = "exited"
    /\ engine' = "gone"
    /\ observing' = FALSE
    /\ UNCHANGED <<writerVars, shutdown, wake, subs, dirty, callVars, worker,
                   workerVars, viewVars>>
-----------------------------------------------------------------------------
WriterStep(w) == Dispatch(w) \/ Mark(w) \/ SetWake(w) \/ Notify(w)

RegisterStep(s) == InitialLookup(s) \/ InitialFetch(s) \/ Insert(s)

DropStep == DropSetWake \/ DropNotify \/ DropJoin

Next ==
    \/ \E w \in Writers, touched \in SUBSET Collections \ {{}} : Commit(w, touched)
    \/ \E w \in Writers : WriterStep(w)
    \/ \E s \in Subs : StartRegister(s) \/ RegisterStep(s) \/ Cancel(s) \/ CloseSink(s)
    \/ WorkerStep \/ SpuriousWakeup
    \/ BeginDrop \/ DropStep

Spec == Init /\ [][Next]_vars

\* Threads that have started something go on; nobody need commit, register,
\* cancel or drop the engine.
Fairness ==
    /\ \A w \in Writers : WF_vars(WriterStep(w))
    /\ \A s \in Subs : WF_vars(RegisterStep(s))
    /\ WF_vars(WorkerStep)
    /\ WF_vars(DropStep)

FairSpec == Spec /\ Fairness

-----------------------------------------------------------------------------
(* Type invariant.                                                         *)

TypeOK ==
    /\ version \in [Collections -> Versions]
    /\ wpc \in [Writers -> {"idle", "dispatch", "mark", "wake", "notify"}]
    /\ wrote \in [Writers -> SUBSET Collections]
    /\ observing \in BOOLEAN
    /\ wake \in BOOLEAN
    /\ shutdown \in BOOLEAN
    /\ engine \in {"open", "stopping", "notifying", "joining", "gone"}
    /\ subs \in SUBSET Subs
    /\ dirty \in SUBSET subs
    /\ closed \in SUBSET Subs
    /\ rpc \in [Subs -> {"new", "lookup", "fetch", "insert", "returned"}]
    /\ initial \in [Subs -> Results]
    /\ worker \in {"check", "asleep", "woken", "drain", "items", "contains",
                   "lookup", "fetch", "emit", "deliver", "exited"}
    /\ work \in SUBSET Subs
    /\ item \in Subs \cup {NoSub}
    /\ item = NoSub <=> worker \notin {"contains", "lookup", "fetch", "emit", "deliver"}
    /\ result \in Results
    /\ dead \in SUBSET Subs
    /\ last \in [Subs -> Results]
    /\ since \in [Subs -> Versions]
-----------------------------------------------------------------------------
(* Safety.                                                                 *)

\* No wakeup is lost between on_commit, which marks and then wakes, and the
\* worker, which consumes the flag and then drains: a dirty subscription
\* the worker is not about to drain has the flag up, or a writer about to
\* raise it; and the worker sleeps through a raised flag or a shutdown only
\* while someone has still to notify it.
NoLostWakeup ==
    /\ dirty # {} /\ worker \notin {"woken", "drain", "exited"} =>
           wake \/ \E w \in Writers : wpc[w] = "wake"
    /\ worker = "asleep" /\ (wake \/ shutdown) =>
           \/ \E w \in Writers : wpc[w] = "notify"
           \/ engine \in {"stopping", "notifying"}

\* A commit that has not reached subscription s yet: not dispatched, or
\* waiting for the worker.
Pending(s) ==
    \/ s \in dirty
    \/ s \in work
    \/ item = s /\ worker \in {"contains", "lookup"}
    \/ \E w \in Writers : Touches(w, s)

Current(r, s) == r.ids = VersionFor(s) /\ r.rows = VersionFor(s)

\* The snapshot consumer s has, or will have when the worker emits.
Newest(s) ==
    IF item = s /\ worker \in {"emit", "deliver"} THEN result ELSE last[s]

\* A subscription whose collection was committed to after it was inserted
\* is up to date, or an emission is on its way, also when dispatches
\* overtake each other and a commit falls between the two reads of a
\* recompute (live.rs:9-11: coalescing loses no final state).
StaleIsPending ==
    \A s \in subs \ closed :
        observing /\ VersionFor(s) > since[s] =>
            \/ Pending(s)
            \/ Current(Newest(s), s)
            \/ item = s /\ worker = "fetch" /\ result.ids = VersionFor(s)

\* The snapshots a consumer is given never go back in time.
NeverBackwards ==
    [][\A s \in Subs :
         last'[s].ids >= last[s].ids /\ last'[s].rows >= last[s].rows]_vars

\* The worker found s registered and has not handed its snapshot over; a sink
\* that closes stops it until the last moment.
Underway(s) ==
    /\ item = s
    /\ worker = "deliver" \/ (s \notin closed /\ worker \in {"lookup", "fetch", "emit"})

Phase(s) ==
    CASE rpc[s] = "new" -> "none"
      [] s \in Registering -> "asked"
      [] rpc[s] = "returned" /\ s \in subs \ closed -> "open"
      [] rpc[s] = "returned" /\ s \notin subs \ closed /\ Underway(s) -> "leaving"
      [] OTHER -> "ended"

Feed == INSTANCE LiveFeed WITH
    phase <- [s \in Subs |-> Phase(s)],
    asked <- [s \in Subs |-> IF s \in Registering THEN since[s] ELSE 0],
    given <- last

\* Consumers may forget the engine: whatever commits, dispatches, cancellations
\* and the worker's pass interleave, a first snapshot has what was committed
\* before live() was called, no later one goes back, and one more at most comes
\* after cancel (live.rs:169 says none) or after the sink closed.
ImplementsFeed == Feed!Spec
-----------------------------------------------------------------------------
(* Liveness.                                                               *)

\* A commit after the subscription was inserted is eventually seen by its
\* consumer, unless it cancels, goes away or the engine is dropped.
CommitsAreSeen ==
    \A s \in Subs, v \in Versions :
        (s \in subs /\ VersionFor(s) = v /\ v > since[s])
            ~> \/ last[s].ids >= v /\ last[s].rows >= v
               \/ s \notin subs \/ s \in closed \/ shutdown

\* Drop's join returns: the worker notices the shutdown wherever it is.
DropTerminates == shutdown ~> engine = "gone"

\* A subscription whose JS side went away is dropped when a commit next
\* touches it (EmitSink::is_closed).
ClosedSinksAreReaped ==
    \A s \in Subs :
        (s \in dirty /\ s \in closed) ~> (s \notin subs \/ shutdown)
-----------------------------------------------------------------------------
(* What comments say and some interleavings contradict.                    *)

Quiet ==
    /\ \A w \in Writers : wpc[w] = "idle"
    /\ worker = "asleep" /\ ~wake
    /\ engine = "open"

\* README.md:107 - a live query "emits a snapshot on every committed write
\* that touches a matching document". A commit between register's initial
\* snapshot and its insertion marks nobody: when all is quiet the consumer
\* still has the older snapshot.
FreshWhenQuiet ==
    Quiet => \A s \in subs \ closed : Current(last[s], s)

\* Once all is quiet the consumer has every commit since its insertion that
\* was dispatched: reactive-live.mdx:58, live() "re-runs the matching `find`
\* query inside the engine after every committed write".
SeenWhenQuiet ==
    Quiet => \A s \in subs \ closed :
                 VersionFor(s) > since[s] => Current(last[s], s)
=============================================================================
