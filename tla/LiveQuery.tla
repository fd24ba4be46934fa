------------------------------ MODULE LiveQuery ------------------------------
(***************************************************************************)
(* The consumer's handle on a live query: class LiveQuery of               *)
(* packages/nookdb/src/live.ts, on JavaScript's event loop.                *)
(*                                                                         *)
(* Emissions of the native engine arrive in order in the queue of its      *)
(* thread-safe function; the promise of the registration resolves          *)
(* independently of that queue. Each callback of the loop runs to          *)
(* completion, but it calls the consumer's own functions, which may        *)
(* subscribe, unsubscribe, iterate or dispose in the middle of it, or      *)
(* throw.                                                                  *)
(*                                                                         *)
(* A snapshot is its version. Of the engine, modelled by Live.tla, only    *)
(* this is used: the initial snapshot is taken before the subscription is  *)
(* inserted, and what is emitted later is never older than what was        *)
(* emitted before (Live!NeverBackwards).                                   *)
(***************************************************************************)
EXTENDS Naturals, Sequences

CONSTANTS
    Listeners,   \* records made by subscribe, each used once
    Iterators,   \* drivers made by [Symbol.asyncIterator], each used once
    MaxVersion   \* bound on the versions the engine emits

ASSUME QueryAssumption == MaxVersion \in Nat \ {0} /\ Listeners \cap Iterators = {}

VARIABLES
    registration, \* the promise of native.live
    initial,      \* the envelope it resolves with
    version,      \* newest snapshot the engine has computed
    core,         \* the subscription in the engine; cancelled, it may emit once more
    mail,         \* envelopes queued for #onEnvelope
    value,        \* #value: version of the snapshot held, 0 for []
    received,     \* #received
    disposed,     \* #disposed
    errored,      \* #errored
    attached,     \* #subscriptionId and #native are set
    subs,         \* #subs
    drivers,      \* #iterDrivers
    iter,         \* each iterator's own state
    delivery,     \* the loop over #subs that is running
    cut,          \* history: a consumer's exception cut a delivery short
    used,         \* history: the listeners and iterators already made
    heard         \* history: the version each listener was last given

vars == <<registration, initial, version, core, mail, value, received, disposed,
          errored, attached, subs, drivers, iter, delivery, cut, used, heard>>

engineVars == <<registration, initial, version, mail>>
queryVars  == <<value, received, errored, attached>>

Envelopes == [ok : BOOLEAN, version : 1..MaxVersion]

NoDelivery == [what |-> "none", from |-> "none", told |-> {}]

\* What [Symbol.asyncIterator] closes over: queue, pending, failWith, ended,
\* and whether return() was called, after which for await asks no more.
Iteration == [queued : Nat, waiting : BOOLEAN, failed : BOOLEAN,
              ended : BOOLEAN, left : BOOLEAN]

Init ==
    /\ registration = "running"
    /\ initial = [ok |-> TRUE, version |-> 1]
    /\ version = 1
    /\ core = "none"
    /\ mail = <<>>
    /\ value = 0
    /\ received = FALSE
    /\ disposed = FALSE
    /\ errored = FALSE
    /\ attached = FALSE
    /\ subs = {}
    /\ drivers = {}
    /\ iter = [d \in Iterators |-> [queued |-> 0, waiting |-> FALSE,
                                    failed |-> FALSE, ended |-> FALSE,
                                    left |-> FALSE]]
    /\ delivery = NoDelivery
    /\ cut = FALSE
    /\ used = {}
    /\ heard = [l \in Listeners |-> 0]
-----------------------------------------------------------------------------
(* The engine, on its own threads.                                         *)

\* LiveEngine::register: the promise will resolve with this envelope.
Register(ok) ==
    /\ registration = "running"
    /\ registration' = "inserted"
    /\ initial' = [ok |-> ok, version |-> version]
    /\ core' = "active"
    /\ UNCHANGED <<version, mail, queryVars, disposed, subs, drivers, iter,
                   delivery, cut, used, heard>>

\* A commit and its recompute. One emission may still be queued right after
\* the cancellation (Live: CheckSink, then Deliver).
Emit(ok) ==
    /\ core \in {"active", "cancelled"}
    /\ version < MaxVersion
    /\ version' = version + 1
    /\ mail' = Append(mail, [ok |-> ok, version |-> version + 1])
    /\ core' = IF core = "cancelled" THEN "silent" ELSE core
    /\ UNCHANGED <<registration, initial, queryVars, disposed, subs,
                   drivers, iter, delivery, cut, used, heard>>
-----------------------------------------------------------------------------
(* Iterators.                                                              *)

Pushed(it) == IF it.waiting THEN [it EXCEPT !.waiting = FALSE]
              ELSE [it EXCEPT !.queued = @ + 1]

Failed(it) == [it EXCEPT !.failed = TRUE, !.waiting = FALSE]

Ended(it) == [it EXCEPT !.ended = TRUE, !.waiting = FALSE]

Detached == core \in {"cancelled", "silent"}

\* dispose, called when the iterators are `its` and #iterDrivers is `ds`.
Dispose(its, ds) ==
    IF disposed
    THEN /\ iter' = its
         /\ drivers' = ds
         /\ UNCHANGED <<core, disposed, subs>>
    ELSE /\ disposed' = TRUE
         /\ iter' = [d \in Iterators |-> IF d \in ds THEN Ended(its[d]) ELSE its[d]]
         /\ drivers' = {}
         /\ subs' = {}
         /\ core' = IF attached THEN "cancelled" ELSE core
-----------------------------------------------------------------------------
(* Callbacks of the event loop.                                            *)

Idle == delivery.what = "none"

\* #onEnvelope, and #fail for an error: the loop over #subs begins.
Begin(what, from) == delivery' = [what |-> what, from |-> from, told |-> {}]

OnEnvelope(env, from) ==
    IF disposed \/ errored
    THEN UNCHANGED <<value, received, errored, delivery, cut>>
    ELSE /\ value' = IF env.ok THEN env.version ELSE value
         /\ received' = (received \/ env.ok)
         /\ errored' = ~env.ok
         /\ Begin(IF env.ok THEN "snapshot" ELSE "error", from)
         /\ cut' = FALSE

\* MUTANT: a disposed handle does not cancel what registers after it.
ResolveForgets ==
    /\ Idle
    /\ registration = "inserted"
    /\ registration' = "resolved"
    /\ attached' = ~disposed
    /\ UNCHANGED core
    /\ OnEnvelope(initial, "resolve")
    /\ UNCHANGED <<initial, version, mail, disposed, subs, drivers, iter, used,
                   heard>>

\* The registration resolves.
Resolve ==
    /\ Idle
    /\ registration = "inserted"
    /\ registration' = "resolved"
    /\ attached' = ~disposed
    /\ core' = IF disposed THEN "cancelled" ELSE core
    /\ OnEnvelope(initial, "resolve")
    /\ UNCHANGED <<initial, version, mail, disposed, subs, drivers, iter, used,
                   heard>>

\* native.live rejects: #fail, whether disposed or not.
Reject ==
    /\ Idle
    /\ registration = "running"
    /\ registration' = "rejected"
    /\ errored' = TRUE
    /\ Begin("error", "reject")
    /\ cut' = FALSE
    /\ UNCHANGED <<initial, version, core, mail, value, received, disposed,
                   attached, subs, drivers, iter, used, heard>>

\* The next emission.
Receive ==
    /\ Idle
    /\ mail # <<>>
    /\ mail' = Tail(mail)
    /\ OnEnvelope(Head(mail), "emission")
    /\ UNCHANGED <<registration, initial, version, core, disposed, attached,
                   subs, drivers, iter, used, heard>>

\* MUTANT: the loop runs over those subscribed when it began.
TellAnyone(l) ==
    /\ ~Idle
    /\ l \in (used \cap Listeners) \ delivery.told
    /\ delivery' = [delivery EXCEPT !.told = @ \cup {l}]
    /\ heard' = IF delivery.what = "snapshot" THEN [heard EXCEPT ![l] = value] ELSE heard
    /\ UNCHANGED <<engineVars, core, queryVars, disposed, subs, drivers, iter,
                   cut, used>>

\* The loop calls next or onError of a listener it has not called yet; the
\* Set being iterated, those added meanwhile are called too.
Tell(l) ==
    /\ ~Idle
    /\ l \in subs \ delivery.told
    /\ delivery' = [delivery EXCEPT !.told = @ \cup {l}]
    /\ heard' = IF delivery.what = "snapshot" THEN [heard EXCEPT ![l] = value] ELSE heard
    /\ UNCHANGED <<engineVars, core, queryVars, disposed, subs, drivers, iter,
                   cut, used>>

PushAll == [d \in Iterators |-> IF d \in drivers THEN Pushed(iter[d]) ELSE iter[d]]

FailAll == [d \in Iterators |-> IF d \in drivers THEN Failed(iter[d]) ELSE iter[d]]

\* After the listeners, the iterators; after an error, dispose.
EndDelivery ==
    /\ ~Idle
    /\ subs \subseteq delivery.told
    /\ IF delivery.what = "snapshot"
       THEN /\ iter' = PushAll
            /\ UNCHANGED <<core, disposed, subs, drivers>>
       ELSE Dispose(FailAll, drivers)
    /\ delivery' = NoDelivery
    /\ UNCHANGED <<engineVars, queryVars, cut, used, heard>>

\* The listener called last throws. During the snapshot of the registration
\* the promise's catch handler fails the query; else the exception leaves
\* the callback and nothing after the throw happens.
Throw ==
    /\ ~Idle
    /\ delivery.told # {}
    /\ cut' = TRUE
    /\ IF delivery.what = "snapshot" /\ delivery.from = "resolve"
       THEN /\ errored' = TRUE
            /\ Begin("error", "reject")
       ELSE /\ delivery' = NoDelivery
            /\ UNCHANGED errored
    /\ UNCHANGED <<engineVars, core, value, received, attached, disposed, subs,
                   drivers, iter, used, heard>>
-----------------------------------------------------------------------------
(* The consumer, between callbacks or inside the one called last.          *)

ConsumersTurn == Idle \/ delivery.told # {}

\* MUTANT: a listener that subscribes is only told the next emission.
SubscribeQuietly(l) ==
    /\ ConsumersTurn
    /\ l \notin used
    /\ used' = used \cup {l}
    /\ subs' = IF disposed THEN subs ELSE subs \cup {l}
    /\ UNCHANGED <<engineVars, core, queryVars, disposed, drivers, iter,
                   delivery, cut, heard>>

Subscribe(l) ==
    /\ ConsumersTurn
    /\ l \notin used
    /\ used' = used \cup {l}
    /\ IF disposed THEN UNCHANGED <<subs, heard>>
       ELSE /\ subs' = subs \cup {l}
            /\ heard' = IF received THEN [heard EXCEPT ![l] = value] ELSE heard
    /\ UNCHANGED <<engineVars, core, queryVars, disposed, drivers, iter,
                   delivery, cut>>

Unsubscribe(l) ==
    /\ ConsumersTurn
    /\ l \in subs
    /\ subs' = subs \ {l}
    /\ UNCHANGED <<engineVars, core, queryVars, disposed, drivers, iter,
                   delivery, cut, used, heard>>

\* MUTANT: dispose leaves the iterators as they are.
CallDisposeKeepsIterators ==
    /\ ConsumersTurn
    /\ ~disposed
    /\ Dispose(iter, {})
    /\ UNCHANGED <<engineVars, queryVars, delivery, cut, used, heard>>

CallDispose ==
    /\ ConsumersTurn
    /\ ~disposed
    /\ Dispose(iter, drivers)
    /\ UNCHANGED <<engineVars, queryVars, delivery, cut, used, heard>>

\* for await begins: a driver is added, disposed or not, and pushed the
\* snapshot there is.
Iterate(d) ==
    /\ ConsumersTurn
    /\ d \notin used
    /\ used' = used \cup {d}
    /\ drivers' = drivers \cup {d}
    /\ iter' = IF received THEN [iter EXCEPT ![d] = Pushed(@)] ELSE iter
    /\ UNCHANGED <<engineVars, core, queryVars, disposed, subs, delivery, cut,
                   heard>>

Asks(d) ==
    /\ ConsumersTurn
    /\ d \in used
    /\ ~iter[d].waiting /\ ~iter[d].failed /\ ~iter[d].left

\* MUTANT: next() shifts the queue without looking whether it is empty.
NextShifts(d) ==
    /\ Asks(d)
    /\ iter' = [iter EXCEPT ![d].queued = @ - 1]
    /\ UNCHANGED <<engineVars, core, queryVars, disposed, subs, drivers,
                   delivery, cut, used, heard>>

\* for await asks for the next snapshot once the last request has settled.
NextSnapshot(d) ==
    /\ Asks(d)
    /\ \/ /\ iter[d].queued > 0
          /\ iter' = [iter EXCEPT ![d].queued = @ - 1]
       \/ /\ iter[d].queued = 0 /\ ~iter[d].ended
          /\ iter' = [iter EXCEPT ![d].waiting = TRUE]
    /\ UNCHANGED <<engineVars, core, queryVars, disposed, subs, drivers,
                   delivery, cut, used, heard>>

\* break in for await: the iterator's return() disposes of the query.
Return(d) ==
    /\ ConsumersTurn
    /\ d \in drivers
    /\ ~iter[d].waiting
    /\ Dispose([iter EXCEPT ![d].left = TRUE], drivers \ {d})
    /\ UNCHANGED <<engineVars, queryVars, delivery, cut, used, heard>>
-----------------------------------------------------------------------------
EngineStep == \E ok \in BOOLEAN : Register(ok) \/ Emit(ok)

LoopStep ==
    \/ Resolve \/ Reject \/ Receive \/ EndDelivery \/ Throw
    \/ \E l \in Listeners : Tell(l)

ConsumerStep ==
    \/ \E l \in Listeners : Subscribe(l) \/ Unsubscribe(l)
    \/ CallDispose
    \/ \E d \in Iterators : Iterate(d) \/ NextSnapshot(d) \/ Return(d)

Next == EngineStep \/ LoopStep \/ ConsumerStep

Spec == Init /\ [][Next]_vars
-----------------------------------------------------------------------------
(* Type invariant.                                                         *)

TypeOK ==
    /\ registration \in {"running", "inserted", "resolved", "rejected"}
    /\ initial \in Envelopes
    /\ version \in 1..MaxVersion
    /\ core \in {"none", "active", "cancelled", "silent"}
    /\ mail \in Seq(Envelopes)
    /\ value \in 0..MaxVersion
    /\ received \in BOOLEAN
    /\ disposed \in BOOLEAN
    /\ errored \in BOOLEAN
    /\ attached \in BOOLEAN
    /\ subs \in SUBSET Listeners
    /\ drivers \in SUBSET Iterators
    /\ iter \in [Iterators -> Iteration]
    /\ delivery \in [what : {"none", "snapshot", "error"},
                     from : {"none", "resolve", "reject", "emission"},
                     told : SUBSET Listeners]
    /\ cut \in BOOLEAN
    /\ used \in SUBSET (Listeners \cup Iterators)
    /\ heard \in [Listeners -> 0..MaxVersion]
-----------------------------------------------------------------------------
(* Safety.                                                                 *)

\* A handle disposed of before, while or after its registration resolves
\* leaves no subscription in the engine (live.ts:22-24, LOAD-BEARING).
NoLeak == disposed /\ registration = "resolved" => Detached

\* A recompute error is terminal: between callbacks a failed query has been
\* disposed of, unless a listener's own exception cut the failure short.
FailureDisposes == errored /\ Idle /\ ~cut => disposed

\* Behavior subject: between callbacks each listener has been told the
\* snapshot the query holds, also one that subscribed in the middle of a
\* delivery.
ListenersInStep ==
    Idle /\ ~cut /\ received => \A l \in subs : heard[l] = value

\* A listener hears nothing once it unsubscribed or the query was disposed
\* of, not even from a delivery that has begun.
SilentOnceGone ==
    [][\A l \in Listeners : heard'[l] # heard[l] => l \in subs' /\ ~disposed]_vars

\* Nobody who was iterating when the query ended waits forever for next():
\* who waits has a driver, and those of before the end have been cleared.
IteratorsSettle ==
    disposed => \A d \in Iterators : iter[d].waiting => d \in drivers
-----------------------------------------------------------------------------
(* What a comment says and an interleaving contradicts.                    *)

\* live.ts:10 - `.value` "holds the latest snapshot". An emission that
\* overtakes the promise of the registration is overwritten by the initial
\* snapshot.
HoldsTheLatest ==
    Idle /\ mail = <<>> /\ registration = "resolved" /\ ~disposed /\ ~errored =>
        value = version
=============================================================================
