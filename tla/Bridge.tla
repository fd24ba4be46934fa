-------------------------------- MODULE Bridge --------------------------------
(***************************************************************************)
(* The Electron bridge, one port of it: the renderer's RpcDispatcher       *)
(* (shared/rpc.ts), its LiveNative (renderer/livenative.ts) under the      *)
(* LiveQuery of each subscription, and the Host of the main process        *)
(* (main/host.ts) with the live query it keeps for each of them.           *)
(*                                                                         *)
(* Both ends are event loops joined by a port that keeps order. The host's *)
(* handlers await, so that answers leave in any order, and the port or the *)
(* host may be closed during any of these awaits.                          *)
(*                                                                         *)
(* The database is a version number, a snapshot the version it shows, 0    *)
(* for the [] of a query that has received none. LiveQuery.tla is the      *)
(* class itself; here only whether it is there, and what it holds.         *)
(***************************************************************************)
EXTENDS Naturals, Sequences

CONSTANTS
    Queries,     \* calls of insert, find, findOne, count, delete, each used once
    Subs,        \* calls of live, named as their subscriptionId
    Hello,       \* the correlation id 'hello'
    MaxVersion   \* bound on the commits

Calls == Queries \cup Subs

ASSUME BridgeAssumption ==
    /\ MaxVersion \in Nat \ {0}
    /\ Queries \cap Subs = {}
    /\ Hello \notin Calls

VARIABLES
    version,     \* of the database
    port,        \* who has closed the port
    toHost,      \* envelopes under way to the host
    toRenderer,  \* envelopes under way to the renderer
    phase,       \* of connectNook
    closed,      \* #closed of the dispatcher
    call,        \* #pending, and how each promise was settled
    sinks,       \* of remoteLiveNative
    view,        \* the renderer's LiveQuery of each subscription
    helloSeen,   \* PortState.helloSeen
    drained,     \* PortState.closed
    handler,     \* where #handleQuery or #handleSubscribe waits
    subs,        \* PortState.subs
    lq,          \* the host's LiveQuery of each subscription
    ran,         \* history: the queries whose operation took place
    late         \* history: the subscriptions being handled when the port was drained

wire     == <<port, toHost, toRenderer>>
renderer == <<phase, closed, call, sinks, view>>
host     == <<helloSeen, drained, handler, subs, lq, ran, late>>
vars     == <<version, wire, renderer, host>>

Versions == 0..MaxVersion

Init ==
    /\ version = 1
    /\ port = "open"
    /\ toHost = <<>>
    /\ toRenderer = <<>>
    /\ phase = "start"
    /\ closed = FALSE
    /\ call = [c \in Calls |-> "idle"]
    /\ sinks = {}
    /\ view = [s \in Subs |-> [state |-> "none", value |-> 0]]
    /\ helloSeen = FALSE
    /\ drained = FALSE
    /\ handler = [c \in Calls |-> "none"]
    /\ subs = {}
    /\ lq = [s \in Subs |-> [state |-> "none", value |-> 0, heard |-> FALSE]]
    /\ ran = {}
    /\ late = {}
-----------------------------------------------------------------------------
(* The port. What is posted to an end that is closed is lost.              *)

Envelope(type, id, answer, value) ==
    [type |-> type, id |-> id, answer |-> answer, value |-> value]

Sent(type, id) == IF port = "open" THEN Append(toHost, Envelope(type, id, "none", 0))
                  ELSE toHost

Posted(type, id, answer, value) ==
    IF port = "rendererClosed" THEN toRenderer
    ELSE Append(toRenderer, Envelope(type, id, answer, value))

Respond(c, answer, value) ==
    /\ toRenderer' = Posted("response", c, answer, value)
    /\ handler' = [handler EXCEPT ![c] = "done"]
-----------------------------------------------------------------------------
(* The renderer.                                                           *)

\* connectNook: the descriptor is that of the host's schema, or it is not.
Connect(descriptor) ==
    /\ phase = "start"
    /\ phase' = "greeting"
    /\ toHost' = Append(toHost, Envelope("hello", Hello, descriptor, 0))
    /\ UNCHANGED <<version, port, toRenderer, closed, call, sinks, view, host>>

\* rpc: a call of the remote collection.
SendQuery(q) ==
    /\ phase = "ready" /\ call[q] = "idle"
    /\ call' = [call EXCEPT ![q] = IF closed THEN "closed" ELSE "pending"]
    /\ toHost' = IF closed THEN toHost ELSE Sent("query", q)
    /\ UNCHANGED <<version, port, toRenderer, phase, closed, sinks, view, host>>

\* live: the sink is there before the envelope leaves.
OpenLive(s) ==
    /\ phase = "ready" /\ call[s] = "idle"
    /\ call' = [call EXCEPT ![s] = IF closed THEN "closed" ELSE "pending"]
    /\ view' = [view EXCEPT ![s].state = IF closed THEN "failed" ELSE "opening"]
    /\ sinks' = sinks \cup {s}
    /\ toHost' = IF closed THEN toHost ELSE Sent("subscribe", s)
    /\ UNCHANGED <<version, port, toRenderer, phase, closed, host>>

\* liveCancel, with the dispatcher's postCancel.
LiveCancel(s) ==
    /\ sinks' = sinks \ {s}
    /\ toHost' = IF closed THEN toHost ELSE Sent("cancel", s)

\* The consumer disposes of its query. Before the answer there is nothing to
\* cancel yet.
Dispose(s) ==
    /\ view[s].state \in {"opening", "attached"}
    /\ IF view[s].state = "attached"
       THEN /\ view' = [view EXCEPT ![s].state = "disposed"]
            /\ LiveCancel(s)
       ELSE /\ view' = [view EXCEPT ![s].state = "abandoned"]
            /\ UNCHANGED <<sinks, toHost>>
    /\ UNCHANGED <<version, port, toRenderer, phase, closed, call, host>>

\* #onClose: whatever waits for an answer is rejected.
OnClose ==
    /\ closed' = TRUE
    /\ call' = [c \in Calls |-> IF call[c] = "pending" THEN "closed" ELSE call[c]]
    /\ view' = [s \in Subs |->
                   [view[s] EXCEPT !.state = IF @ = "opening" THEN "failed"
                                             ELSE IF @ = "abandoned" THEN "disposed"
                                             ELSE @]]

\* transport.close, on disconnect or close, or a connection that is lost.
Disconnect ==
    /\ phase # "start" /\ ~closed
    /\ port' = IF port = "open" THEN "rendererClosed" ELSE port
    /\ toRenderer' = <<>>
    /\ OnClose
    /\ phase' = IF phase = "greeting" THEN "failed" ELSE phase
    /\ UNCHANGED <<version, toHost, sinks, host>>

Received == Head(toRenderer)

Incoming(type) ==
    /\ ~closed /\ toRenderer # <<>> /\ Received.type = type

\* The answer to hello: an error closes the transport.
ReceiveGreeting ==
    /\ Incoming("greeting")
    /\ IF Received.answer = "ok"
       THEN /\ phase' = "ready"
            /\ toRenderer' = Tail(toRenderer)
            /\ UNCHANGED <<port, closed, call, view>>
       ELSE /\ phase' = "failed"
            /\ toRenderer' = <<>>
            /\ port' = IF port = "open" THEN "rendererClosed" ELSE port
            /\ OnClose
    /\ UNCHANGED <<version, toHost, sinks, host>>

\* The answer to a query settles its promise, once.
ReceiveAnswer(q) ==
    /\ Incoming("response") /\ Received.id = q
    /\ toRenderer' = Tail(toRenderer)
    /\ call' = [call EXCEPT ![q] = IF @ = "pending" THEN Received.answer ELSE @]
    /\ UNCHANGED <<version, port, toHost, phase, closed, sinks, view, host>>

\* The answer to a subscribe: live returns or throws, and the constructor of
\* LiveQuery goes on in the same turn of the loop.
ReceiveSubscription(s) ==
    /\ Incoming("response") /\ Received.id = s /\ call[s] = "pending"
    /\ toRenderer' = Tail(toRenderer)
    /\ call' = [call EXCEPT ![s] = Received.answer]
    /\ IF Received.answer = "ok"
       THEN IF view[s].state = "abandoned"
            THEN /\ view' = [view EXCEPT ![s].state = "disposed"]
                 /\ LiveCancel(s)
            ELSE /\ view' = [view EXCEPT ![s] = [state |-> "attached", value |-> Received.value]]
                 /\ UNCHANGED <<sinks, toHost>>
       ELSE /\ view' = [view EXCEPT ![s].state =
                                  IF @ = "abandoned" THEN "disposed" ELSE "failed"]
            /\ sinks' = sinks \ {s}
            /\ UNCHANGED toHost
    /\ UNCHANGED <<version, port, phase, closed, host>>

\* subscribe-emit goes to the sink of its id, if that is still there. The
\* query takes the snapshot, or fails and disposes of itself.
ReceiveEmit(s) ==
    /\ Incoming("emit") /\ Received.id = s
    /\ toRenderer' = Tail(toRenderer)
    /\ IF s \in sinks /\ view[s].state = "attached"
       THEN IF Received.answer = "ok"
            THEN /\ view' = [view EXCEPT ![s].value = Received.value]
                 /\ UNCHANGED <<sinks, toHost>>
            ELSE /\ view' = [view EXCEPT ![s].state = "failed"]
                 /\ LiveCancel(s)
       ELSE UNCHANGED <<view, sinks, toHost>>
    /\ UNCHANGED <<version, port, phase, closed, call, host>>
-----------------------------------------------------------------------------
(* The host: #route. A port that is drained answers nothing, and before    *)
(* the handshake only hello is heard.                                      *)

Arrived(type) == toHost # <<>> /\ Head(toHost).type = type

RouteHello ==
    /\ Arrived("hello")
    /\ toHost' = Tail(toHost)
    /\ IF drained \/ helloSeen
       THEN UNCHANGED <<port, toRenderer, helloSeen>>
       ELSE IF Head(toHost).answer = "same"
       THEN /\ helloSeen' = TRUE
            /\ toRenderer' = Posted("greeting", Hello, "ok", 0)
            /\ UNCHANGED port
       ELSE /\ toRenderer' = Posted("greeting", Hello, "error", 0)
            /\ port' = IF port = "open" THEN "hostClosed" ELSE port
            /\ UNCHANGED helloSeen
    /\ UNCHANGED <<version, renderer, drained, handler, subs, lq, ran, late>>

\* #handleQuery and #handleSubscribe run to their first await, the authorizer.
RouteCall(c) ==
    /\ (Arrived("query") \/ Arrived("subscribe")) /\ Head(toHost).id = c
    /\ toHost' = Tail(toHost)
    /\ handler' = [handler EXCEPT ![c] = IF drained \/ ~helloSeen THEN "done"
                                         ELSE "authorizing"]
    /\ UNCHANGED <<version, port, toRenderer, renderer, helloSeen, drained, subs, lq,
                   ran, late>>

Disposed(q) == [q EXCEPT !.state = "disposed"]

\* subscribe-cancel, which nobody authorizes.
RouteCancel ==
    /\ Arrived("cancel")
    /\ toHost' = Tail(toHost)
    /\ LET s == Head(toHost).id
       IN  IF ~drained /\ helloSeen /\ s \in subs
           THEN /\ lq' = [lq EXCEPT ![s] = Disposed(@)]
                /\ subs' = subs \ {s}
           ELSE UNCHANGED <<lq, subs>>
    /\ UNCHANGED <<version, port, toRenderer, renderer, helloSeen, drained, handler,
                   ran, late>>
-----------------------------------------------------------------------------
(* The host: the handlers after their awaits. None looks whether the port  *)
(* is still there.                                                         *)

\* MUTANT: the renderer is told that it may not, and the handler goes on.
DenyAndGoOn(c) ==
    /\ handler[c] = "authorizing"
    /\ toRenderer' = Posted("response", c, "forbidden", 0)
    /\ handler' = [handler EXCEPT ![c] = "dispatching"]
    /\ UNCHANGED <<version, port, toHost, renderer, helloSeen, drained, subs, lq, ran, late>>

\* The authorizer says no.
Deny(c) ==
    /\ handler[c] = "authorizing"
    /\ Respond(c, "forbidden", 0)
    /\ UNCHANGED <<version, port, toHost, renderer, helloSeen, drained, subs, lq, ran, late>>

\* MUTANT: what the authorizer or the collection throws is only logged, by
\* the catch of acceptClient.
ThrowUnanswered(c) ==
    /\ handler[c] \in {"authorizing", "dispatching"}
    /\ handler' = [handler EXCEPT ![c] = "done"]
    /\ UNCHANGED <<version, wire, renderer, helloSeen, drained, subs, lq, ran, late>>

\* MUTANT: the error is passed on as it is, and the answer has no ok.
ThrowRaw(c) ==
    /\ handler[c] \in {"authorizing", "dispatching"}
    /\ Respond(c, "none", 0)
    /\ UNCHANGED <<version, port, toHost, renderer, helloSeen, drained, subs, lq, ran, late>>

\* The authorizer throws or rejects, the collection is unknown, the JSON is
\* malformed, or the operation fails: the handler's catch answers.
Throw(c) ==
    /\ handler[c] \in {"authorizing", "dispatching"}
    /\ Respond(c, "error", 0)
    /\ UNCHANGED <<version, port, toHost, renderer, helloSeen, drained, subs, lq, ran, late>>

AllowQuery(q) ==
    /\ handler[q] = "authorizing"
    /\ handler' = [handler EXCEPT ![q] = "dispatching"]
    /\ UNCHANGED <<version, wire, renderer, helloSeen, drained, subs, lq, ran, late>>

\* #dispatch: a read, or a write that commits.
Dispatch(q, writes) ==
    /\ handler[q] = "dispatching"
    /\ writes => version < MaxVersion
    /\ version' = IF writes THEN version + 1 ELSE version
    /\ ran' = ran \cup {q}
    /\ Respond(q, "ok", version')
    /\ UNCHANGED <<port, toHost, renderer, helloSeen, drained, subs, lq, late>>

\* The live query is made; the handler waits for its first snapshot, or for
\* as long as a timer of 0 takes.
AllowSubscribe(s) ==
    /\ handler[s] = "authorizing"
    /\ handler' = [handler EXCEPT ![s] = "waiting"]
    /\ lq' = [lq EXCEPT ![s].state = "active"]
    /\ UNCHANGED <<version, wire, renderer, helloSeen, drained, subs, ran, late>>

\* MUTANT: the answer carries the value the query had before the timer.
SubscribedEmpty(s) ==
    /\ handler[s] = "waiting"
    /\ subs' = subs \cup {s}
    /\ lq' = [lq EXCEPT ![s].heard = (lq[s].state = "active")]
    /\ Respond(s, "ok", 0)
    /\ UNCHANGED <<version, port, toHost, renderer, helloSeen, drained, ran, late>>

\* The timer fires: the value held is the answer, emissions from now on are
\* forwarded, and the subscription can be cancelled. A query that has failed
\* meanwhile takes no more listeners, and is answered for like any other.
Subscribed(s) ==
    /\ handler[s] = "waiting"
    /\ subs' = subs \cup {s}
    /\ lq' = [lq EXCEPT ![s].heard = (lq[s].state = "active")]
    /\ Respond(s, "ok", lq[s].value)
    /\ UNCHANGED <<version, port, toHost, renderer, helloSeen, drained, ran, late>>

Forwarded(s) == lq[s].heard /\ ~drained /\ s \in subs

\* The host's query receives its first snapshot or a later one.
Snapshot(s) ==
    /\ lq[s].state = "active" /\ lq[s].value < version
    /\ lq' = [lq EXCEPT ![s].value = version]
    /\ toRenderer' = IF Forwarded(s) THEN Posted("emit", s, "ok", version) ELSE toRenderer
    /\ UNCHANGED <<version, port, toHost, renderer, helloSeen, drained, handler, subs, ran, late>>

\* It receives an error, tells it and disposes of itself.
Fail(s) ==
    /\ lq[s].state = "active"
    /\ lq' = [lq EXCEPT ![s].state = "failed"]
    /\ toRenderer' = IF Forwarded(s) THEN Posted("emit", s, "error", 0) ELSE toRenderer
    /\ UNCHANGED <<version, port, toHost, renderer, helloSeen, drained, handler, subs, ran, late>>

\* #drain.
Drain ==
    /\ ~drained
    /\ drained' = TRUE
    /\ subs' = {}
    /\ lq' = [s \in Subs |-> IF s \in subs THEN Disposed(lq[s]) ELSE lq[s]]
    /\ late' = {s \in Subs : handler[s] \in {"authorizing", "waiting"}}
    /\ UNCHANGED <<version, wire, renderer, helloSeen, handler, ran>>

\* The port's close event, and Host.close, which leaves the port open.
PortClosed == port = "rendererClosed" /\ Drain
CloseHost  == Drain

\* Somebody else commits.
Commit ==
    /\ version < MaxVersion
    /\ version' = version + 1
    /\ UNCHANGED <<wire, renderer, host>>
-----------------------------------------------------------------------------
Receive == \/ ReceiveGreeting
           \/ \E q \in Queries : ReceiveAnswer(q)
           \/ \E s \in Subs : ReceiveSubscription(s) \/ ReceiveEmit(s)

Route == RouteHello \/ RouteCancel \/ \E c \in Calls : RouteCall(c)

QueryStep(q) == Deny(q) \/ Throw(q) \/ AllowQuery(q) \/ \E w \in BOOLEAN : Dispatch(q, w)

SubscribeStep(s) == Deny(s) \/ Throw(s) \/ AllowSubscribe(s) \/ Subscribed(s)

Next ==
    \/ \E d \in {"same", "other"} : Connect(d)
    \/ \E q \in Queries : SendQuery(q) \/ QueryStep(q)
    \/ \E s \in Subs :
          OpenLive(s) \/ Dispose(s) \/ SubscribeStep(s) \/ Snapshot(s) \/ Fail(s)
    \/ Disconnect \/ Receive
    \/ Route \/ PortClosed \/ CloseHost
    \/ Commit

Spec == Init /\ [][Next]_vars

\* Both loops handle what has arrived, the port delivers, the authorizer
\* answers (it is awaited without a limit), and so does the database.
FairSpec ==
    /\ Spec
    /\ WF_vars(Receive) /\ WF_vars(Route)
    /\ \A q \in Queries : WF_vars(QueryStep(q))
    /\ \A s \in Subs : WF_vars(SubscribeStep(s))
-----------------------------------------------------------------------------
Answers == {"ok", "error", "forbidden"}

\* Every variable has its type.
TypeOK ==
    /\ version \in Versions
    /\ port \in {"open", "hostClosed", "rendererClosed"}
    /\ toHost \in Seq([type : {"hello", "query", "subscribe", "cancel"},
                       id : Calls \cup {Hello},
                       answer : {"same", "other", "none"}, value : {0}])
    /\ toRenderer \in Seq([type : {"greeting", "response", "emit"},
                           id : Calls \cup {Hello}, answer : Answers, value : Versions])
    /\ phase \in {"start", "greeting", "ready", "failed"}
    /\ closed \in BOOLEAN
    /\ call \in [Calls -> {"idle", "pending", "closed"} \cup Answers]
    /\ sinks \in SUBSET Subs
    /\ view \in [Subs -> [state : {"none", "opening", "abandoned", "attached", "failed",
                                   "disposed"},
                          value : Versions]]
    /\ helloSeen \in BOOLEAN
    /\ drained \in BOOLEAN
    /\ handler \in [Calls -> {"none", "authorizing", "dispatching", "waiting", "done"}]
    /\ subs \in SUBSET Subs
    /\ lq \in [Subs -> [state : {"none", "active", "failed", "disposed"},
                        value : Versions, heard : BOOLEAN]]
    /\ ran \in SUBSET Queries
    /\ late \in SUBSET Subs

\* What the renderer is told is what happened: an answer is for an operation
\* that took place once, a refusal or an error for one that did not and will
\* not, and no live query is kept for a subscription that was refused.
AnswersAreTrue ==
    /\ \A q \in Queries : /\ call[q] = "ok" => q \in ran
                          /\ call[q] \in {"forbidden", "error"} => q \notin ran
    /\ \A s \in Subs : call[s] \in {"forbidden", "error"} => lq[s].state = "none"

InFlight == \E c \in Calls : handler[c] \in {"authorizing", "dispatching", "waiting"}

Quiet == toHost = <<>> /\ toRenderer = <<>> /\ ~InFlight

\* With both ends up and nothing under way, the renderer's queries and those the
\* host keeps for them are the same ones and hold the same snapshot: no
\* emission is lost around the answer to the subscription, no cancellation
\* crosses it, and an error the host could forward has been.
EndsAgree ==
    Quiet /\ ~closed /\ ~drained =>
        \A s \in Subs :
            /\ view[s].state = "attached" <=> s \in subs
            /\ lq[s].state = "active" => s \in subs
            /\ s \in subs /\ lq[s].state = "active" => view[s].value = lq[s].value
            /\ s \in subs /\ lq[s].state = "failed" => ~lq[s].heard

\* When the port is gone the host keeps no live query for it, but one it was
\* making at that moment.
DrainReleases ==
    drained => \A s \in Subs : lq[s].state = "active" => s \in late

\* The two ends of the bridge are in step, or the host has let go of the other.
InStep == EndsAgree /\ DrainReleases

\* A call whose promise is pending is settled, and so is the handshake, unless
\* the host drains the port and leaves it open: renderer/index.ts:15 says that
\* such calls hang.
CallsSettle ==
    /\ \A c \in Calls : call[c] = "pending" ~> (call[c] # "pending" \/ drained)
    /\ phase = "greeting" ~> (phase # "greeting" \/ drained)
=============================================================================
