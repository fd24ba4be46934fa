----------------------------- MODULE BridgeProofs -----------------------------
(***************************************************************************)
(* Types and safety of the bridge, for any number of calls and of commits. *)
(***************************************************************************)
EXTENDS Bridge, SequenceTheorems, TLAPS

HostBound == [type : {"hello", "query", "subscribe", "cancel"}, id : Calls \cup {Hello},
              answer : {"same", "other", "none"}, value : {0}]

RendererBound == [type : {"greeting", "response", "emit"}, id : Calls \cup {Hello},
                  answer : Answers, value : Versions]

Views == [state : {"none", "opening", "abandoned", "attached", "failed", "disposed"},
          value : Versions]

LiveQueries == [state : {"none", "active", "failed", "disposed"},
                value : Versions, heard : BOOLEAN]

Places == {"none", "authorizing", "dispatching", "waiting", "done"}
-----------------------------------------------------------------------------
(* Queues.                                                                 *)

\* What is left when the first envelope has been taken.
LEMMA TakeFirst ==
    ASSUME NEW S, NEW q \in Seq(S), q # <<>>
    PROVE  /\ Len(q) \in Nat \ {0} /\ q[1] = Head(q) /\ Head(q) \in S
           /\ Tail(q) \in Seq(S) /\ Len(Tail(q)) = Len(q) - 1
           /\ \A n \in 1..Len(Tail(q)) : Tail(q)[n] = q[n + 1] /\ n + 1 \in 1..Len(q)
<1>1. Len(q) \in Nat \ {0}
  BY EmptySeq
<1>2. Head(q) \in S /\ Tail(q) \in Seq(S) /\ Len(Tail(q)) = Len(q) - 1
      /\ \A n \in 1..Len(Tail(q)) : Tail(q)[n] = q[n + 1]
  BY HeadTailProperties
<1>3. q[1] = Head(q)
  BY <1>1
<1> QED BY <1>1, <1>2, <1>3

\* What is there when an envelope has been posted.
LEMMA AddLast ==
    ASSUME NEW S, NEW q \in Seq(S), NEW x \in S
    PROVE  /\ Append(q, x) \in Seq(S) /\ Len(q) \in Nat /\ Len(Append(q, x)) = Len(q) + 1
           /\ Append(q, x)[Len(q) + 1] = x
           /\ \A n \in 1..Len(q) : Append(q, x)[n] = q[n]
  BY AppendProperties, LenProperties
-----------------------------------------------------------------------------
(* Types.                                                                  *)

LEMMA Constants ==
    /\ 0 \in Versions /\ 1 \in Versions
    /\ \A v \in Versions : v < MaxVersion => v + 1 \in Versions
    /\ \A v \in Versions : v \in Nat
  BY BridgeAssumption DEF Versions

\* The type invariant in the words of this module.
Types ==
    /\ version \in Versions
    /\ port \in {"open", "hostClosed", "rendererClosed"}
    /\ toHost \in Seq(HostBound)
    /\ toRenderer \in Seq(RendererBound)
    /\ phase \in {"start", "greeting", "ready", "failed"}
    /\ closed \in BOOLEAN
    /\ call \in [Calls -> {"idle", "pending", "closed"} \cup Answers]
    /\ sinks \in SUBSET Subs
    /\ view \in [Subs -> Views]
    /\ helloSeen \in BOOLEAN
    /\ drained \in BOOLEAN
    /\ handler \in [Calls -> Places]
    /\ subs \in SUBSET Subs
    /\ lq \in [Subs -> LiveQueries]
    /\ ran \in SUBSET Queries
    /\ late \in SUBSET Subs

LEMMA TypesTypeOK == Types => TypeOK
  BY DEF Types, TypeOK, HostBound, RendererBound, Views, LiveQueries, Places

LEMMA InitTypes == Init => Types
<1> SUFFICES ASSUME Init PROVE Types
  OBVIOUS
<1>1. toHost \in Seq(HostBound) /\ toRenderer \in Seq(RendererBound)
  BY EmptySeq DEF Init
<1>2. view \in [Subs -> Views] /\ lq \in [Subs -> LiveQueries]
  BY Constants DEF Init, Views, LiveQueries
<1> QED BY <1>1, <1>2, Constants DEF Types, Init, Places

\* Sending and posting keep the queues typed.
LEMMA SentType ==
    ASSUME Types, NEW type \in {"query", "subscribe", "cancel"}, NEW c \in Calls
    PROVE  Sent(type, c) \in Seq(HostBound)
<1>1. Envelope(type, c, "none", 0) \in HostBound
  BY DEF Envelope, HostBound
<1> QED BY <1>1, AddLast DEF Types, Sent

LEMMA PostedType ==
    ASSUME Types, NEW type \in {"greeting", "response", "emit"}, NEW c \in Calls \cup {Hello},
           NEW answer \in Answers, NEW v \in Versions
    PROVE  Posted(type, c, answer, v) \in Seq(RendererBound)
<1>1. Envelope(type, c, answer, v) \in RendererBound
  BY DEF Envelope, RendererBound
<1> QED BY <1>1, AddLast DEF Types, Posted

LEMMA RespondType ==
    ASSUME Types, NEW c \in Calls, NEW answer \in Answers, NEW v \in Versions,
           Respond(c, answer, v)
    PROVE  toRenderer' \in Seq(RendererBound) /\ handler' \in [Calls -> Places]
<1>1. toRenderer' \in Seq(RendererBound)
  BY PostedType DEF Respond
<1> QED BY <1>1 DEF Types, Respond, Places

LEMMA LiveCancelType ==
    ASSUME Types, NEW s \in Subs, LiveCancel(s)
    PROVE  sinks' \in SUBSET Subs /\ toHost' \in Seq(HostBound)
<1>1. Sent("cancel", s) \in Seq(HostBound)
  BY SentType DEF Calls
<1> QED BY <1>1 DEF Types, LiveCancel

LEMMA OnCloseType ==
    ASSUME Types, OnClose
    PROVE  /\ closed' \in BOOLEAN
           /\ call' \in [Calls -> {"idle", "pending", "closed"} \cup Answers]
           /\ view' \in [Subs -> Views]
  BY DEF Types, OnClose, Views

\* The steps of the renderer keep the types.
LEMMA RendererType ==
    ASSUME Types,
           \/ \E d \in {"same", "other"} : Connect(d)
           \/ \E q \in Queries : SendQuery(q) \/ ReceiveAnswer(q)
           \/ \E s \in Subs : OpenLive(s) \/ Dispose(s) \/ ReceiveSubscription(s) \/ ReceiveEmit(s)
           \/ Disconnect \/ ReceiveGreeting
    PROVE  Types'
<1> DEFINE Settled == {"idle", "pending", "closed"} \cup Answers
<1>0. toRenderer # <<>> => /\ Received \in RendererBound
                           /\ Tail(toRenderer) \in Seq(RendererBound)
  BY TakeFirst DEF Types, Received
<1>1. ASSUME NEW d \in {"same", "other"}, Connect(d) PROVE Types'
  <2>1. Envelope("hello", Hello, d, 0) \in HostBound
    BY DEF Envelope, HostBound
  <2>2. toHost' \in Seq(HostBound)
    BY <1>1, <2>1, AddLast DEF Types, Connect
  <2> QED BY <1>1, <2>2 DEF Types, Connect, host
<1>2. ASSUME NEW q \in Queries, SendQuery(q) PROVE Types'
  <2>1. Sent("query", q) \in Seq(HostBound)
    BY SentType DEF Calls
  <2>2. call' \in [Calls -> Settled]
    BY <1>2 DEF Types, SendQuery
  <2> QED BY <1>2, <2>1, <2>2 DEF Types, SendQuery, host
<1>3. ASSUME NEW q \in Queries, ReceiveAnswer(q) PROVE Types'
  <2>1. call' \in [Calls -> Settled]
    BY <1>0, <1>3 DEF Types, ReceiveAnswer, Incoming, RendererBound
  <2> QED BY <1>0, <1>3, <2>1 DEF Types, ReceiveAnswer, Incoming, host
<1>4. ASSUME NEW s \in Subs, OpenLive(s) PROVE Types'
  <2>1. Sent("subscribe", s) \in Seq(HostBound)
    BY SentType DEF Calls
  <2>2. call' \in [Calls -> Settled] /\ view' \in [Subs -> Views]
    BY <1>4 DEF Types, OpenLive, Views
  <2> QED BY <1>4, <2>1, <2>2 DEF Types, OpenLive, host
<1>5. ASSUME NEW s \in Subs, Dispose(s) PROVE Types'
  <2>1. view' \in [Subs -> Views]
    BY <1>5 DEF Types, Dispose, Views
  <2>2. sinks' \in SUBSET Subs /\ toHost' \in Seq(HostBound)
    BY <1>5, LiveCancelType DEF Types, Dispose
  <2> QED BY <1>5, <2>1, <2>2 DEF Types, Dispose, host
<1>6. ASSUME NEW s \in Subs, ReceiveSubscription(s) PROVE Types'
  <2>1. call' \in [Calls -> Settled] /\ view' \in [Subs -> Views]
    <3>1. Received.answer \in Answers /\ Received.value \in Versions
      BY <1>0, <1>6 DEF ReceiveSubscription, Incoming, RendererBound
    <3>2. call' \in [Calls -> Settled]
      BY <1>6, <3>1 DEF Types, ReceiveSubscription
    <3>3. [state |-> "attached", value |-> Received.value] \in Views
      BY <3>1 DEF Views
    <3>4. \A state \in {"failed", "disposed"} : [view[s] EXCEPT !.state = state] \in Views
      BY DEF Types, Views
    <3>5. \/ view' = [view EXCEPT ![s] = [state |-> "attached", value |-> Received.value]]
          \/ \E state \in {"failed", "disposed"} :
                 view' = [view EXCEPT ![s] = [view[s] EXCEPT !.state = state]]
      BY <1>6 DEF ReceiveSubscription
    <3> QED BY <3>2, <3>3, <3>4, <3>5 DEF Types
  <2>2. sinks' \in SUBSET Subs /\ toHost' \in Seq(HostBound)
    BY <1>6, LiveCancelType DEF Types, ReceiveSubscription
  <2> QED BY <1>0, <1>6, <2>1, <2>2 DEF Types, ReceiveSubscription, Incoming, host
<1>7. ASSUME NEW s \in Subs, ReceiveEmit(s) PROVE Types'
  <2>1. view' \in [Subs -> Views]
    BY <1>0, <1>7 DEF Types, ReceiveEmit, Incoming, RendererBound, Views
  <2>2. sinks' \in SUBSET Subs /\ toHost' \in Seq(HostBound)
    BY <1>7, LiveCancelType DEF Types, ReceiveEmit
  <2> QED BY <1>0, <1>7, <2>1, <2>2 DEF Types, ReceiveEmit, Incoming, host
<1>8. CASE Disconnect
  <2>1. toRenderer' \in Seq(RendererBound)
    BY <1>8, EmptySeq DEF Disconnect
  <2> QED BY <1>8, <2>1, OnCloseType DEF Types, Disconnect, host
<1>9. CASE ReceiveGreeting
  <2>1. toRenderer' \in Seq(RendererBound)
    BY <1>0, <1>9, EmptySeq DEF ReceiveGreeting, Incoming
  <2>2. CASE Received.answer = "ok"
    BY <1>9, <2>1, <2>2 DEF Types, ReceiveGreeting, host
  <2>3. CASE Received.answer # "ok"
    BY <1>9, <2>1, <2>3, OnCloseType DEF Types, ReceiveGreeting, host
  <2> QED BY <2>2, <2>3
<1> QED BY <1>1, <1>2, <1>3, <1>4, <1>5, <1>6, <1>7, <1>8, <1>9

\* The steps of the host, and the commits of others, keep the types.
LEMMA HostType ==
    ASSUME Types,
           \/ \E q \in Queries : QueryStep(q)
           \/ \E s \in Subs : SubscribeStep(s) \/ Snapshot(s) \/ Fail(s)
           \/ Route \/ PortClosed \/ CloseHost \/ Commit
    PROVE  Types'
<1>0. toHost # <<>> => Head(toHost) \in HostBound /\ Tail(toHost) \in Seq(HostBound)
  BY TakeFirst DEF Types
<1>1. ASSUME NEW c \in Calls, Deny(c) PROVE Types'
  <2>1. toRenderer' \in Seq(RendererBound) /\ handler' \in [Calls -> Places]
    BY <1>1, RespondType, Constants DEF Deny, Answers
  <2> QED BY <1>1, <2>1 DEF Types, Deny, renderer
<1>2. ASSUME NEW c \in Calls, Throw(c) PROVE Types'
  <2>1. toRenderer' \in Seq(RendererBound) /\ handler' \in [Calls -> Places]
    BY <1>2, RespondType, Constants DEF Throw, Answers
  <2> QED BY <1>2, <2>1 DEF Types, Throw, renderer
<1>3. ASSUME NEW q \in Queries, AllowQuery(q) PROVE Types'
  <2>1. handler' \in [Calls -> Places]
    BY <1>3 DEF Types, AllowQuery, Places
  <2> QED BY <1>3, <2>1 DEF Types, AllowQuery, renderer, wire
<1>4. ASSUME NEW q \in Queries, NEW w \in BOOLEAN, Dispatch(q, w) PROVE Types'
  <2>1. version' \in Versions
    BY <1>4, Constants DEF Types, Dispatch
  <2>2. toRenderer' \in Seq(RendererBound) /\ handler' \in [Calls -> Places]
    BY <1>4, <2>1, RespondType DEF Dispatch, Answers, Calls
  <2> QED BY <1>4, <2>1, <2>2 DEF Types, Dispatch, renderer
<1>5. ASSUME NEW s \in Subs, AllowSubscribe(s) PROVE Types'
  <2>1. handler' \in [Calls -> Places] /\ lq' \in [Subs -> LiveQueries]
    BY <1>5 DEF Types, AllowSubscribe, Places, LiveQueries
  <2> QED BY <1>5, <2>1 DEF Types, AllowSubscribe, renderer, wire
<1>6. ASSUME NEW s \in Subs, Subscribed(s) PROVE Types'
  <2>1. lq[s].value \in Versions /\ lq' \in [Subs -> LiveQueries]
    <3>1. PICK b \in BOOLEAN : lq' = [lq EXCEPT ![s].heard = b]
      BY <1>6 DEF Subscribed
    <3>2. lq[s] \in LiveQueries /\ [lq[s] EXCEPT !.heard = b] \in LiveQueries
      BY DEF Types, LiveQueries
    <3> QED BY <3>1, <3>2 DEF Types, LiveQueries
  <2>2. toRenderer' \in Seq(RendererBound) /\ handler' \in [Calls -> Places]
    BY <1>6, <2>1, RespondType DEF Subscribed, Answers, Calls
  <2> QED BY <1>6, <2>1, <2>2 DEF Types, Subscribed, renderer
<1>7. ASSUME NEW s \in Subs, Snapshot(s) PROVE Types'
  <2>1. toRenderer' \in Seq(RendererBound)
    BY <1>7, PostedType DEF Types, Snapshot, Answers, Calls
  <2>2. lq' \in [Subs -> LiveQueries]
    BY <1>7 DEF Types, Snapshot, LiveQueries
  <2> QED BY <1>7, <2>1, <2>2 DEF Types, Snapshot, renderer
<1>8. ASSUME NEW s \in Subs, Fail(s) PROVE Types'
  <2>1. toRenderer' \in Seq(RendererBound)
    BY <1>8, PostedType, Constants DEF Types, Fail, Answers, Calls
  <2>2. lq' \in [Subs -> LiveQueries]
    BY <1>8 DEF Types, Fail, LiveQueries
  <2> QED BY <1>8, <2>1, <2>2 DEF Types, Fail, renderer
<1>9. CASE RouteHello
  <2>1. toHost' \in Seq(HostBound)
    BY <1>0, <1>9 DEF RouteHello, Arrived
  <2>2. toRenderer' \in Seq(RendererBound)
    <3>1. \A answer \in {"ok", "error"} :
              Posted("greeting", Hello, answer, 0) \in Seq(RendererBound)
      BY PostedType, Constants DEF Answers
    <3>2. \/ toRenderer' = toRenderer
          \/ \E answer \in {"ok", "error"} : toRenderer' = Posted("greeting", Hello, answer, 0)
      BY <1>9 DEF RouteHello
    <3> QED BY <3>1, <3>2 DEF Types
  <2> QED BY <1>9, <2>1, <2>2 DEF Types, RouteHello, renderer
<1>10. ASSUME NEW c \in Calls, RouteCall(c) PROVE Types'
  <2>1. handler' \in [Calls -> Places] /\ toHost' \in Seq(HostBound)
    BY <1>0, <1>10 DEF Types, RouteCall, Arrived, Places
  <2> QED BY <1>10, <2>1 DEF Types, RouteCall, renderer
<1>11. CASE RouteCancel
  <2>1. toHost' \in Seq(HostBound)
    BY <1>0, <1>11 DEF RouteCancel, Arrived
  <2>2. lq' \in [Subs -> LiveQueries] /\ subs' \in SUBSET Subs
    <3>1. \/ UNCHANGED <<lq, subs>>
          \/ \E s \in subs : /\ lq' = [lq EXCEPT ![s] = Disposed(lq[s])]
                             /\ subs' = subs \ {s}
      BY <1>11 DEF RouteCancel
    <3>2. \A s \in Subs : Disposed(lq[s]) \in LiveQueries
      BY DEF Types, Disposed, LiveQueries
    <3> QED BY <3>1, <3>2 DEF Types
  <2> QED BY <1>11, <2>1, <2>2 DEF Types, RouteCancel, renderer
<1>12. CASE Drain
  <2>1. lq' \in [Subs -> LiveQueries]
    BY <1>12 DEF Types, Drain, Disposed, LiveQueries
  <2> QED BY <1>12, <2>1 DEF Types, Drain, renderer, wire
<1>13. CASE Commit
  BY <1>13, Constants DEF Types, Commit, wire, renderer, host
<1>14. Queries \subseteq Calls /\ Subs \subseteq Calls
  BY DEF Calls
<1> QED BY <1>1, <1>2, <1>3, <1>4, <1>5, <1>6, <1>7, <1>8, <1>9, <1>10, <1>11, <1>12, <1>13, <1>14
        DEF QueryStep, SubscribeStep, Route, PortClosed, CloseHost

LEMMA TypeStep == Types /\ [Next]_vars => Types'
<1> SUFFICES ASSUME Types, [Next]_vars PROVE Types'
  OBVIOUS
<1>1. CASE UNCHANGED vars
  BY <1>1 DEF Types, vars, wire, renderer, host
<1>2. CASE Next
  BY <1>2, RendererType, HostType DEF Next, Receive
<1> QED BY <1>1, <1>2

\* Every variable has its type, for any number of calls and commits.
THEOREM TypeCorrect == Spec => []TypeOK
<1>1. Spec => []Types
  BY InitTypes, TypeStep, PTL DEF Spec
<1> QED BY <1>1, TypesTypeOK, PTL
-----------------------------------------------------------------------------
\* The steps, one by one.
LEMMA Steps ==
    ASSUME [Next]_vars
    PROVE  \/ \E d \in {"same", "other"} : Connect(d)
           \/ \E q \in Queries : SendQuery(q) \/ ReceiveAnswer(q) \/ AllowQuery(q)
           \/ \E q \in Queries, w \in BOOLEAN : Dispatch(q, w)
           \/ \E c \in Calls : Deny(c) \/ Throw(c) \/ RouteCall(c)
           \/ \E s \in Subs : OpenLive(s) \/ Dispose(s) \/ ReceiveSubscription(s) \/ ReceiveEmit(s)
           \/ \E s \in Subs : AllowSubscribe(s) \/ Subscribed(s) \/ Snapshot(s) \/ Fail(s)
           \/ Disconnect \/ ReceiveGreeting
           \/ RouteHello \/ RouteCancel \/ Drain
           \/ Commit \/ UNCHANGED vars
<1>1. Queries \subseteq Calls /\ Subs \subseteq Calls
  BY DEF Calls
<1>2. ASSUME NEW q \in Queries, QueryStep(q)
      PROVE  \/ Deny(q) \/ Throw(q) \/ AllowQuery(q)
             \/ \E w \in BOOLEAN : Dispatch(q, w)
  BY <1>2 DEF QueryStep
<1>3. ASSUME NEW s \in Subs, SubscribeStep(s)
      PROVE  Deny(s) \/ Throw(s) \/ AllowSubscribe(s) \/ Subscribed(s)
  BY <1>3 DEF SubscribeStep
<1>4. Route => RouteHello \/ RouteCancel \/ \E c \in Calls : RouteCall(c)
  BY DEF Route
<1>5. Receive => \/ ReceiveGreeting \/ \E q \in Queries : ReceiveAnswer(q)
                 \/ \E s \in Subs : ReceiveSubscription(s) \/ ReceiveEmit(s)
  BY DEF Receive
<1>6. PortClosed \/ CloseHost => Drain
  BY DEF PortClosed, CloseHost
<1>7. ASSUME NEW q \in Queries, SendQuery(q) \/ QueryStep(q)
      PROVE  \/ SendQuery(q) \/ AllowQuery(q) \/ \E w \in BOOLEAN : Dispatch(q, w)
             \/ \E c \in Calls : Deny(c) \/ Throw(c)
  BY <1>1, <1>2, <1>7
<1>8. ASSUME NEW s \in Subs,
             OpenLive(s) \/ Dispose(s) \/ SubscribeStep(s) \/ Snapshot(s) \/ Fail(s)
      PROVE  \/ OpenLive(s) \/ Dispose(s) \/ AllowSubscribe(s) \/ Subscribed(s)
             \/ Snapshot(s) \/ Fail(s)
             \/ \E c \in Calls : Deny(c) \/ Throw(c)
  BY <1>1, <1>3, <1>8
<1> QED BY <1>4, <1>5, <1>6, <1>7, <1>8 DEF Next
-----------------------------------------------------------------------------
(* The queues of the port.                                                 *)

\* The queue to the host without its first envelope, and with one more.
LEMMA HostQueue ==
    ASSUME Types
    PROVE  /\ Len(toHost) \in Nat
           /\ toHost # <<>> =>
                  /\ Len(toHost) > 0 /\ toHost[1] = Head(toHost) /\ Head(toHost) \in HostBound
                  /\ Len(Tail(toHost)) = Len(toHost) - 1
                  /\ \A n \in 1..Len(Tail(toHost)) :
                         Tail(toHost)[n] = toHost[n + 1] /\ n + 1 \in 1..Len(toHost)
           /\ \A e \in HostBound :
                  /\ Len(Append(toHost, e)) = Len(toHost) + 1
                  /\ Append(toHost, e)[Len(toHost) + 1] = e
                  /\ \A n \in 1..Len(toHost) : Append(toHost, e)[n] = toHost[n]
<1>1. toHost \in Seq(HostBound)
  BY DEF Types
<1>2. Len(toHost) \in Nat
  BY <1>1, LenProperties
<1>3. toHost # <<>> =>
          /\ Len(toHost) > 0 /\ toHost[1] = Head(toHost) /\ Head(toHost) \in HostBound
          /\ Len(Tail(toHost)) = Len(toHost) - 1
          /\ \A n \in 1..Len(Tail(toHost)) :
                 Tail(toHost)[n] = toHost[n + 1] /\ n + 1 \in 1..Len(toHost)
  BY <1>1, TakeFirst
<1>4. \A e \in HostBound :
          /\ Len(Append(toHost, e)) = Len(toHost) + 1
          /\ Append(toHost, e)[Len(toHost) + 1] = e
          /\ \A n \in 1..Len(toHost) : Append(toHost, e)[n] = toHost[n]
  BY <1>1, AddLast
<1> QED BY <1>2, <1>3, <1>4

\* The same of the queue to the renderer.
LEMMA RendererQueue ==
    ASSUME Types
    PROVE  /\ Len(toRenderer) \in Nat
           /\ toRenderer # <<>> =>
                  /\ Len(toRenderer) > 0 /\ toRenderer[1] = Received /\ Received \in RendererBound
                  /\ Len(Tail(toRenderer)) = Len(toRenderer) - 1
                  /\ \A n \in 1..Len(Tail(toRenderer)) :
                         Tail(toRenderer)[n] = toRenderer[n + 1] /\ n + 1 \in 1..Len(toRenderer)
           /\ \A e \in RendererBound :
                  /\ Len(Append(toRenderer, e)) = Len(toRenderer) + 1
                  /\ Append(toRenderer, e)[Len(toRenderer) + 1] = e
                  /\ \A n \in 1..Len(toRenderer) : Append(toRenderer, e)[n] = toRenderer[n]
<1>1. toRenderer \in Seq(RendererBound)
  BY DEF Types
<1>2. Len(toRenderer) \in Nat
  BY <1>1, LenProperties
<1>3. toRenderer # <<>> =>
          /\ Len(toRenderer) > 0 /\ toRenderer[1] = Received /\ Received \in RendererBound
          /\ Len(Tail(toRenderer)) = Len(toRenderer) - 1
          /\ \A n \in 1..Len(Tail(toRenderer)) :
                 Tail(toRenderer)[n] = toRenderer[n + 1] /\ n + 1 \in 1..Len(toRenderer)
  BY <1>1, TakeFirst DEF Received
<1>4. \A e \in RendererBound :
          /\ Len(Append(toRenderer, e)) = Len(toRenderer) + 1
          /\ Append(toRenderer, e)[Len(toRenderer) + 1] = e
          /\ \A n \in 1..Len(toRenderer) : Append(toRenderer, e)[n] = toRenderer[n]
  BY <1>1, AddLast
<1> QED BY <1>2, <1>3, <1>4

\* What the renderer does to the queue to the host.
LEMMA RendererSends ==
    ASSUME Types
    PROVE  /\ \A d \in {"same", "other"} : Connect(d) =>
                  /\ Envelope("hello", Hello, d, 0) \in HostBound
                  /\ toHost' = Append(toHost, Envelope("hello", Hello, d, 0))
           /\ \A q \in Queries : SendQuery(q) =>
                  /\ Envelope("query", q, "none", 0) \in HostBound
                  /\ toHost' \in {toHost, Append(toHost, Envelope("query", q, "none", 0))}
           /\ \A s \in Subs : OpenLive(s) =>
                  /\ Envelope("subscribe", s, "none", 0) \in HostBound
                  /\ toHost' \in {toHost, Append(toHost, Envelope("subscribe", s, "none", 0))}
           /\ \A s \in Subs : Dispose(s) \/ ReceiveSubscription(s) \/ ReceiveEmit(s) =>
                  /\ Envelope("cancel", s, "none", 0) \in HostBound
                  /\ toHost' \in {toHost, Append(toHost, Envelope("cancel", s, "none", 0))}
           /\ \A q \in Queries : ReceiveAnswer(q) => UNCHANGED toHost
           /\ Disconnect \/ ReceiveGreeting => UNCHANGED toHost
<1>1. \A d \in {"same", "other"} : Envelope("hello", Hello, d, 0) \in HostBound
  BY DEF Envelope, HostBound
<1>2. \A c \in Calls, type \in {"query", "subscribe", "cancel"} :
          Envelope(type, c, "none", 0) \in HostBound
  BY DEF Envelope, HostBound
<1>3. \A d \in {"same", "other"} : Connect(d) =>
          toHost' = Append(toHost, Envelope("hello", Hello, d, 0))
  BY DEF Connect
<1>4. \A q \in Queries : SendQuery(q) =>
          toHost' \in {toHost, Append(toHost, Envelope("query", q, "none", 0))}
  BY DEF SendQuery, Sent
<1>5. \A s \in Subs : OpenLive(s) =>
          toHost' \in {toHost, Append(toHost, Envelope("subscribe", s, "none", 0))}
  BY DEF OpenLive, Sent
<1>6. \A s \in Subs : Dispose(s) \/ ReceiveSubscription(s) \/ ReceiveEmit(s) =>
          toHost' \in {toHost, Append(toHost, Envelope("cancel", s, "none", 0))}
  BY DEF Dispose, ReceiveSubscription, ReceiveEmit, LiveCancel, Sent
<1>7. /\ \A q \in Queries : ReceiveAnswer(q) => UNCHANGED toHost
      /\ Disconnect \/ ReceiveGreeting => UNCHANGED toHost
  BY DEF ReceiveAnswer, Disconnect, ReceiveGreeting
<1>8. Queries \subseteq Calls /\ Subs \subseteq Calls
  BY DEF Calls
<1> QED BY <1>1, <1>2, <1>3, <1>4, <1>5, <1>6, <1>7, <1>8

\* What the host does to both queues.
LEMMA HostSends ==
    ASSUME Types
    PROVE  /\ Route => toHost # <<>> /\ toHost' = Tail(toHost)
           /\ RouteCancel \/ (\E c \in Calls : RouteCall(c)) => UNCHANGED toRenderer
           /\ RouteHello => \E answer \in {"ok", "error"} :
                  /\ Envelope("greeting", Hello, answer, 0) \in RendererBound
                  /\ toRenderer' \in {toRenderer,
                                      Append(toRenderer, Envelope("greeting", Hello, answer, 0))}
                  /\ answer = "ok" /\ toRenderer' # toRenderer => helloSeen'
           /\ \A c \in Calls : Deny(c) =>
                  /\ Envelope("response", c, "forbidden", 0) \in RendererBound
                  /\ toRenderer' = Posted("response", c, "forbidden", 0)
           /\ \A c \in Calls : Throw(c) =>
                  /\ Envelope("response", c, "error", 0) \in RendererBound
                  /\ toRenderer' = Posted("response", c, "error", 0)
           /\ \A q \in Queries, w \in BOOLEAN : Dispatch(q, w) =>
                  /\ Envelope("response", q, "ok", version') \in RendererBound
                  /\ toRenderer' = Posted("response", q, "ok", version')
           /\ \A s \in Subs : Subscribed(s) =>
                  /\ Envelope("response", s, "ok", lq[s].value) \in RendererBound
                  /\ toRenderer' = Posted("response", s, "ok", lq[s].value)
           /\ \A s \in Subs : Snapshot(s) =>
                  /\ Envelope("emit", s, "ok", version) \in RendererBound
                  /\ toRenderer' = IF Forwarded(s) THEN Posted("emit", s, "ok", version)
                                   ELSE toRenderer
           /\ \A s \in Subs : Fail(s) =>
                  /\ Envelope("emit", s, "error", 0) \in RendererBound
                  /\ toRenderer' = IF Forwarded(s) THEN Posted("emit", s, "error", 0)
                                   ELSE toRenderer
<1>1. \A type \in {"greeting", "response", "emit"}, c \in Calls \cup {Hello},
         answer \in Answers, v \in Versions : Envelope(type, c, answer, v) \in RendererBound
  BY DEF Envelope, RendererBound
<1>2. 0 \in Versions /\ version \in Versions /\ \A s \in Subs : lq[s].value \in Versions
  BY Constants DEF Types, LiveQueries
<1>3. \A q \in Queries, w \in BOOLEAN : Dispatch(q, w) => version' \in Versions
  BY Constants DEF Dispatch, Types
<1>4. Queries \subseteq Calls /\ Subs \subseteq Calls
  BY DEF Calls
<1>5. Route => toHost # <<>> /\ toHost' = Tail(toHost)
  BY DEF Route, RouteHello, RouteCall, RouteCancel, Arrived
<1>6. RouteCancel \/ (\E c \in Calls : RouteCall(c)) => UNCHANGED toRenderer
  BY DEF RouteCall, RouteCancel
<1>7. RouteHello => \E answer \in {"ok", "error"} :
          /\ toRenderer' \in {toRenderer,
                              Append(toRenderer, Envelope("greeting", Hello, answer, 0))}
          /\ answer = "ok" /\ toRenderer' # toRenderer => helloSeen'
  BY DEF RouteHello, Posted
<1>8. /\ \A c \in Calls : Deny(c) => toRenderer' = Posted("response", c, "forbidden", 0)
      /\ \A c \in Calls : Throw(c) => toRenderer' = Posted("response", c, "error", 0)
      /\ \A q \in Queries, w \in BOOLEAN : Dispatch(q, w) =>
             toRenderer' = Posted("response", q, "ok", version')
      /\ \A s \in Subs : Subscribed(s) => toRenderer' = Posted("response", s, "ok", lq[s].value)
  BY DEF Deny, Throw, Dispatch, Subscribed, Respond
<1>9. /\ \A s \in Subs : Snapshot(s) =>
             toRenderer' = IF Forwarded(s) THEN Posted("emit", s, "ok", version) ELSE toRenderer
      /\ \A s \in Subs : Fail(s) =>
             toRenderer' = IF Forwarded(s) THEN Posted("emit", s, "error", 0) ELSE toRenderer
  BY DEF Snapshot, Fail
<1>10. "ok" \in Answers /\ "error" \in Answers /\ "forbidden" \in Answers
  BY DEF Answers
<1>11. \A answer \in {"ok", "error"} : Envelope("greeting", Hello, answer, 0) \in RendererBound
  BY <1>1, <1>2, <1>10
<1>12. /\ \A c \in Calls : Deny(c) => Envelope("response", c, "forbidden", 0) \in RendererBound
       /\ \A c \in Calls : Throw(c) => Envelope("response", c, "error", 0) \in RendererBound
       /\ \A q \in Queries, w \in BOOLEAN : Dispatch(q, w) =>
              Envelope("response", q, "ok", version') \in RendererBound
       /\ \A s \in Subs : /\ Envelope("response", s, "ok", lq[s].value) \in RendererBound
                          /\ Envelope("emit", s, "ok", version) \in RendererBound
                          /\ Envelope("emit", s, "error", 0) \in RendererBound
  BY <1>1, <1>2, <1>3, <1>4, <1>10
<1> QED BY <1>5, <1>6, <1>7, <1>8, <1>9, <1>11, <1>12
-----------------------------------------------------------------------------
(* The handshake.                                                          *)

\* One hello is sent, and a port the host has closed never gets another.
HelloOnce ==
    /\ \A n \in 1..Len(toHost) : toHost[n].type = "hello" =>
           /\ phase # "start" /\ port # "hostClosed"
           /\ \A m \in 1..Len(toHost) : toHost[m].type = "hello" => m = n
    /\ phase = "start" => port = "open"
    /\ helloSeen => port # "hostClosed"
    /\ port = "rendererClosed" => closed

\* Calls are made when the host has accepted the greeting.
Greeted ==
    /\ \A n \in 1..Len(toRenderer) : toRenderer[n].type = "greeting" =>
           toRenderer[n].id = Hello /\ (toRenderer[n].answer = "ok" => helloSeen)
    /\ phase = "ready" => helloSeen
    /\ \A c \in Calls : /\ call[c] # "idle" => helloSeen
                        /\ call[c] = "closed" => closed

LEMMA HelloOnceStep == Types /\ HelloOnce /\ [Next]_vars => HelloOnce'
<1> SUFFICES ASSUME Types, HelloOnce, [Next]_vars PROVE HelloOnce'
  OBVIOUS
<1>1. ASSUME NEW d \in {"same", "other"}, Connect(d) PROVE HelloOnce'
  <2>1. \A n \in 1..Len(toHost) : toHost[n].type # "hello"
    BY <1>1 DEF HelloOnce, Connect
  <2>2. toHost' = Append(toHost, Envelope("hello", Hello, d, 0))
        /\ Envelope("hello", Hello, d, 0) \in HostBound
    BY <1>1, RendererSends
  <2>3. Len(toHost') = Len(toHost) + 1 /\ Len(toHost) \in Nat
        /\ \A n \in 1..Len(toHost) : toHost'[n] = toHost[n]
    BY <2>2, HostQueue
  <2> QED BY <1>1, <2>1, <2>3 DEF HelloOnce, Connect
<1>2. ASSUME NEW e \in HostBound, e.type # "hello", toHost' \in {toHost, Append(toHost, e)},
             UNCHANGED <<phase, port, helloSeen, closed>>
      PROVE  HelloOnce'
  <2>1. CASE toHost' = toHost
    BY <1>2, <2>1 DEF HelloOnce
  <2>2. CASE toHost' = Append(toHost, e)
    <3>1. Len(toHost') = Len(toHost) + 1 /\ Len(toHost) \in Nat /\ toHost'[Len(toHost) + 1] = e
          /\ \A n \in 1..Len(toHost) : toHost'[n] = toHost[n]
      BY <2>2, HostQueue
    <3>2. \A n \in 1..Len(toHost') : toHost'[n].type = "hello" =>
              n \in 1..Len(toHost) /\ toHost'[n] = toHost[n]
      BY <1>2, <3>1
    <3> QED BY <1>2, <3>2 DEF HelloOnce
  <2> QED BY <1>2, <2>1, <2>2
<1>3. ASSUME Disconnect \/ ReceiveGreeting PROVE HelloOnce'
  BY <1>3 DEF HelloOnce, Disconnect, ReceiveGreeting, Incoming, OnClose, Types, host
<1>4. CASE Route
  <2>1. toHost # <<>> /\ toHost' = Tail(toHost)
    BY <1>4, HostSends
  <2>2. /\ Len(toHost) \in Nat /\ Len(toHost) > 0 /\ toHost[1] = Head(toHost)
        /\ Len(toHost') = Len(toHost) - 1
        /\ \A n \in 1..Len(toHost') : toHost'[n] = toHost[n + 1] /\ n + 1 \in 1..Len(toHost)
    BY <2>1, HostQueue
  <2>3. \A n \in 1..Len(toHost') : toHost'[n].type = "hello" =>
            /\ phase # "start" /\ port # "hostClosed" /\ Head(toHost).type # "hello"
            /\ \A m \in 1..Len(toHost') : toHost'[m].type = "hello" => m = n
    <3>1. TAKE n \in 1..Len(toHost')
    <3>2. HAVE toHost'[n].type = "hello"
    <3>3. toHost[n + 1].type = "hello" /\ n + 1 \in 1..Len(toHost) /\ n + 1 # 1
      BY <2>2, <3>2
    <3>4. phase # "start" /\ port # "hostClosed"
      BY <3>3 DEF HelloOnce
    <3>5. Head(toHost).type # "hello"
      BY <2>2, <3>3 DEF HelloOnce
    <3>6. ASSUME NEW m \in 1..Len(toHost'), toHost'[m].type = "hello" PROVE m = n
      <4>1. m + 1 \in 1..Len(toHost) /\ toHost[m + 1].type = "hello"
        BY <2>2, <3>6
      <4>2. m + 1 = n + 1
        BY <3>3, <4>1 DEF HelloOnce
      <4> QED BY <4>2
    <3> QED BY <3>4, <3>5, <3>6
  <2>4. UNCHANGED <<phase, closed>>
    BY <1>4 DEF Route, RouteHello, RouteCall, RouteCancel, renderer
  <2>5. CASE RouteHello
    <3>1. phase # "start" /\ port # "hostClosed" /\ Head(toHost).type = "hello"
      BY <2>2, <2>5 DEF RouteHello, Arrived, HelloOnce
    <3>2. /\ helloSeen' => port' # "hostClosed"
          /\ port' = "rendererClosed" => port = "rendererClosed"
      BY <2>5, <3>1 DEF RouteHello, HelloOnce
    <3>3. \A n \in 1..Len(toHost') : toHost'[n].type # "hello"
      BY <2>3, <3>1
    <3> QED BY <2>4, <3>1, <3>2, <3>3 DEF HelloOnce
  <2>6. CASE RouteCancel \/ \E c \in Calls : RouteCall(c)
    <3>1. UNCHANGED <<port, helloSeen>>
      BY <2>6 DEF RouteCall, RouteCancel
    <3> QED BY <2>3, <2>4, <3>1 DEF HelloOnce
  <2> QED BY <1>4, <2>5, <2>6 DEF Route
<1>5. ASSUME UNCHANGED <<toHost, phase, port, helloSeen, closed>> PROVE HelloOnce'
  BY <1>5 DEF HelloOnce
<1>6. ASSUME NEW q \in Queries, SendQuery(q) PROVE HelloOnce'
  <2>1. UNCHANGED <<phase, port, helloSeen, closed>>
    BY <1>6 DEF SendQuery, host
  <2>2. Envelope("query", q, "none", 0).type # "hello"
    BY DEF Envelope
  <2> QED BY <1>2, <1>6, <2>1, <2>2, RendererSends
<1>7. ASSUME NEW s \in Subs, OpenLive(s) PROVE HelloOnce'
  <2>1. UNCHANGED <<phase, port, helloSeen, closed>>
    BY <1>7 DEF OpenLive, host
  <2>2. Envelope("subscribe", s, "none", 0).type # "hello"
    BY DEF Envelope
  <2> QED BY <1>2, <1>7, <2>1, <2>2, RendererSends
<1>8. ASSUME NEW s \in Subs, Dispose(s) \/ ReceiveSubscription(s) \/ ReceiveEmit(s)
      PROVE  HelloOnce'
  <2>1. UNCHANGED <<phase, port, helloSeen, closed>>
    BY <1>8 DEF Dispose, ReceiveSubscription, ReceiveEmit, host
  <2>2. Envelope("cancel", s, "none", 0).type # "hello"
    BY DEF Envelope
  <2> QED BY <1>2, <1>8, <2>1, <2>2, RendererSends
<1>9. ASSUME \/ \E q \in Queries : ReceiveAnswer(q) \/ AllowQuery(q)
             \/ \E q \in Queries, w \in BOOLEAN : Dispatch(q, w)
             \/ \E s \in Subs : AllowSubscribe(s) \/ Subscribed(s) \/ Snapshot(s) \/ Fail(s)
             \/ Drain \/ Commit \/ UNCHANGED vars
      PROVE  UNCHANGED <<toHost, phase, port, helloSeen, closed>>
  BY <1>9 DEF ReceiveAnswer, AllowQuery, Dispatch,
              AllowSubscribe, Subscribed, Snapshot, Fail, Drain, Commit,
              vars, host, renderer, wire
<1>10. RouteHello \/ RouteCancel \/ (\E c \in Calls : RouteCall(c)) => Route
  BY DEF Route
<1>11. \A c \in Calls : Deny(c) \/ Throw(c) => UNCHANGED <<toHost, phase, port, helloSeen, closed>>
  BY DEF Deny, Throw, renderer
<1> QED BY Steps, <1>1, <1>3, <1>4, <1>5, <1>6, <1>7, <1>8, <1>9, <1>10, <1>11

\* Taking envelopes from the queue to the renderer, or losing them, adds none.
LEMMA NothingNew ==
    ASSUME Types, \/ toRenderer' \in {toRenderer, <<>>}
                  \/ toRenderer # <<>> /\ toRenderer' = Tail(toRenderer)
    PROVE  \A n \in 1..Len(toRenderer') :
               \E m \in 1..Len(toRenderer) : toRenderer'[n] = toRenderer[m]
<1>1. CASE toRenderer' = toRenderer
  BY <1>1
<1>2. CASE toRenderer' = <<>>
  BY <1>2
<1>3. CASE toRenderer # <<>> /\ toRenderer' = Tail(toRenderer)
  BY <1>3, RendererQueue
<1> QED BY <1>1, <1>2, <1>3

\* Posting adds one envelope.
LEMMA OneNew ==
    ASSUME Types, NEW e \in RendererBound, toRenderer' \in {toRenderer, Append(toRenderer, e)}
    PROVE  \A n \in 1..Len(toRenderer') :
               \/ toRenderer'[n] = e
               \/ \E m \in 1..Len(toRenderer) : toRenderer'[n] = toRenderer[m]
<1>1. CASE toRenderer' = toRenderer
  BY <1>1
<1>2. CASE toRenderer' = Append(toRenderer, e)
  <2>1. /\ Len(toRenderer) \in Nat /\ Len(toRenderer') = Len(toRenderer) + 1
        /\ toRenderer'[Len(toRenderer) + 1] = e
        /\ \A n \in 1..Len(toRenderer) : toRenderer'[n] = toRenderer[n]
    BY <1>2, RendererQueue
  <2>2. \A n \in 1..Len(toRenderer') : n = Len(toRenderer) + 1 \/ n \in 1..Len(toRenderer)
    BY <2>1
  <2> QED BY <2>1, <2>2
<1> QED BY <1>1, <1>2

\* What a step of the host posts, if anything.
LEMMA HostPosts ==
    ASSUME Types,
           \/ \E c \in Calls : Deny(c) \/ Throw(c)
           \/ \E q \in Queries, w \in BOOLEAN : Dispatch(q, w)
           \/ \E s \in Subs : Subscribed(s) \/ Snapshot(s) \/ Fail(s)
    PROVE  \A n \in 1..Len(toRenderer') :
               \/ toRenderer'[n].type \in {"response", "emit"}
               \/ \E m \in 1..Len(toRenderer) : toRenderer'[n] = toRenderer[m]
<1>1. \A type, id, answer, v :
          /\ Posted(type, id, answer, v)
                 \in {toRenderer, Append(toRenderer, Envelope(type, id, answer, v))}
          /\ Envelope(type, id, answer, v).type = type
  BY DEF Posted, Envelope
<1>2. PICK e \in RendererBound : /\ e.type \in {"response", "emit"}
                                 /\ toRenderer' \in {toRenderer, Append(toRenderer, e)}
  <2>1. ASSUME NEW c \in Calls, Deny(c) \/ Throw(c)
        PROVE  \E e \in RendererBound : /\ e.type \in {"response", "emit"}
                                        /\ toRenderer' \in {toRenderer, Append(toRenderer, e)}
    BY <1>1, <2>1, HostSends
  <2>2. ASSUME NEW q \in Queries, NEW w \in BOOLEAN, Dispatch(q, w)
        PROVE  \E e \in RendererBound : /\ e.type \in {"response", "emit"}
                                        /\ toRenderer' \in {toRenderer, Append(toRenderer, e)}
    BY <1>1, <2>2, HostSends
  <2>3. ASSUME NEW s \in Subs, Subscribed(s) \/ Snapshot(s) \/ Fail(s)
        PROVE  \E e \in RendererBound : /\ e.type \in {"response", "emit"}
                                        /\ toRenderer' \in {toRenderer, Append(toRenderer, e)}
    BY <1>1, <2>3, HostSends
  <2> QED BY <2>1, <2>2, <2>3
<1> QED BY <1>2, OneNew

LEMMA GreetedStep == Types /\ Greeted /\ [Next]_vars => Greeted'
<1> SUFFICES ASSUME Types, Greeted, [Next]_vars PROVE Greeted'
  OBVIOUS
<1> DEFINE GreetingsKnown == \A n \in 1..Len(toRenderer) : toRenderer[n].type = "greeting" =>
                                 toRenderer[n].id = Hello /\ (toRenderer[n].answer = "ok" => helloSeen)
<1>1. ASSUME \A n \in 1..Len(toRenderer') :
                 \/ toRenderer'[n].type \in {"response", "emit"}
                 \/ \E m \in 1..Len(toRenderer) : toRenderer'[n] = toRenderer[m],
             helloSeen => helloSeen'
      PROVE  GreetingsKnown'
  BY <1>1 DEF Greeted
<1>2. ASSUME UNCHANGED <<phase, call>>, helloSeen => helloSeen', closed => closed',
             GreetingsKnown'
      PROVE  Greeted'
  BY <1>2 DEF Greeted
<1>3. ASSUME NEW d \in {"same", "other"}, Connect(d) PROVE Greeted'
  <2>1. GreetingsKnown'
    BY <1>1, <1>3, NothingNew DEF Connect, host
  <2> QED BY <1>3, <2>1 DEF Greeted, Connect, host
<1>4. ASSUME NEW c \in Calls, SendQuery(c) \/ OpenLive(c) PROVE Greeted'
  <2>1. GreetingsKnown'
    BY <1>1, <1>4, NothingNew DEF SendQuery, OpenLive, host
  <2> QED BY <1>4, <2>1 DEF Greeted, SendQuery, OpenLive, host, Types
<1>5. ASSUME NEW q \in Queries, ReceiveAnswer(q) PROVE Greeted'
  <2>1. toRenderer # <<>> /\ Received \in RendererBound
    BY <1>5, RendererQueue DEF ReceiveAnswer, Incoming
  <2>2. GreetingsKnown'
    BY <1>1, <1>5, <2>1, NothingNew DEF ReceiveAnswer, host
  <2>3. Received.answer \in Answers
    BY <2>1 DEF RendererBound
  <2> QED BY <1>5, <2>2, <2>3 DEF Greeted, ReceiveAnswer, host, Types, Answers
<1>6. ASSUME NEW s \in Subs, ReceiveSubscription(s) PROVE Greeted'
  <2>1. toRenderer # <<>> /\ Received \in RendererBound
    BY <1>6, RendererQueue DEF ReceiveSubscription, Incoming
  <2>2. GreetingsKnown'
    BY <1>1, <1>6, <2>1, NothingNew DEF ReceiveSubscription, host
  <2>3. Received.answer \in Answers
    BY <2>1 DEF RendererBound
  <2> QED BY <1>6, <2>2, <2>3 DEF Greeted, ReceiveSubscription, host, Types, Answers
<1>7. ASSUME NEW s \in Subs, ReceiveEmit(s) PROVE Greeted'
  <2>1. toRenderer # <<>>
    BY <1>7 DEF ReceiveEmit, Incoming
  <2>2. GreetingsKnown'
    BY <1>1, <1>7, <2>1, NothingNew DEF ReceiveEmit, host
  <2> QED BY <1>2, <1>7, <2>2 DEF ReceiveEmit, host
<1>8. CASE Disconnect
  <2>1. GreetingsKnown'
    BY <1>1, <1>8, NothingNew DEF Disconnect, host
  <2> QED BY <1>8, <2>1 DEF Greeted, Disconnect, host, OnClose
<1>9. CASE ReceiveGreeting
  <2>1. toRenderer # <<>> /\ Len(toRenderer) > 0 /\ Len(toRenderer) \in Nat
        /\ toRenderer[1] = Received /\ Received.type = "greeting"
    BY <1>9, RendererQueue DEF ReceiveGreeting, Incoming
  <2>2. GreetingsKnown'
    BY <1>1, <1>9, <2>1, NothingNew DEF ReceiveGreeting, host
  <2>3. Received.answer = "ok" => helloSeen
    BY <2>1 DEF Greeted
  <2> QED BY <1>9, <2>2, <2>3 DEF Greeted, ReceiveGreeting, host, OnClose
<1>10. CASE RouteHello
  <2>1. PICK answer \in {"ok", "error"} :
            /\ Envelope("greeting", Hello, answer, 0) \in RendererBound
            /\ toRenderer' \in {toRenderer,
                                Append(toRenderer, Envelope("greeting", Hello, answer, 0))}
            /\ answer = "ok" /\ toRenderer' # toRenderer => helloSeen'
    BY <1>10, HostSends
  <2>2. helloSeen => helloSeen'
    BY <1>10 DEF RouteHello
  <2>3. GreetingsKnown'
    <3>1. CASE toRenderer' = toRenderer
      BY <1>1, <2>2, <3>1, NothingNew
    <3>2. CASE toRenderer' # toRenderer
      <4>1. \A n \in 1..Len(toRenderer') :
                \/ toRenderer'[n] = Envelope("greeting", Hello, answer, 0)
                \/ \E m \in 1..Len(toRenderer) : toRenderer'[n] = toRenderer[m]
        BY <2>1, OneNew
      <4>2. Envelope("greeting", Hello, answer, 0).id = Hello
            /\ Envelope("greeting", Hello, answer, 0).answer = answer
        BY DEF Envelope
      <4> QED BY <2>1, <2>2, <3>2, <4>1, <4>2 DEF Greeted
    <3> QED BY <3>1, <3>2
  <2> QED BY <1>2, <1>10, <2>2, <2>3 DEF RouteHello, renderer
<1>11. ASSUME \/ RouteCancel \/ (\E c \in Calls : RouteCall(c))
              \/ \E q \in Queries : AllowQuery(q)
              \/ \E s \in Subs : AllowSubscribe(s) \/ Dispose(s)
              \/ Drain \/ Commit \/ UNCHANGED vars
       PROVE  Greeted'
  <2>1. UNCHANGED <<phase, call, helloSeen, closed, toRenderer>>
    BY <1>11 DEF RouteCall, RouteCancel, AllowQuery, AllowSubscribe, Dispose,
                 Drain, Commit, vars, renderer, wire, host
  <2> QED BY <2>1 DEF Greeted
<1>12. ASSUME \/ \E c \in Calls : Deny(c) \/ Throw(c)
              \/ \E q \in Queries, w \in BOOLEAN : Dispatch(q, w)
              \/ \E s \in Subs : Subscribed(s) \/ Snapshot(s) \/ Fail(s)
       PROVE  Greeted'
  <2>1. UNCHANGED <<phase, call, helloSeen, closed>>
    BY <1>12 DEF Deny, Throw, Dispatch, Subscribed, Snapshot, Fail, renderer
  <2> QED BY <1>1, <1>2, <1>12, <2>1, HostPosts
<1>13. Queries \subseteq Calls /\ Subs \subseteq Calls
  BY DEF Calls
<1>14. ASSUME \/ \E d \in {"same", "other"} : Connect(d)
              \/ \E q \in Queries : SendQuery(q) \/ ReceiveAnswer(q)
              \/ \E s \in Subs : OpenLive(s) \/ ReceiveSubscription(s) \/ ReceiveEmit(s)
              \/ Disconnect \/ ReceiveGreeting
       PROVE  Greeted'
  BY <1>3, <1>4, <1>5, <1>6, <1>7, <1>8, <1>9, <1>13, <1>14
<1> QED BY Steps, <1>10, <1>11, <1>12, <1>14
-----------------------------------------------------------------------------
(* Calls on their way to the host.                                         *)

IsCall(e) == e.type \in {"query", "subscribe"}

\* The envelope at n is the one with which a call was made that the host has
\* not seen.
UnderWay(n) ==
    /\ toHost[n].id \in Calls
    /\ call[toHost[n].id] # "idle" /\ handler[toHost[n].id] = "none"
    /\ \A m \in 1..Len(toHost) :
           IsCall(toHost[m]) /\ toHost[m].id = toHost[n].id => m = n

\* A call is routed once, and after it was made.
Routing ==
    /\ \A n \in 1..Len(toHost) : IsCall(toHost[n]) => UnderWay(n)
    /\ \A c \in Calls : handler[c] # "none" => call[c] # "idle"

\* Where no call is made and none is routed.
LEMMA RoutingKept ==
    ASSUME Types, Routing,
           NEW e \in HostBound, ~IsCall(e),
           toHost' \in {toHost, Append(toHost, e)},
           \A c \in Calls : /\ call[c] # "idle" => call'[c] # "idle"
                            /\ handler'[c] = "none" <=> handler[c] = "none"
    PROVE  Routing'
<1>1. /\ Len(toHost) \in Nat
      /\ \A n \in 1..Len(toHost') : IsCall(toHost'[n]) =>
             n \in 1..Len(toHost) /\ toHost'[n] = toHost[n]
  <2>1. CASE toHost' = toHost
    BY <2>1, HostQueue
  <2>2. CASE toHost' = Append(toHost, e)
    BY <2>2, HostQueue
  <2> QED BY <2>1, <2>2
<1>2. ASSUME NEW n \in 1..Len(toHost'), IsCall(toHost'[n]) PROVE UnderWay(n)'
  <2>1. n \in 1..Len(toHost) /\ toHost'[n] = toHost[n]
    BY <1>1, <1>2
  <2>2. UnderWay(n)
    BY <1>2, <2>1 DEF Routing
  <2>3. \A m \in 1..Len(toHost') :
            IsCall(toHost'[m]) /\ toHost'[m].id = toHost'[n].id => m = n
    BY <1>1, <2>1, <2>2 DEF UnderWay
  <2> QED BY <2>1, <2>2, <2>3 DEF UnderWay
<1>3. \A c \in Calls : handler'[c] # "none" => call'[c] # "idle"
  BY DEF Routing
<1> QED BY <1>2, <1>3 DEF Routing

\* A call is made.
LEMMA RoutingMade ==
    ASSUME Types, Routing, NEW c \in Calls, call[c] = "idle",
           NEW e \in HostBound, e.id = c,
           toHost' \in {toHost, Append(toHost, e)},
           call'[c] # "idle",
           \A d \in Calls : call[d] # "idle" => call'[d] # "idle",
           UNCHANGED handler
    PROVE  Routing'
<1>1. handler[c] = "none" /\ \A n \in 1..Len(toHost) : IsCall(toHost[n]) => toHost[n].id # c
  BY DEF Routing, UnderWay
<1>2. \A n \in 1..Len(toHost') : toHost'[n].id # c => n \in 1..Len(toHost) /\ toHost'[n] = toHost[n]
  BY HostQueue
<1>3. \A n \in 1..Len(toHost') : IsCall(toHost'[n]) /\ toHost'[n].id = c => n = Len(toHost) + 1
  <2>1. CASE toHost' = toHost
    BY <1>1, <2>1
  <2>2. CASE toHost' = Append(toHost, e)
    BY <1>1, <2>2, HostQueue
  <2> QED BY <2>1, <2>2
<1>4. ASSUME NEW n \in 1..Len(toHost'), IsCall(toHost'[n]) PROVE UnderWay(n)'
  <2>1. CASE toHost'[n].id = c
    BY <1>1, <1>3, <1>4, <2>1 DEF UnderWay
  <2>2. CASE toHost'[n].id # c
    <3>1. n \in 1..Len(toHost) /\ toHost'[n] = toHost[n]
      BY <1>2, <2>2
    <3>2. UnderWay(n)
      BY <1>4, <3>1 DEF Routing
    <3>3. \A m \in 1..Len(toHost') :
              IsCall(toHost'[m]) /\ toHost'[m].id = toHost'[n].id => m = n
      BY <1>2, <2>2, <3>1, <3>2 DEF UnderWay
    <3> QED BY <3>1, <3>2, <3>3 DEF UnderWay
  <2> QED BY <2>1, <2>2
<1>5. \A d \in Calls : handler'[d] # "none" => call'[d] # "idle"
  BY DEF Routing
<1> QED BY <1>4, <1>5 DEF Routing

\* The host takes the first envelope.
LEMMA RoutingTaken ==
    ASSUME Types, Routing, Route
    PROVE  Routing'
<1>1. toHost # <<>> /\ toHost' = Tail(toHost)
  BY HostSends
<1>2. /\ Len(toHost) \in Nat /\ Len(toHost) > 0 /\ toHost[1] = Head(toHost)
      /\ Len(toHost') = Len(toHost) - 1
      /\ \A n \in 1..Len(toHost') : toHost'[n] = toHost[n + 1] /\ n + 1 \in 1..Len(toHost)
  BY <1>1, HostQueue
<1>3. ASSUME NEW n \in 1..Len(toHost'), IsCall(toHost'[n])
      PROVE  /\ toHost'[n].id \in Calls /\ call[toHost'[n].id] # "idle"
             /\ handler[toHost'[n].id] = "none"
             /\ IsCall(Head(toHost)) => Head(toHost).id # toHost'[n].id
             /\ \A m \in 1..Len(toHost') :
                    IsCall(toHost'[m]) /\ toHost'[m].id = toHost'[n].id => m = n
  <2>1. n + 1 \in 1..Len(toHost) /\ toHost'[n] = toHost[n + 1] /\ n + 1 # 1
    BY <1>2
  <2>2. UnderWay(n + 1)
    BY <1>3, <2>1 DEF Routing
  <2>3. IsCall(Head(toHost)) => Head(toHost).id # toHost'[n].id
    BY <1>2, <2>1, <2>2 DEF UnderWay
  <2>4. ASSUME NEW m \in 1..Len(toHost'), IsCall(toHost'[m]), toHost'[m].id = toHost'[n].id
        PROVE  m = n
    <3>1. m + 1 \in 1..Len(toHost) /\ toHost'[m] = toHost[m + 1]
      BY <1>2
    <3>2. m + 1 = n + 1
      BY <2>1, <2>2, <2>4, <3>1 DEF UnderWay
    <3> QED BY <3>2
  <2> QED BY <2>1, <2>2, <2>3, <2>4 DEF UnderWay
<1>4. UNCHANGED call
  BY DEF Route, RouteHello, RouteCall, RouteCancel, renderer
<1>5. CASE RouteHello \/ RouteCancel
  <2>1. UNCHANGED handler
    BY <1>5 DEF RouteHello, RouteCancel
  <2> QED BY <1>3, <1>4, <2>1 DEF Routing, UnderWay
<1>6. ASSUME NEW c \in Calls, RouteCall(c) PROVE Routing'
  <2>1. Head(toHost).id = c /\ IsCall(Head(toHost)) /\ 1 \in 1..Len(toHost)
    BY <1>2, <1>6 DEF RouteCall, Arrived, IsCall
  <2>2. call[c] # "idle"
    BY <1>2, <2>1 DEF Routing, UnderWay
  <2>3. \A d \in Calls : d # c => handler'[d] = handler[d]
    BY <1>6 DEF RouteCall, Types
  <2> QED BY <1>3, <1>4, <2>1, <2>2, <2>3 DEF Routing, UnderWay
<1> QED BY <1>5, <1>6 DEF Route

LEMMA RoutingStep == Types /\ Routing /\ [Next]_vars => Routing'
<1> SUFFICES ASSUME Types, Routing, [Next]_vars PROVE Routing'
  OBVIOUS
<1>0. Queries \subseteq Calls /\ Subs \subseteq Calls
  BY DEF Calls
<1>1. ASSUME NEW q \in Queries, SendQuery(q) PROVE Routing'
  <2>1. /\ call[q] = "idle" /\ call'[q] # "idle" /\ UNCHANGED handler
        /\ \A d \in Calls : call[d] # "idle" => call'[d] # "idle"
    BY <1>0, <1>1 DEF SendQuery, Types, host
  <2>2. Envelope("query", q, "none", 0).id = q
    BY DEF Envelope
  <2> QED BY <1>0, <1>1, <2>1, <2>2, RendererSends, RoutingMade
<1>2. ASSUME NEW s \in Subs, OpenLive(s) PROVE Routing'
  <2>1. /\ call[s] = "idle" /\ call'[s] # "idle" /\ UNCHANGED handler
        /\ \A d \in Calls : call[d] # "idle" => call'[d] # "idle"
    BY <1>0, <1>2 DEF OpenLive, Types, host
  <2>2. Envelope("subscribe", s, "none", 0).id = s
    BY DEF Envelope
  <2> QED BY <1>0, <1>2, <2>1, <2>2, RendererSends, RoutingMade
<1>3. ASSUME NEW d \in {"same", "other"}, Connect(d) PROVE Routing'
  <2>1. ~IsCall(Envelope("hello", Hello, d, 0))
    BY DEF Envelope, IsCall
  <2>2. UNCHANGED <<call, handler>>
    BY <1>3 DEF Connect, host
  <2> QED BY <1>3, <2>1, <2>2, RendererSends, RoutingKept
<1>4. ASSUME NEW s \in Subs, Dispose(s) \/ ReceiveSubscription(s) \/ ReceiveEmit(s)
      PROVE  Routing'
  <2>1. ~IsCall(Envelope("cancel", s, "none", 0))
    BY DEF Envelope, IsCall
  <2>2. /\ UNCHANGED handler
        /\ \A d \in Calls : call[d] # "idle" => call'[d] # "idle"
    <3>1. CASE ReceiveSubscription(s)
      <4>1. Received.answer \in Answers
        BY <3>1, RendererQueue DEF ReceiveSubscription, Incoming, RendererBound
      <4>2. "idle" \notin Answers
        BY DEF Answers
      <4> QED BY <3>1, <4>1, <4>2 DEF ReceiveSubscription, host, Types
    <3> QED BY <1>4, <3>1 DEF Dispose, ReceiveEmit, host
  <2> QED BY <1>4, <2>1, <2>2, RendererSends, RoutingKept
<1>5. ASSUME UNCHANGED toHost,
             \A c \in Calls : /\ call[c] # "idle" => call'[c] # "idle"
                              /\ handler'[c] = "none" <=> handler[c] = "none"
      PROVE  Routing'
  BY <1>5 DEF Routing, UnderWay
<1>6. ASSUME NEW q \in Queries, ReceiveAnswer(q) PROVE Routing'
  <2>1. Received.answer \in Answers
    BY <1>6, RendererQueue DEF ReceiveAnswer, Incoming, RendererBound
  <2>2. "idle" \notin Answers
    BY DEF Answers
  <2> QED BY <1>5, <1>6, <2>1, <2>2 DEF ReceiveAnswer, host, Types
<1>7. ASSUME Disconnect \/ ReceiveGreeting PROVE Routing'
  BY <1>5, <1>7 DEF Disconnect, ReceiveGreeting, OnClose, host
<1>8. ASSUME NEW c \in Calls, Deny(c) \/ Throw(c) PROVE Routing'
  BY <1>5, <1>8 DEF Deny, Throw, Respond, renderer, Types
<1>9. ASSUME NEW q \in Queries, NEW w \in BOOLEAN, Dispatch(q, w) PROVE Routing'
  BY <1>5, <1>9 DEF Dispatch, Respond, renderer, Types
<1>10. ASSUME NEW q \in Queries, AllowQuery(q) PROVE Routing'
  BY <1>5, <1>10 DEF AllowQuery, renderer, wire, Types
<1>11. ASSUME NEW s \in Subs, AllowSubscribe(s) \/ Subscribed(s) PROVE Routing'
  BY <1>5, <1>11 DEF AllowSubscribe, Subscribed, Respond, renderer, wire, Types
<1>12. ASSUME \/ \E s \in Subs : Snapshot(s) \/ Fail(s)
              \/ Drain \/ Commit \/ UNCHANGED vars
       PROVE  Routing'
  BY <1>5, <1>12 DEF Snapshot, Fail, Drain, Commit, vars, renderer, wire, host
<1>13. CASE RouteHello \/ RouteCancel \/ \E c \in Calls : RouteCall(c)
  BY <1>13, RoutingTaken DEF Route
<1> QED BY Steps, <1>1, <1>2, <1>3, <1>4, <1>6, <1>7, <1>8, <1>9, <1>10, <1>11, <1>12, <1>13
-----------------------------------------------------------------------------
(* The answers.                                                            *)

\* What an answer says of the call is so.
Truth(c, answer) ==
    /\ c \in Queries => /\ answer = "ok" => c \in ran
                        /\ answer \in {"forbidden", "error"} => c \notin ran
    /\ c \in Subs /\ answer \in {"forbidden", "error"} => lq[c].state = "none"

\* The answers under way.
Responses ==
    \A n \in 1..Len(toRenderer) : toRenderer[n].type = "response" =>
        /\ toRenderer[n].id \in Calls /\ handler[toRenderer[n].id] = "done"
        /\ Truth(toRenderer[n].id, toRenderer[n].answer)

\* The answers received.
Settled == \A c \in Calls : call[c] \in Answers => handler[c] = "done" /\ Truth(c, call[c])

\* An operation takes place in the last step of its handler.
NotRun == \A q \in Queries : handler[q] \in {"none", "authorizing", "dispatching"} => q \notin ran

\* A live query is made by the handler that waits for it.
Made ==
    \A s \in Subs :
        /\ handler[s] # "dispatching"
        /\ lq[s].state # "none" => handler[s] \in {"waiting", "done"}
        /\ handler[s] = "waiting" => lq[s].state # "none"
        /\ s \in subs => lq[s].state # "none" /\ handler[s] = "done"

\* A live query is waited for or can be released.
Released ==
    \A s \in Subs :
        /\ lq[s].state = "active" => handler[s] = "waiting" \/ s \in subs
        /\ drained /\ handler[s] \in {"authorizing", "waiting"} => s \in late
        /\ drained /\ s \in subs => s \in late

Honest == Responses /\ Settled /\ NotRun /\ Made /\ Released

\* A handler that has answered has done what it does.
DoneStays ==
    \A c \in Calls : handler[c] = "done" =>
        /\ handler'[c] = "done"
        /\ c \in Queries => (c \in ran' <=> c \in ran)
        /\ c \in Subs /\ lq[c].state = "none" => lq'[c].state = "none"

\* Then answers stay true.
LEMMA TrueStays ==
    ASSUME DoneStays, NEW c \in Calls, handler[c] = "done", NEW answer, Truth(c, answer)
    PROVE  handler'[c] = "done" /\ Truth(c, answer)'
  BY DEF DoneStays, Truth

\* Where the renderer, the port or the time is what moves.
LEMMA HonestRenderer ==
    ASSUME Types, Honest, UNCHANGED <<handler, subs, lq, ran, drained, late>>,
           \/ toRenderer' \in {toRenderer, <<>>}
           \/ toRenderer # <<>> /\ toRenderer' = Tail(toRenderer),
           \A c \in Calls : call'[c] \in Answers =>
               \/ call[c] = call'[c]
               \/ /\ toRenderer # <<>> /\ Received.type = "response"
                  /\ Received.id = c /\ Received.answer = call'[c]
    PROVE  Honest'
<1>1. \A c, answer : Truth(c, answer) => Truth(c, answer)'
  BY DEF Truth
<1>2. Responses'
  <2>1. \A n \in 1..Len(toRenderer') :
            \E m \in 1..Len(toRenderer) : toRenderer'[n] = toRenderer[m]
    BY NothingNew
  <2> QED BY <1>1, <2>1 DEF Honest, Responses
<1>3. Settled'
  <2>1. ASSUME NEW c \in Calls, call'[c] \in Answers
        PROVE  handler[c] = "done" /\ Truth(c, call'[c])
    <3>1. CASE call[c] = call'[c]
      BY <2>1, <3>1 DEF Honest, Settled
    <3>2. CASE /\ toRenderer # <<>> /\ Received.type = "response"
               /\ Received.id = c /\ Received.answer = call'[c]
      <4>1. 1 \in 1..Len(toRenderer) /\ toRenderer[1] = Received
        BY <3>2, RendererQueue
      <4> QED BY <3>2, <4>1 DEF Honest, Responses
    <3> QED BY <2>1, <3>1, <3>2
  <2> QED BY <1>1, <2>1 DEF Settled
<1>4. NotRun' /\ Made' /\ Released'
  BY DEF Honest, NotRun, Made, Released
<1> QED BY <1>2, <1>3, <1>4 DEF Honest

\* What is under way and what was received, where the host moves.
LEMMA HonestAnswers ==
    ASSUME Types, Honest, DoneStays, UNCHANGED call,
           NEW e \in RendererBound, toRenderer' \in {toRenderer, Append(toRenderer, e)},
           e.type = "response" /\ toRenderer' # toRenderer =>
               e.id \in Calls /\ handler'[e.id] = "done" /\ Truth(e.id, e.answer)'
    PROVE  Responses' /\ Settled'
<1>1. Settled'
  BY TrueStays DEF Honest, Settled
<1>2. ASSUME NEW n \in 1..Len(toRenderer'), toRenderer'[n].type = "response"
      PROVE  /\ toRenderer'[n].id \in Calls /\ handler'[toRenderer'[n].id] = "done"
             /\ Truth(toRenderer[n].id, toRenderer[n].answer)'
  <2>1. CASE toRenderer'[n] = e /\ toRenderer' # toRenderer
    <3>1. e.id \in Calls /\ handler'[e.id] = "done" /\ Truth(e.id, e.answer)'
      BY <1>2, <2>1
    <3> QED BY <2>1, <3>1 DEF Truth
  <2>2. ASSUME NEW m \in 1..Len(toRenderer), toRenderer'[n] = toRenderer[m]
        PROVE  /\ toRenderer'[n].id \in Calls /\ handler'[toRenderer'[n].id] = "done"
               /\ Truth(toRenderer[n].id, toRenderer[n].answer)'
    <3>1. PICK c \in Calls : c = toRenderer[m].id
      BY <1>2, <2>2 DEF Honest, Responses
    <3>2. PICK answer : answer = toRenderer[m].answer
      OBVIOUS
    <3>3. handler[c] = "done" /\ Truth(c, answer)
      BY <1>2, <2>2, <3>1, <3>2 DEF Honest, Responses
    <3>4. handler'[c] = "done" /\ Truth(c, answer)'
      BY <3>3, TrueStays
    <3> QED BY <2>2, <3>1, <3>2, <3>4 DEF Truth
  <2>3. CASE toRenderer' = toRenderer
    BY <2>2, <2>3
  <2> QED BY <2>1, <2>2, <2>3, OneNew
<1> QED BY <1>1, <1>2 DEF Responses

\* The handler of a call refuses it.
LEMMA HonestRefusal ==
    ASSUME Types, Honest, NEW c \in Calls, Deny(c) \/ Throw(c)
    PROVE  Honest'
<1>1. /\ handler[c] \in {"authorizing", "dispatching"}
      /\ handler' = [handler EXCEPT ![c] = "done"]
      /\ UNCHANGED <<call, subs, lq, ran, drained, late>>
  BY DEF Deny, Throw, Respond, renderer
<1>2. DoneStays
  BY <1>1 DEF DoneStays, Types
<1>3. \A answer : answer \in {"forbidden", "error"} => Truth(c, answer)'
  BY <1>1 DEF Truth, Honest, NotRun, Made
<1>4. \E answer \in {"forbidden", "error"} :
          /\ Envelope("response", c, answer, 0) \in RendererBound
          /\ toRenderer' \in {toRenderer, Append(toRenderer, Envelope("response", c, answer, 0))}
  BY HostSends DEF Posted
<1>5. Responses' /\ Settled'
  <2>1. PICK answer \in {"forbidden", "error"} :
          /\ Envelope("response", c, answer, 0) \in RendererBound
          /\ toRenderer' \in {toRenderer, Append(toRenderer, Envelope("response", c, answer, 0))}
    BY <1>4
  <2>2. PICK e \in RendererBound : e = Envelope("response", c, answer, 0)
    BY <2>1
  <2>3. e.id = c /\ e.answer = answer
    BY <2>2 DEF Envelope
  <2>4. handler'[e.id] = "done" /\ Truth(e.id, e.answer)'
    BY <1>1, <1>3, <2>3 DEF Types
  <2> QED BY <1>1, <1>2, <2>1, <2>2, <2>3, <2>4, HonestAnswers
<1>6. NotRun'
  BY <1>1 DEF Honest, NotRun, Types
<1>7. Made' /\ Released'
  BY <1>1 DEF Honest, Made, Released, Types
<1> QED BY <1>5, <1>6, <1>7 DEF Honest

\* The operation takes place.
LEMMA HonestDispatch ==
    ASSUME Types, Honest, NEW q \in Queries, NEW w \in BOOLEAN, Dispatch(q, w)
    PROVE  Honest'
<1>1. /\ handler[q] = "dispatching" /\ handler' = [handler EXCEPT ![q] = "done"]
      /\ ran' = ran \cup {q}
      /\ UNCHANGED <<call, subs, lq, drained, late>>
  BY DEF Dispatch, Respond, renderer
<1>2. DoneStays
  BY <1>1 DEF DoneStays, Types
<1>3. q \in Calls /\ q \notin Subs
  BY BridgeAssumption DEF Calls
<1>4. Responses' /\ Settled'
  <2>1. PICK e \in RendererBound :
            /\ e.id = q /\ e.answer = "ok"
            /\ toRenderer' \in {toRenderer, Append(toRenderer, e)}
    <3>1. PICK e \in RendererBound : /\ e = Envelope("response", q, "ok", version')
                                     /\ toRenderer' = Posted("response", q, "ok", version')
      BY HostSends
    <3>2. toRenderer' \in {toRenderer, Append(toRenderer, e)}
      BY <3>1 DEF Posted
    <3> QED BY <3>1, <3>2 DEF Envelope
  <2>2. handler'[e.id] = "done" /\ Truth(e.id, e.answer)'
    BY <1>1, <1>3, <2>1 DEF Types, Truth
  <2> QED BY <1>1, <1>2, <1>3, <2>1, <2>2, HonestAnswers
<1>5. NotRun' /\ Made' /\ Released'
  BY <1>1, <1>3 DEF Honest, NotRun, Made, Released, Types
<1> QED BY <1>4, <1>5 DEF Honest

\* The subscription is answered.
LEMMA HonestSubscribed ==
    ASSUME Types, Honest, NEW s \in Subs, Subscribed(s)
    PROVE  Honest'
<1>1. /\ handler[s] = "waiting" /\ handler' = [handler EXCEPT ![s] = "done"]
      /\ subs' = subs \cup {s}
      /\ UNCHANGED <<call, ran, drained, late>>
  BY DEF Subscribed, Respond, renderer
<1>2. \A t \in Subs : lq'[t].state = lq[t].state
  BY DEF Subscribed, Types, LiveQueries
<1>3. DoneStays
  BY <1>1, <1>2 DEF DoneStays, Types
<1>4. s \in Calls /\ s \notin Queries
  BY BridgeAssumption DEF Calls
<1>5. Responses' /\ Settled'
  <2>1. PICK e \in RendererBound :
            /\ e.id = s /\ e.answer = "ok"
            /\ toRenderer' \in {toRenderer, Append(toRenderer, e)}
    <3>1. PICK e \in RendererBound : /\ e = Envelope("response", s, "ok", lq[s].value)
                                     /\ toRenderer' = Posted("response", s, "ok", lq[s].value)
      BY HostSends
    <3>2. toRenderer' \in {toRenderer, Append(toRenderer, e)}
      BY <3>1 DEF Posted
    <3> QED BY <3>1, <3>2 DEF Envelope
  <2>2. handler'[e.id] = "done" /\ Truth(e.id, e.answer)'
    BY <1>1, <1>4, <2>1 DEF Types, Truth
  <2> QED BY <1>1, <1>3, <1>4, <2>1, <2>2, HonestAnswers
<1>6. NotRun'
  BY <1>1, <1>4 DEF Honest, NotRun, Types
<1>7. Made' /\ Released'
  BY <1>1, <1>2, <1>4 DEF Honest, Made, Released, Types, Calls
<1> QED BY <1>5, <1>6, <1>7 DEF Honest

\* A live query emits, or fails.
LEMMA HonestEmission ==
    ASSUME Types, Honest, NEW s \in Subs, Snapshot(s) \/ Fail(s)
    PROVE  Honest'
<1>1. /\ lq[s].state = "active" /\ \A t \in Subs \ {s} : lq'[t] = lq[t]
      /\ lq'[s].state \in {"active", "failed"}
      /\ UNCHANGED <<handler, call, subs, ran, drained, late>>
  BY DEF Snapshot, Fail, renderer, Types, LiveQueries
<1>2. DoneStays
  BY <1>1 DEF DoneStays
<1>3. Responses' /\ Settled'
  <2>1. PICK e \in RendererBound :
            e.type = "emit" /\ toRenderer' \in {toRenderer, Append(toRenderer, e)}
    <3>1. PICK e, answer, v :
              /\ e \in RendererBound /\ e = Envelope("emit", s, answer, v)
              /\ toRenderer' = IF Forwarded(s) THEN Posted("emit", s, answer, v) ELSE toRenderer
      BY HostSends
    <3>2. toRenderer' \in {toRenderer, Append(toRenderer, e)}
      BY <3>1 DEF Posted
    <3> QED BY <3>1, <3>2 DEF Envelope
  <2> QED BY <1>1, <1>2, <2>1, HonestAnswers
<1>4. NotRun' /\ Made' /\ Released'
  BY <1>1 DEF Honest, NotRun, Made, Released
<1> QED BY <1>3, <1>4 DEF Honest

\* The host goes on with a call, and tells nobody.
LEMMA HonestSilent ==
    ASSUME Types, Routing, Honest,
           \/ \E q \in Queries : AllowQuery(q)
           \/ \E s \in Subs : AllowSubscribe(s)
           \/ \E c \in Calls : RouteCall(c)
           \/ RouteCancel \/ Drain
    PROVE  Honest'
<1>0. /\ UNCHANGED <<toRenderer, call, ran>>
      /\ Queries \subseteq Calls /\ Subs \subseteq Calls /\ Queries \cap Subs = {}
  BY BridgeAssumption
     DEF AllowQuery, AllowSubscribe, RouteCall, RouteCancel, Drain, wire, renderer, Calls
<1>1. ASSUME DoneStays PROVE Responses' /\ Settled'
  <2>1. Settled'
    BY <1>0, <1>1, TrueStays DEF Honest, Settled
  <2>2. \A n \in 1..Len(toRenderer) : toRenderer[n].type = "response" =>
            /\ handler'[toRenderer[n].id] = "done"
            /\ Truth(toRenderer[n].id, toRenderer[n].answer)'
    <3>1. TAKE n \in 1..Len(toRenderer)
    <3>2. HAVE toRenderer[n].type = "response"
    <3>3. PICK c, answer :
            c \in Calls /\ c = toRenderer[n].id /\ answer = toRenderer[n].answer
      BY <3>2 DEF Honest, Responses
    <3>4. handler'[c] = "done" /\ Truth(c, answer)'
      BY <1>1, <3>2, <3>3, TrueStays DEF Honest, Responses
    <3> QED BY <1>0, <3>3, <3>4 DEF Truth
  <2> QED BY <1>0, <2>1, <2>2 DEF Honest, Responses
<1>2. ASSUME NEW q \in Queries, AllowQuery(q) PROVE Honest'
  <2>1. /\ handler[q] = "authorizing" /\ handler' = [handler EXCEPT ![q] = "dispatching"]
        /\ UNCHANGED <<subs, lq, drained, late>>
    BY <1>2 DEF AllowQuery
  <2>2. DoneStays
    BY <1>0, <2>1 DEF DoneStays, Types
  <2>3. NotRun' /\ Made' /\ Released'
    BY <1>0, <2>1 DEF Honest, NotRun, Made, Released, Types
  <2> QED BY <1>1, <2>2, <2>3 DEF Honest
<1>3. ASSUME NEW s \in Subs, AllowSubscribe(s) PROVE Honest'
  <2>1. /\ handler[s] = "authorizing" /\ handler' = [handler EXCEPT ![s] = "waiting"]
        /\ lq'[s].state = "active" /\ \A t \in Subs \ {s} : lq'[t] = lq[t]
        /\ UNCHANGED <<subs, drained, late>>
    BY <1>3 DEF AllowSubscribe, Types, LiveQueries
  <2>2. DoneStays
    BY <1>0, <2>1 DEF DoneStays, Types
  <2>3. NotRun' /\ Made' /\ Released'
    BY <1>0, <2>1 DEF Honest, NotRun, Made, Released, Types
  <2> QED BY <1>1, <2>2, <2>3 DEF Honest
<1>4. ASSUME NEW c \in Calls, RouteCall(c) PROVE Honest'
  <2>1. handler[c] = "none"
    <3>1. Head(toHost).id = c /\ IsCall(Head(toHost)) /\ toHost # <<>>
      BY <1>4 DEF RouteCall, Arrived, IsCall
    <3>2. toHost[1] = Head(toHost) /\ 1 \in 1..Len(toHost)
      BY <3>1, HostQueue
    <3> QED BY <3>1, <3>2 DEF Routing, UnderWay
  <2>2. /\ \E place \in {"done", "authorizing"} :
               /\ handler' = [handler EXCEPT ![c] = place]
               /\ drained => place = "done"
        /\ UNCHANGED <<subs, lq, drained, late>>
    BY <1>4 DEF RouteCall
  <2>3. DoneStays
    BY <1>0, <2>1, <2>2 DEF DoneStays, Types
  <2>4. NotRun' /\ Made' /\ Released'
    BY <1>0, <2>1, <2>2 DEF Honest, NotRun, Made, Released, Types
  <2> QED BY <1>1, <2>3, <2>4 DEF Honest
<1>5. CASE RouteCancel
  <2>1. /\ \A s \in Subs : lq[s].state = "none" <=> lq'[s].state = "none"
        /\ \A s \in Subs : lq'[s].state = "active" => lq[s].state = "active"
        /\ \A s \in Subs : lq'[s].state = "active" /\ s \in subs => s \in subs'
        /\ subs' \subseteq subs
        /\ UNCHANGED <<handler, drained, late>>
    <3>1. \/ UNCHANGED <<lq, subs>>
          \/ \E s \in subs : lq' = [lq EXCEPT ![s] = Disposed(lq[s])] /\ subs' = subs \ {s}
      BY <1>5 DEF RouteCancel
    <3>2. \A s \in Subs : Disposed(lq[s]).state = "disposed"
      BY DEF Disposed, Types, LiveQueries
    <3> QED BY <1>5, <3>1, <3>2 DEF RouteCancel, Types, Honest, Made
  <2>2. DoneStays
    BY <1>0, <2>1 DEF DoneStays
  <2>3. NotRun' /\ Made' /\ Released'
    BY <1>0, <2>1 DEF Honest, NotRun, Made, Released
  <2> QED BY <1>1, <2>2, <2>3 DEF Honest
<1>6. CASE Drain
  <2>1. /\ \A s \in Subs : lq[s].state = "none" <=> lq'[s].state = "none"
        /\ \A s \in Subs : lq'[s].state = "active" => lq[s].state = "active" /\ s \notin subs
        /\ subs' = {} /\ late' = {s \in Subs : handler[s] \in {"authorizing", "waiting"}}
        /\ UNCHANGED handler
    <3>1. \A s \in Subs : Disposed(lq[s]).state = "disposed"
      BY DEF Disposed, Types, LiveQueries
    <3>2. \A s \in Subs : lq'[s] = IF s \in subs THEN Disposed(lq[s]) ELSE lq[s]
      BY <1>6 DEF Drain
    <3> QED BY <1>6, <3>1, <3>2 DEF Drain, Honest, Made
  <2>2. DoneStays
    BY <1>0, <2>1 DEF DoneStays
  <2>3. NotRun' /\ Made' /\ Released'
    BY <1>0, <2>1 DEF Honest, NotRun, Made, Released
  <2> QED BY <1>1, <2>2, <2>3 DEF Honest
<1> QED BY <1>2, <1>3, <1>4, <1>5, <1>6

LEMMA HonestStep == Types /\ Routing /\ Honest /\ [Next]_vars => Honest'
<1> SUFFICES ASSUME Types, Routing, Honest, [Next]_vars PROVE Honest'
  OBVIOUS
<1>1. ASSUME NEW q \in Queries, ReceiveAnswer(q) PROVE Honest'
  BY <1>1, HonestRenderer DEF ReceiveAnswer, Incoming, Types, Calls, host
<1>2. ASSUME NEW s \in Subs, ReceiveSubscription(s) PROVE Honest'
  BY <1>2, HonestRenderer DEF ReceiveSubscription, Incoming, Types, Calls, host
<1>3. ASSUME NEW s \in Subs, ReceiveEmit(s) PROVE Honest'
  BY <1>3, HonestRenderer DEF ReceiveEmit, Incoming, host
<1>4. CASE Disconnect \/ ReceiveGreeting
  <2>1. \A c \in Calls : call'[c] \in Answers => call[c] = call'[c]
    BY <1>4 DEF Disconnect, ReceiveGreeting, OnClose, Answers
  <2> QED BY <1>4, <2>1, HonestRenderer DEF Disconnect, ReceiveGreeting, Incoming, host
<1>5. ASSUME \/ \E d \in {"same", "other"} : Connect(d)
             \/ \E q \in Queries : SendQuery(q)
             \/ \E s \in Subs : OpenLive(s) \/ Dispose(s)
             \/ Commit \/ UNCHANGED vars
      PROVE  Honest'
  <2>1. \A c \in Calls : call'[c] \in Answers => call[c] = call'[c]
    BY <1>5 DEF Connect, SendQuery, OpenLive, Dispose, Commit, Types, Answers, Calls,
                vars, wire, renderer
  <2>2. UNCHANGED <<handler, subs, lq, ran, drained, late, toRenderer>>
    BY <1>5 DEF Connect, SendQuery, OpenLive, Dispose, Commit, vars, wire, host
  <2> QED BY <2>1, <2>2, HonestRenderer
<1>6. CASE RouteHello
  <2>1. UNCHANGED <<handler, subs, lq, ran, drained, late, call>>
    BY <1>6 DEF RouteHello, renderer
  <2>2. PICK e \in RendererBound :
            e.type # "response" /\ toRenderer' \in {toRenderer, Append(toRenderer, e)}
    <3>1. PICK e, answer :
              /\ e \in RendererBound /\ e = Envelope("greeting", Hello, answer, 0)
              /\ toRenderer' \in {toRenderer, Append(toRenderer, e)}
      BY <1>6, HostSends
    <3> QED BY <3>1 DEF Envelope
  <2>3. DoneStays
    BY <2>1 DEF DoneStays
  <2>4. Responses' /\ Settled'
    BY <2>1, <2>2, <2>3, HonestAnswers
  <2>5. NotRun' /\ Made' /\ Released'
    BY <2>1 DEF Honest, NotRun, Made, Released
  <2> QED BY <2>4, <2>5 DEF Honest
<1>7. ASSUME \/ \E q \in Queries : AllowQuery(q)
             \/ \E s \in Subs : AllowSubscribe(s)
             \/ \E c \in Calls : RouteCall(c)
             \/ RouteCancel \/ Drain
      PROVE  Honest'
  BY <1>7, HonestSilent
<1>8. ASSUME \/ \E c \in Calls : Deny(c) \/ Throw(c)
             \/ \E q \in Queries, w \in BOOLEAN : Dispatch(q, w)
             \/ \E s \in Subs : Subscribed(s) \/ Snapshot(s) \/ Fail(s)
      PROVE  Honest'
  BY <1>8, HonestRefusal, HonestDispatch, HonestSubscribed, HonestEmission
<1> QED BY Steps, <1>1, <1>2, <1>3, <1>4, <1>5, <1>6, <1>7, <1>8

LEMMA InitHonest == Init => HelloOnce /\ Greeted /\ Routing /\ Honest
  BY DEF Init, HelloOnce, Greeted, Routing, Honest, Responses, Settled, NotRun, Made,
         Released, Answers, Calls

\* What every session keeps.
Session == Types /\ HelloOnce /\ Greeted /\ Routing /\ Honest

LEMMA SessionStep == Session /\ [Next]_vars => Session'
  BY TypeStep, HelloOnceStep, GreetedStep, RoutingStep, HonestStep DEF Session

LEMMA AlwaysSession == Spec => []Session
<1>1. Init => Session
  BY InitTypes, InitHonest DEF Session
<1> QED BY <1>1, SessionStep, PTL DEF Spec

\* What a call is told is what happened to it: an answer is for an operation
\* that took place once, a refusal or an error for one that did not and will
\* not (RpcDispatcher.onEnvelope, Host.#handleQuery, #handleSubscribe).
THEOREM CallsAreToldTheTruth == Spec => []AnswersAreTrue
<1>1. Session => AnswersAreTrue
  BY DEF Session, Types, Honest, Settled, Truth, AnswersAreTrue, Answers, Calls
<1> QED BY <1>1, AlwaysSession, PTL

\* A drained port leaves the host no live query but those it was making
\* (Host.#drain).
THEOREM DrainLetsGo == Spec => []DrainReleases
<1>1. Session => DrainReleases
  BY DEF Session, Honest, Released, DrainReleases
<1> QED BY <1>1, AlwaysSession, PTL
-----------------------------------------------------------------------------
(* The two ends of a subscription.                                         *)

\* Where the answers and the emissions for s are.
From(s) == {n \in 1..Len(toRenderer) : toRenderer[n].id = s}

\* A cancellation of s is under way.
Cancelled(s) == \E n \in 1..Len(toHost) : toHost[n].type = "cancel" /\ toHost[n].id = s

\* Before the answer nothing is cancelled; before it was given there is nothing.
Unanswered(s) ==
    /\ call[s] = "idle" => view[s].state = "none" /\ ~Cancelled(s)
    /\ call[s] = "pending" =>
           view[s].state \in {"opening", "abandoned"} /\ s \in sinks /\ ~Cancelled(s)
    /\ handler[s] # "done" => From(s) = {} /\ s \notin subs /\ ~lq[s].heard

\* The answer goes before what is emitted.
Answering(s) ==
    handler[s] = "done" /\ call[s] = "pending" =>
        \E n \in From(s) :
            /\ toRenderer[n].type = "response"
            /\ \A m \in From(s) : m >= n /\ (toRenderer[m].type = "response" => m = n)
            /\ toRenderer[n].answer = "ok" <=> s \in subs

\* After it the renderer has what the host has, or is cancelling it.
Answered(s) ==
    /\ call[s] \in Answers => \A n \in From(s) : toRenderer[n].type # "response"
    /\ call[s] = "ok" =>
          /\ view[s].state \in {"attached", "disposed", "failed"}
          /\ view[s].state = "attached" => s \in subs /\ s \in sinks /\ ~Cancelled(s)
          /\ view[s].state # "attached" /\ s \in subs => Cancelled(s)
    /\ call[s] \in {"error", "forbidden"} =>
          view[s].state \in {"failed", "disposed"} /\ s \notin subs

\* The last envelope for s carries what the host's query holds.
Latest(s) ==
    IF From(s) = {} THEN view[s].state = "attached" => view[s].value = lq[s].value
    ELSE \E n \in From(s) : /\ \A m \in From(s) : m <= n
                            /\ toRenderer[n].answer = "ok"
                            /\ toRenderer[n].value = lq[s].value

\* The renderer is told of a failure, or has nothing to be told.
Warned(s) ==
    \/ \E n \in From(s) : toRenderer[n].type = "emit" /\ toRenderer[n].answer = "error"
    \/ view[s].state \notin {"opening", "abandoned", "attached"}

Current(s) ==
    s \in subs => /\ lq[s].state = "active" => lq[s].heard /\ Latest(s)
                  /\ lq[s].state = "failed" /\ lq[s].heard => Warned(s)

Follows(s) == Unanswered(s) /\ Answering(s) /\ Answered(s) /\ Current(s)

Following == ~closed /\ ~drained => \A s \in Subs : Follows(s)

\* What is under way for s is the same, one place further on or not.
SameMail(s) ==
    \E d \in {0, 1} :
        /\ \A n \in From(s) : n - d \in From(s)' /\ toRenderer'[n - d] = toRenderer[n]
        /\ \A n \in From(s)' : n + d \in From(s) /\ toRenderer'[n] = toRenderer[n + d]

\* The first envelope was for s, and the others are one place further on.
RestMail(s) ==
    /\ 1 \in From(s) /\ toRenderer[1] = Received
    /\ \A n \in From(s) : n # 1 => n - 1 \in From(s)' /\ toRenderer'[n - 1] = toRenderer[n]
    /\ \A n \in From(s)' : /\ n + 1 \in From(s) /\ n + 1 # 1
                           /\ toRenderer'[n] = toRenderer[n + 1]

\* Another envelope for s has been posted.
MoreMail(s, e) ==
    \E last \in From(s)' :
        /\ toRenderer'[last] = e
        /\ \A n \in From(s) : n < last /\ n \in From(s)' /\ toRenderer'[n] = toRenderer[n]
        /\ \A n \in From(s)' : n = last \/ n \in From(s)

LEMMA Positions == \A s : From(s) \subseteq Nat /\ From(s)' \subseteq Nat
  BY DEF From

LEMMA MailUnchanged == ASSUME UNCHANGED toRenderer, NEW s PROVE SameMail(s)
<1>1. From(s)' = From(s) /\ \A n \in From(s) : n - 0 = n /\ n + 0 = n
  BY DEF From
<1> QED BY <1>1 DEF SameMail

LEMMA MailTaken ==
    ASSUME Types, toRenderer # <<>>, toRenderer' = Tail(toRenderer), NEW s
    PROVE  /\ Received.id # s => SameMail(s)
           /\ Received.id = s => RestMail(s)
<1>1. /\ Len(toRenderer) \in Nat /\ Len(toRenderer) > 0 /\ toRenderer[1] = Received
      /\ Len(toRenderer') = Len(toRenderer) - 1
      /\ \A n \in 1..Len(toRenderer') : toRenderer'[n] = toRenderer[n + 1]
                                        /\ n + 1 \in 1..Len(toRenderer)
  BY RendererQueue
<1>2. ASSUME NEW n \in From(s), n # 1
      PROVE  n - 1 \in From(s)' /\ toRenderer'[n - 1] = toRenderer[n]
  <2>1. n - 1 \in 1..Len(toRenderer') /\ (n - 1) + 1 = n
    BY <1>1, <1>2 DEF From
  <2> QED BY <1>1, <2>1 DEF From
<1>3. ASSUME NEW n \in From(s)'
      PROVE  n + 1 \in From(s) /\ n + 1 # 1 /\ toRenderer'[n] = toRenderer[n + 1]
  BY <1>1, <1>3 DEF From
<1>4. CASE Received.id # s
  <2>1. 1 \notin From(s)
    BY <1>1, <1>4 DEF From
  <2> QED BY <1>2, <1>3, <1>4, <2>1 DEF SameMail
<1>5. CASE Received.id = s
  <2>1. 1 \in From(s)
    BY <1>1, <1>5 DEF From
  <2> QED BY <1>1, <1>2, <1>3, <1>5, <2>1 DEF RestMail
<1> QED BY <1>4, <1>5

LEMMA MailPosted ==
    ASSUME Types, NEW e \in RendererBound, toRenderer' = Append(toRenderer, e), NEW s
    PROVE  /\ e.id # s => SameMail(s)
           /\ e.id = s => MoreMail(s, e)
<1>1. /\ Len(toRenderer) \in Nat /\ Len(toRenderer') = Len(toRenderer) + 1
      /\ toRenderer'[Len(toRenderer) + 1] = e
      /\ \A n \in 1..Len(toRenderer) : toRenderer'[n] = toRenderer[n]
  BY RendererQueue
<1>2. \A n \in From(s) : n < Len(toRenderer) + 1 /\ n \in From(s)' /\ toRenderer'[n] = toRenderer[n]
  BY <1>1 DEF From
<1>3. \A n \in From(s)' : n = Len(toRenderer) + 1 \/ n \in From(s)
  BY <1>1 DEF From
<1>4. CASE e.id # s
  <2>1. Len(toRenderer) + 1 \notin From(s)'
    BY <1>1, <1>4 DEF From
  <2>2. \A n \in From(s) \cup From(s)' : n - 0 = n /\ n + 0 = n
    BY Positions
  <2> QED BY <1>2, <1>3, <1>4, <2>1, <2>2 DEF SameMail
<1>5. CASE e.id = s
  <2>1. Len(toRenderer) + 1 \in From(s)'
    BY <1>1, <1>5 DEF From
  <2> QED BY <1>1, <1>2, <1>3, <1>5, <2>1 DEF MoreMail
<1> QED BY <1>4, <1>5

\* Where a cancellation of s neither leaves nor arrives.
LEMMA CancelledKept ==
    ASSUME Types, NEW s,
           \/ toHost' = toHost
           \/ \E e \in HostBound : /\ e.type # "cancel" \/ e.id # s
                                   /\ toHost' = Append(toHost, e)
           \/ /\ toHost # <<>> /\ toHost' = Tail(toHost)
              /\ Head(toHost).type # "cancel" \/ Head(toHost).id # s
    PROVE  Cancelled(s)' <=> Cancelled(s)
<1>1. CASE toHost' = toHost
  BY <1>1 DEF Cancelled
<1>2. ASSUME NEW e \in HostBound, e.type # "cancel" \/ e.id # s, toHost' = Append(toHost, e)
      PROVE  Cancelled(s)' <=> Cancelled(s)
  <2>1. /\ Len(toHost) \in Nat /\ Len(toHost') = Len(toHost) + 1
        /\ toHost'[Len(toHost) + 1] = e
        /\ \A n \in 1..Len(toHost) : toHost'[n] = toHost[n]
    BY <1>2, HostQueue
  <2> QED BY <1>2, <2>1 DEF Cancelled
<1>3. CASE /\ toHost # <<>> /\ toHost' = Tail(toHost)
           /\ Head(toHost).type # "cancel" \/ Head(toHost).id # s
  <2>1. /\ Len(toHost) \in Nat /\ Len(toHost) > 0 /\ toHost[1] = Head(toHost)
        /\ Len(toHost') = Len(toHost) - 1
        /\ \A n \in 1..Len(toHost') : toHost'[n] = toHost[n + 1] /\ n + 1 \in 1..Len(toHost)
    BY <1>3, HostQueue
  <2>2. ASSUME Cancelled(s) PROVE Cancelled(s)'
    <3>1. PICK n \in 1..Len(toHost) : toHost[n].type = "cancel" /\ toHost[n].id = s
      BY <2>2 DEF Cancelled
    <3>2. n # 1
      BY <1>3, <2>1, <3>1
    <3>3. n - 1 \in 1..Len(toHost') /\ (n - 1) + 1 = n
      BY <2>1, <3>2
    <3>4. toHost'[n - 1] = toHost[n]
      BY <2>1, <3>3
    <3> QED BY <3>1, <3>3, <3>4 DEF Cancelled
  <2>3. ASSUME Cancelled(s)' PROVE Cancelled(s)
    BY <2>1, <2>3 DEF Cancelled
  <2> QED BY <2>2, <2>3
<1> QED BY <1>1, <1>2, <1>3

LEMMA CancelledNow ==
    ASSUME Types, NEW s \in Subs, toHost' = Append(toHost, Envelope("cancel", s, "none", 0))
    PROVE  Cancelled(s)'
<1>1. PICK e \in HostBound : e = Envelope("cancel", s, "none", 0)
  BY DEF Envelope, HostBound, Calls
<1>2. Len(toHost') = Len(toHost) + 1 /\ toHost'[Len(toHost) + 1] = e /\ Len(toHost) \in Nat
  BY <1>1, HostQueue
<1>3. e.type = "cancel" /\ e.id = s
  BY <1>1 DEF Envelope
<1> QED BY <1>2, <1>3 DEF Cancelled

\* A step that is not about s.
LEMMA FollowsKept ==
    ASSUME NEW s \in Subs, Follows(s), SameMail(s), Cancelled(s)' <=> Cancelled(s),
           UNCHANGED <<call[s], view[s], lq[s]>>,
           s \in sinks' <=> s \in sinks, s \in subs' <=> s \in subs,
           handler'[s] = "done" <=> handler[s] = "done"
    PROVE  Follows(s)'
<1>0. From(s) \subseteq Nat /\ From(s)' \subseteq Nat
  BY Positions
<1>1. PICK d \in {0, 1} :
          /\ \A n \in From(s) : n - d \in From(s)' /\ toRenderer'[n - d] = toRenderer[n]
          /\ \A n \in From(s)' : n + d \in From(s) /\ toRenderer'[n] = toRenderer[n + d]
  BY DEF SameMail
<1>2. From(s) = {} <=> From(s)' = {}
  BY <1>1
<1>3. Unanswered(s)'
  BY <1>2 DEF Follows, Unanswered
<1>4. Answering(s)'
  <2>1. SUFFICES ASSUME handler[s] = "done", call[s] = "pending"
        PROVE  \E n \in From(s)' :
                   /\ toRenderer'[n].type = "response"
                   /\ \A m \in From(s)' : m >= n /\ (toRenderer'[m].type = "response" => m = n)
                   /\ toRenderer'[n].answer = "ok" <=> s \in subs'
    BY DEF Answering
  <2>2. PICK n \in From(s) :
            /\ toRenderer[n].type = "response"
            /\ \A m \in From(s) : m >= n /\ (toRenderer[m].type = "response" => m = n)
            /\ toRenderer[n].answer = "ok" <=> s \in subs
    BY <2>1 DEF Follows, Answering
  <2>3. \A m \in From(s)' : m >= n - d /\ (toRenderer'[m].type = "response" => m = n - d)
    BY <1>0, <1>1, <2>2
  <2> QED BY <1>1, <2>2, <2>3
<1>5. Answered(s)'
  BY <1>1 DEF Follows, Answered
<1>6. Latest(s) => Latest(s)'
  <2>1. CASE From(s) = {}
    BY <1>2, <2>1 DEF Latest
  <2>2. ASSUME NEW n \in From(s), \A m \in From(s) : m <= n,
               toRenderer[n].answer = "ok", toRenderer[n].value = lq[s].value
        PROVE  Latest(s)'
    <3>1. \A m \in From(s)' : m <= n - d
      BY <1>0, <1>1, <2>2
    <3> QED BY <1>1, <2>2, <3>1 DEF Latest
  <2> QED BY <2>1, <2>2 DEF Latest
<1>7. Warned(s) => Warned(s)'
  BY <1>1 DEF Warned
<1>8. Current(s)'
  BY <1>6, <1>7 DEF Follows, Current
<1> QED BY <1>3, <1>4, <1>5, <1>8 DEF Follows

\* Both ends are up.
Up == Session /\ ~closed /\ ~drained /\ \A s \in Subs : Follows(s)

LEMMA UpFacts ==
    ASSUME Up
    PROVE  /\ Types /\ Honest /\ Routing
           /\ port # "rendererClosed"
           /\ \A c \in Calls : call[c] # "idle" => port = "open" /\ helloSeen
           /\ \A c \in Calls : call[c] # "closed"
           /\ \A s \in Subs : s \in Calls /\ s # Hello /\ s \notin Queries
           /\ \A s \in Subs : Follows(s)
           /\ \A s \in Subs : view[s].state = "attached" => call[s] = "ok"
           /\ \A c \in Calls : handler[c] # "none" => call[c] # "idle"
           /\ \A c \in Calls : call[c] \in {"idle", "pending"} \cup Answers
           /\ \A c \in Calls : call[c] \in Answers => handler[c] = "done"
<1>1. Types /\ Honest /\ Routing /\ HelloOnce /\ Greeted /\ ~closed
  BY DEF Up, Session
<1>2. port # "rendererClosed" /\ (helloSeen => port = "open")
  BY <1>1 DEF HelloOnce, Types
<1>3. \A c \in Calls : (call[c] # "idle" => helloSeen) /\ call[c] # "closed"
  BY <1>1 DEF Greeted
<1>4. \A s \in Subs : s \in Calls /\ s # Hello /\ s \notin Queries
  BY BridgeAssumption DEF Calls
<1>5. \A c \in Calls : call[c] \in {"idle", "pending"} \cup Answers
  BY <1>1, <1>3 DEF Types
<1>6. \A s \in Subs : Follows(s)
  BY DEF Up
<1>7. ASSUME NEW s \in Subs, view[s].state = "attached" PROVE call[s] = "ok"
  <2>1. call[s] \in {"idle", "pending", "ok", "error", "forbidden"}
    BY <1>4, <1>5 DEF Answers
  <2> QED BY <1>6, <1>7, <2>1 DEF Follows, Unanswered, Answered
<1>8. \A c \in Calls : handler[c] # "none" => call[c] # "idle"
  BY <1>1 DEF Routing
<1>9. \A c \in Calls : call[c] \in Answers => handler[c] = "done"
  BY <1>1 DEF Honest, Settled
<1> QED BY <1>1, <1>2, <1>3, <1>4, <1>5, <1>6, <1>7, <1>8, <1>9

\* A query of the renderer opens.
LEMMA FollowsOpen ==
    ASSUME Up, NEW t \in Subs, OpenLive(t), NEW s \in Subs
    PROVE  Follows(s)'
<1>1. SameMail(s)
  BY MailUnchanged DEF OpenLive
<1>2. Cancelled(s)' <=> Cancelled(s)
  <2>1. Envelope("subscribe", t, "none", 0) \in HostBound
        /\ toHost' \in {toHost, Append(toHost, Envelope("subscribe", t, "none", 0))}
    BY UpFacts, RendererSends
  <2>2. PICK e \in HostBound : e = Envelope("subscribe", t, "none", 0)
    BY <2>1
  <2>3. e.type # "cancel"
    BY <2>2 DEF Envelope
  <2> QED BY UpFacts, <2>1, <2>2, <2>3, CancelledKept
<1>3. CASE s # t
  <2>1. UNCHANGED <<call[s], view[s], lq[s]>> /\ (s \in sinks' <=> s \in sinks)
        /\ UNCHANGED <<subs, handler>>
    BY <1>3, UpFacts DEF OpenLive, Types, host
  <2> QED BY <1>1, <1>2, <2>1, UpFacts, FollowsKept
<1>4. CASE s = t
  <2>1. /\ call[s] = "idle" /\ call'[s] = "pending" /\ view'[s].state = "opening"
        /\ s \in sinks' /\ UNCHANGED <<subs, handler, lq, toRenderer>>
    BY <1>4, UpFacts DEF OpenLive, Types, Views, host, Up
  <2>2. handler[s] # "done"
    BY <2>1, UpFacts
  <2>3. ~Cancelled(s) /\ From(s) = {} /\ s \notin subs /\ ~lq[s].heard /\ From(s)' = From(s)
    BY <2>1, <2>2, UpFacts DEF Follows, Unanswered, From
  <2>4. "pending" \notin Answers
    BY DEF Answers
  <2> QED BY <1>2, <2>1, <2>2, <2>3, <2>4
          DEF Follows, Unanswered, Answering, Answered, Current, Answers
<1> QED BY <1>3, <1>4

\* A query of the renderer is disposed of.
LEMMA FollowsDispose ==
    ASSUME Up, NEW t \in Subs, Dispose(t), NEW s \in Subs
    PROVE  Follows(s)'
<1>0. /\ UNCHANGED <<call, subs, handler, lq, toRenderer>> /\ SameMail(s)
      /\ From(s)' = From(s) /\ \A n \in From(s) : toRenderer'[n] = toRenderer[n]
  BY MailUnchanged DEF Dispose, host, From
<1>1. /\ toHost' \in {toHost, Append(toHost, Envelope("cancel", t, "none", 0))}
      /\ Envelope("cancel", t, "none", 0) \in HostBound
  BY UpFacts, RendererSends
<1>2. CASE s # t
  <2>1. Cancelled(s)' <=> Cancelled(s)
    <3>1. PICK e \in HostBound : e = Envelope("cancel", t, "none", 0)
      BY <1>1
    <3>2. e.id # s
      BY <1>2, <3>1 DEF Envelope
    <3> QED BY UpFacts, <1>1, <3>1, <3>2, CancelledKept
  <2>2. view'[s] = view[s] /\ (s \in sinks' <=> s \in sinks)
    BY <1>2, UpFacts DEF Dispose, LiveCancel, Types
  <2> QED BY <1>0, <2>1, <2>2, UpFacts, FollowsKept
<1>3. CASE s = t /\ view[s].state = "attached"
  <2>1. view'[s].state = "disposed" /\ call[s] = "ok"
    BY <1>3, UpFacts DEF Dispose, Types, Views
  <2>2. Cancelled(s)'
    <3>1. toHost' = Append(toHost, Envelope("cancel", s, "none", 0))
      BY <1>3, <2>1, UpFacts DEF Dispose, LiveCancel, Sent, Up
    <3> QED BY <3>1, UpFacts, CancelledNow
  <2>3. handler[s] = "done" /\ "ok" \in Answers
    BY <2>1, UpFacts DEF Answers
  <2>4. Answered(s)'
    BY <1>0, <2>1, <2>2, <2>3, UpFacts DEF Follows, Answered
  <2>5. Latest(s) => Latest(s)'
    BY <1>0, <2>1 DEF Latest
  <2>6. Current(s)'
    BY <1>0, <2>1, <2>5, UpFacts DEF Follows, Current, Warned
  <2> QED BY <1>0, <2>1, <2>3, <2>4, <2>6 DEF Follows, Unanswered, Answering
<1>4. CASE s = t /\ view[s].state = "opening"
  <2>1. view'[s].state = "abandoned" /\ UNCHANGED <<sinks, toHost>>
    BY <1>4, UpFacts DEF Dispose, Types, Views
  <2>2. call[s] = "pending"
    <3>1. call[s] \in {"idle", "pending", "ok", "error", "forbidden"}
      BY UpFacts DEF Answers
    <3> QED BY <1>4, <3>1, UpFacts DEF Follows, Unanswered, Answered
  <2>3. "pending" \notin Answers
    BY DEF Answers
  <2>4. Cancelled(s)' <=> Cancelled(s)
    BY <2>1 DEF Cancelled
  <2>5. Unanswered(s)' /\ Answering(s)' /\ Answered(s)'
    BY <1>0, <2>1, <2>2, <2>3, <2>4, UpFacts
       DEF Follows, Unanswered, Answering, Answered, Answers
  <2>6. Latest(s) => Latest(s)'
    BY <1>0, <2>1 DEF Latest
  <2>7. Warned(s) => Warned(s)'
    BY <1>0, <1>4 DEF Warned
  <2> QED BY <1>0, <2>5, <2>6, <2>7, UpFacts DEF Follows, Current
<1> QED BY <1>2, <1>3, <1>4 DEF Dispose

\* The first envelope for s has been taken, and shown if it was.
LEMMA LatestRest ==
    ASSUME NEW s \in Subs, RestMail(s), lq'[s] = lq[s], Latest(s),
           view'[s].state = "attached" => view'[s].value = Received.value
    PROVE  Latest(s)'
<1>0. From(s) \subseteq Nat /\ From(s)' \subseteq Nat /\ From(s) # {}
  BY Positions DEF RestMail
<1>1. PICK n \in From(s) : /\ \A m \in From(s) : m <= n
                           /\ toRenderer[n].answer = "ok" /\ toRenderer[n].value = lq[s].value
  BY <1>0 DEF Latest
<1>2. CASE n = 1
  <2>1. From(s)' = {}
    BY <1>0, <1>1, <1>2 DEF RestMail
  <2> QED BY <1>1, <1>2, <2>1 DEF Latest, RestMail
<1>3. CASE n # 1
  <2>1. n - 1 \in From(s)' /\ toRenderer'[n - 1] = toRenderer[n]
    BY <1>3 DEF RestMail
  <2>2. \A m \in From(s)' : m <= n - 1
    BY <1>0, <1>1 DEF RestMail
  <2> QED BY <1>1, <2>1, <2>2 DEF Latest
<1> QED BY <1>2, <1>3

\* The answer to a subscription arrives.
LEMMA FollowsAnswer ==
    ASSUME Up, NEW t \in Subs, ReceiveSubscription(t), NEW s \in Subs
    PROVE  Follows(s)'
<1>0. /\ UNCHANGED <<subs, handler, lq>> /\ toRenderer # <<>> /\ toRenderer' = Tail(toRenderer)
      /\ Received.id = t /\ Received.type = "response" /\ Received.answer \in Answers
      /\ call[t] = "pending" /\ call' = [call EXCEPT ![t] = Received.answer]
  BY UpFacts, RendererQueue DEF ReceiveSubscription, Incoming, host, RendererBound
<1>1. /\ toHost' \in {toHost, Append(toHost, Envelope("cancel", t, "none", 0))}
      /\ Envelope("cancel", t, "none", 0) \in HostBound
  BY UpFacts, RendererSends
<1>2. CASE s # t
  <2>1. Cancelled(s)' <=> Cancelled(s)
    <3>1. PICK e \in HostBound : e = Envelope("cancel", t, "none", 0)
      BY <1>1
    <3>2. e.id # s
      BY <1>2, <3>1 DEF Envelope
    <3> QED BY UpFacts, <1>1, <3>1, <3>2, CancelledKept
  <2>2. view'[s] = view[s] /\ (s \in sinks' <=> s \in sinks) /\ call'[s] = call[s]
    BY <1>2, UpFacts DEF ReceiveSubscription, LiveCancel, Types
  <2>3. SameMail(s)
    BY <1>0, <1>2, UpFacts, MailTaken
  <2> QED BY <1>0, <2>1, <2>2, <2>3, UpFacts, FollowsKept
<1>3. CASE s = t
  <2>1. RestMail(s)
    BY <1>0, <1>3, UpFacts, MailTaken
  <2>2. handler[s] = "done"
    <3>1. 1 \in 1..Len(toRenderer) /\ toRenderer[1] = Received
      BY <2>1 DEF RestMail, From
    <3> QED BY <1>0, <1>3, <3>1, UpFacts DEF Honest, Responses
  <2>3. /\ Received.answer = "ok" <=> s \in subs
        /\ \A m \in From(s) : m >= 1 /\ (toRenderer[m].type = "response" => m = 1)
    <3>1. PICK n \in From(s) :
              /\ \A m \in From(s) : m >= n /\ (toRenderer[m].type = "response" => m = n)
              /\ toRenderer[n].answer = "ok" <=> s \in subs
      BY <1>0, <1>3, <2>2, UpFacts DEF Follows, Answering
    <3>2. n = 1
      BY <1>0, <1>3, <2>1, <3>1 DEF RestMail
    <3> QED BY <2>1, <3>1, <3>2 DEF RestMail
  <2>4. /\ call'[s] = Received.answer /\ ~Cancelled(s) /\ s \in sinks
        /\ view[s].state \in {"opening", "abandoned"}
    BY <1>0, <1>3, UpFacts DEF Follows, Unanswered, Types
  <2>5. \A n \in From(s)' : toRenderer'[n].type # "response"
    BY <2>1, <2>3 DEF RestMail
  <2>6. Unanswered(s)' /\ Answering(s)'
    BY <1>0, <2>2, <2>4 DEF Unanswered, Answering, Answers
  <2>7. CASE Received.answer = "ok" /\ view[s].state = "abandoned"
    <3>1. view'[s].state = "disposed"
      BY <1>3, <2>7, UpFacts DEF ReceiveSubscription, Types, Views
    <3>2. Cancelled(s)'
      <4>1. toHost' = Append(toHost, Envelope("cancel", s, "none", 0))
        BY <1>0, <1>3, <2>7, UpFacts DEF ReceiveSubscription, LiveCancel, Sent, Up
      <4> QED BY <4>1, UpFacts, CancelledNow
    <3>3. Answered(s)'
      BY <2>4, <2>5, <2>7, <3>1, <3>2 DEF Answered, Answers
    <3>4. Warned(s)' /\ (Latest(s) => Latest(s)')
      BY <1>0, <2>1, <3>1, LatestRest DEF Warned
    <3>5. Current(s)'
      BY <1>0, <3>4, UpFacts DEF Follows, Current
    <3> QED BY <2>6, <3>3, <3>5 DEF Follows
  <2>8. CASE Received.answer = "ok" /\ view[s].state # "abandoned"
    <3>1. /\ view'[s].state = "attached" /\ view'[s].value = Received.value
          /\ UNCHANGED <<sinks, toHost>>
      BY <1>3, <2>8, UpFacts DEF ReceiveSubscription, Types, Views
    <3>2. ~Cancelled(s)'
      BY <2>4, <3>1 DEF Cancelled
    <3>3. Answered(s)'
      BY <1>0, <2>3, <2>4, <2>5, <2>8, <3>1, <3>2 DEF Answered, Answers
    <3>4. Latest(s) => Latest(s)'
      BY <1>0, <2>1, <3>1, LatestRest
    <3>5. Warned(s) => Warned(s)'
      <4>1. ASSUME NEW n \in From(s), toRenderer[n].type = "emit", toRenderer[n].answer = "error"
            PROVE  Warned(s)'
        <5>1. n # 1
          BY <1>0, <2>1, <4>1 DEF RestMail
        <5> QED BY <2>1, <4>1, <5>1 DEF Warned, RestMail
      <4> QED BY <2>4, <4>1 DEF Warned
    <3>6. Current(s)'
      BY <1>0, <3>4, <3>5, UpFacts DEF Follows, Current
    <3> QED BY <2>6, <3>3, <3>6 DEF Follows
  <2>9. CASE Received.answer # "ok"
    <3>1. view'[s].state \in {"failed", "disposed"}
      BY <1>3, <2>9, UpFacts DEF ReceiveSubscription, Types, Views
    <3>2. s \notin subs'
      BY <1>0, <2>3, <2>9
    <3> QED BY <2>4, <2>5, <2>6, <2>9, <3>1, <3>2 DEF Follows, Answered, Current
  <2> QED BY <2>7, <2>8, <2>9
<1> QED BY <1>2, <1>3

\* An emission arrives.
LEMMA FollowsEmit ==
    ASSUME Up, NEW t \in Subs, ReceiveEmit(t), NEW s \in Subs
    PROVE  Follows(s)'
<1>0. /\ UNCHANGED <<subs, handler, lq, call>>
      /\ toRenderer # <<>> /\ toRenderer' = Tail(toRenderer)
      /\ Received.id = t /\ Received.type = "emit"
  BY DEF ReceiveEmit, Incoming, host
<1>1. /\ toHost' \in {toHost, Append(toHost, Envelope("cancel", t, "none", 0))}
      /\ Envelope("cancel", t, "none", 0) \in HostBound
  BY UpFacts, RendererSends
<1>2. CASE s # t
  <2>1. Cancelled(s)' <=> Cancelled(s)
    <3>1. PICK e \in HostBound : e = Envelope("cancel", t, "none", 0)
      BY <1>1
    <3>2. e.id # s
      BY <1>2, <3>1 DEF Envelope
    <3> QED BY UpFacts, <1>1, <3>1, <3>2, CancelledKept
  <2>2. view'[s] = view[s] /\ (s \in sinks' <=> s \in sinks)
    BY <1>2, UpFacts DEF ReceiveEmit, LiveCancel, Types
  <2>3. SameMail(s)
    BY <1>0, <1>2, UpFacts, MailTaken
  <2> QED BY <1>0, <2>1, <2>2, <2>3, UpFacts, FollowsKept
<1>3. CASE s = t
  <2>1. RestMail(s)
    BY <1>0, <1>3, UpFacts, MailTaken
  <2>2. handler[s] = "done"
    BY <2>1, UpFacts DEF Follows, Unanswered, RestMail
  <2>3. call[s] \in Answers
    <3>1. call[s] # "pending"
      <4>1. SUFFICES ASSUME call[s] = "pending" PROVE FALSE
        OBVIOUS
      <4>2. PICK n \in From(s) : /\ toRenderer[n].type = "response"
                                 /\ \A m \in From(s) : m >= n
        BY <2>2, <4>1, UpFacts DEF Follows, Answering
      <4>3. From(s) \subseteq Nat /\ 1 \in From(s) /\ \A m \in From(s) : m >= 1
        BY <2>1 DEF RestMail, From
      <4>4. n = 1
        BY <4>2, <4>3
      <4> QED BY <1>0, <2>1, <4>2, <4>4 DEF RestMail
    <3> QED BY <2>2, <3>1, UpFacts
  <2>4. \A n \in From(s)' : toRenderer'[n].type # "response"
    BY <2>1, <2>3, UpFacts DEF Follows, Answered, RestMail
  <2>5. Unanswered(s)' /\ Answering(s)'
    BY <1>0, <2>2, <2>3 DEF Unanswered, Answering, Answers
  <2>6. CASE s \in sinks /\ view[s].state = "attached" /\ Received.answer = "ok"
    <3>1. /\ view'[s].state = "attached" /\ view'[s].value = Received.value
          /\ UNCHANGED <<sinks, toHost>>
      BY <1>3, <2>6, UpFacts DEF ReceiveEmit, Types, Views
    <3>2. Answered(s)'
      <4>1. Cancelled(s)' <=> Cancelled(s)
        BY <3>1 DEF Cancelled
      <4> QED BY <1>0, <2>4, <2>6, <3>1, <4>1, UpFacts DEF Follows, Answered
    <3>3. Latest(s) => Latest(s)'
      BY <1>0, <2>1, <3>1, LatestRest
    <3>4. Warned(s) => Warned(s)'
      BY <2>1, <2>6 DEF Warned, RestMail
    <3>5. Current(s)'
      BY <1>0, <3>3, <3>4, UpFacts DEF Follows, Current
    <3> QED BY <2>5, <3>2, <3>5 DEF Follows
  <2>7. CASE s \in sinks /\ view[s].state = "attached" /\ Received.answer # "ok"
    <3>1. view'[s].state = "failed" /\ call[s] = "ok"
      BY <1>3, <2>7, UpFacts DEF ReceiveEmit, Types, Views
    <3>2. Cancelled(s)'
      <4>1. port = "open" /\ ~closed
        BY <3>1, UpFacts DEF Up
      <4>2. toHost' = Append(toHost, Envelope("cancel", s, "none", 0))
        BY <1>3, <2>7, <4>1 DEF ReceiveEmit, LiveCancel, Sent
      <4> QED BY <4>2, UpFacts, CancelledNow
    <3>3. Answered(s)'
      BY <1>0, <2>4, <3>1, <3>2 DEF Answered
    <3>4. Warned(s)' /\ (Latest(s) => Latest(s)')
      BY <1>0, <2>1, <3>1, LatestRest DEF Warned
    <3>5. Current(s)'
      BY <1>0, <3>4, UpFacts DEF Follows, Current
    <3> QED BY <2>5, <3>3, <3>5 DEF Follows
  <2>8. CASE ~(s \in sinks /\ view[s].state = "attached")
    <3>1. UNCHANGED <<view, sinks, toHost>>
      BY <1>3, <2>8 DEF ReceiveEmit
    <3>2. Answered(s)'
      <4>1. Cancelled(s)' <=> Cancelled(s)
        BY <3>1 DEF Cancelled
      <4> QED BY <1>0, <2>4, <3>1, <4>1, UpFacts DEF Follows, Answered
    <3>3. view[s].state \notin {"opening", "abandoned", "attached"}
      BY <2>3, <2>8, UpFacts DEF Follows, Answered, Answers
    <3>4. Warned(s)' /\ (Latest(s) => Latest(s)')
      BY <1>0, <2>1, <3>1, <3>3, LatestRest DEF Warned
    <3>5. Current(s)'
      BY <1>0, <3>4, UpFacts DEF Follows, Current
    <3> QED BY <2>5, <3>2, <3>5 DEF Follows
  <2> QED BY <2>6, <2>7, <2>8
<1> QED BY <1>2, <1>3

\* The host takes an envelope.
LEMMA FollowsRoute ==
    ASSUME Up, Route, NEW s \in Subs
    PROVE  Follows(s)'
<1>0. toHost # <<>> /\ toHost' = Tail(toHost)
  BY UpFacts, HostSends
<1>1. CASE RouteHello
  <2>1. /\ UNCHANGED <<subs, handler, lq, call, view, sinks>> /\ Head(toHost).type = "hello"
    BY <1>1 DEF RouteHello, Arrived, renderer
  <2>2. SameMail(s)
    <3>1. PICK e \in RendererBound, answer \in {"ok", "error"} :
              /\ e = Envelope("greeting", Hello, answer, 0)
              /\ toRenderer' \in {toRenderer, Append(toRenderer, e)}
      BY <1>1, UpFacts, HostSends
    <3>2. e.id # s
      BY <3>1, UpFacts DEF Envelope
    <3> QED BY <3>1, <3>2, UpFacts, MailPosted, MailUnchanged
  <2>3. Cancelled(s)' <=> Cancelled(s)
    BY <1>0, <2>1, UpFacts, CancelledKept
  <2> QED BY <2>1, <2>2, <2>3, UpFacts, FollowsKept
<1>2. ASSUME NEW c \in Calls, RouteCall(c) PROVE Follows(s)'
  <2>1. /\ UNCHANGED <<subs, lq, call, view, sinks, toRenderer>>
        /\ IsCall(Head(toHost)) /\ Head(toHost).id = c
    BY <1>2 DEF RouteCall, Arrived, renderer, IsCall
  <2>2. handler[c] = "none" /\ call[c] # "idle"
    <3>1. toHost[1] = Head(toHost) /\ 1 \in 1..Len(toHost)
      BY <1>0, UpFacts, HostQueue
    <3> QED BY <2>1, <3>1, UpFacts DEF Routing, UnderWay
  <2>3. handler' = [handler EXCEPT ![c] = "authorizing"]
    BY <1>2, <2>2, UpFacts DEF RouteCall, Up
  <2>4. handler'[s] = "done" <=> handler[s] = "done"
    BY <2>2, <2>3, UpFacts DEF Types
  <2>5. Cancelled(s)' <=> Cancelled(s)
    BY <1>0, <2>1, UpFacts, CancelledKept DEF IsCall
  <2> QED BY <2>1, <2>4, <2>5, UpFacts, FollowsKept, MailUnchanged
<1>3. CASE RouteCancel
  <2>1. /\ UNCHANGED <<handler, call, view, sinks, toRenderer>> /\ Head(toHost).type = "cancel"
    BY <1>3 DEF RouteCancel, Arrived, renderer
  <2>2. CASE Head(toHost).id # s
    <3>1. Cancelled(s)' <=> Cancelled(s)
      BY <1>0, <2>2, UpFacts, CancelledKept
    <3>2. lq'[s] = lq[s] /\ (s \in subs' <=> s \in subs)
      BY <1>3, <2>2, UpFacts DEF RouteCancel, Types
    <3> QED BY <2>1, <3>1, <3>2, UpFacts, FollowsKept, MailUnchanged
  <2>3. CASE Head(toHost).id = s
    <3>1. Cancelled(s)
      <4>1. toHost[1] = Head(toHost) /\ 1 \in 1..Len(toHost)
        BY <1>0, UpFacts, HostQueue
      <4> QED BY <2>1, <2>3, <4>1 DEF Cancelled
    <3>2. call[s] \in Answers /\ handler[s] = "done"
      BY <3>1, UpFacts DEF Follows, Unanswered
    <3>3. view[s].state # "attached"
      BY <3>1, UpFacts DEF Follows, Answered
    <3>4. s \notin subs'
      BY <1>3, <2>3, <3>2, UpFacts DEF RouteCancel, Up, Answers
    <3>5. From(s)' = From(s) /\ \A n \in From(s) : toRenderer'[n] = toRenderer[n]
      BY <2>1 DEF From
    <3>6. Answered(s)'
      BY <2>1, <3>2, <3>3, <3>4, <3>5, UpFacts DEF Follows, Answered
    <3> QED BY <2>1, <3>2, <3>4, <3>6 DEF Follows, Unanswered, Answering, Current, Answers
  <2> QED BY <2>2, <2>3
<1> QED BY <1>1, <1>2, <1>3 DEF Route

\* What the host posts arrives while the renderer is there.
LEMMA PostedUp ==
    ASSUME Up, NEW type, NEW c, NEW answer, NEW v, toRenderer' = Posted(type, c, answer, v)
    PROVE  toRenderer' = Append(toRenderer, Envelope(type, c, answer, v))
  BY UpFacts DEF Posted

\* A call is refused.
LEMMA FollowsRefusal ==
    ASSUME Up, NEW c \in Calls, Deny(c) \/ Throw(c), NEW s \in Subs
    PROVE  Follows(s)'
<1>0. /\ handler[c] \in {"authorizing", "dispatching"}
      /\ handler' = [handler EXCEPT ![c] = "done"]
      /\ UNCHANGED <<subs, lq, call, view, sinks, toHost>>
  BY DEF Deny, Throw, Respond, renderer
<1>1. PICK e \in RendererBound : /\ e.type = "response" /\ e.id = c /\ e.answer # "ok"
                                 /\ toRenderer' = Append(toRenderer, e)
  <2>1. PICK answer \in {"forbidden", "error"} :
            /\ Envelope("response", c, answer, 0) \in RendererBound
            /\ toRenderer' = Posted("response", c, answer, 0)
    BY UpFacts, HostSends
  <2>2. toRenderer' = Append(toRenderer, Envelope("response", c, answer, 0))
    BY <2>1, PostedUp
  <2> QED BY <2>1, <2>2 DEF Envelope
<1>2. Cancelled(s)' <=> Cancelled(s)
  BY <1>0 DEF Cancelled
<1>3. CASE s # c
  <2>1. SameMail(s)
    BY <1>1, <1>3, UpFacts, MailPosted
  <2>2. handler'[s] = handler[s]
    BY <1>0, <1>3, UpFacts DEF Types
  <2> QED BY <1>0, <1>2, <2>1, <2>2, UpFacts, FollowsKept
<1>4. CASE s = c
  <2>1. /\ From(s) = {} /\ s \notin subs /\ handler'[s] = "done" /\ call[s] = "pending"
    BY <1>0, <1>4, UpFacts DEF Follows, Unanswered, Types
  <2>2. PICK last \in From(s)' : toRenderer'[last] = e /\ \A n \in From(s)' : n = last
    <3>1. MoreMail(s, e)
      BY <1>1, <1>4, UpFacts, MailPosted
    <3> QED BY <2>1, <3>1 DEF MoreMail
  <2>3. last \in Nat /\ \A m \in From(s)' : m >= last /\ m <= last
    BY <2>2, Positions
  <2>4. Answering(s)'
    <3>1. /\ toRenderer'[last].type = "response"
          /\ toRenderer'[last].answer = "ok" <=> s \in subs'
      BY <1>0, <1>1, <2>1, <2>2
    <3> QED BY <2>2, <2>3, <3>1 DEF Answering
  <2>5. Unanswered(s)'
    BY <1>0, <1>2, <2>1, UpFacts DEF Follows, Unanswered
  <2> QED BY <1>0, <2>1, <2>4, <2>5 DEF Follows, Answered, Current, Answers
<1> QED BY <1>3, <1>4

\* A subscription is answered.
LEMMA FollowsSubscribed ==
    ASSUME Up, NEW t \in Subs, Subscribed(t), NEW s \in Subs
    PROVE  Follows(s)'
<1>0. /\ handler[t] = "waiting" /\ handler' = [handler EXCEPT ![t] = "done"]
      /\ subs' = subs \cup {t} /\ lq' = [lq EXCEPT ![t].heard = (lq[t].state = "active")]
      /\ UNCHANGED <<call, view, sinks, toHost>>
  BY DEF Subscribed, Respond, renderer
<1>1. PICK e \in RendererBound : /\ e.type = "response" /\ e.id = t /\ e.answer = "ok"
                                 /\ e.value = lq[t].value
                                 /\ toRenderer' = Append(toRenderer, e)
  <2>1. /\ Envelope("response", t, "ok", lq[t].value) \in RendererBound
        /\ toRenderer' = Posted("response", t, "ok", lq[t].value)
    BY UpFacts, HostSends
  <2>2. toRenderer' = Append(toRenderer, Envelope("response", t, "ok", lq[t].value))
    BY <2>1, PostedUp
  <2> QED BY <2>1, <2>2 DEF Envelope
<1>2. Cancelled(s)' <=> Cancelled(s)
  BY <1>0 DEF Cancelled
<1>3. CASE s # t
  <2>1. SameMail(s)
    BY <1>1, <1>3, UpFacts, MailPosted
  <2>2. handler'[s] = handler[s] /\ lq'[s] = lq[s] /\ (s \in subs' <=> s \in subs)
    BY <1>0, <1>3, UpFacts DEF Types
  <2> QED BY <1>0, <1>2, <2>1, <2>2, UpFacts, FollowsKept
<1>4. CASE s = t
  <2>1. /\ From(s) = {} /\ s \in subs' /\ handler'[s] = "done" /\ call[s] = "pending"
    BY <1>0, <1>4, UpFacts DEF Follows, Unanswered, Types
  <2>2. PICK last \in From(s)' : toRenderer'[last] = e /\ \A n \in From(s)' : n = last
    <3>1. MoreMail(s, e)
      BY <1>1, <1>4, UpFacts, MailPosted
    <3> QED BY <2>1, <3>1 DEF MoreMail
  <2>3. last \in Nat /\ \A m \in From(s)' : m >= last /\ m <= last
    BY <2>2, Positions
  <2>4. Answering(s)'
    <3>1. /\ toRenderer'[last].type = "response"
          /\ toRenderer'[last].answer = "ok" <=> s \in subs'
      BY <1>0, <1>1, <2>1, <2>2
    <3> QED BY <2>2, <2>3, <3>1 DEF Answering
  <2>5. Unanswered(s)'
    BY <1>0, <1>2, <2>1, UpFacts DEF Follows, Unanswered
  <2>6. /\ lq'[s].state = lq[s].state /\ lq'[s].value = lq[s].value
        /\ lq'[s].heard <=> lq[s].state = "active"
    <3>1. PICK b \in BOOLEAN : b = (lq[t].state = "active")
      OBVIOUS
    <3>2. lq' = [lq EXCEPT ![t].heard = b]
      BY <1>0, <3>1
    <3>3. lq'[s].state = lq[s].state /\ lq'[s].value = lq[s].value /\ lq'[s].heard = b
      BY <1>4, <3>2, UpFacts DEF Types, LiveQueries
    <3> QED BY <1>4, <3>1, <3>3
  <2>7. Latest(s)'
    BY <1>1, <1>4, <2>2, <2>3, <2>6 DEF Latest
  <2>8. Current(s)'
    BY <2>6, <2>7 DEF Current
  <2> QED BY <1>0, <2>1, <2>4, <2>5, <2>8 DEF Follows, Answered, Answers
<1> QED BY <1>3, <1>4

\* The authorizer allows the subscription.
LEMMA FollowsAllowed ==
    ASSUME Up, NEW t \in Subs, AllowSubscribe(t), NEW s \in Subs
    PROVE  Follows(s)'
<1>0. /\ handler[t] = "authorizing" /\ handler' = [handler EXCEPT ![t] = "waiting"]
      /\ lq' = [lq EXCEPT ![t].state = "active"]
      /\ UNCHANGED <<subs, call, view, sinks, toHost, toRenderer>>
  BY DEF AllowSubscribe, renderer, wire
<1>1. Cancelled(s)' <=> Cancelled(s)
  BY <1>0 DEF Cancelled
<1>2. CASE s # t
  <2>1. handler'[s] = handler[s] /\ lq'[s] = lq[s]
    BY <1>0, <1>2, UpFacts DEF Types
  <2> QED BY <1>0, <1>1, <2>1, UpFacts, FollowsKept, MailUnchanged
<1>3. CASE s = t
  <2>1. /\ From(s) = {} /\ From(s)' = {} /\ s \notin subs /\ ~lq[s].heard
        /\ handler'[s] = "waiting" /\ lq'[s].heard = lq[s].heard
    BY <1>0, <1>3, UpFacts DEF Follows, Unanswered, Types, LiveQueries, From
  <2> QED BY <1>0, <1>1, <2>1, UpFacts
          DEF Follows, Unanswered, Answering, Answered, Current
<1> QED BY <1>2, <1>3

\* The host's query has a new snapshot, or fails, and posts e if it is heard.
LEMMA FollowsEmission ==
    ASSUME Up, NEW t \in Subs, Snapshot(t) \/ Fail(t), NEW s \in Subs
    PROVE  Follows(s)'
<1>0. /\ lq[t].state = "active" /\ UNCHANGED <<subs, handler, call, view, sinks, toHost>>
  BY DEF Snapshot, Fail, renderer
<1>1. Cancelled(s)' <=> Cancelled(s)
  BY <1>0 DEF Cancelled
<1>2. PICK e \in RendererBound :
          /\ e.type = "emit" /\ e.id = t
          /\ toRenderer' = IF Forwarded(t) THEN Append(toRenderer, e) ELSE toRenderer
          /\ \/ /\ lq' = [lq EXCEPT ![t].value = version]
                /\ e.answer = "ok" /\ e.value = version
             \/ lq' = [lq EXCEPT ![t].state = "failed"] /\ e.answer = "error"
  <2>1. PICK e, answer, v :
            /\ e \in RendererBound /\ e = Envelope("emit", t, answer, v)
            /\ toRenderer' = IF Forwarded(t) THEN Posted("emit", t, answer, v) ELSE toRenderer
            /\ \/ lq' = [lq EXCEPT ![t].value = version] /\ answer = "ok" /\ v = version
               \/ lq' = [lq EXCEPT ![t].state = "failed"] /\ answer = "error"
    <3>1. CASE Snapshot(t)
      <4>1. lq' = [lq EXCEPT ![t].value = version]
        BY <3>1 DEF Snapshot
      <4> QED BY <3>1, <4>1, UpFacts, HostSends
    <3>2. CASE Fail(t)
      <4>1. lq' = [lq EXCEPT ![t].state = "failed"]
        BY <3>2 DEF Fail
      <4> QED BY <3>2, <4>1, UpFacts, HostSends
    <3> QED BY <3>1, <3>2
  <2>2. Posted("emit", t, answer, v) = Append(toRenderer, e)
    BY <2>1, UpFacts DEF Posted
  <2> QED BY <2>1, <2>2 DEF Envelope
<1>3. CASE s # t
  <2>1. SameMail(s)
    BY <1>2, <1>3, UpFacts, MailPosted, MailUnchanged
  <2>2. lq'[s] = lq[s]
    BY <1>2, <1>3, UpFacts DEF Types
  <2> QED BY <1>0, <1>1, <2>1, <2>2, UpFacts, FollowsKept
<1>4. CASE s = t /\ s \notin subs
  <2>1. UNCHANGED toRenderer /\ lq'[s].heard = lq[s].heard
    BY <1>2, <1>4, UpFacts DEF Forwarded, Types, LiveQueries
  <2>2. From(s)' = From(s)
    BY <2>1 DEF From
  <2> QED BY <1>0, <1>1, <1>4, <2>1, <2>2, UpFacts
          DEF Follows, Unanswered, Answering, Answered, Current
<1>5. CASE s = t /\ s \in subs
  <2>1. handler[s] = "done" /\ lq[s].heard /\ lq'[s].heard
    BY <1>0, <1>2, <1>5, UpFacts DEF Follows, Unanswered, Current, Types, LiveQueries
  <2>2. PICK last \in From(s)' :
            /\ toRenderer'[last] = e
            /\ \A n \in From(s) : n < last /\ n \in From(s)' /\ toRenderer'[n] = toRenderer[n]
            /\ \A n \in From(s)' : n = last \/ n \in From(s)
    <3>1. toRenderer' = Append(toRenderer, e)
      BY <1>2, <1>5, <2>1 DEF Forwarded, Up
    <3>2. MoreMail(s, e)
      BY <1>2, <1>5, <3>1, UpFacts, MailPosted
    <3> QED BY <3>2 DEF MoreMail
  <2>3. From(s) \subseteq Nat /\ From(s)' \subseteq Nat
    BY Positions
  <2>4. Unanswered(s)'
    BY <1>0, <1>1, <2>1, UpFacts DEF Follows, Unanswered
  <2>5. \A n \in From(s)' : \/ n = last /\ toRenderer'[n].type # "response"
                            \/ n \in From(s) /\ toRenderer'[n] = toRenderer[n]
    BY <1>2, <2>2
  <2>6. Answering(s)'
    <3>1. SUFFICES ASSUME call[s] = "pending"
          PROVE  \E n \in From(s)' :
                     /\ toRenderer'[n].type = "response"
                     /\ \A m \in From(s)' : m >= n /\ (toRenderer'[m].type = "response" => m = n)
                     /\ toRenderer'[n].answer = "ok" <=> s \in subs'
      BY <1>0 DEF Answering
    <3>2. PICK n \in From(s) :
              /\ toRenderer[n].type = "response"
              /\ \A m \in From(s) : m >= n /\ (toRenderer[m].type = "response" => m = n)
              /\ toRenderer[n].answer = "ok" <=> s \in subs
      BY <2>1, <3>1, UpFacts DEF Follows, Answering
    <3>3. \A m \in From(s)' : m >= n /\ (toRenderer'[m].type = "response" => m = n)
      <4>1. last >= n
        BY <2>2, <2>3, <3>2
      <4> QED BY <2>5, <3>2, <4>1
    <3> QED BY <1>0, <2>2, <3>2, <3>3
  <2>7. Answered(s)'
    BY <1>0, <1>1, <2>5, UpFacts DEF Follows, Answered
  <2>8. CASE lq' = [lq EXCEPT ![t].value = version] /\ e.answer = "ok" /\ e.value = version
    <3>1. lq'[s].state = "active" /\ lq'[s].value = e.value
      BY <1>0, <1>5, <2>8, UpFacts DEF Types, LiveQueries
    <3>2. \A m \in From(s)' : m <= last
      BY <2>2, <2>3
    <3>3. Latest(s)'
      BY <2>2, <2>8, <3>1, <3>2 DEF Latest
    <3> QED BY <2>1, <2>4, <2>6, <2>7, <3>1, <3>3 DEF Follows, Current
  <2>9. CASE lq' = [lq EXCEPT ![t].state = "failed"] /\ e.answer = "error"
    <3>1. lq'[s].state = "failed"
      BY <1>5, <2>9, UpFacts DEF Types, LiveQueries
    <3>2. Warned(s)'
      BY <1>2, <2>2, <2>9 DEF Warned
    <3> QED BY <2>4, <2>6, <2>7, <3>1, <3>2 DEF Follows, Current
  <2> QED BY <1>2, <2>8, <2>9
<1> QED BY <1>3, <1>4, <1>5

\* The steps that are about no subscription.
LEMMA FollowsOthers ==
    ASSUME Up, NEW s \in Subs,
           \/ \E d \in {"same", "other"} : Connect(d)
           \/ \E q \in Queries : SendQuery(q) \/ ReceiveAnswer(q) \/ AllowQuery(q)
           \/ \E q \in Queries, w \in BOOLEAN : Dispatch(q, w)
           \/ ReceiveGreeting /\ ~closed'
           \/ Commit \/ UNCHANGED vars
    PROVE  Follows(s)'
<1>1. ASSUME NEW d \in {"same", "other"}, Connect(d) PROVE Follows(s)'
  <2>1. PICK e \in HostBound : e = Envelope("hello", Hello, d, 0) /\ toHost' = Append(toHost, e)
    BY <1>1, UpFacts, RendererSends
  <2>2. e.type # "cancel"
    BY <2>1 DEF Envelope
  <2>3. Cancelled(s)' <=> Cancelled(s)
    BY <2>1, <2>2, UpFacts, CancelledKept
  <2> QED BY <1>1, <2>3, UpFacts, FollowsKept, MailUnchanged DEF Connect, host
<1>2. ASSUME NEW q \in Queries, SendQuery(q) PROVE Follows(s)'
  <2>1. PICK e \in HostBound : e = Envelope("query", q, "none", 0)
                               /\ toHost' \in {toHost, Append(toHost, e)}
    BY <1>2, UpFacts, RendererSends
  <2>2. e.type # "cancel"
    BY <2>1 DEF Envelope
  <2>3. Cancelled(s)' <=> Cancelled(s)
    BY <2>1, <2>2, UpFacts, CancelledKept
  <2>4. call'[s] = call[s]
    BY <1>2, UpFacts DEF SendQuery, Types
  <2> QED BY <1>2, <2>3, <2>4, UpFacts, FollowsKept, MailUnchanged DEF SendQuery, host
<1>3. ASSUME NEW q \in Queries, ReceiveAnswer(q) PROVE Follows(s)'
  <2>1. call'[s] = call[s]
    BY <1>3, UpFacts DEF ReceiveAnswer, Types
  <2>2. SameMail(s)
    BY <1>3, UpFacts, MailTaken DEF ReceiveAnswer, Incoming
  <2>3. Cancelled(s)' <=> Cancelled(s)
    BY <1>3 DEF ReceiveAnswer, Cancelled
  <2> QED BY <1>3, <2>1, <2>2, <2>3, UpFacts, FollowsKept DEF ReceiveAnswer, host
<1>4. ASSUME NEW q \in Queries, AllowQuery(q) PROVE Follows(s)'
  <2>1. handler'[s] = handler[s]
    BY <1>4, UpFacts DEF AllowQuery, Types
  <2>2. Cancelled(s)' <=> Cancelled(s)
    BY <1>4 DEF AllowQuery, wire, Cancelled
  <2> QED BY <1>4, <2>1, <2>2, UpFacts, FollowsKept, MailUnchanged DEF AllowQuery, wire, renderer
<1>5. ASSUME NEW q \in Queries, NEW w \in BOOLEAN, Dispatch(q, w) PROVE Follows(s)'
  <2>1. handler'[s] = handler[s]
    BY <1>5, UpFacts DEF Dispatch, Respond, Types
  <2>2. Cancelled(s)' <=> Cancelled(s)
    BY <1>5 DEF Dispatch, Cancelled
  <2>3. SameMail(s)
    <3>1. PICK e \in RendererBound : /\ e = Envelope("response", q, "ok", version')
                                     /\ toRenderer' = Posted("response", q, "ok", version')
      BY <1>5, UpFacts, HostSends
    <3>2. PICK v : v = version'
      OBVIOUS
    <3>3. toRenderer' = Append(toRenderer, e)
      BY <3>1, <3>2, PostedUp
    <3>4. e.id # s
      BY <3>1, UpFacts DEF Envelope
    <3> QED BY <3>3, <3>4, UpFacts, MailPosted
  <2> QED BY <1>5, <2>1, <2>2, <2>3, UpFacts, FollowsKept DEF Dispatch, renderer
<1>6. CASE ReceiveGreeting /\ ~closed'
  <2>1. Received.answer = "ok"
    BY <1>6 DEF ReceiveGreeting, OnClose
  <2>2. Received.id = Hello
    <3>1. toRenderer[1] = Received /\ 1 \in 1..Len(toRenderer)
      BY <1>6, UpFacts, RendererQueue DEF ReceiveGreeting, Incoming
    <3> QED BY <1>6, <3>1 DEF ReceiveGreeting, Incoming, Up, Session, Greeted
  <2>3. SameMail(s)
    BY <1>6, <2>1, <2>2, UpFacts, MailTaken DEF ReceiveGreeting, Incoming
  <2>4. Cancelled(s)' <=> Cancelled(s)
    BY <1>6 DEF ReceiveGreeting, Cancelled
  <2> QED BY <1>6, <2>1, <2>3, <2>4, UpFacts, FollowsKept DEF ReceiveGreeting, host
<1>7. CASE Commit \/ UNCHANGED vars
  <2>1. Cancelled(s)' <=> Cancelled(s)
    BY <1>7 DEF Commit, vars, wire, Cancelled
  <2> QED BY <1>7, <2>1, UpFacts, FollowsKept, MailUnchanged
          DEF Commit, vars, wire, renderer, host
<1> QED BY <1>1, <1>2, <1>3, <1>4, <1>5, <1>6, <1>7

LEMMA FollowingStep == Session /\ Following /\ [Next]_vars => Following'
<1> SUFFICES ASSUME Session, Following, [Next]_vars, ~closed', ~drained', NEW s \in Subs
             PROVE  Follows(s)'
  BY DEF Following
<1>1. ~closed /\ ~Disconnect
  <2>1. ASSUME closed PROVE closed'
    BY <2>1, Steps DEF Connect, SendQuery, ReceiveAnswer, AllowQuery, Dispatch, Deny, Throw,
       RouteCall, OpenLive, Dispose, ReceiveSubscription, ReceiveEmit, AllowSubscribe,
       Subscribed, Snapshot, Fail, Disconnect, ReceiveGreeting, Incoming, RouteHello,
       RouteCancel, Drain, Commit, vars, renderer
  <2>2. ~Disconnect
    BY DEF Disconnect, OnClose
  <2> QED BY <2>1, <2>2
<1>2. ~drained /\ ~Drain
  <2>1. ASSUME drained PROVE drained'
    BY <2>1, Steps DEF Connect, SendQuery, ReceiveAnswer, AllowQuery, Dispatch, Deny, Throw,
       RouteCall, OpenLive, Dispose, ReceiveSubscription, ReceiveEmit, AllowSubscribe,
       Subscribed, Snapshot, Fail, Disconnect, ReceiveGreeting, RouteHello,
       RouteCancel, Drain, Commit, vars, host
  <2>2. ~Drain
    BY DEF Drain
  <2> QED BY <2>1, <2>2
<1>3. Up
  BY <1>1, <1>2 DEF Up, Following
<1>4. ASSUME \/ \E d \in {"same", "other"} : Connect(d)
             \/ \E q \in Queries : SendQuery(q) \/ ReceiveAnswer(q) \/ AllowQuery(q)
             \/ \E q \in Queries, w \in BOOLEAN : Dispatch(q, w)
             \/ ReceiveGreeting
             \/ Commit \/ UNCHANGED vars
      PROVE  Follows(s)'
  BY <1>3, <1>4, FollowsOthers
<1>5. ASSUME NEW t \in Subs,
             OpenLive(t) \/ Dispose(t) \/ ReceiveSubscription(t) \/ ReceiveEmit(t)
      PROVE  Follows(s)'
  BY <1>3, <1>5, FollowsOpen, FollowsDispose, FollowsAnswer, FollowsEmit
<1>6. ASSUME NEW t \in Subs, AllowSubscribe(t) \/ Subscribed(t) \/ Snapshot(t) \/ Fail(t)
      PROVE  Follows(s)'
  BY <1>3, <1>6, FollowsAllowed, FollowsSubscribed, FollowsEmission
<1>7. ASSUME NEW c \in Calls, Deny(c) \/ Throw(c) PROVE Follows(s)'
  BY <1>3, <1>7, FollowsRefusal
<1>8. CASE RouteHello \/ RouteCancel \/ \E c \in Calls : RouteCall(c)
  BY <1>3, <1>8, FollowsRoute DEF Route
<1> QED BY Steps, <1>1, <1>2, <1>4, <1>5, <1>6, <1>7, <1>8

LEMMA InitFollowing == Init => Following
  BY DEF Init, Following, Follows, Unanswered, Answering, Answered, Current, From, Cancelled,
         Calls, Answers

\* What is left when nothing is under way.
LEMMA AgreeAtRest == Session /\ Following => EndsAgree
<1> SUFFICES ASSUME Session, Following, Quiet, ~closed, ~drained, NEW s \in Subs
             PROVE  /\ view[s].state = "attached" <=> s \in subs
                    /\ lq[s].state = "active" => s \in subs
                    /\ s \in subs /\ lq[s].state = "active" => view[s].value = lq[s].value
                    /\ s \in subs /\ lq[s].state = "failed" => ~lq[s].heard
  BY DEF EndsAgree
<1>1. Up
  BY DEF Up, Following
<1>2. From(s) = {} /\ ~Cancelled(s)
  BY DEF Quiet, From, Cancelled
<1>3. handler[s] # "waiting"
  BY UpFacts, <1>1 DEF Quiet, InFlight
<1>4. view[s].state = "attached" => s \in subs
  BY <1>1, UpFacts DEF Follows, Answered, Answers
<1>5. s \in subs => view[s].state = "attached"
  <2>1. SUFFICES ASSUME s \in subs PROVE view[s].state = "attached"
    OBVIOUS
  <2>2. handler[s] = "done" /\ call[s] # "idle"
    BY <1>1, <2>1, UpFacts DEF Honest, Made
  <2>3. call[s] # "pending"
    BY <1>1, <1>2, <2>2, UpFacts DEF Follows, Answering
  <2>4. call[s] \in {"ok", "error", "forbidden"}
    BY <1>1, <2>2, <2>3, UpFacts DEF Answers
  <2> QED BY <1>1, <1>2, <2>1, <2>4, UpFacts DEF Follows, Answered
<1>6. lq[s].state = "active" => s \in subs
  BY <1>1, <1>3, UpFacts DEF Honest, Released
<1>7. s \in subs /\ lq[s].state = "active" => view[s].value = lq[s].value
  BY <1>1, <1>2, <1>5, UpFacts DEF Follows, Current, Latest
<1>8. s \in subs /\ lq[s].state = "failed" => ~lq[s].heard
  BY <1>1, <1>2, <1>5, UpFacts DEF Follows, Current, Warned
<1> QED BY <1>4, <1>5, <1>6, <1>7, <1>8

\* The two ends of the bridge are in step, or the host has let go of the other:
\* no emission is lost around the answer to a subscription, and no
\* cancellation crosses it (Host.#handleSubscribe, RemoteLiveNative).
THEOREM EndsStayInStep == Spec => []InStep
<1>1. Init => Session /\ Following
  BY InitTypes, InitHonest, InitFollowing DEF Session
<1>2. Session /\ Following /\ [Next]_vars => (Session /\ Following)'
  BY SessionStep, FollowingStep
<1>3. Session /\ Following => InStep
  <2>1. Session => DrainReleases
    BY DEF Session, Honest, Released, DrainReleases
  <2> QED BY <2>1, AgreeAtRest DEF InStep
<1> QED BY <1>1, <1>2, <1>3, PTL DEF Spec
===============================================================================
