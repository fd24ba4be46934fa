--------------------------- MODULE LiveQueryProofs ---------------------------
(***************************************************************************)
(* Proofs about the consumer's handle on a live query, for any number of   *)
(* listeners, iterators and snapshots.                                     *)
(***************************************************************************)
EXTENDS LiveQuery, TLAPS

LEMMA InitTypeOK == Init => TypeOK
  <1> SUFFICES ASSUME Init PROVE TypeOK
    OBVIOUS
  <1>1. 1 \in 1..MaxVersion /\ 0 \in 0..MaxVersion
    BY QueryAssumption
  <1>2. initial \in Envelopes
    BY <1>1 DEF Init, Envelopes
  <1>3. iter \in [Iterators -> Iteration]
    BY DEF Init, Iteration
  <1>4. mail \in Seq(Envelopes)
    BY DEF Init
  <1>5. delivery \in [what : {"none", "snapshot", "error"},
                     from : {"none", "resolve", "reject", "emission"},
                     told : SUBSET Listeners]
    BY DEF Init, NoDelivery
  <1>6. heard \in [Listeners -> 0..MaxVersion]
    BY <1>1 DEF Init
  <1> QED BY <1>1, <1>2, <1>3, <1>4, <1>5, <1>6 DEF Init, TypeOK

\* What happens to one iterator keeps it well typed.
LEMMA IteratorTypes ==
    ASSUME NEW it \in Iteration
    PROVE  Pushed(it) \in Iteration /\ Failed(it) \in Iteration /\ Ended(it) \in Iteration
  <1>1. Failed(it) \in Iteration /\ Ended(it) \in Iteration
    BY DEF Iteration, Failed, Ended
  <1>2. CASE it.waiting
    BY <1>1, <1>2 DEF Iteration, Pushed
  <1>3. CASE ~it.waiting
    <2>1. it.queued + 1 \in Nat
      BY DEF Iteration
    <2> QED BY <1>1, <1>3, <2>1 DEF Iteration, Pushed
  <1> QED BY <1>2, <1>3

LEMMA FieldTypes ==
    ASSUME NEW it \in Iteration, NEW n \in Nat
    PROVE  /\ [it EXCEPT !.queued = n] \in Iteration
           /\ [it EXCEPT !.waiting = TRUE] \in Iteration
           /\ [it EXCEPT !.left = TRUE] \in Iteration
  BY DEF Iteration

LEMMA LoopTypes ==
    ASSUME iter \in [Iterators -> Iteration]
    PROVE  /\ PushAll \in [Iterators -> Iteration]
           /\ FailAll \in [Iterators -> Iteration]
  BY IteratorTypes DEF PushAll, FailAll

\* dispose keeps what it touches well typed.
LEMMA DisposeTypes ==
    ASSUME TypeOK, NEW its \in [Iterators -> Iteration], NEW ds \in SUBSET Iterators,
           Dispose(its, ds)
    PROVE  /\ core' \in {"none", "active", "cancelled", "silent"}
           /\ disposed' \in BOOLEAN
           /\ subs' \in SUBSET Listeners
           /\ drivers' \in SUBSET Iterators
           /\ iter' \in [Iterators -> Iteration]
  <1>1. CASE disposed
    BY <1>1 DEF Dispose, TypeOK
  <1>2. CASE ~disposed
    <2>1. iter' = [d \in Iterators |-> IF d \in ds THEN Ended(its[d]) ELSE its[d]]
      BY <1>2 DEF Dispose
    <2>2. \A d \in Iterators : its[d] \in Iteration /\ Ended(its[d]) \in Iteration
      BY IteratorTypes
    <2>3. iter' \in [Iterators -> Iteration]
      BY <2>1, <2>2
    <2>4. /\ core' \in {"none", "active", "cancelled", "silent"}
          /\ disposed' = TRUE /\ subs' = {} /\ drivers' = {}
      BY <1>2 DEF Dispose, TypeOK
    <2> QED BY <2>3, <2>4
  <1> QED BY <1>1, <1>2

LEMMA OnEnvelopeTypes ==
    ASSUME TypeOK, NEW env \in Envelopes, NEW from \in {"resolve", "emission"},
           OnEnvelope(env, from)
    PROVE  /\ value' \in 0..MaxVersion
           /\ received' \in BOOLEAN
           /\ errored' \in BOOLEAN
           /\ cut' \in BOOLEAN
           /\ delivery' \in [what : {"none", "snapshot", "error"},
                             from : {"none", "resolve", "reject", "emission"},
                             told : SUBSET Listeners]
  <1>1. CASE disposed \/ errored
    BY <1>1 DEF OnEnvelope, TypeOK
  <1>2. CASE ~(disposed \/ errored)
    <2>1. env.ok \in BOOLEAN /\ env.version \in 0..MaxVersion
      BY QueryAssumption DEF Envelopes
    <2>2. value' \in 0..MaxVersion
      BY <1>2, <2>1 DEF OnEnvelope, TypeOK
    <2>3. received' \in BOOLEAN /\ errored' \in BOOLEAN /\ cut' \in BOOLEAN
      BY <1>2, <2>1, Zenon DEF OnEnvelope, TypeOK
    <2>4. delivery' = [what |-> IF env.ok THEN "snapshot" ELSE "error",
                       from |-> from, told |-> {}]
      BY <1>2 DEF OnEnvelope, Begin
    <2> QED BY <2>2, <2>3, <2>4
  <1> QED BY <1>1, <1>2

\* Every action keeps the state well typed.
LEMMA StepTypeOK == TypeOK /\ [Next]_vars => TypeOK'
  <1> SUFFICES ASSUME TypeOK, [Next]_vars PROVE TypeOK'
    OBVIOUS
  <1> USE QueryAssumption DEF engineVars, queryVars
  <1>1. ASSUME NEW ok \in BOOLEAN, Register(ok) PROVE TypeOK'
    BY <1>1 DEF Register, TypeOK, Envelopes
  <1>2. ASSUME NEW ok \in BOOLEAN, Emit(ok) PROVE TypeOK'
    <2>1. /\ version' \in 1..MaxVersion
          /\ [ok |-> ok, version |-> version + 1] \in Envelopes
      BY <1>2 DEF Emit, TypeOK, Envelopes
    <2>2. mail' \in Seq(Envelopes)
      BY <1>2, <2>1 DEF Emit, TypeOK
    <2>3. core' \in {"none", "active", "cancelled", "silent"}
      BY <1>2 DEF Emit, TypeOK
    <2> QED BY <1>2, <2>1, <2>2, <2>3 DEF Emit, TypeOK
  <1>3. CASE Resolve
    <2>1. OnEnvelope(initial, "resolve") /\ initial \in Envelopes
      BY <1>3 DEF Resolve, TypeOK
    <2> QED BY <1>3, <2>1, OnEnvelopeTypes DEF Resolve, TypeOK
  <1>4. CASE Reject
    BY <1>4 DEF Reject, Begin, TypeOK
  <1>5. CASE Receive
    <2>1. /\ OnEnvelope(Head(mail), "emission")
          /\ Head(mail) \in Envelopes
          /\ mail' \in Seq(Envelopes)
      BY <1>5 DEF Receive, TypeOK
    <2> QED BY <1>5, <2>1, OnEnvelopeTypes DEF Receive, TypeOK
  <1>6. CASE EndDelivery
    <2>1. CASE delivery.what = "snapshot"
      BY <1>6, <2>1, LoopTypes DEF EndDelivery, NoDelivery, TypeOK
    <2>2. CASE delivery.what # "snapshot"
      <3>1. Dispose(FailAll, drivers)
        BY <1>6, <2>2 DEF EndDelivery
      <3> QED BY <1>6, <3>1, LoopTypes, DisposeTypes DEF EndDelivery, NoDelivery, TypeOK
    <2> QED BY <2>1, <2>2
  <1>7. CASE Throw
    <2>1. /\ errored' \in BOOLEAN /\ cut' \in BOOLEAN
          /\ delivery' \in [what : {"none", "snapshot", "error"},
                           from : {"none", "resolve", "reject", "emission"},
                           told : SUBSET Listeners]
      <3>1. cut' = TRUE
        BY <1>7 DEF Throw
      <3>2. CASE delivery.what = "snapshot" /\ delivery.from = "resolve"
        BY <1>7, <3>1, <3>2 DEF Throw, Begin
      <3>3. CASE ~(delivery.what = "snapshot" /\ delivery.from = "resolve")
        BY <1>7, <3>1, <3>3 DEF Throw, NoDelivery, TypeOK
      <3> QED BY <3>2, <3>3
    <2> QED BY <1>7, <2>1 DEF Throw, TypeOK
  <1>8. ASSUME NEW l \in Listeners, Tell(l) PROVE TypeOK'
    <2>1. heard' \in [Listeners -> 0..MaxVersion]
      BY <1>8 DEF Tell, TypeOK
    <2>2. delivery' \in [what : {"none", "snapshot", "error"},
                        from : {"none", "resolve", "reject", "emission"},
                        told : SUBSET Listeners]
      BY <1>8 DEF Tell, TypeOK
    <2> QED BY <1>8, <2>1, <2>2 DEF Tell, TypeOK
  <1>9. ASSUME NEW l \in Listeners, Subscribe(l) PROVE TypeOK'
    BY <1>9 DEF Subscribe, TypeOK
  <1>10. ASSUME NEW l \in Listeners, Unsubscribe(l) PROVE TypeOK'
    BY <1>10 DEF Unsubscribe, TypeOK
  <1>11. CASE CallDispose
    <2>1. Dispose(iter, drivers)
      BY <1>11 DEF CallDispose
    <2> QED BY <1>11, <2>1, DisposeTypes DEF CallDispose, TypeOK
  <1>12. ASSUME NEW d \in Iterators, Iterate(d) PROVE TypeOK'
    <2>1. iter' \in [Iterators -> Iteration]
      BY <1>12, IteratorTypes DEF Iterate, TypeOK
    <2> QED BY <1>12, <2>1 DEF Iterate, TypeOK
  <1>13. ASSUME NEW d \in Iterators, NextSnapshot(d) PROVE TypeOK'
    <2>1. CASE iter' = [iter EXCEPT ![d].queued = @ - 1] /\ iter[d].queued > 0
      <3> iter[d] \in Iteration
        BY DEF TypeOK
      <3>1. iter[d].queued - 1 \in Nat
        <4>1. iter[d].queued \in Nat
          BY DEF Iteration
        <4> QED BY <2>1, <4>1
      <3>2. [iter[d] EXCEPT !.queued = iter[d].queued - 1] \in Iteration
        BY <3>1, FieldTypes
      <3>3. iter' \in [Iterators -> Iteration]
        BY <2>1, <3>2 DEF TypeOK
      <3> QED BY <1>13, <3>3 DEF NextSnapshot, TypeOK
    <2>2. CASE iter' = [iter EXCEPT ![d].waiting = TRUE]
      <3>1. [iter[d] EXCEPT !.waiting = TRUE] \in Iteration
        BY FieldTypes DEF TypeOK
      <3>2. iter' \in [Iterators -> Iteration]
        BY <2>2, <3>1 DEF TypeOK
      <3> QED BY <1>13, <3>2 DEF NextSnapshot, TypeOK
    <2> QED BY <1>13, <2>1, <2>2 DEF NextSnapshot
  <1>14. ASSUME NEW d \in Iterators, Return(d) PROVE TypeOK'
    <2>1. [iter[d] EXCEPT !.left = TRUE] \in Iteration
      BY FieldTypes DEF TypeOK
    <2>2. Dispose([iter EXCEPT ![d].left = TRUE], drivers \ {d}) /\ drivers \ {d} \in SUBSET Iterators
      BY <1>14 DEF Return, TypeOK
    <2>3. [iter EXCEPT ![d].left = TRUE] \in [Iterators -> Iteration]
      BY <2>1 DEF TypeOK
    <2> QED BY <1>14, <2>2, <2>3, DisposeTypes DEF Return, TypeOK
  <1>15. CASE UNCHANGED vars
    BY <1>15 DEF vars, TypeOK
  <1> QED
    BY <1>1, <1>2, <1>3, <1>4, <1>5, <1>6, <1>7, <1>8, <1>9, <1>10, <1>11, <1>12,
       <1>13, <1>14, <1>15 DEF Next, EngineStep, LoopStep, ConsumerStep

\* Every reachable state of the handle is well typed.
THEOREM TypeCorrect == Spec => []TypeOK
  <1> QED BY InitTypeOK, StepTypeOK, PTL DEF Spec
-----------------------------------------------------------------------------
(* The inductive invariant.                                                *)

\* Once its registration resolved the handle can reach the engine, or has
\* already told it to stop.
Reach ==
    registration = "resolved" => IF disposed THEN Detached ELSE attached

\* Nothing is left to tell once the query is disposed of.
NobodyLeft == disposed => subs = {}

\* Errors are terminal: disposed of, being delivered, or cut short.
Terminal == errored /\ ~cut => disposed \/ delivery.what = "error"

\* The running delivery is of the value the query holds; a listener it
\* called, or any if none runs, has heard it.
InStep ==
    ~cut /\ received =>
        /\ Idle => \A l \in subs : heard[l] = value
        /\ delivery.what = "snapshot" =>
              \A l \in subs \cap delivery.told : heard[l] = value

\* An iterator that dispose or return() parted from its driver is over.
Drivers ==
    \A d \in Iterators :
        /\ iter[d].waiting => d \in drivers
        /\ d \in used \ drivers => iter[d].ended \/ iter[d].left

IInv == TypeOK /\ Reach /\ NobodyLeft /\ Terminal /\ InStep /\ Drivers
-----------------------------------------------------------------------------
\* After dispose the query is disposed of and deaf, and detached if it was
\* attached.
LEMMA DisposeEffect ==
    ASSUME TypeOK, NobodyLeft, Reach, NEW its, NEW ds, Dispose(its, ds)
    PROVE  /\ disposed' /\ subs' = {}
           /\ registration = "resolved" => core' \in {"cancelled", "silent"}
  <1>1. CASE disposed
    BY <1>1 DEF Dispose, NobodyLeft, Reach, Detached
  <1>2. CASE ~disposed
    BY <1>2 DEF Dispose, Reach
  <1> QED BY <1>1, <1>2

\* dispose keeps the iterators and their drivers as Drivers has them.
LEMMA DisposeDrivers ==
    ASSUME NEW its \in [Iterators -> Iteration], NEW ds \in SUBSET Iterators,
           Dispose(its, ds), used' = used,
           \A d \in Iterators : /\ its[d].waiting => d \in ds
                                /\ d \in used \ ds => its[d].ended \/ its[d].left
    PROVE  Drivers'
  <1>1. CASE disposed
    BY <1>1 DEF Dispose, Drivers
  <1>2. CASE ~disposed
    <2>1. iter' = [d \in Iterators |-> IF d \in ds THEN Ended(its[d]) ELSE its[d]]
      BY <1>2 DEF Dispose
    <2>2. ASSUME NEW d \in Iterators
          PROVE  ~iter'[d].waiting /\ (d \in used => iter'[d].ended \/ iter'[d].left)
      <3>1. its[d] \in Iteration
        OBVIOUS
      <3>2. CASE d \in ds
        <4>1. iter'[d] = Ended(its[d])
          BY <2>1, <3>2
        <4> QED BY <3>1, <4>1 DEF Ended, Iteration
      <3>3. CASE d \notin ds
        BY <2>1, <3>3
      <3> QED BY <3>2, <3>3
    <2> QED BY <2>2 DEF Drivers
  <1> QED BY <1>1, <1>2

\* A callback that receives an envelope: what it changes of the invariant.
LEMMA OnEnvelopeInv ==
    ASSUME IInv, Idle, NEW env \in Envelopes, NEW from, OnEnvelope(env, from),
           UNCHANGED <<disposed, subs, heard>>
    PROVE  Terminal' /\ InStep'
  <1>1. CASE disposed \/ errored
    BY <1>1 DEF OnEnvelope, IInv, Terminal, InStep, Idle
  <1>2. CASE ~(disposed \/ errored)
    <2>1. delivery' = [what |-> IF env.ok THEN "snapshot" ELSE "error",
                       from |-> from, told |-> {}]
      BY <1>2 DEF OnEnvelope, Begin
    <2>2. Terminal'
      BY <1>2, <2>1 DEF OnEnvelope, Terminal, Envelopes
    <2>3. InStep'
      BY <2>1 DEF InStep, Idle
    <2> QED BY <2>2, <2>3
  <1> QED BY <1>1, <1>2

LEMMA InitIInv == Init => IInv
  BY InitTypeOK DEF Init, IInv, Reach, NobodyLeft, Terminal, InStep, Drivers

LEMMA StepIInv == IInv /\ [Next]_vars => IInv'
  <1> SUFFICES ASSUME IInv, [Next]_vars PROVE IInv'
    OBVIOUS
  <1>0. TypeOK /\ TypeOK'
    BY StepTypeOK DEF IInv
  <1> DEFINE Rest == Reach /\ NobodyLeft /\ Terminal /\ InStep /\ Drivers
  <1>1. ASSUME NEW ok \in BOOLEAN, Register(ok) PROVE Rest'
    BY <1>1 DEF Register, IInv, Reach, NobodyLeft, Terminal, InStep, Drivers,
                Idle, queryVars
  <1>2. ASSUME NEW ok \in BOOLEAN, Emit(ok) PROVE Rest'
    BY <1>2 DEF Emit, IInv, Reach, Detached, NobodyLeft, Terminal, InStep, Drivers,
                Idle, queryVars
  <1>3. ASSUME Resolve PROVE Rest'
    <2>1. Reach'
      BY <1>3, <1>0 DEF Resolve, Reach, Detached, TypeOK
    <2>2. OnEnvelope(initial, "resolve") /\ initial \in Envelopes /\ Idle
      BY <1>0, <1>3 DEF Resolve, TypeOK
    <2>3. Terminal' /\ InStep'
      BY <1>3, <2>2, OnEnvelopeInv DEF Resolve
    <2>4. NobodyLeft' /\ Drivers'
      BY <1>3 DEF Resolve, IInv, NobodyLeft, Drivers
    <2> QED BY <2>1, <2>3, <2>4
  <1>4. ASSUME Reject PROVE Rest'
    BY <1>4 DEF Reject, Begin, IInv, Reach, NobodyLeft, Terminal, InStep, Drivers, Idle
  <1>5. ASSUME Receive PROVE Rest'
    <2>1. OnEnvelope(Head(mail), "emission") /\ Head(mail) \in Envelopes /\ Idle
      BY <1>0, <1>5 DEF Receive, TypeOK
    <2>2. Terminal' /\ InStep'
      BY <1>5, <2>1, OnEnvelopeInv DEF Receive
    <2>3. Reach' /\ NobodyLeft' /\ Drivers'
      BY <1>5 DEF Receive, IInv, Reach, Detached, NobodyLeft, Drivers
    <2> QED BY <2>2, <2>3
  <1>6. ASSUME EndDelivery PROVE Rest'
    <2>1. CASE delivery.what = "snapshot"
      <3>1. /\ iter' = PushAll /\ delivery'.what = "none"
            /\ UNCHANGED <<core, disposed, subs, drivers, registration, attached,
                           value, received, errored, cut, heard, used>>
            /\ subs \subseteq delivery.told
        BY <1>6, <2>1 DEF EndDelivery, NoDelivery, engineVars, queryVars
      <3>2. Reach' /\ NobodyLeft'
        BY <3>1 DEF IInv, Reach, Detached, NobodyLeft
      <3>3. Terminal' /\ InStep'
        BY <2>1, <3>1 DEF IInv, Terminal, InStep, Idle
      <3>4. ASSUME NEW d \in Iterators
            PROVE  /\ iter'[d].waiting => iter[d].waiting
                   /\ iter[d].ended \/ iter[d].left => iter'[d].ended \/ iter'[d].left
        <4>1. iter[d] \in Iteration
          BY <1>0 DEF TypeOK
        <4>2. iter'[d] \in {iter[d], Pushed(iter[d])}
          BY <3>1 DEF PushAll
        <4> QED BY <4>1, <4>2 DEF Pushed, Iteration
      <3>5. Drivers'
        BY <3>1, <3>4 DEF IInv, Drivers
      <3> QED BY <3>2, <3>3, <3>5
    <2>2. CASE delivery.what # "snapshot"
      <3>1. /\ Dispose(FailAll, drivers)
            /\ delivery'.what = "none"
            /\ UNCHANGED <<registration, attached, value, received, errored, cut,
                           heard, used>>
        BY <1>6, <2>2 DEF EndDelivery, NoDelivery, engineVars, queryVars
      <3>2. /\ disposed' /\ subs' = {}
            /\ registration = "resolved" => core' \in {"cancelled", "silent"}
        BY <1>0, <3>1, DisposeEffect DEF IInv
      <3>3. Reach' /\ NobodyLeft' /\ Terminal' /\ InStep'
        BY <3>1, <3>2 DEF Reach, Detached, NobodyLeft, Terminal, InStep
      <3>4. ASSUME NEW d \in Iterators
            PROVE  /\ FailAll[d].waiting => d \in drivers
                   /\ d \in used \ drivers => FailAll[d].ended \/ FailAll[d].left
        <4>1. CASE d \in drivers
          BY <4>1
        <4>2. CASE d \notin drivers
          BY <4>2 DEF FailAll, IInv, Drivers
        <4> QED BY <4>1, <4>2
      <3>5. Drivers'
        BY <1>0, <3>1, <3>4, LoopTypes, DisposeDrivers DEF TypeOK
      <3> QED BY <3>3, <3>5
    <2> QED BY <2>1, <2>2
  <1>7. ASSUME Throw PROVE Rest'
    BY <1>7 DEF Throw, engineVars, IInv, Reach, Detached, NobodyLeft, Terminal, InStep, Drivers
  <1>8. ASSUME NEW l \in Listeners, Tell(l) PROVE Rest'
    <2>1. Reach' /\ NobodyLeft' /\ Drivers'
      BY <1>8 DEF Tell, engineVars, queryVars, IInv, Reach, Detached, NobodyLeft, Drivers
    <2>2. delivery'.what = delivery.what /\ delivery'.told = delivery.told \cup {l}
      BY <1>0, <1>8 DEF Tell, TypeOK
    <2>3. Terminal'
      BY <1>8, <2>2 DEF Tell, queryVars, IInv, Terminal
    <2>4. InStep'
      <3>1. CASE delivery.what = "snapshot"
        <4>1. heard' = [heard EXCEPT ![l] = value] /\ ~Idle'
          BY <1>8, <2>2, <3>1 DEF Tell, Idle
        <4> QED BY <1>0, <1>8, <2>2, <4>1 DEF Tell, queryVars, IInv, InStep, TypeOK
      <3>2. CASE delivery.what # "snapshot"
        BY <1>8, <2>2, <3>2 DEF Tell, InStep, Idle
      <3> QED BY <3>1, <3>2
    <2> QED BY <2>1, <2>3, <2>4
  <1>9. ASSUME NEW l \in Listeners, Subscribe(l) PROVE Rest'
    <2>1. Reach' /\ NobodyLeft' /\ Terminal' /\ Drivers'
      <3>1. UNCHANGED <<registration, core, attached, disposed, errored, delivery, cut,
                        iter, drivers>> /\ (disposed => subs' = subs)
            /\ used' = used \cup {l}
        BY <1>9 DEF Subscribe, engineVars, queryVars
      <3>2. \A d \in Iterators : d \in used' => d \in used
        BY <3>1, QueryAssumption
      <3> QED BY <3>1, <3>2 DEF IInv, Reach, Detached, NobodyLeft, Terminal, Drivers
    <2>2. InStep'
      <3>1. CASE disposed
        BY <1>9, <3>1 DEF Subscribe, queryVars, IInv, InStep, Idle
      <3>2. CASE ~disposed /\ received
        BY <1>0, <1>9, <3>2 DEF Subscribe, queryVars, IInv, InStep, Idle, TypeOK
      <3>3. CASE ~received
        BY <1>9, <3>3 DEF Subscribe, queryVars, InStep
      <3> QED BY <3>1, <3>2, <3>3
    <2> QED BY <2>1, <2>2
  <1>10. ASSUME NEW l \in Listeners, Unsubscribe(l) PROVE Rest'
    BY <1>10 DEF Unsubscribe, engineVars, queryVars, IInv, Reach, Detached, NobodyLeft,
                 Terminal, InStep, Drivers, Idle
  <1>11. ASSUME CallDispose PROVE Rest'
    <2>1. Dispose(iter, drivers) /\ UNCHANGED <<engineVars, queryVars, delivery, cut, used, heard>>
      BY <1>11 DEF CallDispose
    <2>2. /\ disposed' /\ subs' = {}
          /\ registration = "resolved" => core' \in {"cancelled", "silent"}
      BY <1>0, <2>1, DisposeEffect DEF IInv
    <2>3. Reach' /\ NobodyLeft' /\ Terminal' /\ InStep'
      BY <2>1, <2>2 DEF engineVars, Reach, Detached, NobodyLeft, Terminal, InStep
    <2>4. Drivers'
      BY <1>0, <2>1, DisposeDrivers DEF IInv, Drivers, TypeOK
    <2> QED BY <2>3, <2>4
  <1>12. ASSUME NEW d \in Iterators, Iterate(d) PROVE Rest'
    <2>1. Reach' /\ NobodyLeft' /\ Terminal' /\ InStep'
      BY <1>12 DEF Iterate, engineVars, queryVars, IInv, Reach, Detached, NobodyLeft,
                   Terminal, InStep, Idle
    <2>2. Drivers'
      <3>1. \A e \in Iterators \ {d} : iter'[e] = iter[e]
        BY <1>0, <1>12 DEF Iterate, TypeOK
      <3> QED BY <1>12, <3>1 DEF Iterate, IInv, Drivers
    <2> QED BY <2>1, <2>2
  <1>13. ASSUME NEW d \in Iterators, NextSnapshot(d) PROVE Rest'
    <2>1. Reach' /\ NobodyLeft' /\ Terminal' /\ InStep'
      BY <1>13 DEF NextSnapshot, engineVars, queryVars, IInv, Reach, Detached, NobodyLeft,
                   Terminal, InStep, Idle
    <2>2. Drivers'
      <3>1. iter[d] \in Iteration /\ \A e \in Iterators \ {d} : iter'[e] = iter[e]
        BY <1>0, <1>13 DEF NextSnapshot, TypeOK
      <3>2. drivers' = drivers /\ used' = used /\ d \in used
        BY <1>13 DEF NextSnapshot, Asks
      <3>3. iter'[d].ended = iter[d].ended /\ iter'[d].left = iter[d].left
        BY <1>0, <1>13, <3>1 DEF NextSnapshot, TypeOK, Iteration
      <3>4. iter'[d].waiting => d \in drivers
        <4>1. CASE iter' = [iter EXCEPT ![d].queued = @ - 1]
          BY <1>0, <1>13, <3>1, <4>1 DEF NextSnapshot, Asks, TypeOK, Iteration
        <4>2. CASE ~iter[d].ended /\ ~iter[d].left
          BY <3>2, <4>2 DEF IInv, Drivers
        <4> QED BY <1>13, <4>1, <4>2 DEF NextSnapshot, Asks
      <3> QED BY <3>1, <3>2, <3>3, <3>4 DEF IInv, Drivers
    <2> QED BY <2>1, <2>2
  <1>14. ASSUME NEW d \in Iterators, Return(d) PROVE Rest'
    <2> DEFINE its == [iter EXCEPT ![d].left = TRUE]
               ds  == drivers \ {d}
    <2>1. Dispose(its, ds) /\ UNCHANGED <<engineVars, queryVars, delivery, cut, used, heard>>
      BY <1>14 DEF Return
    <2>2. /\ disposed' /\ subs' = {}
          /\ registration = "resolved" => core' \in {"cancelled", "silent"}
      <3> HIDE DEF its, ds
      <3> QED BY <1>0, <2>1, DisposeEffect DEF IInv
    <2>3. Reach' /\ NobodyLeft' /\ Terminal' /\ InStep'
      BY <2>1, <2>2 DEF engineVars, Reach, Detached, NobodyLeft, Terminal, InStep
    <2>4. iter[d] \in Iteration /\ [iter[d] EXCEPT !.left = TRUE] \in Iteration
      BY <1>0, FieldTypes DEF TypeOK
    <2>5. its \in [Iterators -> Iteration] /\ ds \in SUBSET Iterators
      BY <1>0, <2>4 DEF TypeOK
    <2>6. \A e \in Iterators : /\ its[e].waiting => e \in ds
                               /\ e \in used \ ds => its[e].ended \/ its[e].left
      <3>1. its[d].left /\ ~its[d].waiting
        BY <1>0, <1>14, <2>4 DEF Return, TypeOK, Iteration
      <3>2. \A e \in Iterators \ {d} : its[e] = iter[e]
        BY <1>0 DEF TypeOK
      <3> QED BY <3>1, <3>2 DEF IInv, Drivers
    <2>7. Drivers'
      <3> HIDE DEF its, ds
      <3> QED BY <2>1, <2>5, <2>6, DisposeDrivers
    <2> QED BY <2>3, <2>7
  <1>15. ASSUME UNCHANGED vars PROVE Rest'
    BY <1>15 DEF vars, IInv, Reach, Detached, NobodyLeft, Terminal, InStep, Drivers, Idle
  <1>16. Rest'
    BY <1>1, <1>2, <1>3, <1>4, <1>5, <1>6, <1>7, <1>8, <1>9, <1>10, <1>11, <1>12,
       <1>13, <1>14, <1>15 DEF Next, EngineStep, LoopStep, ConsumerStep
  <1> QED BY <1>0, <1>16 DEF IInv

\* The strengthened invariant holds in every reachable state.
THEOREM Invariant == Spec => []IInv
  <1> QED BY InitIInv, StepIInv, PTL DEF Spec
-----------------------------------------------------------------------------
(* What follows from it.                                                   *)

\* A handle that was disposed of has no subscription in the engine once its
\* registration resolved, whichever came first.
THEOREM NothingLeaks == Spec => []NoLeak
  <1>1. IInv => NoLeak
    BY DEF IInv, Reach, NoLeak
  <1> QED BY <1>1, Invariant, PTL

\* A failed query has been disposed of when its error has been delivered.
THEOREM FailureIsTerminal == Spec => []FailureDisposes
  <1>1. IInv => FailureDisposes
    BY DEF IInv, Terminal, FailureDisposes, Idle
  <1> QED BY <1>1, Invariant, PTL

\* Between callbacks each of any number of listeners has heard the snapshot
\* the query holds.
THEOREM ListenersStayInStep == Spec => []ListenersInStep
  <1>1. IInv => ListenersInStep
    BY DEF IInv, InStep, ListenersInStep
  <1> QED BY <1>1, Invariant, PTL

\* No iterator that was iterating when the query ended waits.
THEOREM NobodyWaitsForever == Spec => []IteratorsSettle
  <1>1. IInv => IteratorsSettle
    BY DEF IInv, Drivers, IteratorsSettle
  <1> QED BY <1>1, Invariant, PTL

\* Who unsubscribed, or whose query was disposed of, hears nothing.
THEOREM TheGoneHearNothing == Spec => SilentOnceGone
  <1>1. IInv /\ [Next]_vars =>
            [\A l \in Listeners : heard'[l] # heard[l] => l \in subs' /\ ~disposed]_vars
    <2> SUFFICES ASSUME IInv, [Next]_vars, NEW l \in Listeners, heard'[l] # heard[l]
                 PROVE  l \in subs' /\ ~disposed
      OBVIOUS
    <2>1. ASSUME NEW k \in Listeners, Tell(k) PROVE l \in subs' /\ ~disposed
      <3>1. k \in subs /\ subs' = subs /\ l = k
        BY <2>1 DEF Tell, IInv, TypeOK
      <3> QED BY <3>1 DEF IInv, NobodyLeft
    <2>2. ASSUME NEW k \in Listeners, Subscribe(k) PROVE l \in subs' /\ ~disposed
      BY <2>2 DEF Subscribe, IInv, TypeOK
    <2>3. (\E k \in Listeners : Tell(k) \/ Subscribe(k))
      BY DEF Next, EngineStep, LoopStep, ConsumerStep, vars, Register, Emit, Resolve,
             Reject, Receive, EndDelivery, Throw, Unsubscribe, CallDispose, Iterate,
             NextSnapshot, Return
    <2> QED BY <2>1, <2>2, <2>3
  <1> QED BY <1>1, Invariant, PTL DEF Spec, SilentOnceGone
=============================================================================
