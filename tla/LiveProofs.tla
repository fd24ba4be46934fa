----------------------------- MODULE LiveProofs -----------------------------
(***************************************************************************)
(* Proofs about the reactive engine, for any number of collections,        *)
(* subscriptions, committing threads and commits.                          *)
(***************************************************************************)
EXTENDS Live, TLAPS

LEMMA InitTypeOK == Init => TypeOK
  <1> SUFFICES ASSUME Init PROVE TypeOK
    OBVIOUS
  <1>1. 0 \in Versions /\ NoResult \in Results
    BY LiveAssumption DEF Versions, Results, NoResult
  <1> QED BY <1>1 DEF Init, TypeOK

\* Every action keeps the state well typed.
LEMMA StepTypeOK == TypeOK /\ [Next]_vars => TypeOK'
  <1> SUFFICES ASSUME TypeOK, [Next]_vars PROVE TypeOK'
    OBVIOUS
  <1> USE LiveAssumption DEF TypeOK, Versions, Results, NoResult, VersionFor,
          writerVars, engineVars, callVars, workerVars, viewVars,
          WriterGoto, RegisterGoto, WorkerGoto, Roused
  <1>1. ASSUME NEW w \in Writers, NEW touched \in SUBSET Collections,
               Commit(w, touched)
        PROVE  TypeOK'
    <2>1. version' \in [Collections -> 0..MaxVersion]
      BY <1>1 DEF Commit
    <2> QED BY <1>1, <2>1 DEF Commit
  <1>2. ASSUME NEW w \in Writers, Dispatch(w) PROVE TypeOK'
    BY <1>2 DEF Dispatch
  <1>3. ASSUME NEW w \in Writers, Mark(w) PROVE TypeOK'
    <2> DEFINE hit == IF engine = "gone" THEN {} ELSE {s \in subs : Touches(w, s)}
    <2>1. hit \in SUBSET subs /\ dirty' = dirty \cup hit
      BY <1>3 DEF Mark
    <2>2. wpc' \in [Writers -> {"idle", "dispatch", "mark", "wake", "notify"}]
      BY <1>3 DEF Mark
    <2>3. wrote' \in [Writers -> SUBSET Collections]
      BY <1>3 DEF Mark
    <2>4. UNCHANGED <<version, engineVars, wake, subs, callVars, worker, workerVars,
                      viewVars>>
      BY <1>3 DEF Mark
    <2>5. dirty' \in SUBSET subs'
      BY <2>1, <2>4
    <2> QED BY <2>2, <2>3, <2>4, <2>5
  <1>4. ASSUME NEW w \in Writers, SetWake(w) PROVE TypeOK'
    BY <1>4 DEF SetWake
  <1>5. ASSUME NEW w \in Writers, Notify(w) PROVE TypeOK'
    BY <1>5 DEF Notify
  <1>6. ASSUME NEW s \in Subs, StartRegister(s) PROVE TypeOK'
    BY <1>6 DEF StartRegister
  <1>7. ASSUME NEW s \in Subs, InitialLookup(s) PROVE TypeOK'
    BY <1>7 DEF InitialLookup
  <1>8. ASSUME NEW s \in Subs, InitialFetch(s) PROVE TypeOK'
    BY <1>8 DEF InitialFetch
  <1>9. ASSUME NEW s \in Subs, Insert(s) PROVE TypeOK'
    BY <1>9 DEF Insert
  <1>10. ASSUME NEW s \in Subs, Cancel(s) PROVE TypeOK'
    BY <1>10 DEF Cancel
  <1>11. ASSUME NEW s \in Subs, CloseSink(s) PROVE TypeOK'
    BY <1>11 DEF CloseSink
  <1>12. ASSUME CheckWake PROVE TypeOK'
    BY <1>12 DEF CheckWake
  <1>13. ASSUME SpuriousWakeup PROVE TypeOK'
    BY <1>13 DEF SpuriousWakeup
  <1>14. ASSUME CheckShutdown PROVE TypeOK'
    BY <1>14 DEF CheckShutdown
  <1>15. ASSUME Drain PROVE TypeOK'
    BY <1>15 DEF Drain
  <1>16. ASSUME NEW s \in Subs, TakeItem(s) PROVE TypeOK'
    BY <1>16 DEF TakeItem
  <1>17. ASSUME CheckCancelled PROVE TypeOK'
    BY <1>17 DEF CheckCancelled
  <1>18. ASSUME RecomputeLookup PROVE TypeOK'
    BY <1>18 DEF RecomputeLookup
  <1>19. ASSUME RecomputeFetch PROVE TypeOK'
    BY <1>19 DEF RecomputeFetch
  <1>20. ASSUME CheckSink PROVE TypeOK'
    BY <1>20 DEF CheckSink
  <1>21. ASSUME Deliver PROVE TypeOK'
    BY <1>21 DEF Deliver
  <1>22. ASSUME Reap PROVE TypeOK'
    BY <1>22 DEF Reap, EndPass
  <1>23. ASSUME BeginDrop PROVE TypeOK'
    BY <1>23 DEF BeginDrop
  <1>24. ASSUME DropSetWake PROVE TypeOK'
    BY <1>24 DEF DropSetWake
  <1>25. ASSUME DropNotify PROVE TypeOK'
    BY <1>25 DEF DropNotify
  <1>26. ASSUME DropJoin PROVE TypeOK'
    BY <1>26 DEF DropJoin
  <1>27. ASSUME UNCHANGED vars PROVE TypeOK'
    BY <1>27 DEF vars
  <1> QED
    BY <1>1, <1>2, <1>3, <1>4, <1>5, <1>6, <1>7, <1>8, <1>9, <1>10, <1>11,
       <1>12, <1>13, <1>14, <1>15, <1>16, <1>17, <1>18, <1>19, <1>20,
       <1>21, <1>22, <1>23, <1>24, <1>25, <1>26, <1>27
    DEF Next, WriterStep, RegisterStep, WorkerStep, DropStep

\* Every reachable state of the engine and its threads is well typed; in
\* particular only registered subscriptions are marked dirty.
THEOREM TypeCorrect == Spec => []TypeOK
  BY InitTypeOK, StepTypeOK, PTL DEF Spec
-----------------------------------------------------------------------------
\* NoLostWakeup is inductive as it stands.
LEMMA StepNoLostWakeup ==
    TypeOK /\ NoLostWakeup /\ [Next]_vars => NoLostWakeup'
  <1> SUFFICES ASSUME TypeOK, NoLostWakeup, [Next]_vars PROVE NoLostWakeup'
    OBVIOUS
  <1> USE DEF TypeOK, NoLostWakeup, writerVars, engineVars, callVars, workerVars, viewVars,
          WriterGoto, RegisterGoto, WorkerGoto, Roused
  <1>1. ASSUME NEW w \in Writers, NEW touched \in SUBSET Collections, Commit(w, touched)
        PROVE  NoLostWakeup'
    BY <1>1 DEF Commit
  <1>2. ASSUME NEW w \in Writers, Dispatch(w) PROVE NoLostWakeup'
    BY <1>2 DEF Dispatch
  <1>3. ASSUME NEW w \in Writers, Mark(w) PROVE NoLostWakeup'
    BY <1>3 DEF Mark
  <1>4. ASSUME NEW w \in Writers, SetWake(w) PROVE NoLostWakeup'
    BY <1>4 DEF SetWake
  <1>5. ASSUME NEW w \in Writers, Notify(w) PROVE NoLostWakeup'
    BY <1>5 DEF Notify
  <1>6. ASSUME NEW s \in Subs, StartRegister(s) PROVE NoLostWakeup'
    BY <1>6 DEF StartRegister
  <1>7. ASSUME NEW s \in Subs, InitialLookup(s) PROVE NoLostWakeup'
    BY <1>7 DEF InitialLookup
  <1>8. ASSUME NEW s \in Subs, InitialFetch(s) PROVE NoLostWakeup'
    BY <1>8 DEF InitialFetch
  <1>9. ASSUME NEW s \in Subs, Insert(s) PROVE NoLostWakeup'
    BY <1>9 DEF Insert
  <1>10. ASSUME NEW s \in Subs, Cancel(s) PROVE NoLostWakeup'
    BY <1>10 DEF Cancel
  <1>11. ASSUME NEW s \in Subs, CloseSink(s) PROVE NoLostWakeup'
    BY <1>11 DEF CloseSink
  <1>12. ASSUME CheckWake PROVE NoLostWakeup'
    BY <1>12 DEF CheckWake
  <1>13. ASSUME SpuriousWakeup PROVE NoLostWakeup'
    BY <1>13 DEF SpuriousWakeup
  <1>14. ASSUME CheckShutdown PROVE NoLostWakeup'
    BY <1>14 DEF CheckShutdown
  <1>15. ASSUME Drain PROVE NoLostWakeup'
    BY <1>15 DEF Drain
  <1>16. ASSUME NEW s \in Subs, TakeItem(s) PROVE NoLostWakeup'
    BY <1>16 DEF TakeItem
  <1>17. ASSUME CheckCancelled PROVE NoLostWakeup'
    BY <1>17 DEF CheckCancelled
  <1>18. ASSUME RecomputeLookup PROVE NoLostWakeup'
    BY <1>18 DEF RecomputeLookup
  <1>19. ASSUME RecomputeFetch PROVE NoLostWakeup'
    BY <1>19 DEF RecomputeFetch
  <1>20. ASSUME CheckSink PROVE NoLostWakeup'
    BY <1>20 DEF CheckSink
  <1>21. ASSUME Deliver PROVE NoLostWakeup'
    BY <1>21 DEF Deliver
  <1>22. ASSUME Reap PROVE NoLostWakeup'
    BY <1>22 DEF Reap, EndPass
  <1>23. ASSUME BeginDrop PROVE NoLostWakeup'
    BY <1>23 DEF BeginDrop
  <1>24. ASSUME DropSetWake PROVE NoLostWakeup'
    BY <1>24 DEF DropSetWake
  <1>25. ASSUME DropNotify PROVE NoLostWakeup'
    BY <1>25 DEF DropNotify
  <1>26. ASSUME DropJoin PROVE NoLostWakeup'
    BY <1>26 DEF DropJoin
  <1>27. ASSUME UNCHANGED vars PROVE NoLostWakeup'
    BY <1>27 DEF vars
  <1> QED
    BY <1>1, <1>2, <1>3, <1>4, <1>5, <1>6, <1>7, <1>8, <1>9, <1>10, <1>11,
       <1>12, <1>13, <1>14, <1>15, <1>16, <1>17, <1>18, <1>19, <1>20,
       <1>21, <1>22, <1>23, <1>24, <1>25, <1>26, <1>27
    DEF Next, WriterStep, RegisterStep, WorkerStep, DropStep

\* No interleaving of committing threads, worker and Drop loses a wakeup.
THEOREM WakeupsAreNotLost == Spec => []NoLostWakeup
  <1>1. Init => NoLostWakeup
    BY DEF Init, NoLostWakeup
  <1> QED BY <1>1, TypeCorrect, StepNoLostWakeup, PTL DEF Spec
-----------------------------------------------------------------------------
(* The strengthened invariant: what the engine's locals and its tables     *)
(* know of each other, and that no snapshot is older than the one before.  *)

Bookkeeping ==
    /\ \A w \in Writers : wrote[w] # {} => wpc[w] \in {"dispatch", "mark"}
    /\ work # {} => worker \in {"items", "contains", "lookup", "fetch", "emit", "deliver"}
    /\ \A s \in Subs : s \in subs \/ s \in closed \/ s \in work \/ s = item => rpc[s] = "returned"
    /\ observing <=> engine # "gone"
    /\ dead \subseteq closed

InOrder ==
    /\ \A s \in Subs :
           /\ last[s].ids <= VersionFor(s) /\ last[s].rows <= VersionFor(s)
           /\ initial[s].ids <= VersionFor(s) /\ initial[s].rows <= VersionFor(s)
           /\ rpc[s] # "returned" => last[s] = NoResult
           /\ last[s].ids <= last[s].rows /\ since[s] <= VersionFor(s)
           /\ rpc[s] \in {"fetch", "insert"} =>
                  since[s] <= initial[s].ids /\ initial[s].ids <= initial[s].rows
    /\ worker \in {"fetch", "emit", "deliver"} =>
           /\ last[item].ids <= result.ids /\ result.ids <= VersionFor(item)
           /\ result.ids <= result.rows
    /\ worker \in {"emit", "deliver"} =>
           last[item].rows <= result.rows /\ result.rows <= VersionFor(item)

IInv == TypeOK /\ NoLostWakeup /\ Bookkeeping /\ InOrder /\ StaleIsPending

LEMMA StepBookkeeping == TypeOK /\ Bookkeeping /\ [Next]_vars => Bookkeeping'
  <1> SUFFICES ASSUME TypeOK, Bookkeeping, [Next]_vars PROVE Bookkeeping'
    OBVIOUS
  <1> USE LiveAssumption DEF TypeOK, Bookkeeping, writerVars, engineVars, callVars, workerVars, viewVars,
          WriterGoto, RegisterGoto, WorkerGoto, Roused
  <1>1. ASSUME NEW w \in Writers, NEW touched \in SUBSET Collections, Commit(w, touched)
        PROVE  Bookkeeping'
    BY <1>1 DEF Commit
  <1>2. ASSUME NEW w \in Writers, Dispatch(w) PROVE Bookkeeping'
    BY <1>2 DEF Dispatch
  <1>3. ASSUME NEW w \in Writers, Mark(w) PROVE Bookkeeping'
    BY <1>3 DEF Mark
  <1>4. ASSUME NEW w \in Writers, SetWake(w) PROVE Bookkeeping'
    BY <1>4 DEF SetWake
  <1>5. ASSUME NEW w \in Writers, Notify(w) PROVE Bookkeeping'
    BY <1>5 DEF Notify
  <1>6. ASSUME NEW s \in Subs, StartRegister(s) PROVE Bookkeeping'
    BY <1>6 DEF StartRegister
  <1>7. ASSUME NEW s \in Subs, InitialLookup(s) PROVE Bookkeeping'
    BY <1>7 DEF InitialLookup
  <1>8. ASSUME NEW s \in Subs, InitialFetch(s) PROVE Bookkeeping'
    BY <1>8 DEF InitialFetch
  <1>9. ASSUME NEW s \in Subs, Insert(s) PROVE Bookkeeping'
    BY <1>9 DEF Insert
  <1>10. ASSUME NEW s \in Subs, Cancel(s) PROVE Bookkeeping'
    BY <1>10 DEF Cancel
  <1>11. ASSUME NEW s \in Subs, CloseSink(s) PROVE Bookkeeping'
    BY <1>11 DEF CloseSink
  <1>12. ASSUME CheckWake PROVE Bookkeeping'
    BY <1>12 DEF CheckWake
  <1>13. ASSUME SpuriousWakeup PROVE Bookkeeping'
    BY <1>13 DEF SpuriousWakeup
  <1>14. ASSUME CheckShutdown PROVE Bookkeeping'
    BY <1>14 DEF CheckShutdown
  <1>15. ASSUME Drain PROVE Bookkeeping'
    BY <1>15 DEF Drain
  <1>16. ASSUME NEW s \in Subs, TakeItem(s) PROVE Bookkeeping'
    BY <1>16 DEF TakeItem
  <1>17. ASSUME CheckCancelled PROVE Bookkeeping'
    BY <1>17 DEF CheckCancelled
  <1>18. ASSUME RecomputeLookup PROVE Bookkeeping'
    BY <1>18 DEF RecomputeLookup
  <1>19. ASSUME RecomputeFetch PROVE Bookkeeping'
    BY <1>19 DEF RecomputeFetch
  <1>20. ASSUME CheckSink PROVE Bookkeeping'
    BY <1>20 DEF CheckSink
  <1>21. ASSUME Deliver PROVE Bookkeeping'
    BY <1>21 DEF Deliver
  <1>22. ASSUME Reap PROVE Bookkeeping'
    BY <1>22 DEF Reap, EndPass
  <1>23. ASSUME BeginDrop PROVE Bookkeeping'
    BY <1>23 DEF BeginDrop
  <1>24. ASSUME DropSetWake PROVE Bookkeeping'
    BY <1>24 DEF DropSetWake
  <1>25. ASSUME DropNotify PROVE Bookkeeping'
    BY <1>25 DEF DropNotify
  <1>26. ASSUME DropJoin PROVE Bookkeeping'
    BY <1>26 DEF DropJoin
  <1>27. ASSUME UNCHANGED vars PROVE Bookkeeping'
    BY <1>27 DEF vars
  <1> QED
    BY <1>1, <1>2, <1>3, <1>4, <1>5, <1>6, <1>7, <1>8, <1>9, <1>10, <1>11,
       <1>12, <1>13, <1>14, <1>15, <1>16, <1>17, <1>18, <1>19, <1>20,
       <1>21, <1>22, <1>23, <1>24, <1>25, <1>26, <1>27
    DEF Next, WriterStep, RegisterStep, WorkerStep, DropStep

LEMMA StepInOrder ==
    TypeOK /\ Bookkeeping /\ InOrder /\ [Next]_vars => InOrder'
  <1> SUFFICES ASSUME TypeOK, Bookkeeping, InOrder, [Next]_vars PROVE InOrder'
    OBVIOUS
  <1> USE LiveAssumption DEF TypeOK, Bookkeeping, InOrder, Results, Versions,
          NoResult, VersionFor, writerVars, engineVars, callVars, workerVars, viewVars,
          WriterGoto, RegisterGoto, WorkerGoto, Roused
  <1>1. ASSUME NEW w \in Writers, NEW touched \in SUBSET Collections, Commit(w, touched)
        PROVE  InOrder'
    BY <1>1 DEF Commit
  <1>2. ASSUME NEW w \in Writers, Dispatch(w) PROVE InOrder'
    BY <1>2 DEF Dispatch
  <1>3. ASSUME NEW w \in Writers, Mark(w) PROVE InOrder'
    BY <1>3 DEF Mark
  <1>4. ASSUME NEW w \in Writers, SetWake(w) PROVE InOrder'
    BY <1>4 DEF SetWake
  <1>5. ASSUME NEW w \in Writers, Notify(w) PROVE InOrder'
    BY <1>5 DEF Notify
  <1>6. ASSUME NEW s \in Subs, StartRegister(s) PROVE InOrder'
    BY <1>6 DEF StartRegister
  <1>7. ASSUME NEW s \in Subs, InitialLookup(s) PROVE InOrder'
    BY <1>7 DEF InitialLookup
  <1>8. ASSUME NEW s \in Subs, InitialFetch(s) PROVE InOrder'
    BY <1>8 DEF InitialFetch
  <1>9. ASSUME NEW s \in Subs, Insert(s) PROVE InOrder'
    BY <1>9 DEF Insert
  <1>10. ASSUME NEW s \in Subs, Cancel(s) PROVE InOrder'
    BY <1>10 DEF Cancel
  <1>11. ASSUME NEW s \in Subs, CloseSink(s) PROVE InOrder'
    BY <1>11 DEF CloseSink
  <1>12. ASSUME CheckWake PROVE InOrder'
    BY <1>12 DEF CheckWake
  <1>13. ASSUME SpuriousWakeup PROVE InOrder'
    BY <1>13 DEF SpuriousWakeup
  <1>14. ASSUME CheckShutdown PROVE InOrder'
    BY <1>14 DEF CheckShutdown
  <1>15. ASSUME Drain PROVE InOrder'
    BY <1>15 DEF Drain
  <1>16. ASSUME NEW s \in Subs, TakeItem(s) PROVE InOrder'
    BY <1>16 DEF TakeItem
  <1>17. ASSUME CheckCancelled PROVE InOrder'
    BY <1>17 DEF CheckCancelled
  <1>18. ASSUME RecomputeLookup PROVE InOrder'
    BY <1>18 DEF RecomputeLookup
  <1>19. ASSUME RecomputeFetch PROVE InOrder'
    BY <1>19 DEF RecomputeFetch
  <1>20. ASSUME CheckSink PROVE InOrder'
    BY <1>20 DEF CheckSink
  <1>21. ASSUME Deliver PROVE InOrder'
    BY <1>21 DEF Deliver
  <1>22. ASSUME Reap PROVE InOrder'
    BY <1>22 DEF Reap, EndPass
  <1>23. ASSUME BeginDrop PROVE InOrder'
    BY <1>23 DEF BeginDrop
  <1>24. ASSUME DropSetWake PROVE InOrder'
    BY <1>24 DEF DropSetWake
  <1>25. ASSUME DropNotify PROVE InOrder'
    BY <1>25 DEF DropNotify
  <1>26. ASSUME DropJoin PROVE InOrder'
    BY <1>26 DEF DropJoin
  <1>27. ASSUME UNCHANGED vars PROVE InOrder'
    BY <1>27 DEF vars
  <1> QED
    BY <1>1, <1>2, <1>3, <1>4, <1>5, <1>6, <1>7, <1>8, <1>9, <1>10, <1>11,
       <1>12, <1>13, <1>14, <1>15, <1>16, <1>17, <1>18, <1>19, <1>20,
       <1>21, <1>22, <1>23, <1>24, <1>25, <1>26, <1>27
    DEF Next, WriterStep, RegisterStep, WorkerStep, DropStep

LEMMA Squeezed ==
    ASSUME NEW a \in Nat, NEW b \in Nat, a <= b, b <= a
    PROVE  b = a
  OBVIOUS

\* What StaleIsPending says of one subscription.
UpToDate(s) ==
    \/ Pending(s)
    \/ Current(Newest(s), s)
    \/ item = s /\ worker = "fetch" /\ result.ids = VersionFor(s)

LEMMA StepStaleIsPending ==
    TypeOK /\ Bookkeeping /\ InOrder /\ StaleIsPending /\ [Next]_vars => StaleIsPending'
  <1> SUFFICES ASSUME TypeOK, Bookkeeping, InOrder, StaleIsPending, [Next]_vars
               PROVE  StaleIsPending'
    OBVIOUS
  <1> USE LiveAssumption DEF TypeOK, Bookkeeping, InOrder, StaleIsPending, UpToDate,
          Pending, Current, Newest, Touches, Results, Versions, NoResult, VersionFor,
          writerVars, engineVars, callVars, workerVars, viewVars,
          WriterGoto, RegisterGoto, WorkerGoto, Roused
  <1>1. ASSUME NEW w \in Writers, NEW touched \in SUBSET Collections, Commit(w, touched)
        PROVE  StaleIsPending'
    <2> SUFFICES ASSUME NEW t \in subs' \ closed', observing', VersionFor(t)' > since'[t]
                 PROVE  UpToDate(t)'
      OBVIOUS
    <2> t \in subs \ closed /\ observing /\ t \in Subs
      BY <1>1 DEF Commit
    <2>1. CASE CollOf[t] \in touched
      <3>1. wrote'[w] = touched
        BY <1>1 DEF Commit
      <3> QED BY <2>1, <3>1
    <2>2. CASE CollOf[t] \notin touched
      <3>1. VersionFor(t)' = VersionFor(t)
        BY <1>1, <2>2 DEF Commit
      <3>2. \A x \in Writers : Touches(x, t) => Touches(x, t)'
        BY <1>1 DEF Commit
      <3>3. UNCHANGED <<dirty, work, item, worker, result, last, since>>
        BY <1>1 DEF Commit
      <3>4. UpToDate(t)
        BY <3>1, <3>3
      <3> QED BY <3>1, <3>2, <3>3, <3>4
    <2> QED BY <2>1, <2>2
  <1>2. ASSUME NEW w \in Writers, Dispatch(w) PROVE StaleIsPending'
    BY <1>2 DEF Dispatch
  <1>3. ASSUME NEW w \in Writers, Mark(w) PROVE StaleIsPending'
    <2> SUFFICES ASSUME NEW t \in subs' \ closed', observing', VersionFor(t)' > since'[t]
                 PROVE  UpToDate(t)'
      OBVIOUS
    <2>1. /\ t \in subs \ closed /\ observing /\ t \in Subs
          /\ UNCHANGED <<version, work, item, worker, result, last, since>>
      BY <1>3 DEF Mark
    <2>2. UpToDate(t)
      BY <2>1
    <2>3. dirty \subseteq dirty' /\ (Touches(w, t) => t \in dirty')
      BY <1>3, <2>1 DEF Mark
    <2>4. \A x \in Writers \ {w} : Touches(x, t) => Touches(x, t)'
      BY <1>3 DEF Mark
    <2> QED BY <2>1, <2>2, <2>3, <2>4
  <1>4. ASSUME NEW w \in Writers, SetWake(w) PROVE StaleIsPending'
    BY <1>4 DEF SetWake
  <1>5. ASSUME NEW w \in Writers, Notify(w) PROVE StaleIsPending'
    BY <1>5 DEF Notify
  <1>6. ASSUME NEW s \in Subs, StartRegister(s) PROVE StaleIsPending'
    BY <1>6 DEF StartRegister
  <1>7. ASSUME NEW s \in Subs, InitialLookup(s) PROVE StaleIsPending'
    BY <1>7 DEF InitialLookup
  <1>8. ASSUME NEW s \in Subs, InitialFetch(s) PROVE StaleIsPending'
    BY <1>8 DEF InitialFetch
  <1>9. ASSUME NEW s \in Subs, Insert(s) PROVE StaleIsPending'
    BY <1>9 DEF Insert
  <1>10. ASSUME NEW s \in Subs, Cancel(s) PROVE StaleIsPending'
    BY <1>10 DEF Cancel
  <1>11. ASSUME NEW s \in Subs, CloseSink(s) PROVE StaleIsPending'
    BY <1>11 DEF CloseSink
  <1>12. ASSUME CheckWake PROVE StaleIsPending'
    BY <1>12 DEF CheckWake
  <1>13. ASSUME SpuriousWakeup PROVE StaleIsPending'
    BY <1>13 DEF SpuriousWakeup
  <1>14. ASSUME CheckShutdown PROVE StaleIsPending'
    BY <1>14 DEF CheckShutdown
  <1>15. ASSUME Drain PROVE StaleIsPending'
    BY <1>15 DEF Drain
  <1>16. ASSUME NEW s \in Subs, TakeItem(s) PROVE StaleIsPending'
    <2> SUFFICES ASSUME NEW t \in subs' \ closed', observing', VersionFor(t)' > since'[t]
                 PROVE  UpToDate(t)'
      OBVIOUS
    <2>1. /\ t \in subs \ closed /\ observing /\ t \in Subs /\ item = NoSub
          /\ UNCHANGED <<version, wrote, dirty, result, last, since>>
          /\ work' = work \ {s} /\ worker' \in {"items", "contains"}
      BY <1>16 DEF TakeItem
    <2>2. UpToDate(t)
      BY <2>1
    <2>3. CASE t = s
      BY <1>16, <2>1, <2>3 DEF TakeItem
    <2>4. CASE t # s
      BY <2>1, <2>2, <2>4
    <2> QED BY <2>3, <2>4
  <1>17. ASSUME CheckCancelled PROVE StaleIsPending'
    BY <1>17 DEF CheckCancelled
  <1>18. ASSUME RecomputeLookup PROVE StaleIsPending'
    BY <1>18 DEF RecomputeLookup
  <1>19. ASSUME RecomputeFetch PROVE StaleIsPending'
    <2> SUFFICES ASSUME NEW t \in subs' \ closed', observing', VersionFor(t)' > since'[t]
                 PROVE  UpToDate(t)'
      OBVIOUS
    <2>1. /\ t \in subs \ closed /\ observing /\ t \in Subs
          /\ worker = "fetch" /\ worker' = "emit" /\ item \in Subs
          /\ UNCHANGED <<version, wrote, dirty, work, item, last, since>>
          /\ result' = [result EXCEPT !.rows = VersionFor(item)]
      BY <1>19 DEF RecomputeFetch
    <2>2. UpToDate(t)
      BY <2>1
    <2>3. CASE t = item
      <3>1. CASE t \in dirty \/ t \in work \/ \E x \in Writers : Touches(x, t)
        BY <2>1, <3>1
      <3>2. CASE Current(last[t], t) \/ result.ids = VersionFor(t)
        <4>1. last[t].ids <= result.ids /\ result.ids <= VersionFor(t)
          BY <2>1, <2>3
        <4>2. result.ids = VersionFor(t)
          <5>1. result.ids \in Nat /\ VersionFor(t) \in Nat
            BY <2>1
          <5>2. CASE last[t].ids = VersionFor(t)
            <6>1. VersionFor(t) <= result.ids /\ result.ids <= VersionFor(t)
              BY <4>1, <5>2
            <6> QED BY <5>1, <6>1, Squeezed
          <5> QED BY <3>2, <5>2
        <4>3. result' = [ids |-> VersionFor(t), rows |-> VersionFor(t)]
          BY <2>1, <2>3, <4>2
        <4> QED BY <2>1, <2>3, <4>3
      <3> QED BY <2>1, <2>2, <2>3, <3>1, <3>2
    <2>4. CASE t # item
      BY <2>1, <2>2, <2>4
    <2> QED BY <2>3, <2>4
  <1>20. ASSUME CheckSink PROVE StaleIsPending'
    BY <1>20 DEF CheckSink
  <1>21. ASSUME Deliver PROVE StaleIsPending'
    BY <1>21 DEF Deliver
  <1>22. ASSUME Reap PROVE StaleIsPending'
    BY <1>22 DEF Reap, EndPass
  <1>23. ASSUME BeginDrop PROVE StaleIsPending'
    BY <1>23 DEF BeginDrop
  <1>24. ASSUME DropSetWake PROVE StaleIsPending'
    BY <1>24 DEF DropSetWake
  <1>25. ASSUME DropNotify PROVE StaleIsPending'
    BY <1>25 DEF DropNotify
  <1>26. ASSUME DropJoin PROVE StaleIsPending'
    BY <1>26 DEF DropJoin
  <1>27. ASSUME UNCHANGED vars PROVE StaleIsPending'
    BY <1>27 DEF vars
  <1> QED
    BY <1>1, <1>2, <1>3, <1>4, <1>5, <1>6, <1>7, <1>8, <1>9, <1>10, <1>11,
       <1>12, <1>13, <1>14, <1>15, <1>16, <1>17, <1>18, <1>19, <1>20,
       <1>21, <1>22, <1>23, <1>24, <1>25, <1>26, <1>27
    DEF Next, WriterStep, RegisterStep, WorkerStep, DropStep

LEMMA InitIInv == Init => IInv
  <1> SUFFICES ASSUME Init PROVE IInv
    OBVIOUS
  <1>1. TypeOK
    BY InitTypeOK
  <1>2. NoLostWakeup
    BY DEF Init, NoLostWakeup
  <1>3. Bookkeeping
    BY LiveAssumption DEF Init, Bookkeeping
  <1>4. StaleIsPending
    BY DEF Init, StaleIsPending
  <1>5. InOrder
    BY LiveAssumption DEF Init, InOrder, NoResult, VersionFor
  <1> QED BY <1>1, <1>2, <1>3, <1>4, <1>5 DEF IInv

\* The strengthened invariant is inductive.
THEOREM Invariant == Spec => []IInv
  <1>1. IInv /\ [Next]_vars => IInv'
    BY StepTypeOK, StepNoLostWakeup, StepBookkeeping, StepInOrder, StepStaleIsPending
    DEF IInv
  <1> QED BY InitIInv, <1>1, PTL DEF Spec
-----------------------------------------------------------------------------
\* A registered subscription that is behind a commit made after its
\* insertion has an emission on its way, whatever dispatches overtake each
\* other and wherever in the worker's pass the commit falls.
THEOREM StaleIsAlwaysPending == Spec => []StaleIsPending
  BY Invariant, PTL DEF IInv

\* So once every thread has come to rest the consumer has the last
\* committed state, the commits before its insertion aside.
THEOREM SeenOnceQuiet == Spec => []SeenWhenQuiet
  <1>1. IInv => SeenWhenQuiet
    <2> SUFFICES ASSUME IInv, Quiet, NEW s \in subs \ closed, VersionFor(s) > since[s]
                 PROVE  Current(last[s], s)
      BY DEF SeenWhenQuiet
    <2>1. dirty = {}
      BY DEF IInv, NoLostWakeup, Quiet
    <2>2. work = {} /\ item = NoSub /\ s # NoSub
      BY LiveAssumption DEF IInv, Bookkeeping, TypeOK, Quiet
    <2>3. \A w \in Writers : wrote[w] = {}
      BY DEF IInv, Bookkeeping, Quiet
    <2>4. observing
      BY DEF IInv, Bookkeeping, Quiet
    <2> QED
      BY <2>1, <2>2, <2>3, <2>4
      DEF IInv, StaleIsPending, Pending, Newest, Touches
  <1> QED BY <1>1, Invariant, PTL

\* A consumer is never handed a snapshot older than the one it has.
THEOREM SnapshotsNeverGoBack == Spec => NeverBackwards
  <1>1. IInv /\ [Next]_vars =>
            [\A s \in Subs :
               last'[s].ids >= last[s].ids /\ last'[s].rows >= last[s].rows]_vars
    <2> SUFFICES ASSUME IInv, [Next]_vars, NEW s \in Subs
                 PROVE  last'[s].ids >= last[s].ids /\ last'[s].rows >= last[s].rows
      OBVIOUS
    <2>1. last[s].ids \in Nat /\ last[s].rows \in Nat
      BY LiveAssumption DEF IInv, TypeOK, Results, Versions
    <2>2. CASE UNCHANGED last
      BY <2>1, <2>2
    <2>3. ASSUME NEW t \in Subs, Insert(t)
          PROVE  last'[s].ids >= last[s].ids /\ last'[s].rows >= last[s].rows
      <3>1. initial[t].ids \in Nat /\ initial[t].rows \in Nat
        BY LiveAssumption DEF IInv, TypeOK, Results, Versions
      <3>2. last[t] = NoResult
        BY <2>3 DEF Insert, RegisterGoto, IInv, InOrder
      <3>3. last' = [last EXCEPT ![t] = initial[t]]
        BY <2>3 DEF Insert
      <3> QED BY <2>1, <3>1, <3>2, <3>3 DEF NoResult, IInv, TypeOK
    <2>4. CASE Deliver
      <3>1. last' = [last EXCEPT ![item] = result] /\ worker = "deliver"
        BY <2>4 DEF Deliver, WorkerGoto
      <3>2. result.ids \in Nat /\ result.rows \in Nat
        BY LiveAssumption DEF IInv, TypeOK, Results, Versions
      <3>3. last[item].ids <= result.ids /\ last[item].rows <= result.rows
        BY <3>1 DEF IInv, InOrder
      <3> QED BY <2>1, <3>1, <3>2, <3>3 DEF IInv, TypeOK
    <2>5. UNCHANGED last \/ (\E t \in Subs : Insert(t)) \/ Deliver
      BY DEF Next, WriterStep, RegisterStep, WorkerStep, DropStep, vars, viewVars,
             Commit, Dispatch, Mark, SetWake, Notify, StartRegister, InitialLookup,
             InitialFetch, Cancel, CloseSink, CheckWake, SpuriousWakeup, CheckShutdown,
             Drain, TakeItem, CheckCancelled, RecomputeLookup, RecomputeFetch,
             CheckSink, Reap, BeginDrop, DropSetWake, DropNotify, DropJoin
    <2> QED BY <2>2, <2>3, <2>4, <2>5
  <1> QED BY <1>1, Invariant, PTL DEF Spec, NeverBackwards
-----------------------------------------------------------------------------
(* The engine implements the feed.                                         *)

Phases == [s \in Subs |-> Phase(s)]
Asked  == [s \in Subs |-> IF s \in Registering THEN since[s] ELSE 0]

\* The consumer notices nothing of a step that changes no table it knows of and
\* neither begins nor ends the computation of a snapshot for one who has left.
LEMMA Unnoticed ==
    ASSUME UNCHANGED <<version, rpc, last, since>>,
           subs' \ closed' = subs \ closed,
           \A s \in Subs \ (subs \ closed) : Underway(s)' <=> Underway(s)
    PROVE  UNCHANGED <<version, Phases, Asked, last>>
  <1>1. \A s \in Subs : Phase(s)' = Phase(s)
    BY DEF Phase, Registering
  <1>2. Registering' = Registering
    BY DEF Registering
  <1> QED BY <1>1, <1>2 DEF Phases, Asked

\* What one subscription goes through.
LEMMA OneMoves ==
    ASSUME NEW s \in Subs, NEW from, NEW to, Phase(s) = from, Phase(s)' = to,
           \A t \in Subs \ {s} : Phase(t)' = Phase(t)
    PROVE  Feed!Goto(s, from, to)
  <1>1. Phases[s] = from /\ Phases' = [Phases EXCEPT ![s] = to]
    BY DEF Phases
  <1> QED BY <1>1 DEF Feed!Goto, Phases

LEMMA FeedInit == Init => Feed!Init
  <1> SUFFICES ASSUME Init PROVE Feed!Init
    OBVIOUS
  <1>1. Registering = {} /\ \A s \in Subs : Phase(s) = "none"
    BY DEF Init, Registering, Phase
  <1> QED BY <1>1 DEF Init, Feed!Init, NoResult

\* Every step of the engine, of those who commit and of its consumers is a step
\* of the feed, or one nobody notices.
LEMMA FeedStep == IInv /\ [Next]_vars => [Feed!Next]_(Feed!vars)
  <1> SUFFICES ASSUME IInv, [Next]_vars PROVE Feed!Next \/ UNCHANGED Feed!vars
    OBVIOUS
  <1> USE LiveAssumption DEF IInv, TypeOK, Bookkeeping, writerVars, engineVars, callVars,
          workerVars, viewVars, WriterGoto, RegisterGoto, WorkerGoto, Roused
  <1>a. UNCHANGED <<version, Phases, Asked, last>> => UNCHANGED Feed!vars
    BY DEF Feed!vars, Phases, Asked
  <1>1. ASSUME NEW w \in Writers, NEW touched \in SUBSET Collections, Commit(w, touched)
        PROVE  Feed!Commit(touched)
    <2>1. UNCHANGED <<Phases, Asked, last>>
      BY <1>1 DEF Commit, Phases, Asked, Phase, Underway, Registering
    <2> QED BY <1>1, <2>1 DEF Commit, Feed!Commit, Phases, Asked
  <1>2. ASSUME NEW w \in Writers, WriterStep(w) PROVE UNCHANGED Feed!vars
    BY <1>2, <1>a, Unnoticed DEF WriterStep, Dispatch, Mark, SetWake, Notify, Underway
  <1>3. ASSUME NEW s \in Subs, StartRegister(s) PROVE Feed!Ask(s)
    <2>1. /\ rpc[s] = "new" /\ rpc' = [rpc EXCEPT ![s] = "lookup"]
          /\ since' = [since EXCEPT ![s] = VersionFor(s)]
          /\ UNCHANGED <<version, last, subs, closed, item, worker>>
      BY <1>3 DEF StartRegister
    <2>2. Phase(s) = "none" /\ Phase(s)' = "asked"
      BY <2>1 DEF Phase, Registering
    <2>3. \A t \in Subs \ {s} : Phase(t)' = Phase(t)
      BY <2>1 DEF Phase, Registering, Underway
    <2>4. Feed!Goto(s, "none", "asked")
      BY <2>2, <2>3, OneMoves
    <2>5. Asked' = [Asked EXCEPT ![s] = version[CollOf[s]]]
      BY <2>1 DEF Asked, Registering, VersionFor
    <2> QED BY <2>1, <2>4, <2>5 DEF Feed!Ask, Asked
  <1>4. ASSUME NEW s \in Subs, InitialLookup(s) \/ InitialFetch(s)
        PROVE  UNCHANGED Feed!vars
    <2>1. /\ rpc[s] \in {"lookup", "fetch"} /\ \E to \in {"fetch", "insert"} : rpc' = [rpc EXCEPT ![s] = to]
          /\ UNCHANGED <<version, last, since, subs, closed, item, worker>>
      BY <1>4 DEF InitialLookup, InitialFetch
    <2>2. Registering' = Registering
      BY <2>1 DEF Registering
    <2>3. \A t \in Subs : Phase(t)' = Phase(t)
      BY <2>1, <2>2 DEF Phase, Underway, Registering
    <2>4. UNCHANGED <<Phases, Asked>>
      BY <2>1, <2>2, <2>3 DEF Phases, Asked
    <2> QED BY <1>a, <2>1, <2>4
  <1>5. ASSUME NEW s \in Subs, Insert(s) PROVE Feed!Open(s)
    <2>1. /\ rpc[s] = "insert" /\ rpc' = [rpc EXCEPT ![s] = "returned"]
          /\ subs' = subs \cup {s} /\ last' = [last EXCEPT ![s] = initial[s]]
          /\ since' = [since EXCEPT ![s] = VersionFor(s)]
          /\ UNCHANGED <<version, closed, item, worker>>
      BY <1>5 DEF Insert
    <2>2. s \notin closed
      BY <2>1
    <2>3. Phase(s) = "asked" /\ Phase(s)' = "open"
      BY <2>1, <2>2 DEF Phase, Registering
    <2>4. \A t \in Subs \ {s} : Phase(t)' = Phase(t)
      BY <2>1 DEF Phase, Registering, Underway
    <2>5. Feed!Goto(s, "asked", "open")
      BY <2>3, <2>4, OneMoves
    <2>6. Asked' = [Asked EXCEPT ![s] = 0] /\ Asked[s] = since[s]
      BY <2>1 DEF Asked, Registering
    <2>7. Feed!Give(s, Asked[s], Asked[s])
      <3> DEFINE r == initial[s]
      <3>1. /\ r \in Feed!Results /\ since[s] <= r.ids /\ r.ids <= r.rows /\ r.rows <= VersionFor(s)
        BY <2>1 DEF InOrder, Results, Versions, Feed!Results, Feed!Versions
      <3>2. since[s] <= r.rows
        BY <3>1 DEF Results, Versions
      <3> QED BY <2>1, <2>6, <3>1, <3>2 DEF Feed!Give, VersionFor
    <2> QED BY <2>1, <2>5, <2>6, <2>7 DEF Feed!Open, Asked
  <1>6. ASSUME NEW s \in Subs, Cancel(s) \/ CloseSink(s)
        PROVE  Feed!Leave(s) \/ UNCHANGED Feed!vars
    <2>1. /\ rpc[s] = "returned"
          /\ UNCHANGED <<version, last, since, rpc, item, worker>>
          /\ subs' \subseteq subs /\ closed \subseteq closed'
          /\ \A t \in Subs \ {s} : (t \in subs' <=> t \in subs) /\ (t \in closed' <=> t \in closed)
          /\ s \notin subs' \ closed'
      BY <1>6 DEF Cancel, CloseSink
    <2>2. \A t \in Subs \ {s} : Phase(t)' = Phase(t)
      BY <2>1 DEF Phase, Underway, Registering
    <2>3. \/ Phase(s) = "open" /\ Phase(s)' \in {"leaving", "ended"}
          \/ Phase(s) = "leaving" /\ Phase(s)' \in {"leaving", "ended"}
          \/ Phase(s) = "ended" /\ Phase(s)' = "ended"
      BY <2>1 DEF Phase, Underway, Registering
    <2>4. UNCHANGED Asked
      BY <2>1 DEF Asked, Registering
    <2>5. CASE Phase(s)' = Phase(s)
      <3>1. UNCHANGED Phases
        BY <2>2, <2>5 DEF Phases
      <3> QED BY <1>a, <2>1, <2>4, <3>1
    <2>6. CASE Phase(s)' # Phase(s)
      <3>1. \/ Feed!Goto(s, "open", "leaving") \/ Feed!Goto(s, "open", "ended")
            \/ Feed!Goto(s, "leaving", "ended")
        BY <2>2, <2>3, <2>6, OneMoves
      <3> QED BY <2>1, <2>4, <3>1 DEF Feed!Leave, Asked
    <2> QED BY <2>5, <2>6
  <1>7. ASSUME CheckWake \/ SpuriousWakeup \/ CheckShutdown \/ Drain
        PROVE  UNCHANGED Feed!vars
    BY <1>7, <1>a, Unnoticed DEF CheckWake, SpuriousWakeup, CheckShutdown, Drain, Underway
  <1>8. ASSUME NEW s \in Subs, TakeItem(s) PROVE UNCHANGED Feed!vars
    BY <1>8, <1>a, Unnoticed DEF TakeItem, Underway
  <1>9. ASSUME CheckCancelled \/ RecomputeLookup \/ RecomputeFetch \/ CheckSink
        PROVE  UNCHANGED Feed!vars
    BY <1>9, <1>a, Unnoticed
    DEF CheckCancelled, RecomputeLookup, RecomputeFetch, CheckSink, Underway
  <1>10. ASSUME Deliver PROVE \E s \in Subs : Feed!Refresh(s) \/ Feed!LastOne(s)
    <2>1. /\ worker = "deliver" /\ worker' = "items" /\ item' = NoSub /\ item \in Subs
          /\ last' = [last EXCEPT ![item] = result]
          /\ UNCHANGED <<version, rpc, since, subs, closed>>
      BY <1>10 DEF Deliver
    <2>s. PICK s \in Subs : s = item
      BY <2>1
    <2>2. \A t \in Subs \ {s} : Phase(t)' = Phase(t)
      BY <2>1, <2>s DEF Phase, Underway, Registering
    <2>3. UNCHANGED Asked
      BY <2>1 DEF Asked, Registering
    <2>4. Feed!Give(s, last[s].ids, last[s].rows)
      <3>1. /\ result \in Feed!Results /\ last[s].ids <= result.ids /\ last[s].rows <= result.rows
            /\ result.ids <= result.rows /\ result.rows <= VersionFor(s)
        BY <2>1, <2>s DEF InOrder, Results, Versions, Feed!Results, Feed!Versions
      <3> QED BY <2>1, <2>s, <3>1 DEF Feed!Give, VersionFor
    <2>5. CASE s \in subs \ closed
      <3>1. Phase(s) = "open" /\ Phase(s)' = "open"
        BY <2>1, <2>5 DEF Phase, Registering
      <3>2. UNCHANGED Phases /\ Phases[s] = "open"
        BY <2>1, <2>2, <3>1 DEF Phases
      <3> QED BY <2>1, <2>3, <2>4, <3>2 DEF Feed!Refresh, Phases, Asked
    <2>6. CASE s \notin subs \ closed
      <3>1. Phase(s) = "leaving" /\ Phase(s)' = "ended"
        BY <2>1, <2>s, <2>6 DEF Phase, Registering, Underway
      <3>2. Feed!Goto(s, "leaving", "ended")
        BY <2>1, <2>2, <3>1, OneMoves
      <3> QED BY <2>1, <2>3, <2>4, <3>2 DEF Feed!LastOne, Asked
    <2> QED BY <2>5, <2>6
  <1>11. ASSUME Reap PROVE UNCHANGED Feed!vars
    <2>1. subs' \ closed' = subs \ closed
      BY <1>11 DEF Reap, EndPass
    <2> QED BY <1>11, <1>a, <2>1, Unnoticed DEF Reap, EndPass, Underway
  <1>12. ASSUME BeginDrop \/ DropStep PROVE UNCHANGED Feed!vars
    BY <1>12, <1>a, Unnoticed DEF BeginDrop, DropStep, DropSetWake, DropNotify, DropJoin, Underway
  <1>13. ASSUME UNCHANGED vars PROVE UNCHANGED Feed!vars
    BY <1>13, <1>a, Unnoticed DEF vars, Underway
  <1> QED
    BY <1>1, <1>2, <1>3, <1>4, <1>5, <1>6, <1>7, <1>8, <1>9, <1>10, <1>11, <1>12, <1>13
    DEF Next, RegisterStep, WorkerStep, Feed!Next

\* Consumers may forget the engine: the first snapshot has what was committed
\* before the registration began, later ones never go back, and one at most
\* comes after the subscription was cancelled or its sink closed.
THEOREM LiveImplementsFeed == Spec => ImplementsFeed
  BY FeedInit, FeedStep, Invariant, PTL DEF Spec, ImplementsFeed, Feed!Spec
=============================================================================
