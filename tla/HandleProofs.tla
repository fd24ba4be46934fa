---------------------------- MODULE HandleProofs ----------------------------
(***************************************************************************)
(* Proofs about the life cycle of an open database, for any number of      *)
(* typed operations, live queries, transactions and buffered operations.   *)
(***************************************************************************)
EXTENDS Handle, TLAPS, SequenceTheorems

(***************************************************************************)
(* Types.                                                                  *)
(***************************************************************************)
LEMMA InitTypeOK == Init => TypeOK
  <1> SUFFICES ASSUME Init PROVE TypeOK
    OBVIOUS
  <1>1. nextTx - 1 = 0 /\ 1..nextTx-1 = {} /\ 0 \in 0..nextTx-1
    BY DEF Init
  <1>2. DOMAIN txStates = {} /\ txStates \in [DOMAIN txStates -> Seq(Ops)]
    BY DEF Init
  <1>3. replay \in [Transactions -> Seq(Ops)]
    BY DEF Init
  <1>4. use \in [Uses -> [at : {"idle", "called", "holding", "ended"},
                          tx : Transactions \cup {NoTransaction}]]
    BY DEF Init
  <1>5. tx \in [Transactions ->
                 [at : {"idle", "nested", "beginning", "granted", "refused", "callback",
                        "committing", "replaying", "committed", "rollingBack",
                        "rolledBack", "resolved", "rejected"},
                  handle : 0..nextTx-1]]
    BY <1>1 DEF Init
  <1>6. op \in [Ops -> [at : {"idle", "called", "acknowledged", "rejected"},
                        tx : Transactions \cup {NoTransaction},
                        after : SUBSET Ops]]
    BY DEF Init, Idle
  <1> QED BY <1>1, <1>2, <1>3, <1>4, <1>5, <1>6 DEF Init, TypeOK

Places == {"idle", "nested", "beginning", "granted", "refused", "callback",
           "committing", "replaying", "committed", "rollingBack",
           "rolledBack", "resolved", "rejected"}

\* A transaction that changes its place stays well typed.
LEMMA TxAtType ==
    ASSUME TypeOK, NEW t \in Transactions, NEW place \in Places, TxAt(t, place)
    PROVE  tx' \in [Transactions -> [at : Places, handle : 0..nextTx-1]]
  <1> DEFINE Rec == [at : Places, handle : 0..nextTx-1]
  <1>1. tx \in [Transactions -> Rec]
    BY DEF TypeOK, Places
  <1>2. ASSUME NEW r \in Rec PROVE [r EXCEPT !.at = place] \in Rec
    OBVIOUS
  <1>3. [tx[t] EXCEPT !.at = place] \in Rec
    BY <1>1, <1>2
  <1> HIDE DEF Rec
  <1>4. tx' = [tx EXCEPT ![t] = [tx[t] EXCEPT !.at = place]]
    BY DEF TxAt
  <1>5. tx' \in [Transactions -> Rec]
    BY <1>1, <1>3, <1>4
  <1> QED BY <1>5 DEF Rec

\* What is left of the table when a handle is removed.
LEMMA RemoveType ==
    ASSUME TypeOK, NEW h, txStates' = Restrict(txStates, DOMAIN txStates \ {h})
    PROVE  /\ DOMAIN txStates' = DOMAIN txStates \ {h}
           /\ \A k \in DOMAIN txStates' : txStates'[k] = txStates[k]
           /\ txStates' \in [DOMAIN txStates' -> Seq(Ops)]
           /\ DOMAIN txStates' \in SUBSET (1..nextTx-1)
  BY DEF TypeOK, Restrict

\* The table with a new, empty buffer.
LEMMA InsertType ==
    ASSUME TypeOK, NEW t \in Transactions, InsertState(t)
    PROVE  /\ nextTx \in Nat /\ nextTx' = nextTx + 1
           /\ DOMAIN txStates' = DOMAIN txStates \cup {nextTx}
           /\ nextTx \notin DOMAIN txStates
           /\ txStates'[nextTx] = <<>>
           /\ \A h \in DOMAIN txStates : txStates'[h] = txStates[h]
           /\ txStates' \in [DOMAIN txStates' -> Seq(Ops)]
           /\ DOMAIN txStates' \in SUBSET (1..nextTx'-1)
           /\ tx' \in [Transactions -> [at : Places, handle : 0..nextTx'-1]]
  <1>1. nextTx \in Nat \ {0} /\ nextTx' = nextTx + 1 /\ nextTx \in 0..nextTx'-1
    BY DEF TypeOK, InsertState
  <1>2. /\ DOMAIN txStates \subseteq 1..nextTx-1 /\ nextTx \notin DOMAIN txStates
        /\ 1..nextTx-1 \subseteq 1..nextTx'-1 /\ nextTx \in 1..nextTx'-1
        /\ 0..nextTx-1 \subseteq 0..nextTx'-1
    BY <1>1 DEF TypeOK
  <1>3. /\ DOMAIN txStates' = DOMAIN txStates \cup {nextTx}
        /\ txStates'[nextTx] = <<>>
        /\ \A h \in DOMAIN txStates : txStates'[h] = txStates[h]
    BY <1>2 DEF InsertState
  <1>4. txStates' \in [DOMAIN txStates' -> Seq(Ops)]
    <2>1. \A h \in DOMAIN txStates : txStates[h] \in Seq(Ops)
      BY DEF TypeOK
    <2>2. <<>> \in Seq(Ops)
      OBVIOUS
    <2> QED BY <2>1, <2>2 DEF InsertState
  <1>5. tx' \in [Transactions -> [at : Places, handle : 0..nextTx'-1]]
    <2>1. tx \in [Transactions -> [at : Places, handle : 0..nextTx'-1]]
      BY <1>2 DEF TypeOK, Places
    <2>2. [at |-> "callback", handle |-> nextTx] \in [at : Places, handle : 0..nextTx'-1]
      BY <1>1 DEF Places
    <2> QED BY <2>1, <2>2 DEF InsertState
  <1> QED BY <1>1, <1>2, <1>3, <1>4, <1>5

\* The table when an operation is pushed.
LEMMA PushType ==
    ASSUME TypeOK, NEW o \in Ops, Push(o), op[o].tx \in Transactions
    PROVE  /\ DOMAIN txStates' = DOMAIN txStates
           /\ txStates'[tx[op[o].tx].handle] = Append(txStates[tx[op[o].tx].handle], o)
           /\ \A h \in DOMAIN txStates :
                 h # tx[op[o].tx].handle => txStates'[h] = txStates[h]
           /\ txStates' \in [DOMAIN txStates' -> Seq(Ops)]
  <1> DEFINE k == tx[op[o].tx].handle
  <1>1. k \in DOMAIN txStates /\ txStates[k] \in Seq(Ops)
    BY DEF TypeOK, Push, Buffered
  <1>2. Append(txStates[k], o) \in Seq(Ops)
    BY <1>1
  <1>3. txStates' = [txStates EXCEPT ![k] = Append(txStates[k], o)]
    BY DEF Push
  <1> HIDE DEF k
  <1>4. txStates' \in [DOMAIN txStates -> Seq(Ops)]
    BY <1>1, <1>2, <1>3 DEF TypeOK
  <1>5. DOMAIN txStates' = DOMAIN txStates
    BY <1>3
  <1> QED BY <1>1, <1>3, <1>4, <1>5 DEF TypeOK, k

LEMMA NextTypeOK == TypeOK /\ [Next]_vars => TypeOK'
  <1> SUFFICES ASSUME TypeOK, [Next]_vars PROVE TypeOK'
    OBVIOUS
  <1> USE DEF TypeOK
  <1>1. CASE UNCHANGED vars
    BY <1>1 DEF vars, liveVars, txVars
  <1>2. CASE Drops
    BY <1>2 DEF Drops, DropEngine, ReleaseFile, liveVars, txVars
  <1>3. CASE Close
    BY <1>3 DEF Close, CloseOpen, CloseClosed, txVars
  <1>4. ASSUME NEW u \in Uses, UseStep(u) PROVE TypeOK'
    <2>1. use' \in [Uses -> [at : {"idle", "called", "holding", "ended"},
                             tx : Transactions \cup {NoTransaction}]]
      <3>1. \E place \in {"called", "holding", "ended"} : UseAt(u, place)
        BY <1>4 DEF UseStep, CheckHandle, Acquire, Finish
      <3> QED BY <3>1 DEF UseAt
    <2> QED BY <1>4, <2>1 DEF UseStep, CheckHandle, Acquire, Finish, liveVars, txVars
  <1>5. ASSUME NEW u \in Uses, NEW t \in Transactions \cup {NoTransaction}, CallUse(u, t)
        PROVE TypeOK'
    BY <1>5 DEF CallUse, liveVars, txVars
  <1>6. ASSUME NEW c \in Lives,
               CallLive(c) \/ LiveStep(c) \/ LiveCancel(c) \/ Reap(c)
        PROVE TypeOK'
    <2>1. /\ live' \in [Lives -> {"idle", "called", "holding", "registered", "resolved",
                                  "cancelled", "rejected"}]
          /\ UNCHANGED <<open, file, engine, use, late, forgotten, txVars>>
      BY <1>6 DEF CallLive, LiveStep, AcquireEngine, Register, Enter, LiveCancel, Reap, LiveAt
    <2>2. liveSubs' \in SUBSET Lives /\ core' \in SUBSET Lives /\ deaf' \in SUBSET Lives
      BY <1>6 DEF CallLive, LiveStep, AcquireEngine, Register, Enter, LiveCancel, Reap
    <2> QED BY <2>1, <2>2 DEF txVars
  <1>7. ASSUME NEW t \in Transactions,
               Transaction(t) \/ CallbackReturns(t) \/ CallbackThrows(t) \/ GrantBegin(t)
               \/ Settle(t)
        PROVE TypeOK'
    <2>1. tx' \in [Transactions -> [at : Places, handle : 0..nextTx-1]]
      <3>1. \E place \in Places : TxAt(t, place)
        BY <1>7 DEF Transaction, CallbackReturns, CallbackThrows, GrantBegin, Settle, Places
      <3> QED BY <3>1, TxAtType
    <2> QED BY <1>7, <2>1 DEF Transaction, CallbackReturns, CallbackThrows, GrantBegin,
                              Settle, liveVars, Places
  <1>8. ASSUME NEW t \in Transactions, InsertState(t) PROVE TypeOK'
    <2>1. UNCHANGED <<open, file, engine, use, liveVars, inTxn, replay, op>>
      BY <1>8 DEF InsertState
    <2>2. /\ nextTx' \in Nat \ {0}
          /\ txStates' \in [DOMAIN txStates' -> Seq(Ops)]
          /\ DOMAIN txStates' \in SUBSET (1..nextTx'-1)
          /\ tx' \in [Transactions -> [at : Places, handle : 0..nextTx'-1]]
      <3>1. /\ nextTx' = nextTx + 1
            /\ txStates' \in [DOMAIN txStates' -> Seq(Ops)]
            /\ DOMAIN txStates' \in SUBSET (1..nextTx'-1)
            /\ tx' \in [Transactions -> [at : Places, handle : 0..nextTx'-1]]
        BY <1>8, InsertType
      <3> QED BY <3>1
    <2> QED BY <2>1, <2>2 DEF liveVars, Places
  <1>9. ASSUME NEW t \in Transactions, TakeState(t) PROVE TypeOK'
    <2>1. tx' \in [Transactions -> [at : Places, handle : 0..nextTx-1]]
      BY <1>9, TxAtType DEF TakeState, Places
    <2>2. replay' \in [Transactions -> Seq(Ops)]
      BY <1>9 DEF TakeState, Buffered
    <2> QED BY <1>9, <2>1, <2>2, RemoveType DEF TakeState, liveVars, Places
  <1>10. ASSUME NEW t \in Transactions, Replay(t) PROVE TypeOK'
    <2>1. tx' \in [Transactions -> [at : Places, handle : 0..nextTx-1]]
      BY <1>10, TxAtType DEF Replay, Places
    <2>2. replay' \in [Transactions -> Seq(Ops)]
      <3>1. <<>> \in Seq(Ops)
        OBVIOUS
      <3> QED BY <1>10, <3>1 DEF Replay
    <2> QED BY <1>10, <2>1, <2>2 DEF Replay, liveVars, Places
  <1>11. ASSUME NEW t \in Transactions, DiscardState(t) PROVE TypeOK'
    <2>1. tx' \in [Transactions -> [at : Places, handle : 0..nextTx-1]]
      BY <1>11, TxAtType DEF DiscardState, Places
    <2> QED BY <1>11, <2>1, RemoveType DEF DiscardState, liveVars, Places
  <1>12. ASSUME NEW o \in Ops, NEW t \in Transactions, CallOp(o, t) PROVE TypeOK'
    <2>1. Acknowledged(t) \in SUBSET Ops
      BY DEF Acknowledged
    <2> QED BY <1>12, <2>1 DEF CallOp, liveVars
  <1>13. ASSUME NEW o \in Ops, Push(o) PROVE TypeOK'
    <2>1. op' \in [Ops -> [at : {"idle", "called", "acknowledged", "rejected"},
                           tx : Transactions \cup {NoTransaction}, after : SUBSET Ops]]
      BY <1>13 DEF Push
    <2>2. DOMAIN txStates' = DOMAIN txStates /\ txStates' \in [DOMAIN txStates -> Seq(Ops)]
      <3>1. Append(txStates[tx[op[o].tx].handle], o) \in Seq(Ops)
        BY <1>13 DEF Push, Buffered
      <3> QED BY <1>13, <3>1 DEF Push
    <2> QED BY <1>13, <2>1, <2>2 DEF Push, liveVars
  <1>14. ASSUME NEW o \in Ops, RefuseOp(o) PROVE TypeOK'
    BY <1>14 DEF RefuseOp, Idle, liveVars
  <1> QED BY <1>1, <1>2, <1>3, <1>4, <1>5, <1>6, <1>7, <1>8, <1>9, <1>10, <1>11, <1>12,
             <1>13, <1>14 DEF Next, TxStep, OpStep

\* Every reachable state is well typed.
THEOREM TypeCorrect == Spec => []TypeOK
  BY InitTypeOK, NextTypeOK, PTL DEF Spec

-----------------------------------------------------------------------------
(***************************************************************************)
(* Which transactions are where.                                           *)
(***************************************************************************)
Flagged == \A t \in Transactions : InProgress(t) => inTxn

Numbered ==
    /\ \A t \in Transactions :
          /\ tx[t].at \in {"idle", "nested", "beginning", "granted", "refused"}
                => tx[t].handle = 0
          /\ tx[t].at \in {"callback", "committing"} => Buffered(t)
          /\ Buffered(t) => tx[t].at \in {"callback", "committing", "rollingBack"}
    /\ \A t, u \in Transactions : Begun(t) /\ tx[t].handle = tx[u].handle => t = u

TxPlaces == OneTransaction /\ Flagged /\ Numbered

LEMMA TxUntouched ==
    ASSUME [Next]_vars
    PROVE  \/ UNCHANGED txVars
           \/ \E t \in Transactions :
                 \/ Transaction(t) \/ CallbackReturns(t) \/ CallbackThrows(t)
                 \/ GrantBegin(t) \/ InsertState(t) \/ TakeState(t) \/ Replay(t)
                 \/ DiscardState(t) \/ Settle(t)
           \/ \E o \in Ops : \/ Push(o) \/ RefuseOp(o)
                             \/ \E t \in Transactions : CallOp(o, t)
  <1>1. CASE UNCHANGED vars
    BY <1>1 DEF vars
  <1>2. CASE Drops \/ Close
    BY <1>2 DEF Drops, DropEngine, ReleaseFile, Close
  <1>3. ASSUME NEW u, NEW t, CallUse(u, t) \/ UseStep(u) PROVE UNCHANGED txVars
    BY <1>3 DEF CallUse, UseStep, CheckHandle, Acquire, Finish
  <1>4. ASSUME NEW c, CallLive(c) \/ LiveStep(c) \/ LiveCancel(c) \/ Reap(c)
        PROVE  UNCHANGED txVars
    BY <1>4 DEF CallLive, LiveStep, AcquireEngine, Register, Enter, LiveCancel, Reap
  <1> QED BY <1>1, <1>2, <1>3, <1>4 DEF Next, TxStep, OpStep

LEMMA TxAtFacts ==
    ASSUME TypeOK, NEW t \in Transactions, NEW place, TxAt(t, place)
    PROVE  /\ tx'[t].at = place
           /\ tx'[t].handle = tx[t].handle
           /\ \A u \in Transactions : u # t => tx'[u] = tx[u]
  BY DEF TypeOK, TxAt

LEMMA InitTxPlaces == Init => TxPlaces
  BY DEF Init, TxPlaces, OneTransaction, Flagged, Numbered, InProgress, Buffered, Begun

\* A step of a transaction that leaves the table alone.
LEMMA MovesPlaces ==
    ASSUME TypeOK, TxPlaces, NEW t \in Transactions,
           \/ Transaction(t) \/ CallbackReturns(t) \/ CallbackThrows(t)
           \/ GrantBegin(t) \/ Replay(t) \/ Settle(t)
    PROVE  TxPlaces'
  <1> USE DEF TxPlaces, OneTransaction, Flagged, Numbered, InProgress, Buffered, Begun
  <1>0. \A u \in Transactions : tx[u].handle \in Nat
    BY DEF TypeOK
  <1>1. CASE Transaction(t)
    <2>1. /\ tx[t].at = "idle"
          /\ tx'[t].at = IF inTxn THEN "nested" ELSE "beginning"
          /\ tx'[t].handle = tx[t].handle
          /\ \A u \in Transactions : u # t => tx'[u] = tx[u]
          /\ inTxn' /\ txStates' = txStates
      BY <1>1, TxAtFacts DEF Transaction
    <2>2. CASE inTxn
      BY <2>1, <2>2
    <2>3. CASE ~inTxn
      BY <2>1, <2>3
    <2> QED BY <2>2, <2>3
  <1>2. CASE CallbackReturns(t) \/ CallbackThrows(t)
    <2>1. /\ tx[t].at = "callback"
          /\ tx'[t].at \in {"committing", "rollingBack"}
          /\ tx'[t].handle = tx[t].handle
          /\ \A u \in Transactions : u # t => tx'[u] = tx[u]
          /\ inTxn' = inTxn /\ txStates' = txStates
      BY <1>2, TxAtFacts DEF CallbackReturns, CallbackThrows
    <2> QED BY <2>1
  <1>3. CASE GrantBegin(t)
    <2>1. /\ tx[t].at = "beginning"
          /\ tx'[t].at \in {"granted", "refused"}
          /\ tx'[t].handle = tx[t].handle
          /\ \A u \in Transactions : u # t => tx'[u] = tx[u]
          /\ inTxn' = inTxn /\ txStates' = txStates
      BY <1>3, TxAtFacts DEF GrantBegin
    <2> QED BY <2>1
  <1>4. CASE Replay(t)
    <2>1. /\ tx[t].at = "replaying"
          /\ tx'[t].at \in {"committed", "rollingBack"}
          /\ tx'[t].handle = tx[t].handle
          /\ \A u \in Transactions : u # t => tx'[u] = tx[u]
          /\ inTxn' = inTxn /\ txStates' = txStates
      BY <1>4, TxAtFacts DEF Replay
    <2> QED BY <2>1
  <1>5. CASE Settle(t)
    <2>1. /\ tx[t].at \in {"committed", "rolledBack", "refused"}
          /\ tx'[t].at \in {"resolved", "rejected"}
          /\ tx'[t].handle = tx[t].handle
          /\ \A u \in Transactions : u # t => tx'[u] = tx[u]
          /\ inTxn' = FALSE /\ txStates' = txStates
      BY <1>5, TxAtFacts DEF Settle
    <2> QED BY <2>1
  <1> QED BY <1>1, <1>2, <1>3, <1>4, <1>5

LEMMA NextTxPlaces == TypeOK /\ TxPlaces /\ [Next]_vars => TxPlaces'
  <1> SUFFICES ASSUME TypeOK, TxPlaces, [Next]_vars PROVE TxPlaces'
    OBVIOUS
  <1>0. \A u \in Transactions : tx[u].handle \in Nat
    BY DEF TypeOK
  <1> DEFINE TableKept == tx' = tx /\ inTxn' = inTxn /\ DOMAIN txStates' = DOMAIN txStates
  <1>1. ASSUME TableKept PROVE TxPlaces'
    BY <1>1 DEF TxPlaces, OneTransaction, Flagged, Numbered, InProgress, Buffered, Begun
  <1>2. CASE UNCHANGED txVars
    BY <1>1, <1>2 DEF txVars
  <1>3. ASSUME NEW o \in Ops, Push(o) \/ RefuseOp(o) \/ \E t \in Transactions : CallOp(o, t)
        PROVE TxPlaces'
    <2>1. TableKept
      BY <1>3 DEF Push, RefuseOp, CallOp
    <2> QED BY <1>1, <2>1
  <1>4. ASSUME NEW t \in Transactions,
               \/ Transaction(t) \/ CallbackReturns(t) \/ CallbackThrows(t)
               \/ GrantBegin(t) \/ Replay(t) \/ Settle(t)
        PROVE TxPlaces'
    BY <1>4, MovesPlaces
  <1>5. ASSUME NEW t \in Transactions, InsertState(t) PROVE TxPlaces'
    <2>1. /\ tx[t].at = "granted"
          /\ tx'[t].at = "callback" /\ tx'[t].handle = nextTx
          /\ \A u \in Transactions : u # t => tx'[u] = tx[u]
          /\ inTxn' = inTxn
          /\ DOMAIN txStates' = DOMAIN txStates \cup {nextTx}
      BY <1>5, InsertType DEF InsertState, TypeOK
    <2>2. /\ nextTx \in Nat \ {0} /\ nextTx \notin DOMAIN txStates
          /\ \A u \in Transactions : tx[u].handle # nextTx
      BY DEF TypeOK
    <2> QED BY <1>0, <2>1, <2>2
            DEF TxPlaces, OneTransaction, Flagged, Numbered, InProgress, Buffered, Begun
  <1>6. ASSUME NEW t \in Transactions, TakeState(t) \/ DiscardState(t) PROVE TxPlaces'
    <2>1. /\ \/ tx[t].at = "committing" /\ tx'[t].at = "replaying"
             \/ tx[t].at = "rollingBack" /\ tx'[t].at = "rolledBack"
          /\ tx'[t].handle = tx[t].handle
          /\ \A u \in Transactions : u # t => tx'[u] = tx[u]
          /\ inTxn' = inTxn
          /\ DOMAIN txStates' = DOMAIN txStates \ {tx[t].handle}
      BY <1>6, TxAtFacts, RemoveType DEF TakeState, DiscardState
    <2>2. \A u \in Transactions : Begun(u) /\ u # t => tx[u].handle # tx[t].handle
      BY DEF TxPlaces, Numbered
    <2>3. 0 \notin DOMAIN txStates
      BY DEF TypeOK
    <2> QED BY <1>0, <2>1, <2>2, <2>3
            DEF TxPlaces, OneTransaction, Flagged, Numbered, InProgress, Buffered, Begun
  <1> QED BY <1>2, <1>3, <1>4, <1>5, <1>6, TxUntouched

\* One transaction at a time, and no buffer without it.
THEOREM OneAtATime == Spec => []OneTransaction
  <1>1. Init => TypeOK /\ TxPlaces
    BY InitTypeOK, InitTxPlaces
  <1>2. TypeOK /\ TxPlaces /\ [Next]_vars => (TypeOK /\ TxPlaces)'
    BY NextTypeOK, NextTxPlaces
  <1>3. TxPlaces => OneTransaction
    BY DEF TxPlaces
  <1> QED BY <1>1, <1>2, <1>3, PTL DEF Spec

-----------------------------------------------------------------------------
(***************************************************************************)
(* What the buffers hold.                                                  *)
(***************************************************************************)
OpsKnown ==
    \A o \in Ops :
        /\ op[o].at \in {"called", "acknowledged"}
              => op[o].tx \in Transactions /\ Begun(op[o].tx)
        /\ \A p \in op[o].after : op[p].at = "acknowledged"

BuffersKept ==
    \A t \in Transactions : Buffered(t) =>
        /\ Range(txStates[tx[t].handle]) = Acknowledged(t)
        /\ InOrder(txStates[tx[t].handle])

TxContents == OpsKnown /\ BuffersKept /\ AckedIsWritten /\ AwaitedOrder

\* A sequence grows at its end.
LEMMA RangeOfAppend ==
    ASSUME NEW S, NEW s \in Seq(S), NEW e \in S
    PROVE  Range(Append(s, e)) = Range(s) \cup {e}
  <1>1. /\ DOMAIN Append(s, e) = DOMAIN s \cup {Len(s)+1}
        /\ \A i \in DOMAIN s : Append(s, e)[i] = s[i]
        /\ Append(s, e)[Len(s)+1] = e
    BY AppendProperties
  <1> QED BY <1>1 DEF Range

\* The operations of a sequence keep their order when others change.
LEMMA OrderKept ==
    ASSUME NEW s, InOrder(s), \A i \in DOMAIN s : op'[s[i]] = op[s[i]]
    PROVE  InOrder(s)'
  BY DEF InOrder

LEMMA InitTxContents == Init => TxContents
  <1> SUFFICES ASSUME Init PROVE TxContents
    OBVIOUS
  <1>1. OpsKnown
    BY DEF Init, OpsKnown, Idle
  <1>2. BuffersKept
    BY DEF Init, BuffersKept, Buffered
  <1>3. AckedIsWritten /\ AwaitedOrder
    BY DEF Init, AckedIsWritten, AwaitedOrder, InOrder
  <1> QED BY <1>1, <1>2, <1>3 DEF TxContents

\* A step that leaves operations, buffers and replays alone, and takes no
\* transaction into or out of its replay.
LEMMA ContentsKept ==
    ASSUME TxContents, op' = op, replay' = replay, txStates' = txStates,
           \A t \in Transactions :
               /\ tx'[t].handle = tx[t].handle
               /\ (tx'[t].at \in {"replaying", "committed", "resolved"}
                     <=> tx[t].at \in {"replaying", "committed", "resolved"})
    PROVE  TxContents'
  <1>1. OpsKnown'
    BY DEF TxContents, OpsKnown, Begun
  <1>2. \A t \in Transactions : Acknowledged(t)' = Acknowledged(t)
    BY DEF Acknowledged
  <1>3. BuffersKept'
    BY <1>2 DEF TxContents, BuffersKept, Buffered, InOrder
  <1>4. AckedIsWritten' /\ AwaitedOrder'
    BY <1>2 DEF TxContents, AckedIsWritten, AwaitedOrder, InOrder
  <1> QED BY <1>1, <1>3, <1>4 DEF TxContents

LEMMA MovesContents ==
    ASSUME TypeOK, TxPlaces, TxContents, NEW t \in Transactions,
           \/ Transaction(t) \/ CallbackReturns(t) \/ CallbackThrows(t)
           \/ GrantBegin(t) \/ Settle(t)
    PROVE  TxContents'
  <1>1. /\ op' = op /\ replay' = replay /\ txStates' = txStates
        /\ tx'[t].handle = tx[t].handle
        /\ \A u \in Transactions : u # t => tx'[u] = tx[u]
        /\ (tx'[t].at \in {"replaying", "committed", "resolved"}
              <=> tx[t].at \in {"replaying", "committed", "resolved"})
    <2>1. CASE Transaction(t) \/ GrantBegin(t)
      <3>1. /\ op' = op /\ replay' = replay /\ txStates' = txStates
            /\ tx[t].at \in {"idle", "beginning"}
            /\ \E place \in {"nested", "beginning", "granted", "refused"} : TxAt(t, place)
        BY <2>1 DEF Transaction, GrantBegin
      <3> QED BY <3>1, TxAtFacts
    <2>2. CASE CallbackReturns(t) \/ CallbackThrows(t)
      <3>1. /\ op' = op /\ replay' = replay /\ txStates' = txStates
            /\ tx[t].at = "callback"
            /\ \E place \in {"committing", "rollingBack"} : TxAt(t, place)
        BY <2>2 DEF CallbackReturns, CallbackThrows
      <3> QED BY <3>1, TxAtFacts
    <2>3. CASE Settle(t)
      <3>1. /\ op' = op /\ replay' = replay /\ txStates' = txStates
            /\ \/ tx[t].at = "committed" /\ TxAt(t, "resolved")
               \/ tx[t].at \in {"rolledBack", "refused"} /\ TxAt(t, "rejected")
        BY <2>3 DEF Settle
      <3> QED BY <3>1, TxAtFacts
    <2> QED BY <2>1, <2>2, <2>3
  <1>2. \A u \in Transactions :
            /\ tx'[u].handle = tx[u].handle
            /\ (tx'[u].at \in {"replaying", "committed", "resolved"}
                  <=> tx[u].at \in {"replaying", "committed", "resolved"})
    BY <1>1
  <1> QED BY <1>1, <1>2, ContentsKept

LEMMA InsertContents ==
    ASSUME TypeOK, TxPlaces, TxContents, NEW t \in Transactions, InsertState(t)
    PROVE  TxContents'
  <1>1. /\ tx[t].at = "granted"
        /\ tx'[t].at = "callback" /\ tx'[t].handle = nextTx
        /\ \A u \in Transactions : u # t => tx'[u] = tx[u]
        /\ op' = op /\ replay' = replay
        /\ nextTx # 0 /\ nextTx \notin DOMAIN txStates
    BY InsertType DEF InsertState, TypeOK
  <1>2. /\ DOMAIN txStates' = DOMAIN txStates \cup {nextTx}
        /\ txStates'[nextTx] = <<>>
        /\ \A h \in DOMAIN txStates : txStates'[h] = txStates[h]
    BY InsertType
  <1>3. tx[t].handle = 0
    BY <1>1 DEF TxPlaces, Numbered
  <1>4. OpsKnown'
    BY <1>1 DEF TxContents, OpsKnown, Begun
  <1>5. \A u \in Transactions : Acknowledged(u)' = Acknowledged(u)
    BY <1>1 DEF Acknowledged
  <1>6. Acknowledged(t) = {}
    BY <1>3 DEF Acknowledged, TxContents, OpsKnown, Begun
  <1>7. ASSUME NEW u \in Transactions, Buffered(u)'
        PROVE  /\ Range(txStates'[tx'[u].handle]) = Acknowledged(u)'
               /\ InOrder(txStates[tx[u].handle])'
    <2>1. CASE u = t
      <3>1. txStates'[tx'[u].handle] = <<>>
        BY <1>1, <1>2, <2>1
      <3> QED BY <1>5, <1>6, <2>1, <3>1 DEF Range, InOrder
    <2>2. CASE u # t
      <3>1. tx'[u] = tx[u] /\ tx[u].handle # nextTx
        BY <1>1, <2>2 DEF TypeOK
      <3>2. Buffered(u) /\ txStates'[tx'[u].handle] = txStates[tx[u].handle]
        BY <1>2, <1>7, <3>1 DEF Buffered
      <3> QED BY <1>1, <1>5, <3>2 DEF TxContents, BuffersKept, InOrder
    <2> QED BY <2>1, <2>2
  <1>8. BuffersKept'
    BY <1>7 DEF BuffersKept
  <1>9. AckedIsWritten' /\ AwaitedOrder'
    BY <1>1, <1>5 DEF TxContents, AckedIsWritten, AwaitedOrder, InOrder
  <1> QED BY <1>4, <1>8, <1>9 DEF TxContents

\* Buffers and replays hold acknowledged operations only, so what happens to
\* another operation does not touch their order.
LEMMA HeldAreAcknowledged ==
    ASSUME TypeOK, TxContents, NEW t \in Transactions
    PROVE  /\ \A i \in DOMAIN replay[t] :
                 replay[t][i] \in Ops /\ op[replay[t][i]].at = "acknowledged"
           /\ Buffered(t) => \A i \in DOMAIN txStates[tx[t].handle] :
                 /\ txStates[tx[t].handle][i] \in Ops
                 /\ op[txStates[tx[t].handle][i]].at = "acknowledged"
  <1>1. ASSUME NEW s, Range(s) = Acknowledged(t)
        PROVE  \A i \in DOMAIN s : s[i] \in Ops /\ op[s[i]].at = "acknowledged"
    BY <1>1 DEF Range, Acknowledged
  <1>2. Buffered(t) => Range(txStates[tx[t].handle]) = Acknowledged(t)
    BY DEF TxContents, BuffersKept
  <1>3. replay[t] = <<>> \/ Range(replay[t]) = Acknowledged(t)
    BY DEF TxContents, AckedIsWritten
  <1>4. CASE replay[t] = <<>>
    BY <1>1, <1>2, <1>4
  <1>5. CASE Range(replay[t]) = Acknowledged(t)
    BY <1>1, <1>2, <1>5
  <1> QED BY <1>3, <1>4, <1>5

\* An operation that is called or refused.
LEMMA CallContents ==
    ASSUME TypeOK, TxContents, NEW o \in Ops,
           RefuseOp(o) \/ \E t \in Transactions : CallOp(o, t)
    PROVE  TxContents'
  <1>1. /\ op[o].at \in {"idle", "called"}
        /\ op'[o].at \in {"called", "rejected"}
        /\ op'[o].at = "called" => op'[o].tx \in Transactions /\ Begun(op'[o].tx)
        /\ \A p \in op'[o].after : p \in Ops /\ op[p].at = "acknowledged"
        /\ \A p \in Ops : p # o => op'[p] = op[p]
        /\ UNCHANGED <<txStates, tx, replay>>
    <2>1. CASE RefuseOp(o)
      BY <2>1 DEF RefuseOp, Idle, TypeOK
    <2>2. ASSUME NEW t \in Transactions, CallOp(o, t)
          PROVE  /\ op[o].at = "idle"
                 /\ op'[o].at = "called"
                 /\ op'[o].tx \in Transactions /\ Begun(op'[o].tx)
                 /\ \A p \in op'[o].after : p \in Ops /\ op[p].at = "acknowledged"
                 /\ \A p \in Ops : p # o => op'[p] = op[p]
                 /\ UNCHANGED <<txStates, tx, replay>>
      <3>1. /\ op[o].at = "idle"
            /\ op'[o] = [at |-> "called", tx |-> t, after |-> Acknowledged(t)]
            /\ Begun(t)
            /\ \A p \in Ops : p # o => op'[p] = op[p]
            /\ UNCHANGED <<txStates, tx, replay>>
        BY <2>2 DEF CallOp, TypeOK
      <3>2. op'[o].at = "called" /\ op'[o].tx = t /\ op'[o].after = Acknowledged(t)
        BY <3>1
      <3> QED BY <3>1, <3>2 DEF Acknowledged
    <2>3. CASE \E t \in Transactions : CallOp(o, t)
      <3>1. PICK t \in Transactions : CallOp(o, t)
        BY <2>3
      <3> QED BY <2>2, <3>1
    <2> QED BY <2>1, <2>3
  <1>2. OpsKnown'
    <2>1. ASSUME NEW q \in Ops
          PROVE  /\ op'[q].at \in {"called", "acknowledged"}
                       => op'[q].tx \in Transactions /\ Begun(op'[q].tx)
                 /\ \A p \in op'[q].after : p \in Ops /\ op[p].at = "acknowledged"
      <3>1. CASE q = o
        BY <1>1, <3>1
      <3>2. CASE q # o
        <4>1. op'[q] = op[q] /\ op[q].after \subseteq Ops
          BY <1>1, <3>2 DEF TypeOK
        <4> QED BY <4>1 DEF TxContents, OpsKnown
      <3> QED BY <3>1, <3>2
    <2>2. \A p \in Ops : op[p].at = "acknowledged" => op'[p].at = "acknowledged"
      BY <1>1
    <2>3. \A q \in Ops : \A p \in op'[q].after : op'[p].at = "acknowledged"
      BY <2>1, <2>2
    <2>4. tx' = tx
      BY <1>1
    <2> QED BY <2>1, <2>3, <2>4 DEF OpsKnown, Begun
  <1>3. \A t \in Transactions : Acknowledged(t)' = Acknowledged(t)
    BY <1>1 DEF Acknowledged
  <1>4. ASSUME NEW t \in Transactions PROVE InOrder(replay[t])'
    <2>1. \A i \in DOMAIN replay[t] : op'[replay[t][i]] = op[replay[t][i]]
      BY <1>1, HeldAreAcknowledged
    <2>2. InOrder(replay[t])
      BY DEF TxContents, AwaitedOrder
    <2> QED BY <1>1, <2>1, <2>2 DEF InOrder
  <1>5. ASSUME NEW t \in Transactions, Buffered(t)
        PROVE  InOrder(txStates[tx[t].handle])'
    <2>1. \A i \in DOMAIN txStates[tx[t].handle] :
             op'[txStates[tx[t].handle][i]] = op[txStates[tx[t].handle][i]]
      BY <1>1, <1>5, HeldAreAcknowledged
    <2>2. InOrder(txStates[tx[t].handle])
      BY <1>5 DEF TxContents, BuffersKept
    <2> QED BY <1>1, <2>1, <2>2 DEF InOrder
  <1>6. BuffersKept'
    BY <1>1, <1>3, <1>5 DEF TxContents, BuffersKept, Buffered
  <1>7. AckedIsWritten' /\ AwaitedOrder'
    BY <1>1, <1>3, <1>4 DEF TxContents, AckedIsWritten, AwaitedOrder
  <1> QED BY <1>2, <1>6, <1>7 DEF TxContents

\* An operation that is pushed comes last, and no operation of the buffer had
\* waited for it.
LEMMA PushContents ==
    ASSUME TypeOK, TxPlaces, TxContents, NEW o \in Ops, Push(o)
    PROVE  TxContents'
  <1>a. PICK u \in Transactions : u = op[o].tx
    BY DEF Push, TxContents, OpsKnown
  <1>b. PICK k \in Nat : k = tx[u].handle
    BY DEF TypeOK
  <1>1. /\ op[o].at = "called"
        /\ u \in Transactions /\ Begun(u) /\ Buffered(u)
        /\ UNCHANGED <<tx, replay>>
    BY <1>a DEF Push, TxContents, OpsKnown
  <1>2. /\ op'[o].at = "acknowledged" /\ op'[o].tx = u /\ op'[o].after = op[o].after
        /\ \A p \in Ops : p # o => op'[p] = op[p]
    BY <1>a DEF Push, TypeOK
  <1>3. /\ DOMAIN txStates' = DOMAIN txStates
        /\ txStates'[k] = Append(txStates[k], o)
        /\ \A h \in DOMAIN txStates : h # k => txStates'[h] = txStates[h]
    BY <1>a, <1>b, <1>1, PushType
  <1>4. /\ Acknowledged(u)' = Acknowledged(u) \cup {o}
        /\ \A t \in Transactions : t # u => Acknowledged(t)' = Acknowledged(t)
    BY <1>1, <1>2 DEF Acknowledged
  <1>5. \A p \in Ops : op'[p].after = op[p].after
    BY <1>2
  <1>6. OpsKnown'
    <2>1. ASSUME NEW q \in Ops, op'[q].at \in {"called", "acknowledged"}
          PROVE  op'[q].tx \in Transactions /\ Begun(op'[q].tx)
      BY <1>1, <1>2, <2>1 DEF TxContents, OpsKnown
    <2>2. ASSUME NEW q \in Ops, NEW p \in op'[q].after
          PROVE  op'[p].at = "acknowledged"
      <3>1. p \in op[q].after
        BY <1>5
      <3>2. p \in Ops
        BY <3>1 DEF TypeOK
      <3>3. op[p].at = "acknowledged"
        BY <3>1 DEF TxContents, OpsKnown
      <3> QED BY <1>2, <3>2, <3>3
    <2>3. tx' = tx
      BY <1>1
    <2> QED BY <2>1, <2>2, <2>3 DEF OpsKnown, Begun
  <1>7. ASSUME NEW s, InOrder(s), \A i \in DOMAIN s : s[i] \in Ops
        PROVE  InOrder(s) /\ \A i, j \in DOMAIN s :
                   i < j => s[i] # s[j] /\ s[j] \notin op'[s[i]].after
    BY <1>5, <1>7 DEF InOrder
  <1>8. AwaitedOrder'
    <2>1. \A t \in Transactions : InOrder(replay[t]) /\ \A i \in DOMAIN replay[t] : replay[t][i] \in Ops
      BY HeldAreAcknowledged DEF TxContents, AwaitedOrder
    <2> QED BY <1>1, <1>7, <2>1 DEF AwaitedOrder, InOrder
  <1>9. AckedIsWritten'
    <2>1. tx[u].at \notin {"replaying", "committed", "resolved"}
      BY <1>1 DEF TxPlaces, Numbered
    <2> QED BY <1>1, <1>4, <2>1 DEF TxContents, AckedIsWritten
  <1>10. ASSUME NEW t \in Transactions, Buffered(t)'
         PROVE  /\ Range(txStates'[tx'[t].handle]) = Acknowledged(t)'
                /\ InOrder(txStates[tx[t].handle])'
    <2>1. CASE t # u
      <3>1. Buffered(t) /\ tx[t].handle # k /\ txStates'[tx[t].handle] = txStates[tx[t].handle]
        <4>1. Buffered(t)
          BY <1>1, <1>3, <1>10 DEF Buffered
        <4>2. tx[t].handle # k
          BY <1>b, <1>1, <2>1 DEF TxPlaces, Numbered
        <4> QED BY <1>3, <4>1, <4>2 DEF Buffered
      <3>2. InOrder(txStates[tx[t].handle]) /\ Range(txStates[tx[t].handle]) = Acknowledged(t)
        BY <3>1 DEF TxContents, BuffersKept
      <3>3. \A i \in DOMAIN txStates[tx[t].handle] : txStates[tx[t].handle][i] \in Ops
        BY <3>1, HeldAreAcknowledged
      <3> QED BY <1>1, <1>4, <1>7, <2>1, <3>1, <3>2, <3>3 DEF InOrder
    <2>2. CASE t = u
      <3> DEFINE s == txStates[k]
                 a == Append(s, o)
      <3>1. s \in Seq(Ops) /\ InOrder(s) /\ Range(s) = Acknowledged(u)
        BY <1>b, <1>1 DEF TypeOK, Buffered, TxContents, BuffersKept
      <3>2. /\ DOMAIN s = 1..Len(s) /\ Len(s) \in Nat
            /\ DOMAIN a = 1..Len(s)+1
            /\ \A i \in 1..Len(s) : a[i] = s[i]
            /\ a[Len(s)+1] = o
        BY <3>1, AppendProperties
      <3>3. Range(a) = Acknowledged(u)'
        BY <1>4, <3>1, RangeOfAppend
      <3>4. \A i \in DOMAIN s : s[i] \in Ops /\ op[s[i]].at = "acknowledged"
        BY <1>b, <1>1, HeldAreAcknowledged
      <3>5. \A i \in DOMAIN s : s[i] # o /\ o \notin op'[s[i]].after
        BY <1>1, <1>5, <3>4 DEF TxContents, OpsKnown
      <3>6. \A i, j \in DOMAIN s : i < j => s[i] # s[j] /\ s[j] \notin op'[s[i]].after
        BY <1>7, <3>1, <3>4
      <3>7. tx'[t].handle = k /\ txStates'[tx'[t].handle] = a
        BY <1>b, <1>1, <1>3, <2>2
      <3>9. Acknowledged(t)' = Acknowledged(u)'
        BY <2>2
      <3> HIDE DEF s, a
      <3>8. ASSUME NEW i \in DOMAIN a, NEW j \in DOMAIN a, i < j
            PROVE  a[i] # a[j] /\ a[j] \notin op'[a[i]].after
        <4>1. i \in DOMAIN s /\ a[i] = s[i]
          BY <3>2, <3>8
        <4>2. (j \in DOMAIN s /\ a[j] = s[j]) \/ a[j] = o
          BY <3>2, <3>8
        <4> QED BY <3>5, <3>6, <3>8, <4>1, <4>2
      <3> QED BY <3>3, <3>7, <3>8, <3>9 DEF InOrder
    <2> QED BY <2>1, <2>2
  <1>11. BuffersKept'
    BY <1>10 DEF BuffersKept
  <1> QED BY <1>6, <1>8, <1>9, <1>11 DEF TxContents

\* Taking or dropping a buffer; the other buffers are as they were.
LEMMA RemoveContents ==
    ASSUME TypeOK, TxPlaces, TxContents, NEW t \in Transactions,
           TakeState(t) \/ DiscardState(t)
    PROVE  TxContents'
  <1>1. /\ tx'[t].handle = tx[t].handle
        /\ \A u \in Transactions : u # t => tx'[u] = tx[u]
        /\ op' = op
        /\ DOMAIN txStates' = DOMAIN txStates \ {tx[t].handle}
        /\ \A h \in DOMAIN txStates' : txStates'[h] = txStates[h]
    BY TxAtFacts, RemoveType DEF TakeState, DiscardState
  <1>2. \A u \in Transactions : Acknowledged(u)' = Acknowledged(u)
    BY <1>1 DEF Acknowledged
  <1>3. \A u \in Transactions : tx'[u].handle = tx[u].handle
    BY <1>1
  <1>4. OpsKnown'
    BY <1>1, <1>3 DEF TxContents, OpsKnown, Begun
  <1>5. ASSUME NEW u \in Transactions, Buffered(u)'
        PROVE  /\ Range(txStates'[tx'[u].handle]) = Acknowledged(u)'
               /\ InOrder(txStates[tx[u].handle])'
    <2>1. Buffered(u) /\ txStates'[tx'[u].handle] = txStates[tx[u].handle]
      BY <1>1, <1>3, <1>5 DEF Buffered
    <2> QED BY <1>1, <1>2, <2>1 DEF TxContents, BuffersKept, InOrder
  <1>6. BuffersKept'
    BY <1>5 DEF BuffersKept
  <1>7. CASE TakeState(t)
    <2>1. /\ Buffered(t)
          /\ tx'[t].at = "replaying"
          /\ replay'[t] = txStates[tx[t].handle]
          /\ \A u \in Transactions : u # t => replay'[u] = replay[u]
      BY <1>7, TxAtFacts DEF TakeState, TypeOK
    <2>2. Range(replay'[t]) = Acknowledged(t) /\ InOrder(txStates[tx[t].handle])
      BY <2>1 DEF TxContents, BuffersKept
    <2>3. AckedIsWritten'
      BY <1>1, <1>2, <2>1, <2>2 DEF TxContents, AckedIsWritten
    <2>4. ASSUME NEW u \in Transactions PROVE InOrder(replay[u])'
      <3>1. CASE u = t
        BY <1>1, <2>1, <2>2, <3>1 DEF InOrder
      <3>2. CASE u # t
        BY <1>1, <2>1, <3>2 DEF TxContents, AwaitedOrder, InOrder
      <3> QED BY <3>1, <3>2
    <2> QED BY <1>4, <1>6, <2>3, <2>4 DEF TxContents, AwaitedOrder
  <1>8. CASE DiscardState(t)
    <2>1. /\ tx[t].at = "rollingBack" /\ tx'[t].at = "rolledBack"
          /\ replay' = replay
      BY <1>8, TxAtFacts DEF DiscardState
    <2>2. AckedIsWritten'
      BY <1>1, <1>2, <2>1 DEF TxContents, AckedIsWritten
    <2>3. AwaitedOrder'
      BY <1>1, <2>1 DEF TxContents, AwaitedOrder, InOrder
    <2> QED BY <1>4, <1>6, <2>2, <2>3 DEF TxContents
  <1> QED BY <1>7, <1>8

LEMMA ReplayContents ==
    ASSUME TypeOK, TxPlaces, TxContents, NEW t \in Transactions, Replay(t)
    PROVE  TxContents'
  <1>1. /\ tx[t].at = "replaying"
        /\ tx'[t].handle = tx[t].handle
        /\ \A u \in Transactions : u # t => tx'[u] = tx[u] /\ replay'[u] = replay[u]
        /\ \/ tx'[t].at = "committed" /\ replay'[t] = replay[t]
           \/ tx'[t].at = "rollingBack" /\ replay'[t] = <<>>
        /\ op' = op /\ txStates' = txStates
    BY TxAtFacts DEF Replay, TypeOK
  <1>2. \A u \in Transactions : Acknowledged(u)' = Acknowledged(u)
    BY <1>1 DEF Acknowledged
  <1>3. \A u \in Transactions : tx'[u].handle = tx[u].handle
    BY <1>1
  <1>4. OpsKnown'
    BY <1>1, <1>3 DEF TxContents, OpsKnown, Begun
  <1>5. BuffersKept'
    BY <1>1, <1>2, <1>3 DEF TxContents, BuffersKept, Buffered, InOrder
  <1>6. AckedIsWritten'
    BY <1>1, <1>2 DEF TxContents, AckedIsWritten
  <1>7. ASSUME NEW u \in Transactions PROVE InOrder(replay[u])'
    <2>1. replay'[u] = replay[u] \/ replay'[u] = <<>>
      BY <1>1
    <2>2. InOrder(replay[u])
      BY DEF TxContents, AwaitedOrder
    <2> QED BY <1>1, <2>1, <2>2 DEF InOrder
  <1> QED BY <1>4, <1>5, <1>6, <1>7 DEF TxContents, AwaitedOrder

LEMMA NextTxContents == TypeOK /\ TxPlaces /\ TxContents /\ [Next]_vars => TxContents'
  <1> SUFFICES ASSUME TypeOK, TxPlaces, TxContents, [Next]_vars PROVE TxContents'
    OBVIOUS
  <1>1. CASE UNCHANGED txVars
    <2>1. op' = op /\ replay' = replay /\ txStates' = txStates /\ tx' = tx
      BY <1>1 DEF txVars
    <2> QED BY <2>1, ContentsKept
  <1> QED BY <1>1, TxUntouched, MovesContents, InsertContents, RemoveContents,
             ReplayContents, CallContents, PushContents

(***************************************************************************)
(* The file.                                                               *)
(***************************************************************************)
FileKept ==
    /\ open => engine
    /\ engine => file
    /\ DOMAIN txStates # {} => file
    /\ FileOutlivesWork

LEMMA InitFile == Init => FileKept
  BY DEF Init, FileKept, FileOutlivesWork

\* The last clone is dropped.
LEMMA DropsFile ==
    ASSUME TypeOK, TxPlaces, FileKept, Drops
    PROVE  FileKept'
  <1> USE DEF FileKept, FileOutlivesWork
  <1>1. CASE DropEngine
    BY <1>1 DEF DropEngine, EngineHeld, txVars
  <1>2. CASE ReleaseFile
    <2>1. /\ ~open /\ ~engine /\ DOMAIN txStates = {}
          /\ \A u \in Uses : use[u].at # "holding"
          /\ \A t \in Transactions : tx[t].at \notin {"granted", "replaying"}
          /\ UNCHANGED <<open, engine, use, live, tx, txStates>>
      BY <1>2 DEF ReleaseFile, DatabaseHeld, liveVars, txVars
    <2>2. \A t \in Transactions : tx[t].at \notin {"callback", "committing"}
      BY <2>1 DEF TxPlaces, Numbered, Buffered
    <2>3. \A c \in Lives : live[c] # "holding"
      BY <2>1
    <2> QED BY <2>1, <2>2, <2>3
  <1> QED BY <1>1, <1>2 DEF Drops

\* Calls get their clones from who has one.
LEMMA CallsFile ==
    ASSUME TypeOK, FileKept,
           \/ Close
           \/ \E u \in Uses : UseStep(u) \/ \E t \in Transactions \cup {NoTransaction} : CallUse(u, t)
           \/ \E c \in Lives : CallLive(c) \/ LiveStep(c) \/ LiveCancel(c) \/ Reap(c)
    PROVE  FileKept'
  <1> USE DEF FileKept, FileOutlivesWork
  <1>1. CASE Close
    BY <1>1 DEF Close, CloseOpen, CloseClosed, txVars
  <1>2. ASSUME NEW u \in Uses, NEW place,
               use'[u].at = place, place = "holding" => open \/ use[u].at = "holding",
               \A v \in Uses : v # u => use'[v] = use[v],
               UNCHANGED <<open, file, engine, live, tx, txStates>>
        PROVE  FileKept'
    BY <1>2
  <1>3. ASSUME NEW u \in Uses, UseStep(u) PROVE FileKept'
    <2>1. /\ \E place : use'[u].at = place /\ (place = "holding" => open \/ use[u].at = "holding")
          /\ \A v \in Uses : v # u => use'[v] = use[v]
          /\ UNCHANGED <<open, file, engine, live, tx, txStates>>
      BY <1>3 DEF UseStep, CheckHandle, Acquire, Finish, UseAt, TypeOK, liveVars, txVars
    <2> QED BY <1>2, <2>1
  <1>4. ASSUME NEW u \in Uses, NEW t, CallUse(u, t) PROVE FileKept'
    <2>1. /\ use'[u].at = "called"
          /\ \A v \in Uses : v # u => use'[v] = use[v]
          /\ UNCHANGED <<open, file, engine, live, tx, txStates>>
      BY <1>4 DEF CallUse, TypeOK, liveVars, txVars
    <2> QED BY <1>2, <2>1
  <1>5. ASSUME NEW c \in Lives, CallLive(c) \/ LiveStep(c) \/ LiveCancel(c) \/ Reap(c)
        PROVE  FileKept'
    <2>1. /\ live'[c] = "holding" => open \/ live[c] = "holding"
          /\ \A d \in Lives : d # c => live'[d] = live[d]
          /\ UNCHANGED <<open, file, engine, use, tx, txStates>>
      BY <1>5 DEF CallLive, LiveStep, AcquireEngine, Register, Enter, LiveCancel, Reap,
                  LiveAt, TypeOK, txVars
    <2> QED BY <2>1
  <1> QED BY <1>1, <1>3, <1>4, <1>5

\* A transaction keeps its clone from begin to the end of its replay.
LEMMA TransactionsFile ==
    ASSUME TypeOK, FileKept, NEW t \in Transactions,
           Transaction(t) \/ CallbackReturns(t) \/ CallbackThrows(t) \/ TxStep(t)
    PROVE  FileKept'
  <1> USE DEF FileKept, FileOutlivesWork
  <1> DEFINE Cloned == {"granted", "callback", "committing", "replaying"}
  <1>1. /\ tx'[t].at \in Cloned => open \/ tx[t].at \in Cloned
        /\ \A u \in Transactions : u # t => tx'[u] = tx[u]
        /\ UNCHANGED <<open, file, engine, use, live>>
    <2>1. CASE Transaction(t)
      <3>1. \E place \in {"nested", "beginning"} : TxAt(t, place)
        BY <2>1 DEF Transaction
      <3> QED BY <2>1, <3>1, TxAtFacts DEF Transaction, liveVars
    <2>2. CASE CallbackReturns(t) \/ CallbackThrows(t)
      <3>1. tx[t].at \in Cloned /\ \E place \in {"committing", "rollingBack"} : TxAt(t, place)
        BY <2>2 DEF CallbackReturns, CallbackThrows
      <3> QED BY <2>2, <3>1, TxAtFacts DEF CallbackReturns, CallbackThrows, liveVars
    <2>3. CASE GrantBegin(t)
      <3>1. \E place \in {"granted", "refused"} : TxAt(t, place) /\ (place = "granted" => open)
        BY <2>3 DEF GrantBegin
      <3> QED BY <2>3, <3>1, TxAtFacts DEF GrantBegin, liveVars
    <2>4. CASE InsertState(t)
      BY <2>4 DEF InsertState, liveVars, TypeOK
    <2>5. CASE TakeState(t) \/ Replay(t)
      <3>1. tx[t].at \in Cloned
            /\ \E place \in {"replaying", "committed", "rollingBack"} : TxAt(t, place)
        BY <2>5 DEF TakeState, Replay
      <3> QED BY <2>5, <3>1, TxAtFacts DEF TakeState, Replay, liveVars
    <2>6. CASE DiscardState(t) \/ Settle(t)
      <3>1. \E place \in {"rolledBack", "resolved", "rejected"} : TxAt(t, place)
        BY <2>6 DEF DiscardState, Settle
      <3> QED BY <2>6, <3>1, TxAtFacts DEF DiscardState, Settle, liveVars
    <2> QED BY <2>1, <2>2, <2>3, <2>4, <2>5, <2>6 DEF TxStep
  <1>2. DOMAIN txStates' # {} => DOMAIN txStates # {} \/ tx[t].at \in Cloned
    <2>1. CASE InsertState(t)
      BY <2>1 DEF InsertState
    <2>2. CASE TakeState(t) \/ DiscardState(t)
      BY <2>2, RemoveType DEF TakeState, DiscardState
    <2>3. CASE \/ Transaction(t) \/ CallbackReturns(t) \/ CallbackThrows(t)
               \/ GrantBegin(t) \/ Replay(t) \/ Settle(t)
      BY <2>3 DEF Transaction, CallbackReturns, CallbackThrows, GrantBegin, Replay, Settle
    <2> QED BY <2>1, <2>2, <2>3 DEF TxStep
  <1>3. file \/ (~open /\ tx[t].at \notin Cloned)
    <2>1. tx[t].at \in Cloned => file
      OBVIOUS
    <2>2. open => file
      OBVIOUS
    <2> QED BY <2>1, <2>2
  <1> QED BY <1>1, <1>2, <1>3

LEMMA NextFile == TypeOK /\ TxPlaces /\ FileKept /\ [Next]_vars => FileKept'
  <1> SUFFICES ASSUME TypeOK, TxPlaces, FileKept, [Next]_vars PROVE FileKept'
    OBVIOUS
  <1>1. CASE UNCHANGED vars
    BY <1>1 DEF vars, FileKept, FileOutlivesWork, liveVars, txVars
  <1>2. ASSUME NEW o \in Ops, OpStep(o) \/ \E t \in Transactions : CallOp(o, t)
        PROVE  FileKept'
    <2>1. DOMAIN txStates' = DOMAIN txStates /\ UNCHANGED <<open, file, engine, use, live, tx>>
      BY <1>2 DEF OpStep, Push, RefuseOp, CallOp, liveVars
    <2> QED BY <2>1 DEF FileKept, FileOutlivesWork
  <1> QED BY <1>1, <1>2, DropsFile, CallsFile, TransactionsFile DEF Next

(***************************************************************************)
(* Together.                                                               *)
(***************************************************************************)
IInv == TypeOK /\ TxPlaces /\ TxContents /\ FileKept

\* The strengthened invariant of transactions, buffers and file is inductive.
THEOREM Invariant == Spec => []IInv
  <1>1. Init => IInv
    BY InitTypeOK, InitTxPlaces, InitTxContents, InitFile DEF IInv
  <1>2. IInv /\ [Next]_vars => IInv'
    BY NextTypeOK, NextTxPlaces, NextTxContents, NextFile DEF IInv
  <1> QED BY <1>1, <1>2, PTL DEF Spec

\* What a transaction acknowledged is what it writes, if it commits, each
\* operation once and after those that were awaited before it was called.
THEOREM NothingAcknowledgedIsLost == Spec => []ReplayIsFaithful
  <1>1. IInv => ReplayIsFaithful
    BY DEF IInv, TxContents, ReplayIsFaithful
  <1> QED BY <1>1, Invariant, PTL

\* No work finds its file released.
THEOREM FileStaysForWork == Spec => []FileOutlivesWork
  <1>1. IInv => FileOutlivesWork
    BY DEF IInv, FileKept
  <1> QED BY <1>1, Invariant, PTL

-----------------------------------------------------------------------------
(***************************************************************************)
(* Live queries and close. The conjuncts of RegistryInStep are about       *)
(* resolved calls; a call under way must carry what they will need.        *)
(***************************************************************************)
LivePlaces ==
    /\ \A c \in liveSubs : live[c] = "resolved"
    /\ \A c \in deaf \cup forgotten : live[c] \in {"resolved", "cancelled"}
    /\ open => \A c \in Lives : live[c] = "registered" => c \in core
    /\ ~open => \A c \in Lives : live[c] \in {"holding", "registered"} => c \in late

\* Only these actions touch the live queries.
LEMMA LiveUntouched ==
    ASSUME [Next]_vars
    PROVE  \/ UNCHANGED <<open, engine, liveVars>>
           \/ DropEngine
           \/ Close
           \/ \E c \in Lives : \/ CallLive(c) \/ AcquireEngine(c) \/ Register(c)
                               \/ Enter(c) \/ LiveCancel(c) \/ Reap(c)
  <1>1. CASE UNCHANGED vars
    BY <1>1 DEF vars
  <1>2. CASE Drops
    BY <1>2 DEF Drops, ReleaseFile
  <1>3. ASSUME NEW u \in Uses, UseStep(u) PROVE UNCHANGED <<open, engine, liveVars>>
    BY <1>3 DEF UseStep, CheckHandle, Acquire, Finish
  <1>4. ASSUME NEW u, NEW t, CallUse(u, t) PROVE UNCHANGED <<open, engine, liveVars>>
    BY <1>4 DEF CallUse
  <1>5. ASSUME NEW t \in Transactions,
               Transaction(t) \/ CallbackReturns(t) \/ CallbackThrows(t) \/ TxStep(t)
        PROVE  UNCHANGED <<open, engine, liveVars>>
    BY <1>5 DEF Transaction, CallbackReturns, CallbackThrows, TxStep, GrantBegin,
                InsertState, TakeState, Replay, DiscardState, Settle
  <1>6. ASSUME NEW o \in Ops, OpStep(o) PROVE UNCHANGED <<open, engine, liveVars>>
    BY <1>6 DEF OpStep, Push, RefuseOp
  <1>7. ASSUME NEW o, NEW t, CallOp(o, t) PROVE UNCHANGED <<open, engine, liveVars>>
    BY <1>7 DEF CallOp
  <1> QED BY <1>1, <1>2, <1>3, <1>4, <1>5, <1>6, <1>7 DEF Next, LiveStep

LEMMA InitLive == Init => LivePlaces /\ RegistryInStep
  BY DEF Init, LivePlaces, RegistryInStep

LEMMA NextLive ==
    IInv /\ LivePlaces /\ RegistryInStep /\ [Next]_vars =>
        LivePlaces' /\ RegistryInStep'
  <1> SUFFICES ASSUME IInv, LivePlaces, RegistryInStep, [Next]_vars
               PROVE  LivePlaces' /\ RegistryInStep'
    OBVIOUS
  <1>0. /\ live \in [Lives -> {"idle", "called", "holding", "registered", "resolved",
                               "cancelled", "rejected"}]
        /\ liveSubs \in SUBSET Lives /\ core \in SUBSET Lives
        /\ deaf \in SUBSET Lives /\ late \in SUBSET Lives /\ forgotten \in SUBSET Lives
    BY DEF IInv, TypeOK
  <1> USE DEF LivePlaces, RegistryInStep, LiveAt
  <1>1. CASE UNCHANGED <<open, engine, liveVars>>
    BY <1>1 DEF liveVars
  <1>2. CASE DropEngine
    <2>1. ~open /\ \A c \in Lives : live[c] # "holding"
      BY <1>2 DEF DropEngine, EngineHeld
    <2> QED BY <1>0, <1>2, <2>1 DEF DropEngine
  <1>3. CASE Close
    <2>1. CASE CloseOpen
      BY <1>0, <1>3, <2>1 DEF Close, CloseOpen
    <2>2. CASE CloseClosed
      BY <1>0, <1>3, <2>2 DEF Close, CloseClosed
    <2> QED BY <1>3, <2>1, <2>2 DEF Close
  <1>4. ASSUME NEW c \in Lives, CallLive(c) PROVE LivePlaces' /\ RegistryInStep'
    BY <1>0, <1>4 DEF CallLive
  <1>5. ASSUME NEW c \in Lives, AcquireEngine(c) PROVE LivePlaces' /\ RegistryInStep'
    BY <1>0, <1>5 DEF AcquireEngine
  <1>6. ASSUME NEW c \in Lives, Register(c) PROVE LivePlaces' /\ RegistryInStep'
    <2>1. engine
      BY <1>6 DEF Register, IInv, FileKept, FileOutlivesWork
    <2> QED BY <1>0, <1>6, <2>1 DEF Register
  <1>7. ASSUME NEW c \in Lives, Enter(c) PROVE LivePlaces' /\ RegistryInStep'
    BY <1>0, <1>7 DEF Enter
  <1>8. ASSUME NEW c \in Lives, LiveCancel(c) PROVE LivePlaces' /\ RegistryInStep'
    BY <1>0, <1>8 DEF LiveCancel
  <1>9. ASSUME NEW c \in Lives, Reap(c) PROVE LivePlaces' /\ RegistryInStep'
    BY <1>0, <1>9 DEF Reap
  <1> QED BY <1>1, <1>2, <1>3, <1>4, <1>5, <1>6, <1>7, <1>8, <1>9, LiveUntouched

\* Registry, engine and sinks agree, whatever close interrupts and however often
\* it is called.
THEOREM RegistryStaysInStep == Spec => []RegistryInStep
  <1>1. Init => LivePlaces /\ RegistryInStep
    BY InitLive
  <1>2. IInv /\ LivePlaces /\ RegistryInStep /\ [Next]_vars
          => (LivePlaces /\ RegistryInStep)'
    BY NextLive
  <1> QED BY <1>1, <1>2, Invariant, PTL DEF Spec
=============================================================================
