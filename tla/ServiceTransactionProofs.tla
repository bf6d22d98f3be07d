----------------------- MODULE ServiceTransactionProofs -----------------------
(***************************************************************************)
(* Proofs about ServiceTransaction, for calls nested to any depth, any     *)
(* number of retries and any set of writes.                                *)
(***************************************************************************)
EXTENDS ServiceTransaction, TLAPS

-----------------------------------------------------------------------------
(* The inductive invariant.                                                *)

(* A call that began a transaction runs in its own and has suspended the   *)
(* one its caller runs in; any other call runs in the one of its caller.   *)
(* A change set always begins a transaction.                               *)
Linked(d) ==
    /\ frame[d].tx \in 0..d
    /\ frame[d].began => frame[d].tx = d /\ frame[d].parent = Seen(d - 1)
    /\ ~frame[d].began => frame[d].tx = Seen(d - 1)
    /\ frame[d].kind = "changeset" => frame[d].began

Chain == \A d \in Depths : d <= depth => Linked(d)

(* What was written in transaction t. *)
WrittenIn(t) == IF t = 0 THEN {} ELSE tx[t].writes

(* A call answers only for writes of the transaction it runs in. *)
Accounted == \A d \in Depths : d <= depth => log[d] \subseteq WrittenIn(frame[d].tx)

(* A write is in one place, and a transaction with a write of a failed     *)
(* call can only be rolled back.                                           *)
Apart ==
    /\ \A t \in Depths : tx[t].writes \cap durable = {}
    /\ \A t \in Depths : ~tx[t].marked => tx[t].writes \cap undone = {}
    /\ \A s, t \in Depths : s # t => tx[s].writes \cap tx[t].writes = {}

IInv == TypeOK /\ ThreadTx /\ Chain /\ Accounted /\ Apart /\ UndoneStaysOut

-----------------------------------------------------------------------------
(* The call on top of the stack.                                           *)

(* The running call is in the transaction of the thread, and what it       *)
(* answers for was written there.                                          *)
LEMMA Top ==
    ASSUME IInv, depth > 0
    PROVE  /\ depth \in Depths
           /\ depth \in Nat
           /\ frame[depth] \in Frame
           /\ Linked(depth)
           /\ cur = frame[depth].tx
           /\ log[depth] \in SUBSET Writes
           /\ log[depth] \subseteq WrittenIn(cur)
<1>1. depth \in Depths /\ depth \in Nat
  BY DepthAssumption DEF IInv, TypeOK, Depths
<1>2. frame[depth] \in Frame /\ Linked(depth) /\ cur = frame[depth].tx
  BY <1>1 DEF IInv, TypeOK, Chain, ThreadTx, Seen
<1> QED BY <1>1, <1>2 DEF IInv, TypeOK, Accounted

(* When it ends, the thread is in the transaction of its caller again. *)
LEMMA Resumes ==
    ASSUME IInv, depth > 0
    PROVE  resume = Seen(depth - 1)
BY Top DEF resume, Linked

(* The transactions the operators of TransactionUtil produce. *)
LEMMA TxTypes ==
    ASSUME IInv
    PROVE  Closed \in [Depths -> Tx] /\ setRollbackOnly \in [Depths -> Tx]
<1>1. NoTx \in Tx
  BY DEF NoTx, Tx
<1>2. ASSUME NEW t \in Depths
      PROVE  [open |-> tx[t].open, marked |-> TRUE, writes |-> tx[t].writes] \in Tx
  BY DEF IInv, TypeOK, Tx
<1> QED BY <1>1, <1>2 DEF IInv, TypeOK, Closed, setRollbackOnly

(* The end of a call restores the stack, the thread's transaction and the  *)
(* accounts, provided only the thread's transaction has changed and, when  *)
(* it is not the call's own, kept its writes.                              *)
LEMMA PopStep ==
    ASSUME IInv, depth > 0, NEW a \in SUBSET Writes, a \subseteq log[depth], Pop(a),
           \A t \in Depths : t # cur => tx'[t] = tx[t],
           ~frame[depth].began =>
               \A t \in Depths : tx'[t].writes = tx[t].writes
    PROVE  /\ depth' \in 0..MaxDepth
           /\ frame' \in [Depths -> Frame]
           /\ cur' \in 0..MaxDepth
           /\ log' \in [Depths -> SUBSET Writes]
           /\ ThreadTx'
           /\ Chain'
           /\ Accounted'
<1> DEFINE p == depth - 1
<1>1. depth \in Depths /\ depth \in Nat /\ p \in 0..MaxDepth /\ p \in Nat
  BY Top, DepthAssumption DEF Depths
<1>2. depth' = p /\ cur' = Seen(p)
  BY Resumes DEF Pop
<1>3. frame' = [frame EXCEPT ![depth] = NoFrame]
  BY DEF Pop
<1>4. NoFrame \in Frame
  BY DepthAssumption, RetriesAssumption DEF NoFrame, Frame
<1>5. frame' \in [Depths -> Frame]
  BY <1>3, <1>4 DEF IInv, TypeOK
<1>6. \A d \in Depths : d <= p => frame'[d] = frame[d] /\ d <= depth /\ d # depth
  BY <1>1, <1>3 DEF IInv, TypeOK, Depths
<1>7. p # 0 => p \in Depths
  BY <1>1 DEF Depths
<1>8. cur' \in 0..MaxDepth
  BY <1>2, <1>7, DepthAssumption DEF Seen, IInv, TypeOK, Frame
<1>9. \A d \in 0..MaxDepth : d <= p => Seen(d)' = Seen(d)
  BY <1>6 DEF Seen, Depths
<1>10. ThreadTx'
  BY <1>1, <1>2, <1>9 DEF ThreadTx, Seen
<1>11. Chain'
  <2> SUFFICES ASSUME NEW d \in Depths, d <= p PROVE Linked(d)'
    BY <1>2 DEF Chain
  <2>1. Linked(d) /\ frame'[d] = frame[d]
    BY <1>6 DEF IInv, Chain
  <2>2. d - 1 \in 0..MaxDepth /\ d - 1 <= p
    BY <1>1, DepthAssumption DEF Depths
  <2>3. Seen(d - 1)' = Seen(d - 1)
    BY <1>9, <2>2
  <2> QED BY <2>1, <2>3 DEF Linked
<1>12. log' = [d \in Depths |->
                 IF d = depth THEN {}
                 ELSE IF d = p /\ ~frame[depth].began THEN log[d] \cup a ELSE log[d]]
  BY DEF Pop
<1>13. log' \in [Depths -> SUBSET Writes]
  BY <1>12 DEF IInv, TypeOK
<1>14. Accounted'
  <2> SUFFICES ASSUME NEW d \in Depths, d <= p
               PROVE  log'[d] \subseteq WrittenIn(frame[d].tx)'
    BY <1>2, <1>6 DEF Accounted, WrittenIn
  <2>1. /\ frame'[d] = frame[d] /\ d # depth /\ Linked(d)
        /\ log[d] \subseteq WrittenIn(frame[d].tx)
        /\ frame[d].tx \in 0..d
    BY <1>6 DEF IInv, Chain, Accounted, Linked
  <2>2. frame[d].tx = 0 \/ frame[d].tx \in Depths
    BY <2>1, DepthAssumption DEF Depths
  <2>3. CASE frame[depth].began
    <3>1. cur = depth /\ frame[d].tx # cur
      BY <2>1, <2>3, <1>1, Top DEF Linked, Depths
    <3>2. log'[d] = log[d]
      BY <1>12, <2>1, <2>3
    <3>3. WrittenIn(frame[d].tx)' = WrittenIn(frame[d].tx)
      BY <3>1, <2>1, <2>2 DEF WrittenIn
    <3> QED BY <3>2, <3>3, <2>1, <1>6
  <2>4. CASE ~frame[depth].began
    <3>1. WrittenIn(frame[d].tx)' = WrittenIn(frame[d].tx)
      BY <2>1, <2>2, <2>4 DEF WrittenIn
    <3>2. CASE d # p
      <4>1. log'[d] = log[d]
        BY <3>2, <1>12, <2>1
      <4> QED BY <4>1, <3>1, <2>1
    <3>3. CASE d = p
      <4>1. cur = frame[d].tx
        BY <3>3, <2>4, <1>1, Top DEF Linked, Seen, Depths
      <4>2. log'[d] = log[d] \cup a
        BY <3>3, <2>4, <1>12, <2>1
      <4>3. a \subseteq WrittenIn(frame[d].tx)
        BY <4>1, Top
      <4> QED BY <4>2, <4>3, <3>1, <2>1
    <3> QED BY <3>2, <3>3
  <2> QED BY <2>3, <2>4
<1> QED BY <1>1, <1>2, <1>5, <1>8, <1>10, <1>11, <1>13, <1>14

-----------------------------------------------------------------------------
(* A call starts.                                                          *)

(* A frame that continues the chain keeps the invariant. *)
LEMMA PushStep ==
    ASSUME IInv, depth < MaxDepth, NEW f \in Frame, Push(f),
           f.began => f.tx = depth + 1 /\ f.parent = cur,
           ~f.began => f.tx = cur,
           f.kind = "changeset" => f.began
    PROVE  IInv'
<1> DEFINE n == depth + 1
<1>1. depth \in Nat /\ n \in Depths /\ n \in Nat /\ n \in 0..MaxDepth
  BY DepthAssumption DEF IInv, TypeOK, Depths
<1>2. /\ depth' = n /\ cur' = f.tx
      /\ frame' = [frame EXCEPT ![n] = f] /\ log' = [log EXCEPT ![n] = {}]
      /\ tx' = IF f.began THEN [tx EXCEPT ![n] = NewTx] ELSE tx
      /\ durable' = durable /\ undone' = undone /\ promised' = promised
  BY DEF Push
<1>3. NewTx \in Tx /\ NewTx.writes = {} /\ NewTx.marked = FALSE
  BY DEF NewTx, Tx
<1>4. TypeOK'
  BY <1>1, <1>2, <1>3 DEF IInv, TypeOK, Frame
<1>5. frame'[n] = f /\ \A d \in Depths : d <= depth => frame'[d] = frame[d] /\ d # n
  BY <1>1, <1>2 DEF IInv, TypeOK, Depths
<1>6. \A d \in 0..MaxDepth : d <= depth => Seen(d)' = Seen(d)
  BY <1>5 DEF Seen, Depths
<1>7. ThreadTx'
  BY <1>1, <1>2, <1>5 DEF ThreadTx, Seen
<1>8. cur \in 0..depth
  BY <1>1 DEF IInv, TypeOK, ThreadTx, Chain, Linked, Seen, Depths
<1>9. Chain'
  <2> SUFFICES ASSUME NEW d \in Depths, d <= n PROVE Linked(d)'
    BY <1>2 DEF Chain
  <2>1. CASE d = n
    <3>1. Seen(d - 1)' = cur
      <4>1. d - 1 = depth /\ depth \in 0..MaxDepth
        BY <2>1, <1>1 DEF IInv, TypeOK
      <4> QED BY <4>1, <1>6 DEF IInv, ThreadTx
    <3>2. f.tx \in 0..n
      BY <1>1, <1>8
    <3> QED BY <2>1, <3>1, <3>2, <1>5 DEF Linked
  <2>2. CASE d # n
    <3>1. d <= depth /\ d - 1 <= depth /\ d - 1 \in 0..MaxDepth
      BY <2>2, <1>1, DepthAssumption DEF Depths
    <3>2. Linked(d) /\ frame'[d] = frame[d] /\ Seen(d - 1)' = Seen(d - 1)
      BY <3>1, <1>5, <1>6 DEF IInv, Chain
    <3> QED BY <3>2 DEF Linked
  <2> QED BY <2>1, <2>2
<1>10. Accounted'
  <2> SUFFICES ASSUME NEW d \in Depths, d <= n
               PROVE  log'[d] \subseteq WrittenIn(frame[d].tx)'
    BY <1>2 DEF Accounted
  <2>1. CASE d = n
    BY <2>1, <1>2 DEF IInv, TypeOK
  <2>2. CASE d # n
    <3>1. d <= depth
      BY <2>2, <1>1 DEF Depths
    <3>2. /\ log'[d] = log[d] /\ frame'[d] = frame[d]
          /\ log[d] \subseteq WrittenIn(frame[d].tx)
          /\ frame[d].tx \in 0..d
      BY <3>1, <2>2, <1>2, <1>5 DEF IInv, TypeOK, Accounted, Chain, Linked
    <3>3. frame[d].tx # n
      BY <3>1, <3>2, <1>1 DEF Depths
    <3>4. frame[d].tx = 0 \/ frame[d].tx \in Depths
      BY <3>2, DepthAssumption DEF Depths
    <3>5. tx'[frame[d].tx] = tx[frame[d].tx] \/ frame[d].tx = 0
      BY <3>3, <3>4, <1>2 DEF IInv, TypeOK
    <3> QED BY <3>2, <3>5 DEF WrittenIn
  <2> QED BY <2>1, <2>2
<1>11. \A t \in Depths : tx'[t] = tx[t] \/ tx'[t] = NewTx
  BY <1>2 DEF IInv, TypeOK
<1>12. Apart'
  BY <1>2, <1>3, <1>11 DEF IInv, Apart
<1> QED BY <1>2, <1>4, <1>7, <1>9, <1>10, <1>12 DEF IInv, UndoneStaysOut

LEMMA RunSyncStep ==
    ASSUME IInv, NEW u \in BOOLEAN, NEW r \in BOOLEAN, RunSync(u, r)
    PROVE  IInv'
<1> DEFINE begins == u /\ (~isTransactionInPlace \/ r)
           f == [kind |-> "service", began |-> begins,
                 tx |-> IF begins THEN depth + 1 ELSE cur,
                 parent |-> IF begins THEN cur ELSE 0, left |-> LOCK_RETRIES - 1]
<1>1. depth < MaxDepth /\ Push(f)
  BY DEF RunSync
<1>2. f \in Frame
  <2>1. depth + 1 \in 0..MaxDepth /\ cur \in 0..MaxDepth /\ 0 \in 0..MaxDepth
    BY <1>1, DepthAssumption DEF IInv, TypeOK
  <2>2. LOCK_RETRIES - 1 \in 0..LOCK_RETRIES
    BY RetriesAssumption
  <2>3. begins \in BOOLEAN
    BY DEF isTransactionInPlace
  <2> QED BY <2>1, <2>2, <2>3 DEF Frame
<1> QED BY <1>1, <1>2, PushStep

LEMMA ProcessChangeSetStep ==
    ASSUME IInv, ProcessChangeSet
    PROVE  IInv'
<1> DEFINE f == [kind |-> "changeset", began |-> TRUE, tx |-> 1, parent |-> 0, left |-> 0]
<1>1. depth = 0 /\ depth < MaxDepth /\ Push(f)
  BY DEF ProcessChangeSet
<1>2. cur = 0
  BY <1>1 DEF IInv, ThreadTx, Seen
<1>3. f \in Frame
  BY <1>1, DepthAssumption, RetriesAssumption DEF Frame
<1> QED BY <1>1, <1>2, <1>3, PushStep

-----------------------------------------------------------------------------
(* In the body of a call.                                                  *)

(* A fresh write goes to the transaction of the thread only. *)
LEMMA StoreStep ==
    ASSUME IInv, NEW w \in Writes, Store(w)
    PROVE  IInv'
<1>1. /\ depth > 0
      /\ \A t \in Depths : w \notin tx[t].writes
      /\ w \notin durable /\ w \notin undone
      /\ depth' = depth /\ frame' = frame /\ cur' = cur
      /\ undone' = undone /\ promised' = promised
  BY DEF Store
<1>2. ThreadTx' /\ Chain'
  BY <1>1 DEF IInv, ThreadTx, Chain, Linked, Seen
<1>3. CASE ~isTransactionInPlace
  <2>1. durable' = durable \cup {w} /\ tx' = tx /\ log' = log
    BY <1>3 DEF Store
  <2>2. Accounted'
    BY <1>1, <2>1 DEF IInv, Accounted, WrittenIn
  <2>3. Apart' /\ UndoneStaysOut'
    BY <1>1, <2>1 DEF IInv, Apart, UndoneStaysOut
  <2> QED BY <1>1, <1>2, <2>1, <2>2, <2>3 DEF IInv, TypeOK
<1>4. CASE isTransactionInPlace
  <2>1. /\ tx' = [t \in Depths |->
                    IF t = cur THEN [open |-> tx[t].open, marked |-> FALSE,
                                     writes |-> tx[t].writes \cup {w}]
                               ELSE tx[t]]
        /\ log' = [log EXCEPT ![depth] = @ \cup {w}]
        /\ durable' = durable
    BY <1>4 DEF Store
  <2>2. cur \in Depths /\ ~tx[cur].marked
    BY <1>4, DepthAssumption DEF IInv, TypeOK, isTransactionInPlace, Depths, Store, Marked
  <2>3. \A t \in Depths :
           /\ tx'[t].writes = IF t = cur THEN tx[t].writes \cup {w} ELSE tx[t].writes
           /\ tx'[t].marked <=> (t # cur /\ tx[t].marked)
    BY <2>1 DEF IInv, TypeOK
  <2>4. tx' \in [Depths -> Tx]
    BY <2>1 DEF IInv, TypeOK, Tx
  <2>5. log' \in [Depths -> SUBSET Writes]
    BY <2>1, <1>1, Top DEF IInv, TypeOK
  <2>6. Accounted'
    <3> SUFFICES ASSUME NEW d \in Depths, d <= depth
                 PROVE  log'[d] \subseteq WrittenIn(frame[d].tx)'
      BY <1>1 DEF Accounted
    <3>1. log[d] \subseteq WrittenIn(frame[d].tx) /\ frame'[d].tx = frame[d].tx
      BY <1>1 DEF IInv, Accounted
    <3>2. frame[d].tx = 0 \/ frame[d].tx \in Depths
      BY DepthAssumption DEF IInv, Chain, Linked, Depths
    <3>3. WrittenIn(frame[d].tx) \subseteq WrittenIn(frame[d].tx)'
      BY <3>1, <3>2, <2>3 DEF WrittenIn
    <3>4. CASE d # depth
      BY <3>4, <3>1, <3>3, <2>1 DEF IInv, TypeOK
    <3>5. CASE d = depth
      <4>1. log'[d] = log[d] \cup {w}
        BY <3>5, <2>1 DEF IInv, TypeOK
      <4>2. cur = frame[d].tx /\ cur # 0
        BY <3>5, <1>1, <1>4, Top DEF isTransactionInPlace
      <4>3. w \in WrittenIn(frame[d].tx)'
        BY <4>2, <3>1, <2>2, <2>3 DEF WrittenIn
      <4> QED BY <4>1, <4>3, <3>1, <3>3
    <3> QED BY <3>4, <3>5
  <2>7. Apart' /\ UndoneStaysOut'
    BY <1>1, <2>1, <2>2, <2>3 DEF IInv, Apart, UndoneStaysOut
  <2> QED BY <1>1, <1>2, <2>1, <2>4, <2>5, <2>6, <2>7 DEF IInv, TypeOK
<1> QED BY <1>3, <1>4

(* What setRollbackOnly changes. *)
LEMMA MarkedTx ==
    ASSUME IInv, tx' = setRollbackOnly
    PROVE  \A t \in Depths :
              /\ tx'[t].writes = tx[t].writes
              /\ tx'[t].marked <=> (t = cur \/ tx[t].marked)
              /\ t # cur => tx'[t] = tx[t]
BY DEF setRollbackOnly, IInv, TypeOK, Tx

LEMMA StoreFailsStep ==
    ASSUME IInv, StoreFails
    PROVE  IInv'
<1>1. /\ depth' = depth /\ frame' = frame /\ cur' = cur /\ log' = log
      /\ durable' = durable /\ undone' = undone /\ promised' = promised
      /\ tx' = setRollbackOnly
  BY DEF StoreFails
<1>2. ThreadTx' /\ Chain'
  BY <1>1 DEF IInv, ThreadTx, Chain, Linked, Seen
<1>3. Accounted'
  <2> SUFFICES ASSUME NEW d \in Depths, d <= depth
               PROVE  log[d] \subseteq WrittenIn(frame[d].tx)'
    BY <1>1 DEF Accounted
  <2>1. log[d] \subseteq WrittenIn(frame[d].tx) /\ frame'[d].tx = frame[d].tx
    BY <1>1 DEF IInv, Accounted
  <2>2. frame[d].tx = 0 \/ frame[d].tx \in Depths
    BY DepthAssumption DEF IInv, Chain, Linked, Depths
  <2> QED BY <2>1, <2>2, <1>1, MarkedTx DEF WrittenIn
<1>4. Apart' /\ UndoneStaysOut'
  BY <1>1, MarkedTx DEF IInv, Apart, UndoneStaysOut
<1>5. TypeOK'
  BY <1>1, TxTypes DEF IInv, TypeOK
<1> QED BY <1>2, <1>3, <1>4, <1>5 DEF IInv

-----------------------------------------------------------------------------
(* A call ends.                                                            *)

(* A deadlocked service starts over in another transaction of the same     *)
(* name: what the attempt wrote is gone.                                   *)
LEMMA RetryStep ==
    ASSUME IInv, Retry
    PROVE  IInv'
<1>1. /\ depth > 0 /\ frame[depth].began /\ frame[depth].left > 0
      /\ frame' = [frame EXCEPT ![depth] = Restarted(frame[depth].left - 1)]
      /\ tx' = [t \in Depths |-> IF t = cur THEN NewTx ELSE tx[t]]
      /\ undone' = undone \cup log[depth]
      /\ log' = [log EXCEPT ![depth] = {}]
      /\ depth' = depth /\ cur' = cur /\ durable' = durable /\ promised' = promised
  BY DEF Retry, Deadlocked
<1>2. /\ depth \in Depths /\ frame[depth] \in Frame /\ cur = depth
      /\ log[depth] \in SUBSET Writes
      /\ log[depth] \subseteq tx[cur].writes
  BY <1>1, Top DEF Linked, WrittenIn, Depths
<1>3. Restarted(frame[depth].left - 1) \in Frame
  BY <1>1, <1>2, RetriesAssumption DEF Restarted, Frame
<1>4. NewTx \in Tx /\ NewTx.writes = {} /\ NewTx.marked = FALSE
  BY DEF NewTx, Tx
<1>5. TypeOK'
  BY <1>1, <1>2, <1>3, <1>4 DEF IInv, TypeOK
<1>6. \A d \in Depths : /\ frame'[d].began = frame[d].began
                        /\ frame'[d].kind = "service" \/ frame'[d].kind = frame[d].kind
                        /\ frame'[d].tx = frame[d].tx
                        /\ frame'[d].parent = frame[d].parent
  <2> SUFFICES ASSUME NEW d \in Depths
               PROVE  /\ frame'[d].began = frame[d].began
                      /\ frame'[d].kind = "service" \/ frame'[d].kind = frame[d].kind
                      /\ frame'[d].tx = frame[d].tx
                      /\ frame'[d].parent = frame[d].parent
    OBVIOUS
  <2>1. CASE d = depth
    <3>1. frame'[d] = Restarted(frame[depth].left - 1)
      BY <2>1, <1>1 DEF IInv, TypeOK
    <3>2. frame[d].began = TRUE
      BY <2>1, <1>1, <1>2 DEF Frame
    <3>3. /\ frame'[d].kind = "service" /\ frame'[d].tx = frame[d].tx
          /\ frame'[d].parent = frame[d].parent
      BY <2>1, <3>1 DEF Restarted
    <3>4. frame'[d].began = TRUE
      BY <3>1 DEF Restarted
    <3> QED BY <3>2, <3>3, <3>4
  <2>2. CASE d # depth
    BY <2>2, <1>1 DEF IInv, TypeOK
  <2> QED BY <2>1, <2>2
<1>7. \A d \in 0..MaxDepth : Seen(d)' = Seen(d)
  BY <1>6 DEF Seen, Depths
<1>8. ThreadTx'
  BY <1>1, <1>2, <1>7, DepthAssumption DEF IInv, TypeOK, ThreadTx, Seen, Depths
<1>9. Chain'
  <2> SUFFICES ASSUME NEW d \in Depths, d <= depth PROVE Linked(d)'
    BY <1>1 DEF Chain
  <2>1. Linked(d) /\ d - 1 \in 0..MaxDepth
    BY DepthAssumption DEF IInv, Chain, Depths
  <2> QED BY <2>1, <1>6, <1>7 DEF Linked
<1>10. Accounted'
  <2> SUFFICES ASSUME NEW d \in Depths, d <= depth
               PROVE  log'[d] \subseteq WrittenIn(frame[d].tx)'
    BY <1>1 DEF Accounted
  <2>1. CASE d = depth
    BY <2>1, <1>1 DEF IInv, TypeOK
  <2>2. CASE d # depth
    <3>1. log'[d] = log[d] /\ log[d] \subseteq WrittenIn(frame[d].tx)
      BY <2>2, <1>1 DEF IInv, TypeOK, Accounted
    <3>2. frame[d].tx \in 0..d /\ d # depth /\ d < depth
      BY <2>2, <1>2 DEF IInv, TypeOK, Chain, Linked, Depths
    <3>3. frame[d].tx # cur /\ (frame[d].tx = 0 \/ frame[d].tx \in Depths)
      BY <3>2, <1>2, DepthAssumption DEF Depths
    <3>4. frame[d].tx = 0 \/ tx'[frame[d].tx] = tx[frame[d].tx]
      BY <3>3, <1>1
    <3>5. frame'[d].tx = frame[d].tx
      BY <1>6
    <3>6. WrittenIn(frame[d].tx)' = WrittenIn(frame[d].tx)
      BY <3>4, <3>5 DEF WrittenIn
    <3> QED BY <3>1, <3>6
  <2> QED BY <2>1, <2>2
<1>11. Apart' /\ UndoneStaysOut'
  BY <1>1, <1>2, <1>4 DEF IInv, Apart, UndoneStaysOut
<1> QED BY <1>5, <1>8, <1>9, <1>10, <1>11 DEF IInv

(* What ending the thread's transaction changes. *)
LEMMA ClosedTx ==
    ASSUME IInv, tx' = Closed
    PROVE  \A t \in Depths :
              /\ tx'[t].writes = IF t = cur THEN {} ELSE tx[t].writes
              /\ tx'[t].marked <=> (t # cur /\ tx[t].marked)
              /\ t # cur => tx'[t] = tx[t]
BY DEF Closed, NoTx, IInv, TypeOK, Tx

(* The end of a call that began its transaction: what it answers for is    *)
(* given up, or everything in an unmarked transaction becomes durable.     *)
LEMMA CloseStep ==
    ASSUME IInv, depth > 0, frame[depth].began,
           NEW a \in SUBSET Writes, a \subseteq log[depth], Pop(a), tx' = Closed,
           promised' \subseteq promised \cup log[depth],
           \/ durable' = durable /\ undone' \subseteq undone \cup log[depth]
           \/ /\ ~Marked
              /\ durable' = IF isTransactionInPlace THEN durable \cup tx[cur].writes
                                                    ELSE durable
              /\ undone' = undone
    PROVE  IInv'
<1>1. /\ depth \in Depths /\ cur = depth /\ cur # 0
      /\ log[depth] \in SUBSET Writes /\ log[depth] \subseteq tx[cur].writes
      /\ tx[cur].writes \in SUBSET Writes
  BY Top DEF Linked, WrittenIn, Depths, IInv, TypeOK, Tx
<1>2. /\ depth' \in 0..MaxDepth /\ frame' \in [Depths -> Frame]
      /\ cur' \in 0..MaxDepth /\ log' \in [Depths -> SUBSET Writes]
      /\ ThreadTx' /\ Chain' /\ Accounted'
  BY PopStep, ClosedTx
<1>3. TypeOK'
  BY <1>1, <1>2, TxTypes DEF IInv, TypeOK
<1>4. CASE durable' = durable /\ undone' \subseteq undone \cup log[depth]
  <2>1. Apart' /\ UndoneStaysOut'
    BY <1>1, <1>4, ClosedTx DEF IInv, Apart, UndoneStaysOut
  <2> QED BY <1>2, <1>3, <2>1 DEF IInv
<1>5. CASE /\ ~Marked
           /\ durable' = IF isTransactionInPlace THEN durable \cup tx[cur].writes
                                                 ELSE durable
           /\ undone' = undone
  <2>1. ~tx[cur].marked /\ durable' = durable \cup tx[cur].writes
    BY <1>1, <1>5 DEF Marked, isTransactionInPlace
  <2>2. Apart' /\ UndoneStaysOut'
    BY <1>1, <1>5, <2>1, ClosedTx DEF IInv, Apart, UndoneStaysOut
  <2> QED BY <1>2, <1>3, <2>2 DEF IInv
<1> QED BY <1>4, <1>5

(* A commit that succeeds or fails, and the end of its call. *)
LEMMA CommittedStep ==
    ASSUME IInv, depth > 0, frame[depth].began, NEW ok \in BOOLEAN, Committed(ok),
           NEW a \in SUBSET Writes, a \subseteq log[depth], Pop(a)
    PROVE  IInv'
<1>1. tx' = Closed /\ promised' \subseteq promised \cup log[depth]
  BY DEF Committed
<1>2. \/ durable' = durable /\ undone' \subseteq undone \cup log[depth]
      \/ /\ ~Marked
         /\ durable' = IF isTransactionInPlace THEN durable \cup tx[cur].writes
                                               ELSE durable
         /\ undone' = undone
  BY DEF Committed
<1> QED BY <1>1, <1>2, CloseStep

(* An error of a call that runs in its caller's transaction, or in none,   *)
(* marks that transaction.                                                 *)
LEMMA MarkStep ==
    ASSUME IInv, depth > 0, ~frame[depth].began, Pop({}), tx' = setRollbackOnly,
           undone' = undone \cup log[depth], durable' = durable, promised' = promised
    PROVE  IInv'
<1>1. log[depth] \in SUBSET Writes /\ log[depth] \subseteq WrittenIn(cur)
  BY Top
<1>2. /\ depth' \in 0..MaxDepth /\ frame' \in [Depths -> Frame]
      /\ cur' \in 0..MaxDepth /\ log' \in [Depths -> SUBSET Writes]
      /\ ThreadTx' /\ Chain' /\ Accounted'
  BY PopStep, MarkedTx
<1>3. TypeOK'
  BY <1>1, <1>2, TxTypes DEF IInv, TypeOK
<1>4. CASE cur = 0
  <2>1. undone' = undone
    BY <1>1, <1>4 DEF WrittenIn
  <2>2. Apart' /\ UndoneStaysOut'
    BY <2>1, MarkedTx DEF IInv, Apart, UndoneStaysOut
  <2> QED BY <1>2, <1>3, <2>2 DEF IInv
<1>5. CASE cur # 0
  <2>1. cur \in Depths /\ log[depth] \subseteq tx[cur].writes
    BY <1>1, <1>5, DepthAssumption DEF WrittenIn, IInv, TypeOK, Depths
  <2>2. Apart' /\ UndoneStaysOut'
    BY <2>1, MarkedTx DEF IInv, Apart, UndoneStaysOut
  <2> QED BY <1>2, <1>3, <2>2 DEF IInv
<1> QED BY <1>4, <1>5

LEMMA ReturnSuccessStep ==
    ASSUME IInv, NEW ok \in BOOLEAN, ReturnSuccess(ok)
    PROVE  IInv'
<1>1. depth > 0 /\ Pop(log[depth])
  BY DEF ReturnSuccess
<1>2. log[depth] \in SUBSET Writes
  BY <1>1, Top
<1>3. CASE frame[depth].began
  <2>1. Committed(ok)
    BY <1>3 DEF ReturnSuccess
  <2> QED BY <1>1, <1>2, <1>3, <2>1, CommittedStep
<1>4. CASE ~frame[depth].began
  <2>1. tx' = tx /\ durable' = durable /\ promised' = promised /\ undone' = undone
    BY <1>4 DEF ReturnSuccess
  <2>2. /\ depth' \in 0..MaxDepth /\ frame' \in [Depths -> Frame]
        /\ cur' \in 0..MaxDepth /\ log' \in [Depths -> SUBSET Writes]
        /\ ThreadTx' /\ Chain' /\ Accounted'
    BY <1>1, <1>2, <2>1, PopStep
  <2> QED BY <2>1, <2>2 DEF IInv, TypeOK, Apart, UndoneStaysOut
<1> QED BY <1>3, <1>4

LEMMA ReturnErrorStep ==
    ASSUME IInv, ReturnError
    PROVE  IInv'
<1>1. /\ depth > 0 /\ tx' = rollback /\ undone' = undone \cup log[depth] /\ Pop({})
      /\ durable' = durable /\ promised' = promised
  BY DEF ReturnError
<1>2. CASE frame[depth].began
  BY <1>1, <1>2, CloseStep DEF rollback
<1>3. CASE ~frame[depth].began
  BY <1>1, <1>3, MarkStep DEF rollback
<1> QED BY <1>2, <1>3

LEMMA GiveUpStep ==
    ASSUME IInv, GiveUp
    PROVE  IInv'
<1>1. /\ depth > 0 /\ frame[depth].began /\ tx' = Closed /\ Pop({})
      /\ promised' = promised \cup log[depth]
      /\ durable' = durable /\ undone' = undone
  BY DEF GiveUp, Deadlocked
<1> QED BY <1>1, CloseStep

LEMMA ChangeSetStep ==
    ASSUME IInv, ChangeSetFails \/ \E ok \in BOOLEAN : ChangeSetDone(ok)
    PROVE  IInv'
<1>1. depth = 1 /\ depth > 0 /\ frame[depth].kind = "changeset" /\ Pop({})
  BY DEF ChangeSetFails, ChangeSetDone
<1>2. frame[depth].began
  BY <1>1, Top DEF Linked
<1>3. CASE ChangeSetFails
  <2>1. /\ tx' = Closed /\ undone' = undone \cup log[depth]
        /\ durable' = durable /\ promised' = promised
    BY <1>1, <1>3 DEF ChangeSetFails
  <2> QED BY <1>1, <1>2, <2>1, CloseStep
<1>4. CASE \E ok \in BOOLEAN : ChangeSetDone(ok)
  <2>1. PICK ok \in BOOLEAN : Committed(ok)
    BY <1>4 DEF ChangeSetDone
  <2> QED BY <1>1, <1>2, <2>1, CommittedStep
<1> QED BY <1>3, <1>4

-----------------------------------------------------------------------------
(* The theorems.                                                           *)

LEMMA InitIInv == Init => IInv
<1> SUFFICES ASSUME Init PROVE IInv
  OBVIOUS
<1>1. NoFrame \in Frame /\ NoTx \in Tx /\ NoTx.writes = {}
  BY DepthAssumption, RetriesAssumption DEF NoFrame, Frame, NoTx, Tx
<1>2. TypeOK
  BY <1>1, DepthAssumption DEF Init, TypeOK
<1>3. \A d \in Depths : ~(d <= depth)
  BY DepthAssumption DEF Init, Depths
<1> QED BY <1>1, <1>2, <1>3
        DEF Init, IInv, ThreadTx, Seen, Chain, Accounted, Apart, UndoneStaysOut

LEMMA StutterIInv == ASSUME IInv, UNCHANGED vars PROVE IInv'
BY DEF vars, IInv, TypeOK, ThreadTx, Chain, Linked, Seen, Accounted, WrittenIn, Apart,
       UndoneStaysOut

(* Every step keeps the invariant. *)
LEMMA NextIInv == IInv /\ [Next]_vars => IInv'
<1> SUFFICES ASSUME IInv, [Next]_vars PROVE IInv'
  OBVIOUS
<1>1. CASE \E u, r \in BOOLEAN : RunSync(u, r)
  BY <1>1, RunSyncStep
<1>2. CASE ProcessChangeSet
  BY <1>2, ProcessChangeSetStep
<1>3. CASE \E w \in Writes : Store(w)
  BY <1>3, StoreStep
<1>4. CASE StoreFails
  BY <1>4, StoreFailsStep
<1>5. CASE Retry
  BY <1>5, RetryStep
<1>6. CASE GiveUp
  BY <1>6, GiveUpStep
<1>7. CASE \E ok \in BOOLEAN : ReturnSuccess(ok)
  BY <1>7, ReturnSuccessStep
<1>8. CASE ReturnError
  BY <1>8, ReturnErrorStep
<1>9. CASE ChangeSetFails \/ \E ok \in BOOLEAN : ChangeSetDone(ok)
  BY <1>9, ChangeSetStep
<1>10. CASE UNCHANGED vars
  BY <1>10, StutterIInv
<1> QED BY <1>1, <1>2, <1>3, <1>4, <1>5, <1>6, <1>7, <1>8, <1>9, <1>10 DEF Next

LEMMA Invariant == Spec => []IInv
BY InitIInv, NextIInv, PTL DEF Spec

(* Every state is well typed; in particular the attempts of a service      *)
(* never run below zero.                                                   *)
THEOREM TypeCorrect == Spec => []TypeOK
<1>1. IInv => TypeOK
  BY DEF IInv
<1> QED BY <1>1, Invariant, PTL

(* However calls nest, suspend, retry and fail, the running call is in the *)
(* transaction it was started in, and an idle thread is in none.           *)
THEOREM ThreadTxAlways == Spec => []ThreadTx
<1>1. IInv => ThreadTx
  BY DEF IInv
<1> QED BY <1>1, Invariant, PTL

(* No write of a failed call or change set is ever committed. *)
THEOREM UndoneStaysOutAlways == Spec => []UndoneStaysOut
<1>1. IInv => UndoneStaysOut
  BY DEF IInv
<1> QED BY <1>1, Invariant, PTL

(* Every step but GiveUp keeps what owners of transactions have promised:  *)
(* what a call answers for is in the transaction that it commits.          *)
LEMMA PromiseStep ==
    ASSUME IInv, PromisedIsDurable, [Next]_vars, ~GiveUp
    PROVE  PromisedIsDurable'
<1>1. ASSUME depth > 0, frame[depth].began, NEW ok \in BOOLEAN, Committed(ok)
      PROVE  PromisedIsDurable'
  <2>1. log[depth] \subseteq tx[cur].writes /\ cur # 0
    BY <1>1, Top DEF Linked, WrittenIn, Depths
  <2> QED BY <1>1, <2>1
          DEF Committed, PromisedIsDurable, isTransactionInPlace
<1>2. CASE \E ok \in BOOLEAN : ReturnSuccess(ok)
  BY <1>1, <1>2 DEF ReturnSuccess, PromisedIsDurable
<1>3. CASE \E ok \in BOOLEAN : ChangeSetDone(ok)
  <2>1. depth > 0 /\ frame[depth].began
    BY <1>3, Top DEF ChangeSetDone, Linked
  <2> QED BY <1>1, <1>3, <2>1 DEF ChangeSetDone
<1>4. CASE \/ \E u, r \in BOOLEAN : RunSync(u, r)
           \/ ProcessChangeSet \/ (\E w \in Writes : Store(w)) \/ StoreFails
           \/ Retry \/ ReturnError \/ ChangeSetFails \/ UNCHANGED vars
  <2>1. promised' = promised /\ durable \subseteq durable'
    BY <1>4 DEF RunSync, Push, ProcessChangeSet, Store, StoreFails, Retry,
                ReturnError, ChangeSetFails, vars
  <2> QED BY <2>1 DEF PromisedIsDurable
<1> QED BY <1>2, <1>3, <1>4 DEF Next

(* Whatever the number of deadlocks, only giving up after the last attempt *)
(* reports a success for writes that are not committed.                    *)
THEOREM PromisesBreakByGiveUpOnly == Spec => OnlyGiveUpBreaksPromises
<1>1. ASSUME IInv, [Next]_vars
      PROVE  [PromisedIsDurable => PromisedIsDurable' \/ GiveUp]_vars
  BY <1>1, PromiseStep
<1> QED BY <1>1, Invariant, PTL DEF Spec, OnlyGiveUpBreaksPromises

(* While a service meets fewer deadlocks than it has attempts, a success   *)
(* reported by the owner of a transaction means that all it and its nested *)
(* calls wrote there is committed.                                         *)
THEOREM PromisedIsDurableBelowRetries ==
    ASSUME Deadlocks < LOCK_RETRIES
    PROVE  Spec => []PromisedIsDurable
<1>1. Init => PromisedIsDurable
  BY DEF Init, PromisedIsDurable
<1>2. ASSUME IInv
      PROVE  ~GiveUp
  BY <1>2, Top, RetriesAssumption DEF GiveUp, Deadlocked, Attempt
<1>3. ASSUME IInv, PromisedIsDurable, [Next]_vars
      PROVE  PromisedIsDurable'
  BY <1>2, <1>3, PromiseStep
<1> QED BY <1>1, <1>3, Invariant, PTL DEF Spec
=============================================================================
