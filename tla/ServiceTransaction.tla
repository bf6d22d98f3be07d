-------------------------- MODULE ServiceTransaction --------------------------
(***************************************************************************)
(* How the service engine ties service calls to JTA transactions on one    *)
(* thread.  Every write of the OData application happens in a service that *)
(* ServiceDispatcher.runSync calls, and OfbizBatchProcessor puts the       *)
(* requests of a change set into one transaction around those calls.       *)
(*                                                                         *)
(* Calls nest.  A call begins a transaction of its own, runs in the one in *)
(* place, or runs without any; it may call further services, write, and    *)
(* end with success, an error or an exception.  What a service does in its *)
(* body, and whether it passes a failure of a nested call on, is open.     *)
(* The transaction a call begins is named by the depth of the call.        *)
(***************************************************************************)
EXTENDS Naturals

CONSTANTS
    MaxDepth,        \* bound: how deep calls nest
    LOCK_RETRIES,    \* how often a deadlocked service is attempted
    Deadlocks,       \* bound: how often one call runs into a deadlock
    Writes           \* bound: the writes that can happen, each of them once

(* What the model needs of its parameters. *)
ASSUME DepthAssumption == MaxDepth \in Nat
ASSUME RetriesAssumption == LOCK_RETRIES \in Nat \ {0} /\ Deadlocks \in Nat

VARIABLES
    depth,      \* the number of calls in progress
    frame,      \* the local state of each call
    cur,        \* the transaction of the thread, 0 when there is none
    tx,         \* the transactions
    log,        \* history: the writes each call is accountable for
    durable,    \* the writes that are committed
    undone,     \* history: the writes of calls that failed
    promised    \* history: the writes of transactions reported as successful

vars == <<depth, frame, cur, tx, log, durable, undone, promised>>

Depths == 1..MaxDepth

-----------------------------------------------------------------------------

(* The local variables of runSync and of processChangeSet: beganTrans, the *)
(* suspended parentTransaction and lockRetriesRemaining; tx is the         *)
(* transaction the body was started in.                                    *)
Frame == [kind : {"service", "changeset"}, began : BOOLEAN, tx : 0..MaxDepth,
          parent : 0..MaxDepth, left : 0..LOCK_RETRIES]

(* A transaction: whether it is in place, whether it is marked for         *)
(* rollback only, and what was written in it.                              *)
Tx == [open : BOOLEAN, marked : BOOLEAN, writes : SUBSET Writes]

NoTx == [open |-> FALSE, marked |-> FALSE, writes |-> {}]
NewTx == [open |-> TRUE, marked |-> FALSE, writes |-> {}]
NoFrame == [kind |-> "service", began |-> FALSE, tx |-> 0, parent |-> 0, left |-> 0]

(* Type correctness. *)
TypeOK ==
    /\ depth \in 0..MaxDepth
    /\ frame \in [Depths -> Frame]
    /\ cur \in 0..MaxDepth
    /\ tx \in [Depths -> Tx]
    /\ log \in [Depths -> SUBSET Writes]
    /\ durable \subseteq Writes
    /\ undone \subseteq Writes
    /\ promised \subseteq Writes

(* TransactionUtil.isTransactionInPlace. *)
isTransactionInPlace == cur # 0

(* STATUS_MARKED_ROLLBACK. *)
Marked == cur # 0 /\ tx[cur].marked

(* The transactions after the thread's one has ended. *)
Closed == [t \in Depths |-> IF t = cur THEN NoTx ELSE tx[t]]

(* Defect: a failure in a transaction of somebody else is only logged. *)
LeaveUnmarked == tx

(* TransactionUtil.setRollbackOnly; nothing happens without a transaction. *)
setRollbackOnly ==
    [t \in Depths |->
        IF t = cur THEN [open |-> tx[t].open, marked |-> TRUE, writes |-> tx[t].writes]
                   ELSE tx[t]]

(* Defect: the suspended transaction is not put back. *)
ForgetParent == 0

(* The finally block: TransactionUtil.resume of the parent transaction, or *)
(* the transaction in place before the call goes on.                       *)
resume ==
    IF frame[depth].began THEN frame[depth].parent ELSE cur

(* TransactionUtil.rollback(beganTrans, ...). *)
rollback == IF frame[depth].began THEN Closed ELSE setRollbackOnly

Init ==
    /\ depth = 0
    /\ frame = [d \in Depths |-> NoFrame]
    /\ cur = 0
    /\ tx = [d \in Depths |-> NoTx]
    /\ log = [d \in Depths |-> {}]
    /\ durable = {}
    /\ undone = {}
    /\ promised = {}

-----------------------------------------------------------------------------
(* A call starts.                                                          *)

Push(f) ==
    /\ depth' = depth + 1
    /\ frame' = [frame EXCEPT ![depth + 1] = f]
    /\ cur' = f.tx
    /\ tx' = IF f.began THEN [tx EXCEPT ![depth + 1] = NewTx] ELSE tx
    /\ log' = [log EXCEPT ![depth + 1] = {}]
    /\ UNCHANGED <<durable, undone, promised>>

(* runSync up to the invocation of the service: with useTransaction it     *)
(* begins a transaction when none is in place, or, with                    *)
(* requireNewTransaction, suspends the one in place and begins another.    *)
RunSync(useTransaction, requireNewTransaction) ==
    LET begins == useTransaction /\ (~isTransactionInPlace \/ requireNewTransaction)
    IN  /\ depth < MaxDepth
        /\ Push([kind |-> "service",
                 began |-> begins,
                 tx |-> IF begins THEN depth + 1 ELSE cur,
                 parent |-> IF begins THEN cur ELSE 0,
                 left |-> LOCK_RETRIES - 1])

(* processChangeSet begins a transaction before its first request. *)
ProcessChangeSet ==
    /\ depth = 0
    /\ MaxDepth > 0
    /\ Push([kind |-> "changeset", began |-> TRUE, tx |-> 1, parent |-> 0, left |-> 0])

-----------------------------------------------------------------------------
(* In the body of a call.                                                  *)

(* The delegator's create, store or remove: it joins the transaction in    *)
(* place, which must not be marked, or commits by itself.                  *)
Store(w) ==
    /\ depth > 0
    /\ \A t \in Depths : w \notin tx[t].writes
    /\ w \notin durable \cup undone \cup promised
    /\ ~Marked
    /\ IF isTransactionInPlace
       THEN /\ tx' = [t \in Depths |->
                        IF t = cur THEN [open |-> tx[t].open, marked |-> FALSE,
                                         writes |-> tx[t].writes \cup {w}]
                                   ELSE tx[t]]
            /\ log' = [log EXCEPT ![depth] = @ \cup {w}]
            /\ UNCHANGED durable
       ELSE /\ durable' = durable \cup {w}
            /\ UNCHANGED <<tx, log>>
    /\ UNCHANGED <<depth, frame, cur, undone, promised>>

(* It fails, which marks the transaction in place for rollback. *)
StoreFails ==
    /\ depth > 0
    /\ isTransactionInPlace
    /\ ~Marked
    /\ tx' = setRollbackOnly
    /\ UNCHANGED <<depth, frame, cur, log, durable, undone, promised>>

-----------------------------------------------------------------------------
(* A service ends.                                                         *)

Attempt == LOCK_RETRIES - frame[depth].left

(* The service has returned an error that names a deadlock. *)
Deadlocked ==
    /\ depth > 0
    /\ frame[depth].kind = "service"
    /\ frame[depth].began
    /\ Attempt <= Deadlocks

Restarted(left) ==
    [kind |-> "service", began |-> TRUE, tx |-> frame[depth].tx,
     parent |-> frame[depth].parent, left |-> left]

(* Defect: the attempts are not counted down to zero. *)
RetryAlways ==
    /\ Deadlocked
    /\ frame' = [frame EXCEPT ![depth] = Restarted(frame[depth].left - 1)]
    /\ tx' = [t \in Depths |-> IF t = cur THEN NewTx ELSE tx[t]]
    /\ undone' = undone \cup log[depth]
    /\ log' = [log EXCEPT ![depth] = {}]
    /\ UNCHANGED <<depth, cur, durable, promised>>

(* While attempts remain the transaction is rolled back, another one is    *)
(* begun, the result is reset and the service is invoked again.            *)
Retry ==
    /\ Deadlocked
    /\ frame[depth].left > 0
    /\ frame' = [frame EXCEPT ![depth] = Restarted(frame[depth].left - 1)]
    /\ tx' = [t \in Depths |-> IF t = cur THEN NewTx ELSE tx[t]]
    /\ undone' = undone \cup log[depth]
    /\ log' = [log EXCEPT ![depth] = {}]
    /\ UNCHANGED <<depth, cur, durable, promised>>

(* The call leaves the stack; a call in the transaction of its caller      *)
(* hands over to it what it is accountable for.                            *)
Pop(accounted) ==
    /\ depth' = depth - 1
    /\ frame' = [frame EXCEPT ![depth] = NoFrame]
    /\ cur' = resume
    /\ log' = [d \in Depths |->
                 IF d = depth THEN {}
                 ELSE IF d = depth - 1 /\ ~frame[depth].began
                      THEN log[d] \cup accounted
                      ELSE log[d]]

(* After the last attempt the loop ends all the same with the result       *)
(* reset: the error is gone, and the empty transaction is committed.       *)
GiveUp ==
    /\ Deadlocked
    /\ frame[depth].left = 0
    /\ tx' = Closed
    /\ promised' = promised \cup log[depth]
    /\ Pop({})
    /\ UNCHANGED <<durable, undone>>

(* Defect: a commit that was rolled back is reported as a success. *)
CommittedOrNot(ok) ==
    /\ tx' = Closed
    /\ durable' = IF ok /\ ~Marked /\ isTransactionInPlace
                  THEN durable \cup tx[cur].writes ELSE durable
    /\ promised' = promised \cup log[depth]
    /\ UNCHANGED undone

(* TransactionUtil.commit: a transaction that is marked, or whose commit   *)
(* fails, is rolled back and an exception goes to the caller instead.      *)
Committed(ok) ==
    /\ ok => ~Marked
    /\ tx' = Closed
    /\ durable' = IF ok /\ isTransactionInPlace THEN durable \cup tx[cur].writes
                                                ELSE durable
    /\ promised' = IF ok THEN promised \cup log[depth] ELSE promised
    /\ undone' = IF ok THEN undone ELSE undone \cup log[depth]

(* The service succeeds (or reports a failure, which is no error): the     *)
(* transaction of the thread is committed if the call began one.           *)
ReturnSuccess(ok) ==
    /\ depth > 0
    /\ frame[depth].kind = "service"
    /\ \/ frame[depth].began /\ Committed(ok)
       \/ ~frame[depth].began /\ ok /\ UNCHANGED <<tx, durable, promised, undone>>
    /\ Pop(log[depth])

(* The service returns an error or anything in runSync throws: the         *)
(* transaction is rolled back, or marked when it is not the call's own.    *)
ReturnError ==
    /\ depth > 0
    /\ frame[depth].kind = "service"
    /\ tx' = rollback
    /\ undone' = undone \cup log[depth]
    /\ Pop({})
    /\ UNCHANGED <<durable, promised>>

-----------------------------------------------------------------------------
(* A change set ends.                                                      *)

(* Every request answered below 400: the finally block commits. *)
ChangeSetDone(ok) ==
    /\ depth = 1
    /\ frame[1].kind = "changeset"
    /\ Committed(ok)
    /\ Pop({})

(* Defect: a failing request leaves its transaction to the finally block,  *)
(* which commits what the requests before it did.                          *)
ChangeSetKeepsGoing ==
    /\ depth = 1
    /\ frame[1].kind = "changeset"
    /\ tx' = Closed
    /\ durable' = IF Marked THEN durable ELSE durable \cup tx[cur].writes
    /\ undone' = undone \cup log[1]
    /\ Pop({})
    /\ UNCHANGED promised

(* A request answered 400 or above, or threw: everything is rolled back,   *)
(* and the commit of the finally block finds no transaction.               *)
ChangeSetFails ==
    /\ depth = 1
    /\ frame[1].kind = "changeset"
    /\ tx' = Closed
    /\ undone' = undone \cup log[1]
    /\ Pop({})
    /\ UNCHANGED <<durable, promised>>

-----------------------------------------------------------------------------

Next ==
    \/ \E useTransaction, requireNewTransaction \in BOOLEAN :
          RunSync(useTransaction, requireNewTransaction)
    \/ ProcessChangeSet
    \/ \E w \in Writes : Store(w)
    \/ StoreFails
    \/ Retry
    \/ GiveUp
    \/ \E ok \in BOOLEAN : ReturnSuccess(ok)
    \/ ReturnError
    \/ \E ok \in BOOLEAN : ChangeSetDone(ok)
    \/ ChangeSetFails

Spec == Init /\ [][Next]_vars

-----------------------------------------------------------------------------
(* Properties.                                                             *)

(* The transaction in place before the call at depth d was made. *)
Seen(d) == IF d = 0 THEN 0 ELSE frame[d].tx

(* Whatever nested calls did (suspend, begin, retry, fail), the thread is  *)
(* back in the transaction the running call was started in, and no         *)
(* transaction is left on the thread when no call is in progress.          *)
ThreadTx == cur = Seen(depth)

(* No write of a call that failed is ever committed, by whomever: not when *)
(* a caller swallows the error of a nested service, not when a service is  *)
(* retried, and not when a later request of the change set fails.          *)
UndoneStaysOut == undone \cap durable = {}

(* What a call reports as done is committed when it owns the transaction:  *)
(* no write it or a nested call in its transaction made has been lost.     *)
PromisedIsDurable == promised \subseteq durable

(* However many deadlocks there are, the end of the retry loop without an   *)
(* attempt left is the only step that breaks such a promise.                *)
OnlyGiveUpBreaksPromises ==
    [][PromisedIsDurable => PromisedIsDurable' \/ GiveUp]_vars
=============================================================================
