------------------------- MODULE SequenceBankProofs -------------------------
(***************************************************************************)
(* For any number of servers, any bank sizes and staggers, SequenceBank    *)
(* implements UniqueIds.  The argument: all ids below the committed row    *)
(* are spoken for (returned, in exactly one bank, or dropped), a server    *)
(* inside the locked part of fillBank has read a value at or above the     *)
(* row, and so the bank it opens with its commit is new.                   *)
(***************************************************************************)
EXTENDS SequenceBank, TLAPS

\* Every id that was returned has been passed by the committed row.
HandedBelowRow == \A k \in DOMAIN handed : handed[k] < row

\* What a server knows between the lock and the commit of its fillBank.
FillKnows ==
    \A s \in Servers :
        /\ pc[s] = "select" => work >= row
        /\ pc[s] = "increment" => work >= row /\ cur[s] = work
        /\ pc[s] = "commit" => cur[s] >= row /\ work = cur[s] + FillSize(stagger[s])

IInv == TypeOK /\ LockIsHeldInFill /\ BanksDisjoint /\ HandedBelowRow /\ FillKnows

\* A refill always takes at least one id.
LEMMA FillSizePositive ==
  ASSUME NEW g \in Nat \ {0}
  PROVE  FillSize(g) \in Nat \ {0}
<1>1. g * DefaultBankSize \in Nat \ {0}
  BY BankAssumption
<1>2. QED
  BY <1>1, BankAssumption DEF FillSize

\* The initial banks are empty.
LEMMA InitIInv == Init => IInv
  BY BankAssumption
  DEF Init, IInv, TypeOK, LockIsHeldInFill, BanksDisjoint, HandedBelowRow, FillKnows, InFill, NoRow

\* Taking an id keeps the banks apart: the id leaves the one bank it was in.
LEMMA TakeKeeps ==
  ASSUME IInv, NEW s \in Servers, NEW g \in Nat \ {0}, TakeFromBank(s, g),
         pc[s] \in {"idle", "answer"},
         pc' \in [Servers -> InFill \cup {"idle", "answer"}],
         \A t \in Servers : pc'[t] = pc[t] \/ (t = s /\ pc'[t] = "idle"),
         UNCHANGED <<row, rowLock, work, max, stagger, asked>>
  PROVE  IInv'
<1> USE DEF IInv
<1>1. /\ cur[s] \in Nat /\ max[s] \in Nat /\ cur[s] < max[s] /\ max[s] <= row
      /\ \A t \in Servers : cur'[t] = IF t = s THEN cur[s] + g ELSE cur[t]
  BY DEF TakeFromBank, TypeOK, BanksDisjoint
<1>2. TypeOK'
  <2>1. cur' \in [Servers -> Nat] BY DEF TakeFromBank, TypeOK
  <2>2. handed' \in Seq(Nat) BY <1>1 DEF TakeFromBank, TypeOK
  <2>3. QED BY <2>1, <2>2 DEF TypeOK
<1>3. \A k \in DOMAIN handed' : handed'[k] = cur[s] \/ \E j \in DOMAIN handed : handed'[k] = handed[j]
  <2>1. handed \in Seq(Nat) /\ handed' = Append(handed, cur[s]) BY DEF TakeFromBank, TypeOK
  <2>2. /\ DOMAIN handed = 1 .. Len(handed) /\ Len(handed) \in Nat
        /\ DOMAIN handed' = 1 .. (Len(handed) + 1)
        /\ handed'[Len(handed) + 1] = cur[s]
        /\ \A j \in 1 .. Len(handed) : handed'[j] = handed[j]
    BY <1>1, <2>1
  <2>3. QED BY <2>2
<1>4. HandedBelowRow'
  <2>1. \A j \in DOMAIN handed : handed[j] < row BY DEF HandedBelowRow
  <2>t. row \in Nat BY DEF TypeOK
  <2>2. \A k \in DOMAIN handed' : handed'[k] < row BY <1>1, <1>3, <2>t, <2>1
  <2>3. QED BY <2>2 DEF HandedBelowRow
<1>5. LockIsHeldInFill'
  BY DEF LockIsHeldInFill, TypeOK
<1>6. FillKnows'
  BY <1>1 DEF FillKnows, TypeOK
<1>7. BanksDisjoint'
  <2> SUFFICES ASSUME NEW t \in Servers
               PROVE  /\ max[t] <= row
                      /\ \A u \in Servers \ {t} : \/ cur'[t] >= max[t] \/ cur'[u] >= max[u]
                                                  \/ max[t] <= cur'[u] \/ max[u] <= cur'[t]
                      /\ \A k \in DOMAIN handed' : \/ cur'[t] >= max[t]
                                                   \/ handed'[k] < cur'[t] \/ handed'[k] >= max[t]
    BY DEF BanksDisjoint
  <2>1. max[t] <= row BY DEF BanksDisjoint
  <2>2. ASSUME NEW u \in Servers \ {t}
        PROVE  \/ cur'[t] >= max[t] \/ cur'[u] >= max[u]
               \/ max[t] <= cur'[u] \/ max[u] <= cur'[t]
    <3>1. cur[t] \in Nat /\ max[t] \in Nat /\ cur[u] \in Nat /\ max[u] \in Nat BY DEF TypeOK
    <3>2. \/ cur[t] >= max[t] \/ cur[u] >= max[u] \/ max[t] <= cur[u] \/ max[u] <= cur[t]
      BY DEF BanksDisjoint
    <3>3. QED BY <1>1, <3>1, <3>2
  <2>3. ASSUME NEW k \in DOMAIN handed'
        PROVE  \/ cur'[t] >= max[t] \/ handed'[k] < cur'[t] \/ handed'[k] >= max[t]
    <3>1. CASE handed'[k] = cur[s]
      <4>1. CASE t = s BY <1>1, <3>1, <4>1
      <4>2. CASE t # s
        <5>1. cur[t] \in Nat /\ max[t] \in Nat BY DEF TypeOK
        <5>2. \/ cur[s] >= max[s] \/ cur[t] >= max[t] \/ max[s] <= cur[t] \/ max[t] <= cur[s]
          BY <4>2 DEF BanksDisjoint
        <5>3. QED BY <1>1, <3>1, <4>2, <5>1, <5>2
      <4>3. QED BY <4>1, <4>2
    <3>2. CASE \E j \in DOMAIN handed : handed'[k] = handed[j]
      <4>1. PICK j \in DOMAIN handed : handed'[k] = handed[j] BY <3>2
      <4>2. handed[j] \in Nat BY DEF TypeOK
      <4>3. cur[t] \in Nat /\ max[t] \in Nat BY DEF TypeOK
      <4>4. \/ cur[t] >= max[t] \/ handed[j] < cur[t] \/ handed[j] >= max[t] BY DEF BanksDisjoint
      <4>5. QED BY <1>1, <4>1, <4>2, <4>3, <4>4
    <3>3. QED BY <1>3, <3>1, <3>2
  <2>4. QED BY <2>1, <2>2, <2>3
<1>8. QED BY <1>2, <1>4, <1>5, <1>6, <1>7

\* A step that only moves one server's bank to an empty one keeps the rest.
LEMMA EmptyKeepsBanks ==
  ASSUME IInv, NEW s \in Servers, UNCHANGED handed, row' \in Nat, row' >= row,
         cur' \in [Servers -> Nat], max' \in [Servers -> Nat],
         cur'[s] >= max'[s], max'[s] <= row',
         \A t \in Servers \ {s} : cur'[t] = cur[t] /\ max'[t] = max[t]
  PROVE  BanksDisjoint' /\ HandedBelowRow'
<1>1. HandedBelowRow'
  <2>1. ASSUME NEW k \in DOMAIN handed PROVE handed[k] < row'
    <3>1. handed[k] \in Nat /\ row \in Nat BY DEF IInv, TypeOK
    <3>2. handed[k] < row BY DEF IInv, HandedBelowRow
    <3>3. QED BY <3>1, <3>2
  <2>2. QED BY <2>1 DEF HandedBelowRow
<1>2. ASSUME NEW t \in Servers PROVE max'[t] <= row'
  <2>1. max[t] \in Nat /\ row \in Nat /\ max[t] <= row BY DEF IInv, TypeOK, BanksDisjoint
  <2>2. QED BY <2>1
<1>3. ASSUME NEW t \in Servers, NEW u \in Servers \ {t}
      PROVE  \/ cur'[t] >= max'[t] \/ cur'[u] >= max'[u]
             \/ max'[t] <= cur'[u] \/ max'[u] <= cur'[t]
  <2>1. cur[t] \in Nat /\ max[t] \in Nat /\ cur[u] \in Nat /\ max[u] \in Nat BY DEF IInv, TypeOK
  <2>2. \/ cur[t] >= max[t] \/ cur[u] >= max[u] \/ max[t] <= cur[u] \/ max[u] <= cur[t]
    BY DEF IInv, BanksDisjoint
  <2>3. QED BY <2>1, <2>2
<1>4. ASSUME NEW t \in Servers, NEW k \in DOMAIN handed
      PROVE  \/ cur'[t] >= max'[t] \/ handed[k] < cur'[t] \/ handed[k] >= max'[t]
  <2>1. \/ cur[t] >= max[t] \/ handed[k] < cur[t] \/ handed[k] >= max[t]
    BY DEF IInv, BanksDisjoint
  <2>2. QED BY <2>1
<1>5. QED BY <1>1, <1>2, <1>3, <1>4 DEF BanksDisjoint

\* Every step of a server keeps the invariant, one case per action.
LEMMA NextIInv == IInv /\ [Next]_vars => IInv'
<1> SUFFICES ASSUME IInv, [Next]_vars PROVE IInv'
  OBVIOUS
<1>t. TypeOK /\ LockIsHeldInFill /\ BanksDisjoint /\ HandedBelowRow /\ FillKnows
  BY DEF IInv
<1>1. CASE UNCHANGED vars
  BY <1>t, <1>1 DEF IInv, vars, TypeOK, LockIsHeldInFill, BanksDisjoint, HandedBelowRow, FillKnows
<1>2. ASSUME NEW s \in Servers, NEW g \in Staggers, NextFromBank(s, g) PROVE IInv'
  <2>1. g \in Nat \ {0} BY BankAssumption
  <2>2. QED BY <1>2, <1>t, <2>1, TakeKeeps DEF NextFromBank, TypeOK
<1>3. ASSUME NEW s \in Servers, NEW g \in Staggers, NextNeedsFill(s, g) PROVE IInv'
  <2>1. g \in Nat \ {0} BY BankAssumption
  <2>2. TypeOK' BY <1>3, <1>t, <2>1 DEF NextNeedsFill, TypeOK, InFill
  <2>3. LockIsHeldInFill' BY <1>3, <1>t, BankAssumption DEF NextNeedsFill, LockIsHeldInFill, TypeOK
  <2>4. BanksDisjoint' /\ HandedBelowRow'
    BY <1>3, <1>t DEF NextNeedsFill, BanksDisjoint, HandedBelowRow
  <2>5. FillKnows' BY <1>3, <1>t DEF NextNeedsFill, FillKnows, TypeOK
  <2>6. QED BY <2>2, <2>3, <2>4, <2>5 DEF IInv
<1>4. ASSUME NEW s \in Servers, NEW g \in Staggers, RefreshBank(s, g) PROVE IInv'
  <2>1. g \in Nat \ {0} BY BankAssumption
  <2>2. TypeOK' BY <1>4, <1>t, <2>1 DEF RefreshBank, TypeOK, InFill
  <2>3. LockIsHeldInFill' BY <1>4, <1>t, BankAssumption DEF RefreshBank, LockIsHeldInFill, TypeOK
  <2>4. BanksDisjoint' /\ HandedBelowRow'
    <3>1. cur'[s] >= max'[s] /\ max'[s] <= row' /\ row' >= row
      BY <1>4, <1>t DEF RefreshBank, TypeOK, BanksDisjoint
    <3>2. /\ row' \in Nat /\ cur' \in [Servers -> Nat] /\ max' \in [Servers -> Nat]
          /\ handed' = handed
      BY <1>4, <2>2 DEF RefreshBank, TypeOK
    <3>3. \A t \in Servers \ {s} : cur'[t] = cur[t] /\ max'[t] = max[t]
      BY <1>4, <1>t DEF RefreshBank, TypeOK
    <3>4. QED BY <3>1, <3>2, <3>3, EmptyKeepsBanks
  <2>5. FillKnows' BY <1>4, <1>t DEF RefreshBank, FillKnows, TypeOK
  <2>6. QED BY <2>2, <2>3, <2>4, <2>5 DEF IInv
<1>5. ASSUME NEW s \in Servers, AnswerFilled(s) PROVE IInv'
  <2>1. stagger[s] \in Nat \ {0} BY <1>t DEF TypeOK
  <2>2. pc' \in [Servers -> InFill \cup {"idle", "answer"}]
    BY <1>5, <1>t DEF AnswerFilled, TypeOK
  <2>3. \A t \in Servers : pc'[t] = pc[t] \/ (t = s /\ pc'[t] = "idle")
    BY <1>5, <1>t DEF AnswerFilled, TypeOK
  <2>4. QED BY <1>5, <2>1, <2>2, <2>3, TakeKeeps DEF AnswerFilled
<1>6. ASSUME NEW s \in Servers, AnswerNull(s) PROVE IInv'
  <2>2. TypeOK' BY <1>6, <1>t DEF AnswerNull, TypeOK, InFill
  <2>3. LockIsHeldInFill' BY <1>6, <1>t, BankAssumption DEF AnswerNull, LockIsHeldInFill, TypeOK
  <2>4. BanksDisjoint' /\ HandedBelowRow'
    BY <1>6, <1>t DEF AnswerNull, BanksDisjoint, HandedBelowRow
  <2>5. FillKnows' BY <1>6, <1>t DEF AnswerNull, FillKnows, TypeOK
  <2>6. QED BY <2>2, <2>3, <2>4, <2>5 DEF IInv
<1>7. ASSUME NEW s \in Servers, LockRow(s) PROVE IInv'
  <2>2. TypeOK' BY <1>7, <1>t DEF LockRow, TypeOK, InFill
  <2>3. LockIsHeldInFill' BY <1>7, <1>t, BankAssumption DEF LockRow, LockIsHeldInFill, TypeOK
  <2>4. BanksDisjoint' /\ HandedBelowRow'
    BY <1>7, <1>t DEF LockRow, BanksDisjoint, HandedBelowRow
  <2>5. FillKnows'
    BY <1>7, <1>t, BankAssumption DEF LockRow, FillKnows, LockIsHeldInFill, TypeOK
  <2>6. QED BY <2>2, <2>3, <2>4, <2>5 DEF IInv
<1>8. ASSUME NEW s \in Servers, LockNoRow(s) PROVE IInv'
  <2>2. TypeOK' BY <1>8, <1>t DEF LockNoRow, TypeOK, InFill
  <2>3. LockIsHeldInFill' BY <1>8, <1>t, BankAssumption DEF LockNoRow, LockIsHeldInFill, TypeOK
  <2>4. BanksDisjoint' /\ HandedBelowRow'
    BY <1>8, <1>t DEF LockNoRow, BanksDisjoint, HandedBelowRow
  <2>5. FillKnows' BY <1>8, <1>t DEF LockNoRow, FillKnows, TypeOK
  <2>6. QED BY <2>2, <2>3, <2>4, <2>5 DEF IInv
<1>9. ASSUME NEW s \in Servers, InsertRow(s) PROVE IInv'
  <2>2. TypeOK' BY <1>9, <1>t, BankAssumption DEF InsertRow, TypeOK, InFill
  <2>3. LockIsHeldInFill' BY <1>9, <1>t, BankAssumption DEF InsertRow, LockIsHeldInFill, TypeOK
  <2>4. BanksDisjoint' /\ HandedBelowRow'
    BY <1>9, <1>t DEF InsertRow, BanksDisjoint, HandedBelowRow
  <2>5. FillKnows'
    <3>1. CASE row = NoRow
      <4>1. /\ pc' = [pc EXCEPT ![s] = "select"] /\ work' = StartSeqId
            /\ row' = 0 /\ rowLock = None
        BY <1>9, <3>1 DEF InsertRow, NoRow
      <4>2. \A t \in Servers : pc[t] \notin {"select", "increment", "commit"}
        BY <1>t, <4>1, BankAssumption DEF LockIsHeldInFill
      <4>3. \A t \in Servers : pc'[t] \notin {"increment", "commit"}
        BY <1>t, <4>1, <4>2 DEF TypeOK
      <4>4. work' >= row' BY <4>1, BankAssumption
      <4>5. QED BY <4>3, <4>4 DEF FillKnows
    <3>2. CASE row # NoRow
      <4>1. /\ pc' = [pc EXCEPT ![s] = "lock"]
            /\ UNCHANGED <<work, row, cur, stagger>>
        BY <1>9, <3>2 DEF InsertRow
      <4>2. QED BY <1>t, <4>1 DEF FillKnows, TypeOK
    <3>3. QED BY <3>1, <3>2
  <2>6. QED BY <2>2, <2>3, <2>4, <2>5 DEF IInv
<1>10. ASSUME NEW s \in Servers, SelectRow(s) PROVE IInv'
  <2>2. TypeOK' BY <1>10, <1>t DEF SelectRow, TypeOK, InFill
  <2>3. LockIsHeldInFill' BY <1>10, <1>t, BankAssumption DEF SelectRow, LockIsHeldInFill, TypeOK
  <2>4. BanksDisjoint' /\ HandedBelowRow'
    <3>1. work >= row BY <1>10, <1>t DEF SelectRow, FillKnows
    <3>2. max[s] <= row BY <1>t DEF BanksDisjoint
    <3>3. cur'[s] >= max'[s] /\ max'[s] <= row' /\ row' >= row
      BY <1>10, <1>t, <3>1, <3>2 DEF SelectRow, TypeOK
    <3>4. /\ row' \in Nat /\ cur' \in [Servers -> Nat] /\ max' \in [Servers -> Nat]
          /\ handed' = handed
      BY <1>10, <2>2 DEF SelectRow, TypeOK
    <3>5. \A t \in Servers \ {s} : cur'[t] = cur[t] /\ max'[t] = max[t]
      BY <1>10, <1>t DEF SelectRow, TypeOK
    <3>6. QED BY <3>3, <3>4, <3>5, EmptyKeepsBanks
  <2>5. FillKnows'
    BY <1>10, <1>t, BankAssumption DEF SelectRow, FillKnows, LockIsHeldInFill, TypeOK
  <2>6. QED BY <2>2, <2>3, <2>4, <2>5 DEF IInv
<1>11. ASSUME NEW s \in Servers, IncrementRow(s) PROVE IInv'
  <2>1. FillSize(stagger[s]) \in Nat \ {0} BY <1>t, FillSizePositive DEF TypeOK
  <2>2. TypeOK' BY <1>11, <1>t, <2>1 DEF IncrementRow, TypeOK, InFill
  <2>3. LockIsHeldInFill' BY <1>11, <1>t, BankAssumption DEF IncrementRow, LockIsHeldInFill, TypeOK
  <2>4. BanksDisjoint' /\ HandedBelowRow'
    BY <1>11, <1>t DEF IncrementRow, BanksDisjoint, HandedBelowRow
  <2>5. FillKnows'
    BY <1>11, <1>t, <2>1, BankAssumption DEF IncrementRow, FillKnows, LockIsHeldInFill, TypeOK
  <2>6. QED BY <2>2, <2>3, <2>4, <2>5 DEF IInv
<1>12. ASSUME NEW s \in Servers, CommitFill(s) PROVE IInv'
  <2>1. FillSize(stagger[s]) \in Nat \ {0} BY <1>t, FillSizePositive DEF TypeOK
  <2>2. TypeOK' BY <1>12, <1>t, <2>1 DEF CommitFill, TypeOK, InFill, AfterFill
  <2>3. LockIsHeldInFill'
    BY <1>12, <1>t, BankAssumption DEF CommitFill, LockIsHeldInFill, TypeOK, AfterFill
  <2>4. /\ cur[s] >= row /\ row' = cur[s] + FillSize(stagger[s]) /\ max'[s] = row'
        /\ \A t \in Servers \ {s} : max'[t] = max[t] /\ max[t] <= row
        /\ row \in Nat /\ row' \in Nat /\ cur' = cur /\ handed' = handed
    BY <1>12, <1>t, <2>2 DEF CommitFill, FillKnows, TypeOK, BanksDisjoint
  <2>5. HandedBelowRow' BY <1>t, <2>1, <2>4 DEF HandedBelowRow, TypeOK
  <2>6. BanksDisjoint'
    <3>t. \A t \in Servers : cur[t] \in Nat /\ max[t] \in Nat BY <1>t DEF TypeOK
    <3>1. ASSUME NEW t \in Servers PROVE max'[t] <= row'
      <4>1. CASE t = s BY <2>4, <4>1
      <4>2. CASE t # s BY <2>1, <2>4, <3>t, <4>2
      <4>3. QED BY <4>1, <4>2
    <3>2. ASSUME NEW t \in Servers, NEW u \in Servers \ {t}
          PROVE  \/ cur[t] >= max'[t] \/ cur[u] >= max'[u]
                 \/ max'[t] <= cur[u] \/ max'[u] <= cur[t]
      <4>1. CASE t = s BY <2>4, <3>t, <4>1
      <4>2. CASE u = s BY <2>4, <3>t, <4>2
      <4>3. CASE t # s /\ u # s
        <5>1. \/ cur[t] >= max[t] \/ cur[u] >= max[u] \/ max[t] <= cur[u] \/ max[u] <= cur[t]
          BY <1>t DEF BanksDisjoint
        <5>2. QED BY <2>4, <4>3, <5>1
      <4>4. QED BY <4>1, <4>2, <4>3
    <3>3. ASSUME NEW t \in Servers, NEW k \in DOMAIN handed
          PROVE  \/ cur[t] >= max'[t] \/ handed[k] < cur[t] \/ handed[k] >= max'[t]
      <4>1. handed[k] \in Nat /\ handed[k] < row BY <1>t DEF TypeOK, HandedBelowRow
      <4>2. CASE t = s BY <2>4, <3>t, <4>1, <4>2
      <4>3. CASE t # s
        <5>1. \/ cur[t] >= max[t] \/ handed[k] < cur[t] \/ handed[k] >= max[t]
          BY <1>t DEF BanksDisjoint
        <5>2. QED BY <2>4, <4>3, <5>1
      <4>4. QED BY <4>2, <4>3
    <3>4. QED BY <2>4, <3>1, <3>2, <3>3 DEF BanksDisjoint
  <2>7. FillKnows'
    BY <1>12, <1>t, BankAssumption DEF CommitFill, FillKnows, LockIsHeldInFill, TypeOK, AfterFill
  <2>8. QED BY <2>2, <2>3, <2>5, <2>6, <2>7 DEF IInv
<1>13. ASSUME NEW s \in Servers, FillFails(s) PROVE IInv'
  <2>2. TypeOK' BY <1>13, <1>t DEF FillFails, ResetBank, ReleaseLock, TypeOK, InFill, AfterFill
  <2>3. LockIsHeldInFill'
    BY <1>13, <1>t, BankAssumption DEF FillFails, ReleaseLock, LockIsHeldInFill, TypeOK, AfterFill
  <2>4. BanksDisjoint' /\ HandedBelowRow'
    <3>1. /\ row' \in Nat /\ cur' \in [Servers -> Nat] /\ max' \in [Servers -> Nat]
          /\ handed' = handed
      BY <1>13, <2>2 DEF FillFails, TypeOK
    <3>2. cur'[s] >= max'[s] /\ max'[s] <= row' /\ row' >= row
      BY <1>13, <1>t, <3>1 DEF FillFails, ResetBank, TypeOK
    <3>3. \A t \in Servers \ {s} : cur'[t] = cur[t] /\ max'[t] = max[t]
      BY <1>13, <1>t DEF FillFails, ResetBank, TypeOK
    <3>4. QED BY <3>1, <3>2, <3>3, EmptyKeepsBanks
  <2>5. FillKnows'
    BY <1>13, <1>t, BankAssumption DEF FillFails, ResetBank, FillKnows, TypeOK, AfterFill
  <2>6. QED BY <2>2, <2>3, <2>4, <2>5 DEF IInv
<1>14. ASSUME NEW s \in Servers, FailsAfterCommit(s) PROVE IInv'
  <2>1. FillSize(stagger[s]) \in Nat \ {0} BY <1>t, FillSizePositive DEF TypeOK
  <2>2. TypeOK' BY <1>14, <1>t DEF FailsAfterCommit, ResetBank, TypeOK, InFill, AfterFill
  <2>3. LockIsHeldInFill'
    BY <1>14, <1>t, BankAssumption DEF FailsAfterCommit, LockIsHeldInFill, TypeOK, AfterFill
  <2>4. row' >= row BY <1>14, <1>t, <2>1 DEF FailsAfterCommit, FillKnows, TypeOK
  <2>5. BanksDisjoint' /\ HandedBelowRow'
    <3>1. /\ row' \in Nat /\ cur' \in [Servers -> Nat] /\ max' \in [Servers -> Nat]
          /\ handed' = handed
      BY <1>14, <2>2 DEF FailsAfterCommit, TypeOK
    <3>2. cur'[s] >= max'[s] /\ max'[s] <= row' /\ row' >= row
      BY <1>14, <1>t, <3>1, <2>4 DEF FailsAfterCommit, ResetBank, TypeOK
    <3>3. \A t \in Servers \ {s} : cur'[t] = cur[t] /\ max'[t] = max[t]
      BY <1>14, <1>t DEF FailsAfterCommit, ResetBank, TypeOK
    <3>4. QED BY <3>1, <3>2, <3>3, EmptyKeepsBanks
  <2>6. FillKnows'
    BY <1>14, <1>t, BankAssumption
    DEF FailsAfterCommit, ResetBank, FillKnows, LockIsHeldInFill, TypeOK, AfterFill
  <2>7. QED BY <2>2, <2>3, <2>5, <2>6 DEF IInv
<1>15. ASSUME NEW s \in Servers, CrashServer(s) PROVE IInv'
  <2>2. TypeOK' BY <1>15, <1>t DEF CrashServer, ResetBank, ReleaseLock, TypeOK, InFill
  <2>3. LockIsHeldInFill'
    BY <1>15, <1>t, BankAssumption DEF CrashServer, ReleaseLock, LockIsHeldInFill, TypeOK
  <2>4. BanksDisjoint' /\ HandedBelowRow'
    <3>1. /\ row' \in Nat /\ cur' \in [Servers -> Nat] /\ max' \in [Servers -> Nat]
          /\ handed' = handed
      BY <1>15, <2>2 DEF CrashServer, TypeOK
    <3>2. cur'[s] >= max'[s] /\ max'[s] <= row' /\ row' >= row
      BY <1>15, <1>t, <3>1 DEF CrashServer, ResetBank, TypeOK
    <3>3. \A t \in Servers \ {s} : cur'[t] = cur[t] /\ max'[t] = max[t]
      BY <1>15, <1>t DEF CrashServer, ResetBank, TypeOK
    <3>4. QED BY <3>1, <3>2, <3>3, EmptyKeepsBanks
  <2>5. FillKnows'
    BY <1>15, <1>t, BankAssumption DEF CrashServer, ResetBank, FillKnows, TypeOK
  <2>6. QED BY <2>2, <2>3, <2>4, <2>5 DEF IInv
<1>16. QED
  BY <1>1, <1>2, <1>3, <1>4, <1>5, <1>6, <1>7, <1>8, <1>9, <1>10, <1>11, <1>12, <1>13, <1>14, <1>15
  DEF Next, ServerStep

\* The invariant holds throughout.
LEMMA AlwaysIInv == Spec => []IInv
  BY InitIInv, NextIInv, PTL DEF Spec

\* The shared row, the banks and the ids returned keep their types: in
\* particular a bank that is dropped or reset never goes below zero.
THEOREM TypeCorrect == Spec => []TypeOK
<1>1. IInv => TypeOK BY DEF IInv
<1>2. QED BY <1>1, AlwaysIInv, PTL

\* Ids are never in two banks, never in a bank after they were returned, and
\* never above what the shared row has passed, for any number of servers.
THEOREM BanksStayDisjoint == Spec => []BanksDisjoint
<1>1. IInv => BanksDisjoint BY DEF IInv
<1>2. QED BY <1>1, AlwaysIInv, PTL

\* The row's lock is held exactly by the server inside its locked statements.
THEOREM LockStaysInFill == Spec => []LockIsHeldInFill
<1>1. IInv => LockIsHeldInFill BY DEF IInv
<1>2. QED BY <1>1, AlwaysIInv, PTL

\* A step of the banks is a step of UniqueIds or changes nothing it sees.
LEMMA StepIssues == IInv /\ [Next]_vars => [Ids!Issue]_handed
<1> SUFFICES ASSUME IInv, [Next]_vars, handed' # handed PROVE Ids!Issue
  OBVIOUS
<1>1. PICK s \in Servers : \/ \E g \in Staggers : NextFromBank(s, g)
                           \/ AnswerFilled(s)
  BY DEF Next, ServerStep, vars, NextNeedsFill, RefreshBank, AnswerNull, LockRow, LockNoRow,
         InsertRow, SelectRow, IncrementRow, CommitFill, FillFails, FailsAfterCommit, CrashServer
<1>2. PICK g \in Nat \ {0} : TakeFromBank(s, g)
  <2>1. stagger[s] \in Nat \ {0} BY DEF IInv, TypeOK
  <2>2. QED BY <1>1, <2>1, BankAssumption DEF NextFromBank, AnswerFilled
<1>3. cur[s] \in Nat /\ cur[s] < max[s] BY <1>2 DEF TakeFromBank, IInv, TypeOK
<1>4. \A k \in DOMAIN handed : handed[k] # cur[s]
  <2>1. SUFFICES ASSUME NEW k \in DOMAIN handed PROVE handed[k] # cur[s] OBVIOUS
  <2>2. handed[k] \in Nat /\ max[s] \in Nat BY DEF IInv, TypeOK
  <2>3. \/ handed[k] < cur[s] \/ handed[k] >= max[s]
    BY <1>3, <2>2 DEF IInv, BanksDisjoint
  <2>4. QED BY <1>3, <2>2, <2>3
<1>5. handed' = Append(handed, cur[s]) BY <1>2 DEF TakeFromBank
<1>6. cur[s] \in {handed'[k] : k \in DOMAIN handed'}
  <2>1. handed \in Seq(Nat) BY DEF IInv, TypeOK
  <2>2. Len(handed) + 1 \in DOMAIN handed' /\ handed'[Len(handed) + 1] = cur[s]
    BY <1>3, <1>5, <2>1
  <2>3. QED BY <2>2
<1>7. QED BY <1>4, <1>5, <1>6 DEF Ids!Issue

\* No id is ever handed out twice, for any number of servers, any bank sizes
\* and staggers, under failures and crashes.
THEOREM SequenceIdsAreUnique == Spec => HandsOutUniqueIds
<1>1. Init => Ids!UInit BY DEF Init, Ids!UInit
<1>2. QED BY <1>1, AlwaysIInv, StepIssues, PTL DEF HandsOutUniqueIds, Ids!USpec, Spec
=============================================================================
