---------------------------- MODULE SequenceBank ----------------------------
(***************************************************************************)
(* Sequence ids (SequenceUtil.java).  Every server keeps a bank of ids for *)
(* a sequence, the interval curSeqId .. maxSeqId - 1, and refills it from  *)
(* the one row of the sequence table all servers share.  fillBank is the   *)
(* dedicated transaction of four statements: lock the row with an update   *)
(* that changes nothing (insert the row when there is none), select it,    *)
(* increment it, commit.  Threads of a server exclude each other by the    *)
(* bank's monitor, so a server is one process here.                        *)
(***************************************************************************)
EXTENDS Integers, Sequences

CONSTANTS
    Servers,          \* the JVMs that share the database
    Staggers,         \* the values "stagger" may take (1 unless staggerMax > 1)
    BankSize,         \* SequenceBank.bankSize, from the entity model
    DefaultBankSize,  \* SequenceBank.defaultBankSize
    MaxBankSize,      \* SequenceBank.maxBankSize
    StartSeqId,       \* SequenceBank.startSeqId
    FirstRows,        \* the values the row may have been loaded with
    None,             \* no server
    MaxRow            \* bound: no refill starts once the row has reached it

ASSUME BankAssumption ==
    /\ Staggers \subseteq Nat \ {0}
    /\ BankSize \in Nat \ {0}
    /\ DefaultBankSize \in Nat \ {0}
    /\ MaxBankSize \in Nat \ {0}
    /\ StartSeqId \in Nat \ {0}
    /\ FirstRows \subseteq Nat
    /\ MaxRow \in Nat
    /\ None \notin Servers

VARIABLES
    row,       \* the committed value of the sequence row, NoRow before the insert
    rowLock,   \* the server whose transaction holds the row's lock
    work,      \* the row as the transaction of the lock's holder sees it
    cur, max,  \* curSeqId and maxSeqId of each server's bank
    pc,        \* where each server is in getNextSeqId / refresh / fillBank
    stagger,   \* the argument of the call in progress
    asked,     \* the call in progress: "next" (an id is wanted) or "refresh"
    handed     \* history: the ids returned to callers, in order

vars == <<row, rowLock, work, cur, max, pc, stagger, asked, handed>>

NoRow == 0

\* The number of ids a refill takes for the given stagger.
FillSize(g) ==
    LET size == IF g > 1 THEN g * DefaultBankSize ELSE BankSize
    IN  IF size > MaxBankSize THEN MaxBankSize ELSE size

Init ==
    /\ row \in FirstRows
    /\ rowLock = None
    /\ work = NoRow
    /\ cur = [s \in Servers |-> 0]
    /\ max = [s \in Servers |-> 0]
    /\ pc = [s \in Servers |-> "idle"]
    /\ stagger = [s \in Servers |-> 1]
    /\ asked = [s \in Servers |-> "next"]
    /\ handed = <<>>

-----------------------------------------------------------------------------
(* getNextSeqId and forceBankRefresh                                       *)

\* An id is taken from the bank: the low end is returned, the bank shrinks.
TakeFromBank(s, g) ==
    /\ cur[s] + g <= max[s]
    /\ handed' = Append(handed, cur[s])
    /\ cur' = [cur EXCEPT ![s] = @ + g]

\* getNextSeqId when the bank holds enough ids.
NextFromBank(s, g) ==
    /\ pc[s] = "idle"
    /\ TakeFromBank(s, g)
    /\ UNCHANGED <<row, rowLock, work, max, pc, stagger, asked>>

\* getNextSeqId when it does not: fillBank is entered.
NextNeedsFill(s, g) ==
    /\ pc[s] = "idle" /\ row <= MaxRow
    /\ cur[s] + g > max[s]
    /\ pc' = [pc EXCEPT ![s] = "lock"]
    /\ stagger' = [stagger EXCEPT ![s] = g]
    /\ asked' = [asked EXCEPT ![s] = "next"]
    /\ UNCHANGED <<row, rowLock, work, cur, max, handed>>

\* forceBankRefresh: what is left of the bank is dropped and a new one fetched.
RefreshBank(s, g) ==
    /\ pc[s] = "idle" /\ row <= MaxRow
    /\ cur' = [cur EXCEPT ![s] = max[s]]
    /\ pc' = [pc EXCEPT ![s] = "lock"]
    /\ stagger' = [stagger EXCEPT ![s] = g]
    /\ asked' = [asked EXCEPT ![s] = "refresh"]
    /\ UNCHANGED <<row, rowLock, work, max, handed>>

\* Back from fillBank: refresh ends, getNextSeqId answers an id or null.
AfterFill(s) == IF asked[s] = "next" THEN "answer" ELSE "idle"

AnswerFilled(s) ==
    /\ pc[s] = "answer"
    /\ TakeFromBank(s, stagger[s])
    /\ pc' = [pc EXCEPT ![s] = "idle"]
    /\ UNCHANGED <<row, rowLock, work, max, stagger, asked>>

AnswerNull(s) ==
    /\ pc[s] = "answer"
    /\ cur[s] + stagger[s] > max[s]
    /\ pc' = [pc EXCEPT ![s] = "idle"]
    /\ UNCHANGED <<row, rowLock, work, cur, max, stagger, asked, handed>>

-----------------------------------------------------------------------------
(* fillBank                                                                *)

\* Mutant of LockRow: a plain read, which waits for nobody.
ReadWithoutLock(s) ==
    /\ pc[s] = "lock"
    /\ row # NoRow
    /\ rowLock' = s
    /\ work' = row
    /\ pc' = [pc EXCEPT ![s] = "select"]
    /\ UNCHANGED <<row, cur, max, stagger, asked, handed>>

\* 1 - the update that changes nothing waits for the row's lock and takes it.
LockRow(s) ==
    /\ pc[s] = "lock"
    /\ row # NoRow /\ rowLock = None
    /\ rowLock' = s
    /\ work' = row
    /\ pc' = [pc EXCEPT ![s] = "select"]
    /\ UNCHANGED <<row, cur, max, stagger, asked, handed>>

\* 1 - it matches no committed row.
LockNoRow(s) ==
    /\ pc[s] = "lock"
    /\ row = NoRow
    /\ pc' = [pc EXCEPT ![s] = "insert"]
    /\ UNCHANGED <<row, rowLock, work, cur, max, stagger, asked, handed>>

\* 1bis - the insert waits for an uncommitted insert of the same key; it
\* succeeds if there still is no row, and otherwise the update is run again.
InsertRow(s) ==
    /\ pc[s] = "insert"
    /\ rowLock = None
    /\ \/ /\ row = NoRow
          /\ rowLock' = s
          /\ work' = StartSeqId
          /\ pc' = [pc EXCEPT ![s] = "select"]
       \/ /\ row # NoRow
          /\ pc' = [pc EXCEPT ![s] = "lock"]
          /\ UNCHANGED <<rowLock, work>>
    /\ UNCHANGED <<row, cur, max, stagger, asked, handed>>

\* 2 - the locked row is read straight into curSeqId.
SelectRow(s) ==
    /\ pc[s] = "select"
    /\ cur' = [cur EXCEPT ![s] = work]
    /\ pc' = [pc EXCEPT ![s] = "increment"]
    /\ UNCHANGED <<row, rowLock, work, max, stagger, asked, handed>>

\* 3 - the row is incremented in the database.
IncrementRow(s) ==
    /\ pc[s] = "increment"
    /\ work' = work + FillSize(stagger[s])
    /\ pc' = [pc EXCEPT ![s] = "commit"]
    /\ UNCHANGED <<row, rowLock, cur, max, stagger, asked, handed>>

\* Mutant of CommitFill: the cap on the bank's size is forgotten on this side.
CommitUncapped(s) ==
    /\ pc[s] = "commit"
    /\ row' = work
    /\ rowLock' = None
    /\ max' = [max EXCEPT ![s] = cur[s] + stagger[s] * DefaultBankSize]
    /\ pc' = [pc EXCEPT ![s] = AfterFill(s)]
    /\ UNCHANGED <<work, cur, stagger, asked, handed>>

\* The transaction commits and the bank is open up to maxSeqId.
CommitFill(s) ==
    /\ pc[s] = "commit"
    /\ row' = work
    /\ rowLock' = None
    /\ max' = [max EXCEPT ![s] = cur[s] + FillSize(stagger[s])]
    /\ pc' = [pc EXCEPT ![s] = AfterFill(s)]
    /\ UNCHANGED <<work, cur, stagger, asked, handed>>

InFill == {"lock", "insert", "select", "increment", "commit"}

\* A transaction that ends lets the row go.
ReleaseLock(s) == rowLock' = IF rowLock = s THEN None ELSE rowLock

\* Mutant of ResetBank: "no bank" is written as -1.
ResetToMinusOne(s) ==
    /\ cur' = [cur EXCEPT ![s] = 0]
    /\ max' = [max EXCEPT ![s] = -1]

\* The bank forgets everything: a failed fillBank, or a new JVM.
ResetBank(s) ==
    /\ cur' = [cur EXCEPT ![s] = 0]
    /\ max' = [max EXCEPT ![s] = 0]

\* A statement, the connection or the commit fails: the bank is reset, the
\* transaction rolled back and fillBank returns.
FillFails(s) ==
    /\ pc[s] \in InFill
    /\ ResetBank(s)
    /\ ReleaseLock(s)
    /\ pc' = [pc EXCEPT ![s] = AfterFill(s)]
    /\ UNCHANGED <<row, work, stagger, asked, handed>>

\* The commit took effect and still an error comes back: the answer of the
\* database is lost, or the caller's transaction cannot be resumed.
FailsAfterCommit(s) ==
    /\ pc[s] = "commit"
    /\ row' = work
    /\ rowLock' = None
    /\ ResetBank(s)
    /\ pc' = [pc EXCEPT ![s] = AfterFill(s)]
    /\ UNCHANGED <<work, stagger, asked, handed>>

\* The JVM dies and comes back: its bank is lost, an open transaction undone.
CrashServer(s) ==
    /\ ResetBank(s)
    /\ ReleaseLock(s)
    /\ pc' = [pc EXCEPT ![s] = "idle"]
    /\ UNCHANGED <<row, work, stagger, asked, handed>>

ServerStep(s) ==
    \/ \E g \in Staggers :
          NextFromBank(s, g) \/ NextNeedsFill(s, g) \/ RefreshBank(s, g)
    \/ AnswerFilled(s) \/ AnswerNull(s)
    \/ LockRow(s) \/ LockNoRow(s) \/ InsertRow(s)
    \/ SelectRow(s) \/ IncrementRow(s) \/ CommitFill(s)
    \/ FillFails(s) \/ FailsAfterCommit(s) \/ CrashServer(s)

Next == \E s \in Servers : ServerStep(s)

Spec == Init /\ [][Next]_vars

-----------------------------------------------------------------------------
(* Properties                                                              *)

TypeOK ==
    /\ row \in Nat
    /\ rowLock \in Servers \cup {None}
    /\ work \in Nat
    /\ cur \in [Servers -> Nat]
    /\ max \in [Servers -> Nat]
    /\ pc \in [Servers -> InFill \cup {"idle", "answer"}]
    /\ stagger \in [Servers -> Nat \ {0}]
    /\ asked \in [Servers -> {"next", "refresh"}]
    /\ handed \in Seq(Nat)

\* No id is in the banks of two servers, and no bank holds an id already
\* returned, or one the shared row can still give to somebody: whatever
\* order the fillBank transactions, their failures and crashes come in.
BanksDisjoint ==
    \A s \in Servers :
        /\ max[s] <= row
        /\ \A t \in Servers \ {s} : \/ cur[s] >= max[s] \/ cur[t] >= max[t]
                                    \/ max[s] <= cur[t] \/ max[t] <= cur[s]
        /\ \A k \in DOMAIN handed : \/ cur[s] >= max[s]
                                    \/ handed[k] < cur[s] \/ handed[k] >= max[s]

\* SequenceUtil implements a source of unique ids: no id is returned twice
\* by getNextSeqId, on whichever servers (SequenceUtil.java:40).
Ids == INSTANCE UniqueIds WITH issued <- handed
HandsOutUniqueIds == Ids!USpec

\* A server that holds the row's lock is inside its fillBank transaction and
\* the row has not moved under it, so a lock is never left behind by an error.
LockIsHeldInFill ==
    /\ rowLock # None => pc[rowLock] \in {"select", "increment", "commit"}
    /\ \A s \in Servers : pc[s] \in {"select", "increment", "commit"} => rowLock = s
=============================================================================
