-------------------------- MODULE JobSandboxProofs --------------------------
(***************************************************************************)
(* For any number of instances, jobs and services, through crashes,        *)
(* restarts and the administrator's write-backs: the tables and the job    *)
(* objects keep their types, a service with a semaphore is run by the      *)
(* holder of its row and by nobody else, and a job is started at most once *)
(* unless an administrator's write-back undid its claim.                   *)
(***************************************************************************)
EXTENDS JobSandbox, TLAPS

ObjType ==
    [phase: Phases, copy: RowType \cup {NoRow}, limit: Nat, recurred: BOOLEAN]

(* The phases in which a job object works on a value it has read.          *)
Reading == Phases \ {"none", "claimed", "queued", "rejected"}

CrashedType == [job: Rows, copy: RowType, made: BOOLEAN]

RowsTyped == row \in [Rows -> RowType \cup {NoRow}]
ObjsTyped == obj \in [Instances -> [Rows -> ObjType]]
SemTyped == sem \in [Services -> {None} \cup [inst: Instances, holder: Rows]]

(* An object that works on a value has one, and one that is about to make  *)
(* a recurrence has recurrences left.                                      *)
CopiesRead ==
    \A i \in Instances, j \in Rows :
        /\ obj[i][j].phase \in Reading => obj[i][j].copy \in RowType
        /\ obj[i][j].phase = "started" => obj[i][j].copy.left > 0

AdminTyped ==
    admin.op # "none" => /\ admin.op \in {"cancel", "noRetry", "reset"}
                         /\ admin.job \in Rows /\ admin.copy \in RowType

TypeInv ==
    /\ RowsTyped /\ ObjsTyped /\ SemTyped /\ CopiesRead /\ AdminTyped
    /\ inst \in [Instances -> {"up", "stopping", "down"}]
    /\ due \in [Instances -> SUBSET Rows]
    /\ crashed \in [Instances -> SUBSET CrashedType]

(* Nothing runs on an instance that is down.                               *)
DownIsIdle == \A i \in Instances, j \in Rows : inst[i] = "down" => obj[i][j].phase = "none"

Holds(i, j, v) == sem[v] = [inst |-> i, holder |-> j]
Runs(i, j, v) == obj[i][j].phase = "body" /\ Svc(i, j) = v

(* SemaphoreHeldByBody, saying also which service the holder runs, and    *)
(* that only a service with a semaphore has a row.                         *)
BodiesHold ==
    \A v \in Services, i \in Instances, j \in Rows :
        /\ Mode[v] # "none" /\ Runs(i, j, v) => Holds(i, j, v)
        /\ Holds(i, j, v) /\ inst[i] # "down" => Runs(i, j, v)
        /\ Holds(i, j, v) => Mode[v] # "none"

IInv == TypeInv /\ DownIsIdle /\ BodiesHold

-----------------------------------------------------------------------------
(* The values that are written to the table                                *)

LEMMA NewRowType ==
  ASSUME NEW r \in RowType, NEW expr \in BOOLEAN, NEW left \in Nat, NEW retry \in Nat,
         NEW prev \in Rows \cup {0}
  PROVE  NewRow(r, expr, left, retry, prev) \in RowType
BY DEF NewRow, RowType, Statuses, Live

LEMMA RootRowType == ASSUME NEW j \in Roots PROVE RootRow(j) \in RowType
<1>1. Recurs[j] \in Nat /\ (Recurs[j] > 0) \in BOOLEAN BY JobAssumption
<1> QED BY <1>1, JobAssumption DEF RootRow, RowType, Statuses, Live

LEMMA StoreType ==
  ASSUME RowsTyped, NEW j \in Rows, NEW r \in RowType, Store(j, r) PROVE RowsTyped'
BY DEF RowsTyped, Store

LEMMA CreateType ==
  ASSUME RowsTyped, NEW r \in RowType, Create(r) PROVE RowsTyped'
BY DEF RowsTyped, Create

(* A row that exists is one.                                               *)
LEMMA ExistsType ==
  ASSUME RowsTyped, NEW j \in Rows, Exists(j) PROVE row[j] \in RowType
BY DEF RowsTyped, Exists, NoRow

LEMMA NoObjType == NoObj \in ObjType
BY DEF NoObj, ObjType, Phases

-----------------------------------------------------------------------------
(* Steps that start and end no service                                     *)

LEMMA InitIInv == Init => IInv
<1> SUFFICES ASSUME Init PROVE IInv
  OBVIOUS
<1>1. RowsTyped BY RootRowType DEF Init, RowsTyped
<1>2. ObjsTyped /\ \A i \in Instances, j \in Rows : obj[i][j] = NoObj
  BY NoObjType DEF Init, ObjsTyped
<1>3. CopiesRead /\ DownIsIdle BY <1>2 DEF CopiesRead, DownIsIdle, NoObj, Reading
<1>4. SemTyped /\ AdminTyped BY DEF Init, SemTyped, AdminTyped
<1>5. BodiesHold
  <2>1. \A v \in Services : sem[v] = None BY DEF Init
  <2>2. \A i \in Instances, j \in Rows, v \in Services : ~ Runs(i, j, v) BY <1>2 DEF Runs, NoObj
  <2>3. \A i \in Instances, j \in Rows, v \in Services : ~ Holds(i, j, v)
    BY <2>1, JobAssumption DEF Holds
  <2> QED BY <2>2, <2>3 DEF BodiesHold
<1>6. /\ inst \in [Instances -> {"up", "stopping", "down"}]
      /\ due \in [Instances -> SUBSET Rows] /\ crashed \in [Instances -> SUBSET CrashedType]
  BY DEF Init
<1> QED BY <1>1, <1>2, <1>3, <1>4, <1>5, <1>6 DEF IInv, TypeInv

(* Steps of the poller and the administrator that only touch the tables.   *)
LEMMA TableStep ==
  ASSUME IInv, RowsTyped', AdminTyped',
         due' \in [Instances -> SUBSET Rows], crashed' \in [Instances -> SUBSET CrashedType],
         UNCHANGED <<obj, sem, inst>>
  PROVE  IInv'
<1>1. TypeInv' BY DEF IInv, TypeInv, ObjsTyped, SemTyped, CopiesRead
<1>2. DownIsIdle' /\ BodiesHold' BY DEF IInv, DownIsIdle, BodiesHold, Runs, Holds, Svc
<1> QED BY <1>1, <1>2 DEF IInv

(* A job object moves on, before or after its service runs.                *)
LEMMA ObjStep ==
  ASSUME IInv, NEW i \in Instances, NEW j \in Rows, NEW o \in ObjType,
         obj' = [obj EXCEPT ![i][j] = o], inst[i] # "down",
         o.phase \in Reading => o.copy \in RowType,
         o.phase = "started" => o.copy.left > 0,
         o.phase # "body", obj[i][j].phase # "body",
         RowsTyped', UNCHANGED <<sem, inst, due, crashed, admin>>
  PROVE  IInv'
<1>1. /\ obj' \in [Instances -> [Rows -> ObjType]] /\ obj'[i][j] = o
      /\ \A h \in Instances, k \in Rows : h # i \/ k # j => obj'[h][k] = obj[h][k]
  BY DEF IInv, TypeInv, ObjsTyped
<1>2. TypeInv'
  <2>1. CopiesRead' BY <1>1 DEF IInv, TypeInv, CopiesRead
  <2> QED BY <1>1, <2>1 DEF IInv, TypeInv, ObjsTyped, SemTyped, AdminTyped
<1>3. DownIsIdle' BY <1>1 DEF IInv, DownIsIdle
<1>4. \A h \in Instances, k \in Rows, v \in Services : Runs(h, k, v)' <=> Runs(h, k, v)
  BY <1>1 DEF Runs, Svc
<1>5. \A h \in Instances, k \in Rows, v \in Services : Holds(h, k, v)' <=> Holds(h, k, v)
  BY DEF Holds
<1>6. BodiesHold' BY <1>4, <1>5 DEF IInv, BodiesHold
<1> QED BY <1>2, <1>3, <1>6 DEF IInv

(* How an object moves on.                                                 *)
LEMMA MoveObj ==
  ASSUME IInv, NEW i \in Instances, NEW j \in Rows, NEW p \in Phases, Move(i, j, p)
  PROVE  \E o \in ObjType : /\ obj' = [obj EXCEPT ![i][j] = o]
                            /\ o.phase = p /\ o.copy = obj[i][j].copy
<1> DEFINE o == [obj[i][j] EXCEPT !.phase = p]
<1>1. obj[i][j] \in ObjType BY DEF IInv, TypeInv, ObjsTyped
<1>2. o \in ObjType /\ o.phase = p /\ o.copy = obj[i][j].copy BY <1>1 DEF ObjType
<1>3. obj' = [obj EXCEPT ![i][j] = o] BY DEF Move
<1> QED BY <1>2, <1>3

LEMMA RereadObj ==
  ASSUME IInv, NEW i \in Instances, NEW j \in Rows, NEW p \in Phases,
         Reread(i, j, p), Exists(j)
  PROVE  \E o \in ObjType : /\ obj' = [obj EXCEPT ![i][j] = o]
                            /\ o.phase = p /\ o.copy = row[j] /\ o.copy \in RowType
<1> DEFINE o == [obj[i][j] EXCEPT !.phase = p, !.copy = row[j]]
<1>1. obj[i][j] \in ObjType /\ row[j] \in RowType
  BY ExistsType DEF IInv, TypeInv, ObjsTyped
<1>2. o \in ObjType /\ o.phase = p /\ o.copy = row[j] BY <1>1 DEF ObjType
<1>3. obj' = [obj EXCEPT ![i][j] = o] BY DEF Reread
<1> QED BY <1>1, <1>2, <1>3

(* An object that moves on without a new value, while the tables change.   *)
LEMMA MoveStep ==
  ASSUME IInv, NEW i \in Instances, NEW j \in Rows, NEW p \in Phases \ {"body", "started"},
         Move(i, j, p), inst[i] # "down", obj[i][j].phase # "body",
         p \in Reading => obj[i][j].phase \in Reading,
         RowsTyped', UNCHANGED <<sem, inst, due, crashed, admin>>
  PROVE  IInv'
<1>1. PICK o \in ObjType : /\ obj' = [obj EXCEPT ![i][j] = o]
                           /\ o.phase = p /\ o.copy = obj[i][j].copy
  BY MoveObj
<1>2. p \in Reading => o.copy \in RowType BY <1>1 DEF IInv, TypeInv, CopiesRead
<1> QED BY <1>1, <1>2, ObjStep

LEMMA DropStep ==
  ASSUME IInv, NEW i \in Instances, NEW j \in Rows, Drop(i, j), inst[i] # "down",
         obj[i][j].phase # "body",
         RowsTyped', UNCHANGED <<sem, inst, due, crashed, admin>>
  PROVE  IInv'
<1>1. obj' = [obj EXCEPT ![i][j] = NoObj] BY DEF Drop
<1>2. NoObj.phase = "none" /\ "none" \notin Reading BY DEF NoObj, Reading
<1> QED BY <1>1, <1>2, NoObjType, ObjStep

LEMMA RereadStep ==
  ASSUME IInv, NEW i \in Instances, NEW j \in Rows, NEW p \in Phases \ {"body", "started"},
         Reread(i, j, p), Exists(j), inst[i] # "down", obj[i][j].phase # "body",
         UNCHANGED <<row, sem, inst, due, crashed, admin>>
  PROVE  IInv'
<1>1. PICK o \in ObjType : /\ obj' = [obj EXCEPT ![i][j] = o]
                           /\ o.phase = p /\ o.copy = row[j] /\ o.copy \in RowType
  BY RereadObj
<1>2. RowsTyped' BY DEF IInv, TypeInv, RowsTyped
<1> QED BY <1>1, <1>2, ObjStep

(* The values written back by store() at the end of a phase are rows.      *)
LEMMA CopyStored ==
  ASSUME IInv, NEW i \in Instances, NEW j \in Rows, obj[i][j].phase \in Reading,
         NEW st \in Statuses
  PROVE  /\ obj[i][j].copy \in RowType
         /\ [obj[i][j].copy EXCEPT !.status = st] \in RowType
         /\ [obj[i][j].copy EXCEPT !.status = st, !.finished = TRUE] \in RowType
         /\ [obj[i][j].copy EXCEPT !.status = st, !.started = TRUE] \in RowType
         /\ [obj[i][j].copy EXCEPT !.started = FALSE, !.runBy = None, !.status = st] \in RowType
<1>1. obj[i][j].copy \in RowType BY DEF IInv, TypeInv, CopiesRead
<1> QED BY <1>1 DEF RowType

-----------------------------------------------------------------------------
(* The steps of a job before and after its service                         *)

LEMMA QueueSteps ==
  ASSUME IInv, NEW i \in Instances, NEW j \in Rows,
         QueueCheck(i, j) \/ QueueStore(i, j) \/ DeQueueRead(i, j) \/ DeQueueStore(i, j)
  PROVE  IInv'
<1> USE DEF Phases, Reading
<1>t. RowsTyped BY DEF IInv, TypeInv
<1>1. CASE QueueCheck(i, j)
  <2>1. RowsTyped' BY <1>1, <1>t DEF QueueCheck, RowsTyped
  <2>2. CASE Exists(j) /\ Reread(i, j, "qread") BY <1>1, <2>2, RereadStep DEF QueueCheck, jobVars
  <2>3. CASE Drop(i, j) BY <1>1, <2>1, <2>3, DropStep DEF QueueCheck, jobVars
  <2> QED BY <1>1, <2>2, <2>3 DEF QueueCheck
<1>2. CASE QueueStore(i, j)
  <2>1. [obj[i][j].copy EXCEPT !.status = "QUEUED"] \in RowType
    BY <1>2, CopyStored DEF QueueStore, Statuses, Live
  <2>2. RowsTyped' BY <1>2, <1>t, <2>1, StoreType DEF QueueStore
  <2>3. CASE Move(i, j, "queued") BY <1>2, <2>2, <2>3, MoveStep DEF QueueStore, jobVars
  <2>4. CASE Move(i, j, "rejected") BY <1>2, <2>2, <2>4, MoveStep DEF QueueStore, jobVars
  <2> QED BY <1>2, <2>3, <2>4 DEF QueueStore
<1>3. CASE DeQueueRead(i, j)
  <2>1. RowsTyped' BY <1>3, <1>t DEF DeQueueRead, RowsTyped
  <2>2. inst[i] # "down" /\ obj[i][j].phase \in {"rejected", "queued"} BY <1>3 DEF DeQueueRead
  <2>3. CASE Exists(j) /\ Reread(i, j, "dread")
    BY <1>3, <2>2, <2>3, RereadStep DEF DeQueueRead, jobVars
  <2>4. CASE Drop(i, j) BY <1>3, <2>1, <2>2, <2>4, DropStep DEF DeQueueRead, jobVars
  <2> QED BY <1>3, <2>3, <2>4 DEF DeQueueRead
<1>4. CASE DeQueueStore(i, j)
  <2>1. [obj[i][j].copy EXCEPT !.started = FALSE, !.runBy = None, !.status = "PENDING"] \in RowType
    BY <1>4, CopyStored DEF DeQueueStore, Statuses, Live
  <2>2. RowsTyped' BY <1>4, <1>t, <2>1, StoreType DEF DeQueueStore
  <2> QED BY <1>4, <2>2, DropStep DEF DeQueueStore, jobVars
<1> QED BY <1>1, <1>2, <1>3, <1>4

LEMMA InitSteps ==
  ASSUME IInv, NEW i \in Instances, NEW j \in Rows,
         InitCheck(i, j) \/ InitStore(i, j) \/ InitRecur(i, j)
  PROVE  IInv'
<1>t. RowsTyped BY DEF IInv, TypeInv
<1>o. obj[i][j] \in ObjType BY DEF IInv, TypeInv, ObjsTyped
<1>1. CASE InitCheck(i, j)
  <2>1. RowsTyped' BY <1>1, <1>t DEF InitCheck, RowsTyped
  <2>2. inst[i] # "down" /\ obj[i][j].phase = "queued" BY <1>1 DEF InitCheck
  <2>3. CASE Exists(j) /\ Reread(i, j, "iread")
    BY <1>1, <2>2, <2>3, RereadStep DEF InitCheck, jobVars, Phases
  <2>4. CASE Drop(i, j) BY <1>1, <2>1, <2>2, <2>4, DropStep DEF InitCheck, jobVars
  <2> QED BY <1>1, <2>3, <2>4 DEF InitCheck, InitAllowed
<1>2. CASE InitStore(i, j)
  <2> DEFINE r == [obj[i][j].copy EXCEPT !.status = "RUNNING", !.started = TRUE]
             p == IF r.expr /\ r.left > 0 THEN "started" ELSE "ready"
             o == [obj[i][j] EXCEPT !.phase = p, !.copy = r]
  <2>1. obj[i][j].phase = "iread" /\ inst[i] # "down" BY <1>2 DEF InitStore
  <2>2. r \in RowType BY <2>1, CopyStored DEF Statuses, Live, Reading, Phases
  <2>3. obj' = [obj EXCEPT ![i][j] = o] BY <1>2 DEF InitStore
  <2>4. Store(j, r) /\ UNCHANGED <<sem, inst, due, crashed, admin>>
    BY <1>2 DEF InitStore, jobVars
  <2>5. RowsTyped' BY <1>t, <2>2, <2>4, StoreType
  <2>6. p \in Phases /\ p # "body" /\ (p = "started" => r.left > 0) BY DEF Phases
  <2> HIDE DEF r, p
  <2>7. o \in ObjType /\ o.phase = p /\ o.copy = r BY <1>o, <2>2, <2>6 DEF ObjType
  <2> HIDE DEF o
  <2> QED BY <2>1, <2>2, <2>3, <2>4, <2>5, <2>6, <2>7, ObjStep
<1>3. CASE InitRecur(i, j)
  <2> DEFINE c == obj[i][j].copy
             r == [c EXCEPT !.left = c.left - 1]
             o == [obj[i][j] EXCEPT !.phase = "ready", !.recurred = TRUE, !.copy = r]
  <2>1. obj[i][j].phase = "started" /\ inst[i] # "down" BY <1>3 DEF InitRecur
  <2>2. c \in RowType /\ c.left > 0
    BY <2>1 DEF IInv, TypeInv, CopiesRead, Reading, Phases
  <2>3. c.left - 1 \in Nat /\ c.expr \in BOOLEAN BY <2>2 DEF RowType
  <2>4. r \in RowType BY <2>2, <2>3 DEF RowType
  <2>5. NewRow(c, c.expr, c.left - 1, 0, j) \in RowType
    BY <2>2, <2>3, NewRowType
  <2>6. RowsTyped' BY <1>3, <1>t, <2>5, CreateType DEF InitRecur
  <2>7. obj' = [obj EXCEPT ![i][j] = o] BY <1>3 DEF InitRecur
  <2>8. UNCHANGED <<sem, inst, due, crashed, admin>> BY <1>3 DEF InitRecur, jobVars
  <2> HIDE DEF r
  <2>9. o \in ObjType /\ o.phase = "ready" /\ o.copy = r BY <1>o, <2>4 DEF ObjType, Phases
  <2> HIDE DEF o
  <2> QED BY <2>1, <2>4, <2>6, <2>7, <2>8, <2>9, ObjStep
<1> QED BY <1>1, <1>2, <1>3

LEMMA EndSteps ==
  ASSUME IInv, NEW i \in Instances, NEW j \in Rows,
         AcquireGivesUp(i, j) \/ Finish(i, j) \/ FailRetry(i, j) \/ FailStore(i, j)
  PROVE  IInv'
<1> USE DEF Phases, Reading
<1>t. RowsTyped BY DEF IInv, TypeInv
<1>1. CASE AcquireGivesUp(i, j)
  <2>1. RowsTyped' BY <1>1, <1>t DEF AcquireGivesUp, RowsTyped
  <2> QED BY <1>1, <2>1, MoveStep DEF AcquireGivesUp, AcquireFails, jobVars
<1>2. CASE Finish(i, j)
  <2>1. [obj[i][j].copy EXCEPT !.status = "FINISHED", !.finished = TRUE] \in RowType
    BY <1>2, CopyStored DEF Finish, Statuses, Live
  <2>2. RowsTyped' BY <1>2, <1>t, <2>1, StoreType DEF Finish
  <2> QED BY <1>2, <2>2, DropStep DEF Finish, jobVars
<1>3. CASE FailRetry(i, j)
  <2> DEFINE c == obj[i][j].copy
  <2>1. c \in RowType BY <1>3, CopyStored DEF FailRetry, Statuses, Live
  <2>2. c.expr \in BOOLEAN /\ c.left \in Nat /\ c.retry + 1 \in Nat BY <2>1 DEF RowType
  <2>3. NewRow(c, c.expr, c.left, c.retry + 1, j) \in RowType BY <2>1, <2>2, NewRowType
  <2>4. RowsTyped'
    <3>1. CASE UNCHANGED row BY <1>t, <3>1 DEF RowsTyped
    <3>2. CASE Create(NewRow(c, c.expr, c.left, c.retry + 1, j)) BY <1>t, <2>3, <3>2, CreateType
    <3> QED BY <1>3, <3>1, <3>2 DEF FailRetry
  <2> QED BY <1>3, <2>4, MoveStep DEF FailRetry, jobVars
<1>4. CASE FailStore(i, j)
  <2>1. [obj[i][j].copy EXCEPT !.status = "FAILED", !.finished = TRUE] \in RowType
    BY <1>4, CopyStored DEF FailStore, Statuses, Live
  <2>2. RowsTyped' BY <1>4, <1>t, <2>1, StoreType DEF FailStore
  <2> QED BY <1>4, <2>2, DropStep DEF FailStore, jobVars
<1> QED BY <1>1, <1>2, <1>3, <1>4

-----------------------------------------------------------------------------
(* The steps that only touch the tables                                    *)

LEMMA ReloadSteps ==
  ASSUME IInv, NEW i \in Instances,
         \/ ReloadRead(i)
         \/ \E c \in crashed[i] : ReloadCreate(i, c) \/ ReloadMark(i, c)
  PROVE  IInv'
<1>t. /\ RowsTyped /\ AdminTyped /\ due \in [Instances -> SUBSET Rows]
      /\ crashed \in [Instances -> SUBSET CrashedType]
  BY DEF IInv, TypeInv
<1>1. CASE ReloadRead(i)
  <2> DEFINE left == {j \in Rows : Exists(j) /\ row[j].runBy = i /\ row[j].status \in Live}
             L == {[job |-> j, copy |-> row[j], made |-> FALSE] : j \in left}
  <2>1. \A j \in left : row[j] \in RowType BY <1>t, ExistsType
  <2>2. L \subseteq CrashedType
    <3>1. left \subseteq Rows OBVIOUS
    <3> HIDE DEF left
    <3> SUFFICES ASSUME NEW j \in left
                 PROVE  [job |-> j, copy |-> row[j], made |-> FALSE] \in CrashedType
      OBVIOUS
    <3>2. j \in Rows /\ row[j] \in RowType BY <2>1, <3>1
    <3> HIDE DEF RowType, Rows
    <3> QED BY <3>2 DEF CrashedType
  <2>3. crashed' = [crashed EXCEPT ![i] = L] /\ UNCHANGED <<sem, row, obj, inst, due, admin>>
    BY <1>1 DEF ReloadRead
  <2> HIDE DEF L
  <2>4. crashed' \in [Instances -> SUBSET CrashedType] BY <1>t, <2>2, <2>3
  <2>5. RowsTyped' /\ AdminTyped' BY <1>t, <2>3 DEF RowsTyped, AdminTyped
  <2> QED BY <1>t, <2>3, <2>4, <2>5, TableStep
<1>2. ASSUME NEW c \in crashed[i], ReloadCreate(i, c) PROVE IInv'
  <2>1. c \in CrashedType BY <1>t
  <2>2. /\ c.copy \in RowType /\ [c EXCEPT !.made = TRUE] \in CrashedType
    BY <2>1 DEF CrashedType
  <2>3. /\ ReloadExpr(c.copy) \in BOOLEAN /\ c.copy.left \in Nat /\ c.copy.retry \in Nat
        /\ c.job \in Rows
    BY <2>1, <2>2 DEF ReloadExpr, RowType, CrashedType
  <2>4. NewRow(c.copy, ReloadExpr(c.copy), c.copy.left, c.copy.retry, c.job) \in RowType
    BY <2>2, <2>3, NewRowType
  <2>5. RowsTyped' BY <1>2, <1>t, <2>4, CreateType DEF ReloadCreate
  <2>6. crashed' = [crashed EXCEPT ![i] = (@ \ {c}) \cup {[c EXCEPT !.made = TRUE]}]
        /\ UNCHANGED <<sem, obj, inst, due, admin>>
    BY <1>2 DEF ReloadCreate
  <2>7. crashed' \in [Instances -> SUBSET CrashedType] BY <1>t, <2>2, <2>6
  <2>8. AdminTyped' BY <1>t, <2>6 DEF AdminTyped
  <2> QED BY <1>t, <2>5, <2>6, <2>7, <2>8, TableStep
<1>3. ASSUME NEW c \in crashed[i], ReloadMark(i, c) PROVE IInv'
  <2>1. c.job \in Rows /\ c.copy \in RowType BY <1>t DEF CrashedType
  <2>2. [c.copy EXCEPT !.status = "CRASHED", !.cancelled = TRUE] \in RowType
    BY <2>1 DEF RowType, Statuses
  <2>3. RowsTyped' BY <1>3, <1>t, <2>1, <2>2, StoreType DEF ReloadMark
  <2>4. crashed' = [crashed EXCEPT ![i] = @ \ {c}] /\ UNCHANGED <<sem, obj, inst, due, admin>>
    BY <1>3 DEF ReloadMark
  <2>5. crashed' \in [Instances -> SUBSET CrashedType] BY <1>t, <2>4
  <2>6. AdminTyped' BY <1>t, <2>4 DEF AdminTyped
  <2> QED BY <1>t, <2>3, <2>4, <2>5, <2>6, TableStep
<1> QED BY <1>1, <1>2, <1>3

LEMMA AdminSteps ==
  ASSUME IInv, (\E op \in AdminOps, j \in Rows : AdminRead(op, j)) \/ AdminStore
  PROVE  IInv'
<1>t. /\ RowsTyped /\ AdminTyped /\ due \in [Instances -> SUBSET Rows]
      /\ crashed \in [Instances -> SUBSET CrashedType]
  BY DEF IInv, TypeInv
<1>1. ASSUME NEW op \in AdminOps, NEW j \in Rows, AdminRead(op, j) PROVE IInv'
  <2>1. /\ admin' = [op |-> op, job |-> j, copy |-> row[j]]
        /\ UNCHANGED <<sem, row, obj, inst, due, crashed>>
    BY <1>1 DEF AdminRead
  <2>2. row[j] \in RowType BY <1>1, <1>t, ExistsType DEF AdminRead
  <2>3. op \in {"cancel", "noRetry", "reset"} BY JobAssumption
  <2>4. RowsTyped' /\ AdminTyped' BY <1>t, <2>1, <2>2, <2>3 DEF RowsTyped, AdminTyped
  <2> QED BY <1>t, <2>1, <2>4, TableStep
<1>2. CASE AdminStore
  <2> DEFINE v == AdminValue(admin.op, admin.copy)
  <2>1. /\ admin.op \in {"cancel", "noRetry", "reset"}
        /\ admin.job \in Rows /\ admin.copy \in RowType
    BY <1>2, <1>t DEF AdminStore, AdminTyped
  <2>2. v \in RowType
    <3>1. CASE admin.op = "cancel" BY <2>1, <3>1 DEF AdminValue, RowType, Statuses
    <3>2. CASE admin.op = "noRetry" BY <2>1, <3>2 DEF AdminValue, RowType
    <3>3. CASE admin.op = "reset" BY <2>1, <3>3 DEF AdminValue, RowType, Statuses, Live
    <3> QED BY <2>1, <3>1, <3>2, <3>3
  <2>3. /\ Store(admin.job, v) /\ admin' = [op |-> "none"]
        /\ UNCHANGED <<sem, obj, inst, due, crashed>>
    BY <1>2 DEF AdminStore
  <2> HIDE DEF v
  <2>4. RowsTyped' BY <1>t, <2>1, <2>2, <2>3, StoreType
  <2>5. AdminTyped' BY <2>3 DEF AdminTyped
  <2> QED BY <1>t, <2>3, <2>4, <2>5, TableStep
<1> QED BY <1>1, <1>2

LEMMA PollSteps ==
  ASSUME IInv, NEW i \in Instances,
         PollRead(i) \/ PollClaim(i) \/ \E j \in Rows : PollPurge(i, j)
  PROVE  IInv'
<1>t. /\ RowsTyped /\ AdminTyped /\ due \in [Instances -> SUBSET Rows]
      /\ crashed \in [Instances -> SUBSET CrashedType]
  BY DEF IInv, TypeInv
<1>1. CASE PollRead(i)
  <2>1. due' = [due EXCEPT ![i] = {j \in Rows : Due(j)}]
        /\ UNCHANGED <<sem, row, obj, inst, crashed, admin>>
    BY <1>1 DEF PollRead
  <2>2. due' \in [Instances -> SUBSET Rows] BY <1>t, <2>1
  <2>3. RowsTyped' /\ AdminTyped' BY <1>t, <2>1 DEF RowsTyped, AdminTyped
  <2> QED BY <1>t, <2>1, <2>2, <2>3, TableStep
<1>2. CASE PollClaim(i)
  <2>1. PICK S \in SUBSET {j \in due[i] : Claimable(j) /\ obj[i][j].phase = "none"} :
           /\ row' = [j \in Rows |-> IF j \in S THEN [row[j] EXCEPT !.runBy = i] ELSE row[j]]
           /\ obj' = [obj EXCEPT ![i] = [j \in Rows |->
                        IF j \in S THEN [NoObj EXCEPT !.phase = "claimed", !.limit = row[j].limit]
                        ELSE @[j]]]
    BY <1>2 DEF PollClaim
  <2>2. /\ due' = [due EXCEPT ![i] = {}] /\ inst[i] # "down"
        /\ UNCHANGED <<sem, inst, crashed, admin>>
    BY <1>2 DEF PollClaim
  <2> DEFINE claim(j) == [NoObj EXCEPT !.phase = "claimed", !.limit = row[j].limit]
  <2>3. \A j \in S : row[j] \in RowType /\ obj[i][j].phase = "none" /\ j \in Rows
    BY <1>t, <2>1, ExistsType DEF Claimable
  <2>4. RowsTyped'
    <3>1. \A j \in S : [row[j] EXCEPT !.runBy = i] \in RowType BY <2>3 DEF RowType
    <3> QED BY <1>t, <2>1, <3>1 DEF RowsTyped
  <2>5. \A j \in S : claim(j) \in ObjType /\ claim(j).phase = "claimed"
    BY <2>3, NoObjType DEF NoObj, ObjType, Phases, RowType
  <2>6. \A h \in Instances, k \in Rows :
           obj'[h][k] = IF h = i /\ k \in S THEN claim(k) ELSE obj[h][k]
    BY <2>1 DEF IInv, TypeInv, ObjsTyped
  <2>7. obj' \in [Instances -> [Rows -> ObjType]]
    <3>1. obj \in [Instances -> [Rows -> ObjType]] BY DEF IInv, TypeInv, ObjsTyped
    <3> DEFINE m == [j \in Rows |-> IF j \in S THEN claim(j) ELSE obj[i][j]]
    <3>2. obj' = [obj EXCEPT ![i] = m] BY <2>1, <3>1
    <3> HIDE DEF claim
    <3>3. m \in [Rows -> ObjType] BY <2>5, <3>1
    <3> HIDE DEF m
    <3> QED BY <3>1, <3>2, <3>3
  <2> HIDE DEF claim
  <2>8. CopiesRead' BY <2>5, <2>6 DEF IInv, TypeInv, CopiesRead, Reading
  <2>9. DownIsIdle' BY <2>2, <2>6 DEF IInv, DownIsIdle
  <2>10. \A h \in Instances, k \in Rows, v \in Services : Runs(h, k, v)' <=> Runs(h, k, v)
    BY <2>3, <2>5, <2>6 DEF Runs, Svc
  <2>11. BodiesHold'
    <3>1. \A h \in Instances, k \in Rows, v \in Services : Holds(h, k, v)' <=> Holds(h, k, v)
      BY <2>2 DEF Holds
    <3> QED BY <2>2, <2>10, <3>1 DEF IInv, BodiesHold
  <2>12. due' \in [Instances -> SUBSET Rows] BY <1>t, <2>2
  <2>13. TypeInv'
    BY <2>2, <2>4, <2>7, <2>8, <2>12 DEF IInv, TypeInv, ObjsTyped, SemTyped, AdminTyped
  <2> QED BY <2>9, <2>11, <2>13 DEF IInv
<1>3. ASSUME NEW j \in Rows, PollPurge(i, j) PROVE IInv'
  <2>1. row' = [row EXCEPT ![j].status = "PURGED"]
        /\ UNCHANGED <<sem, obj, inst, due, crashed, admin>>
    BY <1>3 DEF PollPurge, jobVars
  <2>2. row[j] \in RowType BY <1>3, <1>t, ExistsType DEF PollPurge
  <2>3. [row[j] EXCEPT !.status = "PURGED"] \in RowType BY <2>2 DEF RowType, Statuses
  <2>4. RowsTyped' BY <1>t, <2>1, <2>3 DEF RowsTyped
  <2>5. AdminTyped' BY <1>t, <2>1 DEF AdminTyped
  <2> QED BY <1>t, <2>1, <2>4, <2>5, TableStep
<1> QED BY <1>1, <1>2, <1>3

-----------------------------------------------------------------------------
(* The steps that start and end services, and those of whole instances     *)

(* A service is one of the services.                                       *)
LEMMA SvcType ==
  ASSUME IInv, NEW i \in Instances, NEW j \in Rows, obj[i][j].phase \in Reading
  PROVE  Svc(i, j) \in Services
<1>1. obj[i][j].copy \in RowType BY DEF IInv, TypeInv, CopiesRead
<1>2. obj[i][j].copy.root \in Roots BY <1>1 DEF RowType
<1> QED BY <1>2, JobAssumption DEF Svc

LEMMA SameHolder ==
  ASSUME NEW i, NEW j, NEW h, NEW k
  PROVE  [inst |-> i, holder |-> j] = [inst |-> h, holder |-> k] <=> i = h /\ j = k
<1>1. [inst |-> i, holder |-> j].inst = i /\ [inst |-> i, holder |-> j].holder = j OBVIOUS
<1>2. [inst |-> h, holder |-> k].inst = h /\ [inst |-> h, holder |-> k].holder = k OBVIOUS
<1> QED BY <1>1, <1>2

(* Where a step moves one object on, the others are as they were.          *)
LEMMA MovedTypes ==
  ASSUME IInv, NEW i \in Instances, NEW j \in Rows, NEW p \in Phases \ {"started"}, Move(i, j, p),
         inst[i] # "down", obj[i][j].phase \in Reading, SemTyped',
         UNCHANGED <<row, inst, due, crashed, admin>>
  PROVE  /\ TypeInv' /\ DownIsIdle'
         /\ obj'[i][j].phase = p /\ Svc(i, j)' = Svc(i, j)
         /\ \A h \in Instances, k \in Rows : h # i \/ k # j => obj'[h][k] = obj[h][k]
<1>1. PICK o \in ObjType : /\ obj' = [obj EXCEPT ![i][j] = o]
                           /\ o.phase = p /\ o.copy = obj[i][j].copy
  BY MoveObj
<1>2. /\ obj' \in [Instances -> [Rows -> ObjType]] /\ obj'[i][j] = o
      /\ \A h \in Instances, k \in Rows : h # i \/ k # j => obj'[h][k] = obj[h][k]
  BY <1>1 DEF IInv, TypeInv, ObjsTyped
<1>3. CopiesRead' BY <1>1, <1>2 DEF IInv, TypeInv, CopiesRead
<1>4. TypeInv' BY <1>2, <1>3 DEF IInv, TypeInv, RowsTyped, ObjsTyped, AdminTyped
<1>5. DownIsIdle' BY <1>2 DEF IInv, DownIsIdle
<1> QED BY <1>1, <1>2, <1>4, <1>5 DEF Svc

LEMMA BodySteps ==
  ASSUME IInv, NEW i \in Instances, NEW j \in Rows, AcquireAndRun(i, j) \/ BodyEnds(i, j)
  PROVE  IInv'
<1> DEFINE w == Svc(i, j)
<1>1. /\ inst[i] # "down" /\ obj[i][j].phase \in {"ready", "body"}
      /\ UNCHANGED <<row, inst, due, crashed, admin>>
  BY DEF AcquireAndRun, BodyEnds, jobVars
<1>2. obj[i][j].phase \in Reading BY <1>1 DEF Reading, Phases
<1>3. w \in Services BY <1>2, SvcType
<1>s. SemTyped /\ BodiesHold BY DEF IInv, TypeInv
<1> HIDE DEF w
<1>4. CASE AcquireAndRun(i, j)
  <2>1. obj[i][j].phase = "ready" /\ AcquireOk(w, i, j) /\ Move(i, j, "body")
    BY <1>4 DEF AcquireAndRun, w
  <2>2. \/ Mode[w] = "none" /\ sem' = sem
        \/ /\ Mode[w] # "none" /\ sem[w] = None
           /\ sem' = [sem EXCEPT ![w] = [inst |-> i, holder |-> j]]
    BY <2>1 DEF AcquireOk
  <2>3. SemTyped' BY <1>3, <1>s, <2>2 DEF SemTyped
  <2>4. /\ TypeInv' /\ DownIsIdle'
        /\ obj'[i][j].phase = "body" /\ Svc(i, j)' = w
        /\ \A h \in Instances, k \in Rows : h # i \/ k # j => obj'[h][k] = obj[h][k]
    BY <1>1, <1>2, <2>1, <2>3, MovedTypes DEF Phases, w
  <2>5. \A h \in Instances, k \in Rows, v \in Services :
           Runs(h, k, v)' <=> Runs(h, k, v) \/ (h = i /\ k = j /\ v = w)
    BY <2>1, <2>4 DEF Runs, Svc
  <2>6. ASSUME Mode[w] = "none" /\ sem' = sem PROVE BodiesHold'
    <3>1. \A h \in Instances, k \in Rows, v \in Services : Holds(h, k, v)' <=> Holds(h, k, v)
      BY <2>6 DEF Holds
    <3> QED BY <1>1, <1>s, <2>5, <2>6, <3>1 DEF BodiesHold
  <2>7. ASSUME Mode[w] # "none", sem[w] = None,
               sem' = [sem EXCEPT ![w] = [inst |-> i, holder |-> j]]
        PROVE  BodiesHold'
    <3>1. \A h \in Instances, k \in Rows : ~ Holds(h, k, w)
      BY <2>7, JobAssumption DEF Holds
    <3>2. \A h \in Instances, k \in Rows : ~ Runs(h, k, w)
      BY <1>3, <1>s, <2>7, <3>1 DEF BodiesHold
    <3>3. \A h \in Instances, k \in Rows, v \in Services :
             Holds(h, k, v)' <=> IF v = w THEN h = i /\ k = j ELSE Holds(h, k, v)
      <4>1. \A v \in Services : sem'[v] = IF v = w THEN [inst |-> i, holder |-> j] ELSE sem[v]
        BY <1>3, <1>s, <2>7 DEF SemTyped
      <4> QED BY <4>1, SameHolder DEF Holds
    <3> SUFFICES ASSUME NEW v \in Services, NEW h \in Instances, NEW k \in Rows
                 PROVE  /\ Mode[v] # "none" /\ Runs(h, k, v)' => Holds(h, k, v)'
                        /\ Holds(h, k, v)' /\ inst[h] # "down" => Runs(h, k, v)'
                        /\ Holds(h, k, v)' => Mode[v] # "none"
      BY <1>1 DEF BodiesHold
    <3>4. Runs(h, k, v)' <=> Runs(h, k, v) \/ (h = i /\ k = j /\ v = w) BY <2>5
    <3>5. Holds(h, k, v)' <=> IF v = w THEN h = i /\ k = j ELSE Holds(h, k, v) BY <3>3
    <3>6. CASE v = w BY <2>7, <3>2, <3>4, <3>5, <3>6
    <3>7. CASE v # w BY <1>s, <3>4, <3>5, <3>7 DEF BodiesHold
    <3> QED BY <3>6, <3>7
  <2>8. BodiesHold' BY <2>2, <2>6, <2>7
  <2> QED BY <2>4, <2>8 DEF IInv
<1>5. CASE BodyEnds(i, j)
  <2>1. /\ obj[i][j].phase = "body"
        /\ IF Mode[w] = "none" THEN UNCHANGED sem ELSE Release(w)
    BY <1>5 DEF BodyEnds, w
  <2>2. PICK p \in {"finish", "fail"} : Move(i, j, p) BY <1>5 DEF BodyEnds
  <2>3. SemTyped' BY <1>3, <1>s, <2>1 DEF SemTyped, Release
  <2>4. /\ TypeInv' /\ DownIsIdle'
        /\ obj'[i][j].phase = p /\ Svc(i, j)' = w
        /\ \A h \in Instances, k \in Rows : h # i \/ k # j => obj'[h][k] = obj[h][k]
    BY <1>1, <1>2, <2>2, <2>3, MovedTypes DEF Phases, w
  <2>5. \A h \in Instances, k \in Rows, v \in Services :
           Runs(h, k, v)' <=> Runs(h, k, v) /\ ~ (h = i /\ k = j)
    BY <2>1, <2>4 DEF Runs, Svc
  <2>6. Runs(i, j, w) /\ \A v \in Services : Runs(i, j, v) => v = w
    BY <2>1 DEF Runs, w
  <2>7. ASSUME Mode[w] = "none" PROVE BodiesHold'
    <3>1. \A h \in Instances, k \in Rows, v \in Services : Holds(h, k, v)' <=> Holds(h, k, v)
      BY <2>1, <2>7 DEF Holds
    <3> QED BY <1>1, <1>3, <1>s, <2>5, <2>6, <2>7, <3>1 DEF BodiesHold
  <2>8. ASSUME Mode[w] # "none" PROVE BodiesHold'
    <3>1. Holds(i, j, w) BY <1>3, <1>s, <2>6, <2>8 DEF BodiesHold
    <3>2. \A h \in Instances, k \in Rows : Runs(h, k, w) => h = i /\ k = j
      <4>1. \A h \in Instances, k \in Rows : Runs(h, k, w) => Holds(h, k, w)
        BY <1>3, <1>s, <2>8 DEF BodiesHold
      <4>2. \A h \in Instances, k \in Rows : Holds(h, k, w) => h = i /\ k = j
        <5> SUFFICES ASSUME NEW h \in Instances, NEW k \in Rows, Holds(h, k, w)
                     PROVE  h = i /\ k = j
          OBVIOUS
        <5>1. [inst |-> i, holder |-> j] = [inst |-> h, holder |-> k] BY <3>1 DEF Holds
        <5> QED BY <5>1, SameHolder
      <4> QED BY <4>1, <4>2
    <3>3. \A h \in Instances, k \in Rows, v \in Services :
             Holds(h, k, v)' <=> v # w /\ Holds(h, k, v)
      BY <1>3, <1>s, <2>1, <2>8, JobAssumption DEF Holds, SemTyped, Release
    <3> QED BY <1>1, <1>s, <2>5, <2>6, <3>2, <3>3 DEF BodiesHold
  <2>9. BodiesHold' BY <2>7, <2>8
  <2> QED BY <2>4, <2>9 DEF IInv
<1> QED BY <1>4, <1>5

LEMMA InstanceSteps ==
  ASSUME IInv, NEW i \in Instances, StopInstance(i) \/ InstanceEnds(i) \/ Restart(i)
  PROVE  IInv'
<1>s. TypeInv /\ SemTyped /\ BodiesHold /\ DownIsIdle BY DEF IInv, TypeInv
<1>1. CASE StopInstance(i)
  <2>1. /\ inst[i] = "up" /\ inst' = [inst EXCEPT ![i] = "stopping"]
        /\ UNCHANGED <<sem, row, obj, due, crashed, admin>>
    BY <1>1 DEF StopInstance
  <2>2. TypeInv'
    BY <1>s, <2>1 DEF TypeInv, RowsTyped, ObjsTyped, SemTyped, CopiesRead, AdminTyped
  <2>3. \A h \in Instances : inst'[h] = "down" <=> inst[h] = "down" BY <1>s, <2>1 DEF TypeInv
  <2>4. DownIsIdle' /\ BodiesHold'
    BY <1>s, <2>1, <2>3 DEF DownIsIdle, BodiesHold, Runs, Holds, Svc
  <2> QED BY <2>2, <2>4 DEF IInv
<1>2. CASE InstanceEnds(i)
  <2>1. /\ inst' = [inst EXCEPT ![i] = "down"]
        /\ obj' = [obj EXCEPT ![i] = [j \in Rows |-> NoObj]]
        /\ due' = [due EXCEPT ![i] = {}] /\ crashed' = [crashed EXCEPT ![i] = {}]
        /\ UNCHANGED <<sem, row, admin>>
    BY <1>2 DEF InstanceEnds
  <2>2. \A h \in Instances, k \in Rows : obj'[h][k] = IF h = i THEN NoObj ELSE obj[h][k]
    BY <1>s, <2>1 DEF TypeInv, ObjsTyped
  <2>3. \A h \in Instances : inst'[h] = IF h = i THEN "down" ELSE inst[h]
    BY <1>s, <2>1 DEF TypeInv
  <2>4. NoObj.phase = "none" /\ "none" \notin Reading /\ "none" # "body" BY DEF NoObj, Reading
  <2>5. CopiesRead' BY <1>s, <2>2, <2>4 DEF TypeInv, CopiesRead
  <2>6. ObjsTyped' BY <1>s, <2>1, NoObjType DEF TypeInv, ObjsTyped
  <2>7. TypeInv' BY <1>s, <2>1, <2>5, <2>6 DEF TypeInv, RowsTyped, SemTyped, AdminTyped
  <2>8. DownIsIdle' BY <1>s, <2>2, <2>3, <2>4 DEF DownIsIdle
  <2>9. \A h \in Instances, k \in Rows, v \in Services :
           Runs(h, k, v)' <=> h # i /\ Runs(h, k, v)
    BY <2>2, <2>4 DEF Runs, Svc
  <2>10. \A h \in Instances, k \in Rows, v \in Services : Holds(h, k, v)' <=> Holds(h, k, v)
    BY <2>1 DEF Holds
  <2>11. BodiesHold' BY <1>s, <2>3, <2>9, <2>10 DEF BodiesHold
  <2> QED BY <2>7, <2>8, <2>11 DEF IInv
<1>3. CASE Restart(i)
  <2>1. /\ inst[i] = "down" /\ inst' = [inst EXCEPT ![i] = "up"] /\ CleanUp(i)
        /\ UNCHANGED <<row, obj, due, crashed, admin>>
    BY <1>3 DEF Restart
  <2>2. \A v \in Services :
           sem'[v] = IF sem[v] # None /\ sem[v].inst = i THEN None ELSE sem[v]
    BY <2>1 DEF CleanUp
  <2>3. SemTyped'
    <3>1. \A v \in Services : sem'[v] \in {None} \cup [inst: Instances, holder: Rows]
      BY <1>s, <2>2 DEF SemTyped
    <3> QED BY <2>1, <3>1 DEF CleanUp, SemTyped
  <2>4. TypeInv' BY <1>s, <2>1, <2>3 DEF TypeInv, RowsTyped, ObjsTyped, CopiesRead, AdminTyped
  <2>5. \A h \in Instances : inst'[h] = IF h = i THEN "up" ELSE inst[h]
    BY <1>s, <2>1 DEF TypeInv
  <2>6. DownIsIdle' BY <1>s, <2>1, <2>5 DEF DownIsIdle
  <2>7. \A h \in Instances, k \in Rows, v \in Services : Holds(h, k, v)' <=> h # i /\ Holds(h, k, v)
    <3> SUFFICES ASSUME NEW h \in Instances, NEW k \in Rows, NEW v \in Services
                 PROVE  Holds(h, k, v)' <=> h # i /\ Holds(h, k, v)
      OBVIOUS
    <3>1. None # [inst |-> h, holder |-> k] BY JobAssumption
    <3> QED BY <2>2, <3>1 DEF Holds
  <2>8. \A h \in Instances, k \in Rows, v \in Services :
           (Runs(h, k, v)' <=> Runs(h, k, v)) /\ (Runs(h, k, v) => h # i)
    BY <1>s, <2>1 DEF DownIsIdle, Runs, Svc
  <2>9. BodiesHold' BY <1>s, <2>1, <2>5, <2>7, <2>8 DEF BodiesHold
  <2> QED BY <2>4, <2>6, <2>9 DEF IInv
<1> QED BY <1>1, <1>2, <1>3

-----------------------------------------------------------------------------
(* The theorems                                                            *)

LEMMA StepIInv == IInv /\ [Next]_vars => IInv'
<1> SUFFICES ASSUME IInv, [Next]_vars PROVE IInv'
  OBVIOUS
<1>1. ASSUME NEW i \in Instances, PollerStep(i) PROVE IInv'
  BY <1>1, ReloadSteps, PollSteps, QueueSteps DEF PollerStep
<1>2. ASSUME NEW i \in Instances, NEW j \in Rows, JobStep(i, j) PROVE IInv'
  BY <1>2, QueueSteps, InitSteps, BodySteps, EndSteps DEF JobStep
<1>3. ASSUME NEW i \in Instances, StopInstance(i) \/ InstanceEnds(i) \/ Restart(i) PROVE IInv'
  BY <1>3, InstanceSteps
<1>4. CASE (\E op \in AdminOps, j \in Rows : AdminRead(op, j)) \/ AdminStore
  BY <1>4, AdminSteps
<1>5. CASE UNCHANGED vars
  <2>1. UNCHANGED <<sem, row, obj, inst, due, crashed, admin>> BY <1>5 DEF vars
  <2>2. RowsTyped' /\ AdminTyped' BY <2>1 DEF IInv, TypeInv, RowsTyped, AdminTyped
  <2>3. due' \in [Instances -> SUBSET Rows] /\ crashed' \in [Instances -> SUBSET CrashedType]
    BY <2>1 DEF IInv, TypeInv
  <2> QED BY <2>1, <2>2, <2>3, TableStep
<1> QED BY <1>1, <1>2, <1>3, <1>4, <1>5 DEF Next

LEMMA Invariance == Spec => []IInv
<1>1. Init => IInv BY InitIInv
<1>2. IInv /\ [Next]_vars => IInv' BY StepIInv
<1> QED BY <1>1, <1>2, PTL DEF Spec

(* The rows that poll, queue, init, finish, failed, reloadCrashedJobs and  *)
(* the administrator's services write back are rows of the JobSandbox      *)
(* table, and a semaphore row names an instance and a job.                 *)
THEOREM TypeCorrect == Spec => []TypeOK
<1>1. IInv => TypeOK
  <2> SUFFICES ASSUME IInv PROVE TypeOK
    OBVIOUS
  <2>1. \A i \in Instances, j \in Rows : obj[i][j] \in ObjType BY DEF IInv, TypeInv, ObjsTyped
  <2>2. \A i \in Instances, j \in Rows :
           obj[i][j].phase \in Phases /\ obj[i][j].copy \in RowType \cup {NoRow}
    BY <2>1 DEF ObjType
  <2> QED BY <2>2 DEF IInv, TypeInv, RowsTyped, SemTyped, TypeOK
<1> QED BY <1>1, Invariance, PTL

(* ServiceSemaphore.acquire, release and the clean-up in ServiceDispatcher *)
(* keep each locked service to one running job, on whichever instance and  *)
(* through crashes and restarts, and leave no row of a living instance     *)
(* behind without its job.                                                 *)
THEOREM SemaphoreIsHeldByBody == Spec => []SemaphoreHeldByBody
<1>1. IInv => SemaphoreHeldByBody
  <2> SUFFICES ASSUME IInv, NEW v \in Services, Mode[v] # "none"
               PROVE  /\ \A i \in Instances, j \in Rows :
                            obj[i][j].phase = "body" /\ Svc(i, j) = v
                               => sem[v] = [inst |-> i, holder |-> j]
                      /\ sem[v] # None /\ inst[sem[v].inst] # "down"
                            => obj[sem[v].inst][sem[v].holder].phase = "body"
    BY DEF SemaphoreHeldByBody
  <2>1. \A i \in Instances, j \in Rows :
           /\ Runs(i, j, v) => Holds(i, j, v)
           /\ Holds(i, j, v) /\ inst[i] # "down" => Runs(i, j, v)
    BY DEF IInv, BodiesHold
  <2>2. ASSUME sem[v] # None, inst[sem[v].inst] # "down"
        PROVE  obj[sem[v].inst][sem[v].holder].phase = "body"
    <3>1. sem[v] \in [inst: Instances, holder: Rows] BY <2>2 DEF IInv, TypeInv, SemTyped
    <3>2. /\ sem[v].inst \in Instances /\ sem[v].holder \in Rows
          /\ Holds(sem[v].inst, sem[v].holder, v)
      BY <3>1 DEF Holds
    <3> QED BY <2>1, <2>2, <3>2 DEF Runs
  <2> QED BY <2>1, <2>2 DEF Runs, Holds
<1> QED BY <1>1, Invariance, PTL

-----------------------------------------------------------------------------
(* A job is started at most once.  What makes this inductive: at most one  *)
(* job object can still write the row back as not cancelled, and while the *)
(* row is not cancelled it names that object's instance.                   *)

(* The phases of a job object between its start and its end.               *)
Begun == {"started", "ready", "body", "finish", "fail", "failstore"}

(* A job object that may still start, dequeue or end the job.              *)
Has(i, j) ==
    \/ obj[i][j].phase \in {"queued", "rejected"}
    \/ obj[i][j].phase \in Reading /\ ~ obj[i][j].copy.cancelled

(* The value of a job object that passed the checks of queue() or init().  *)
OwnCopy(i, j) ==
    /\ obj[i][j].phase \in Begun \cup {"qread", "iread"}
          => obj[i][j].copy.runBy = i /\ ~ obj[i][j].copy.cancelled
    /\ obj[i][j].phase \in Begun => obj[i][j].copy.started

(* A row that does not exist yet has neither objects nor starts.           *)
Fresh(j) == ~ Used(j) => starts[j] = 0 /\ \A i \in Instances : obj[i][j].phase = "none"

(* A row that can still be run as it stands.                               *)
Open(j) == Exists(j) /\ ~ row[j].cancelled

OneOwner(j) ==
    /\ \A i, h \in Instances : Has(i, j) /\ Has(h, j) => i = h
    /\ \A i \in Instances : Has(i, j) /\ Open(j) => row[j].runBy = i

StartedIsClosed(j) ==
    starts[j] # 0 =>
        /\ Open(j) => row[j].started /\ row[j].runBy # None
        /\ \A i \in Instances : Has(i, j) => obj[i][j].phase \in Begun

Clean(j) == <<"rewritten", j>> \notin marks

RowOnce(j) == Fresh(j) /\ (Clean(j) => OneOwner(j) /\ StartedIsClosed(j) /\ starts[j] <= 1)

Once ==
    /\ starts \in [Rows -> Nat]
    /\ \A j \in Rows : RowOnce(j) /\ \A i \in Instances : OwnCopy(i, j)

-----------------------------------------------------------------------------
(* How a row and its objects may change                                    *)

LEMMA RowIsNew == ASSUME NEW r \in RowType PROVE r # NoRow
BY DEF RowType, Statuses, Live, NoRow

(* A row with an object exists.                                            *)
LEMMA ObjUsed ==
  ASSUME Once, NEW i \in Instances, NEW j \in Rows, obj[i][j].phase # "none"
  PROVE  Used(j)
BY DEF Once, RowOnce, Fresh

(* A step that leaves a row and its objects alone, or that makes the row.  *)
LEMMA Elsewhere ==
  ASSUME Once, NEW k \in Rows, row'[k] = row[k] \/ row[k] = NoRow,
         \A h \in Instances : obj'[h][k] = obj[h][k],
         starts'[k] = starts[k], Clean(k)' => Clean(k)
  PROVE  RowOnce(k)' /\ \A h \in Instances : OwnCopy(h, k)'
<1>1. RowOnce(k) /\ \A h \in Instances : OwnCopy(h, k) BY DEF Once
<1>2. \A h \in Instances : OwnCopy(h, k)' BY <1>1 DEF OwnCopy
<1>3. \A h \in Instances : Has(h, k)' <=> Has(h, k) BY DEF Has
<1>4. CASE row'[k] = row[k]
  <2>1. (Used(k)' <=> Used(k)) /\ (Open(k)' <=> Open(k)) BY <1>4 DEF Used, Open, Exists
  <2> QED BY <1>1, <1>2, <1>3, <1>4, <2>1 DEF RowOnce, Fresh, OneOwner, StartedIsClosed
<1>5. CASE row[k] = NoRow
  <2>1. starts[k] = 0 /\ \A h \in Instances : obj[h][k].phase = "none"
    BY <1>1, <1>5 DEF RowOnce, Fresh, Used
  <2>2. \A h \in Instances : ~ Has(h, k) BY <2>1 DEF Has, Reading
  <2> QED BY <1>2, <1>3, <2>1, <2>2 DEF RowOnce, Fresh, OneOwner, StartedIsClosed
<1> QED BY <1>4, <1>5

(* A step that claims a row for an instance, closes it or drops objects.   *)
LEMMA RowStep ==
  ASSUME Once, NEW k \in Rows, starts'[k] = starts[k], Clean(k)' => Clean(k), Fresh(k)',
         \A h \in Instances : \/ obj'[h][k] = obj[h][k]
                              \/ obj'[h][k].phase \in {"none", "claimed"},
         Clean(k)' /\ Open(k)' =>
            /\ Open(k) /\ row'[k].started = row[k].started
            /\ row'[k].runBy = row[k].runBy \/ row[k].runBy = None
  PROVE  RowOnce(k)' /\ \A h \in Instances : OwnCopy(h, k)'
<1>1. RowOnce(k) /\ \A h \in Instances : OwnCopy(h, k) BY DEF Once
<1>2. \A h \in Instances : OwnCopy(h, k)' BY <1>1 DEF OwnCopy, Begun
<1>3. \A h \in Instances : Has(h, k)' => Has(h, k) /\ obj'[h][k] = obj[h][k]
  BY DEF Has, Reading
<1>4. ASSUME Clean(k)' PROVE OneOwner(k)' /\ StartedIsClosed(k)'
  <2>1. OneOwner(k) /\ StartedIsClosed(k) BY <1>1, <1>4 DEF RowOnce
  <2>2. \A h \in Instances : Has(h, k)' /\ Open(k)' => row'[k].runBy = h
    BY <1>3, <1>4, <2>1, SemaphoreAssumption DEF OneOwner
  <2>3. OneOwner(k)' BY <1>3, <2>1, <2>2 DEF OneOwner
  <2>4. StartedIsClosed(k)' BY <1>3, <1>4, <2>1 DEF StartedIsClosed
  <2> QED BY <2>3, <2>4
<1> QED BY <1>1, <1>2, <1>4 DEF RowOnce

(* A step of one job object that moves it on to the value o.               *)
LEMMA OwnerStep ==
  ASSUME IInv, Once, NEW i \in Instances, NEW j \in Rows, NEW o \in ObjType,
         obj' = [obj EXCEPT ![i][j] = o], obj[i][j].phase # "none",
         \A k \in Rows \ {j} : row'[k] = row[k] \/ row[k] = NoRow,
         \A k \in Rows \ {j} : starts'[k] = starts[k],
         starts' \in [Rows -> Nat], UNCHANGED marks,
         Used(j)', OwnCopy(i, j)',
         Has(i, j)' => Has(i, j) \/ (Open(j) /\ row[j].runBy = i),
         Clean(j) /\ Has(i, j)' /\ starts'[j] # 0 => o.phase \in Begun,
         Clean(j) => \/ starts'[j] = starts[j]
                     \/ Has(i, j) /\ starts[j] = 0 /\ starts'[j] = 1,
         Clean(j) /\ Open(j)' =>
            \/ /\ Open(j) /\ starts'[j] = starts[j]
               /\ row'[j].runBy = row[j].runBy /\ row'[j].started = row[j].started
            \/ /\ Has(i, j) /\ row'[j].runBy = i
               /\ row'[j].started \/ starts'[j] = 0
            \/ Has(i, j) /\ ~ Has(i, j)' /\ starts'[j] = 0
  PROVE  Once'
<1>1. /\ obj'[i][j] = o
      /\ \A h \in Instances, k \in Rows : h # i \/ k # j => obj'[h][k] = obj[h][k]
  BY DEF IInv, TypeInv, ObjsTyped
<1>2. \A k \in Rows : Clean(k)' <=> Clean(k) BY DEF Clean
<1>3. \A k \in Rows \ {j} : RowOnce(k)' /\ \A h \in Instances : OwnCopy(h, k)'
  BY <1>1, <1>2, Elsewhere
<1>4. RowOnce(j) /\ \A h \in Instances : OwnCopy(h, j) BY DEF Once
<1>5. \A h \in Instances : OwnCopy(h, j)' BY <1>1, <1>4 DEF OwnCopy
<1>6. \A h \in Instances \ {i} : (Has(h, j)' <=> Has(h, j)) /\ obj'[h][j] = obj[h][j]
  BY <1>1 DEF Has
<1>7. ASSUME Clean(j) PROVE OneOwner(j)' /\ StartedIsClosed(j)' /\ starts'[j] <= 1
  <2>1. OneOwner(j) /\ StartedIsClosed(j) /\ starts[j] <= 1 BY <1>4, <1>7 DEF RowOnce
  <2>2. \A h \in Instances \ {i} : Has(h, j) => ~ Has(i, j) /\ ~ Has(i, j)'
    BY <2>1 DEF OneOwner
  <2>3. \A h, g \in Instances : Has(h, j)' /\ Has(g, j)' => h = g
    BY <1>6, <2>1, <2>2 DEF OneOwner
  <2>4. \A h \in Instances : Has(h, j)' /\ Open(j)' => row'[j].runBy = h
    <3> SUFFICES ASSUME NEW h \in Instances, Has(h, j)', Open(j)' PROVE row'[j].runBy = h
      OBVIOUS
    <3>1. CASE h = i BY <1>7, <2>1, <3>1 DEF OneOwner
    <3>2. CASE h # i BY <1>6, <1>7, <2>1, <2>2, <3>2 DEF OneOwner
    <3> QED BY <3>1, <3>2
  <2>5. StartedIsClosed(j)'
    <3> SUFFICES ASSUME starts'[j] # 0
                 PROVE  /\ Open(j)' => row'[j].started /\ row'[j].runBy # None
                        /\ \A h \in Instances : Has(h, j)' => obj'[h][j].phase \in Begun
      BY DEF StartedIsClosed
    <3>1. Open(j)' => row'[j].started /\ row'[j].runBy # None
      BY <1>7, <2>1, SemaphoreAssumption DEF StartedIsClosed
    <3>2. ASSUME NEW h \in Instances \ {i}, Has(h, j)' PROVE obj'[h][j].phase \in Begun
      BY <1>6, <1>7, <2>1, <2>2, <3>2 DEF StartedIsClosed
    <3> QED BY <1>1, <1>7, <3>1, <3>2
  <2> QED BY <1>7, <2>1, <2>3, <2>4, <2>5 DEF OneOwner
<1>8. RowOnce(j)' BY <1>2, <1>7 DEF RowOnce, Fresh
<1> QED BY <1>3, <1>5, <1>8 DEF Once

LEMMA StoreRow ==
  ASSUME IInv, NEW j \in Rows, NEW r \in RowType, Store(j, r)
  PROVE  /\ \A k \in Rows \ {j} : row'[k] = row[k]
         /\ row'[j] = IF Exists(j) THEN r ELSE row[j]
         /\ Used(j) => Used(j)'
         /\ Open(j)' => Exists(j) /\ row'[j] = r /\ ~ r.cancelled
<1>1. /\ \A k \in Rows \ {j} : row'[k] = row[k]
      /\ row'[j] = IF Exists(j) THEN r ELSE row[j]
  BY DEF Store, IInv, TypeInv, RowsTyped
<1>2. r # NoRow BY RowIsNew
<1> QED BY <1>1, <1>2 DEF Used, Open, Exists

LEMMA CreateRow ==
  ASSUME IInv, NEW r \in RowType, Create(r), NEW k \in Rows
  PROVE  (row'[k] = row[k] \/ row[k] = NoRow) /\ (Used(k) => row'[k] = row[k])
<1>1. PICK j \in Free : row' = [row EXCEPT ![j] = r] BY DEF Create
<1>2. ~ Used(j) /\ j \in Rows BY <1>1 DEF Free, Rows
<1> QED BY <1>1, <1>2 DEF IInv, TypeInv, RowsTyped, Used

-----------------------------------------------------------------------------
(* The steps of a job object                                               *)

(* Where a job object stands when it is moved, dropped or read again.      *)
LEMMA NewObj ==
  ASSUME IInv, NEW i \in Instances, NEW j \in Rows
  PROVE  /\ \A p \in Phases : Move(i, j, p) =>
               \E o \in ObjType : /\ obj' = [obj EXCEPT ![i][j] = o] /\ obj'[i][j] = o
                                  /\ o.phase = p /\ o.copy = obj[i][j].copy
         /\ \A p \in Phases : Reread(i, j, p) /\ Exists(j) =>
               \E o \in ObjType : /\ obj' = [obj EXCEPT ![i][j] = o] /\ obj'[i][j] = o
                                  /\ o.phase = p /\ o.copy = row[j]
         /\ Drop(i, j) =>
               \E o \in ObjType : /\ obj' = [obj EXCEPT ![i][j] = o] /\ obj'[i][j] = o
                                  /\ o.phase = "none"
<1>1. obj \in [Instances -> [Rows -> ObjType]] BY DEF IInv, TypeInv, ObjsTyped
<1>2. \A o : obj' = [obj EXCEPT ![i][j] = o] => obj'[i][j] = o BY <1>1
<1>3. ASSUME NEW p \in Phases, Move(i, j, p)
      PROVE  \E o \in ObjType : /\ obj' = [obj EXCEPT ![i][j] = o] /\ obj'[i][j] = o
                                /\ o.phase = p /\ o.copy = obj[i][j].copy
  BY <1>2, <1>3, MoveObj
<1>4. ASSUME NEW p \in Phases, Reread(i, j, p), Exists(j)
      PROVE  \E o \in ObjType : /\ obj' = [obj EXCEPT ![i][j] = o] /\ obj'[i][j] = o
                                /\ o.phase = p /\ o.copy = row[j]
  BY <1>2, <1>4, RereadObj
<1>5. ASSUME Drop(i, j)
      PROVE  \E o \in ObjType : /\ obj' = [obj EXCEPT ![i][j] = o] /\ obj'[i][j] = o
                                /\ o.phase = "none"
  <2>1. obj' = [obj EXCEPT ![i][j] = NoObj] BY <1>5 DEF Drop
  <2> QED BY <1>2, <2>1, NoObjType DEF NoObj
<1> QED BY <1>3, <1>4, <1>5

(* A job object is dropped, and the table stays as it is.                  *)
LEMMA DropOnce ==
  ASSUME IInv, Once, NEW i \in Instances, NEW j \in Rows, obj[i][j].phase # "none",
         Drop(i, j), UNCHANGED <<row, starts, marks>>
  PROVE  Once'
<1>1. PICK o \in ObjType : /\ obj' = [obj EXCEPT ![i][j] = o] /\ obj'[i][j] = o
                           /\ o.phase = "none"
  BY NewObj
<1>2. ~ Has(i, j)' /\ OwnCopy(i, j)' BY <1>1 DEF Has, OwnCopy, Begun, Reading
<1>3. Used(j)' /\ (Open(j)' <=> Open(j)) BY ObjUsed DEF Used, Open, Exists
<1>4. starts' \in [Rows -> Nat] BY DEF Once
<1> QED BY <1>1, <1>2, <1>3, <1>4, OwnerStep

LEMMA QueueOnce ==
  ASSUME IInv, Once, NEW i \in Instances, NEW j \in Rows,
         QueueCheck(i, j) \/ QueueStore(i, j) \/ DeQueueRead(i, j) \/ DeQueueStore(i, j)
  PROVE  Once'
<1> USE DEF Phases, Reading
<1>r. RowOnce(j) /\ OwnCopy(i, j) /\ starts \in [Rows -> Nat] BY DEF Once
<1>1. CASE QueueCheck(i, j)
  <2>1. obj[i][j].phase = "claimed" /\ UNCHANGED <<row, starts, marks>>
    BY <1>1 DEF QueueCheck, jobVars
  <2>2. CASE Drop(i, j) BY <2>1, <2>2, DropOnce
  <2>3. CASE /\ Exists(j) /\ row[j].runBy = i /\ ~ row[j].cancelled /\ ~ row[j].started
             /\ Reread(i, j, "qread")
    <3>1. PICK o \in ObjType : /\ obj' = [obj EXCEPT ![i][j] = o] /\ obj'[i][j] = o
                               /\ o.phase = "qread" /\ o.copy = row[j]
      BY <2>3, NewObj
    <3>2. Open(j) /\ row[j].runBy = i BY <2>3 DEF Open
    <3>3. OwnCopy(i, j)' BY <2>3, <3>1 DEF OwnCopy, Begun
    <3>4. Used(j)' /\ (Open(j)' <=> Open(j)) BY <2>1, ObjUsed DEF Used, Open, Exists
    <3>5. Clean(j) => starts[j] = 0 BY <1>r, <2>3, <3>2 DEF RowOnce, StartedIsClosed
    <3> QED BY <1>r, <2>1, <3>1, <3>2, <3>3, <3>4, <3>5, OwnerStep
  <2> QED BY <1>1, <2>2, <2>3 DEF QueueCheck
<1>2. CASE QueueStore(i, j)
  <2> DEFINE r == [obj[i][j].copy EXCEPT !.status = "QUEUED"]
  <2>1. obj[i][j].phase = "qread" /\ Store(j, r) /\ UNCHANGED <<starts, marks>>
    BY <1>2 DEF QueueStore, jobVars
  <2>2. obj[i][j].copy \in RowType /\ r \in RowType
    BY <2>1, CopyStored DEF Statuses, Live
  <2>3. r.runBy = i /\ ~ obj[i][j].copy.cancelled BY <1>r, <2>1, <2>2 DEF OwnCopy, RowType
  <2>4. PICK p \in {"queued", "rejected"} : Move(i, j, p) BY <1>2 DEF QueueStore
  <2>5. PICK o \in ObjType : obj' = [obj EXCEPT ![i][j] = o] /\ obj'[i][j] = o /\ o.phase = p
    BY <2>4, NewObj
  <2>6. Has(i, j) BY <2>1, <2>3 DEF Has
  <2>7. Clean(j) => starts[j] = 0
    BY <1>r, <2>1, <2>6 DEF RowOnce, StartedIsClosed, Begun
  <2> HIDE DEF r
  <2>8. /\ \A k \in Rows \ {j} : row'[k] = row[k]
        /\ Used(j)' /\ (Open(j)' => row'[j] = r)
    BY <2>1, <2>2, StoreRow, ObjUsed
  <2>9. OwnCopy(i, j)' BY <2>5 DEF OwnCopy, Begun
  <2> QED BY <1>r, <2>1, <2>3, <2>5, <2>6, <2>7, <2>8, <2>9, OwnerStep
<1>3. CASE DeQueueRead(i, j)
  <2>1. obj[i][j].phase \in {"rejected", "queued"} /\ UNCHANGED <<row, starts, marks>>
    BY <1>3 DEF DeQueueRead, jobVars
  <2>2. CASE Drop(i, j) BY <2>1, <2>2, DropOnce
  <2>3. CASE Exists(j) /\ Reread(i, j, "dread")
    <3>1. PICK o \in ObjType : /\ obj' = [obj EXCEPT ![i][j] = o] /\ obj'[i][j] = o
                               /\ o.phase = "dread" /\ o.copy = row[j]
      BY <2>3, NewObj
    <3>2. Has(i, j) BY <2>1 DEF Has
    <3>3. OwnCopy(i, j)' BY <3>1 DEF OwnCopy, Begun
    <3>4. Used(j)' /\ (Open(j)' <=> Open(j)) BY <2>1, ObjUsed DEF Used, Open, Exists
    <3>5. Clean(j) => starts[j] = 0
      BY <1>r, <2>1, <3>2 DEF RowOnce, StartedIsClosed, Begun
    <3> QED BY <1>r, <2>1, <3>1, <3>2, <3>3, <3>4, <3>5, OwnerStep
  <2> QED BY <1>3, <2>2, <2>3 DEF DeQueueRead
<1>4. CASE DeQueueStore(i, j)
  <2> DEFINE r == [obj[i][j].copy EXCEPT !.started = FALSE, !.runBy = None, !.status = "PENDING"]
  <2>1. obj[i][j].phase = "dread" /\ Store(j, r) /\ Drop(i, j) /\ UNCHANGED <<starts, marks>>
    BY <1>4 DEF DeQueueStore, jobVars
  <2>2. obj[i][j].copy \in RowType /\ r \in RowType
    BY <2>1, CopyStored DEF Statuses, Live
  <2>3. r.cancelled = obj[i][j].copy.cancelled BY <2>2 DEF RowType
  <2>4. PICK o \in ObjType : obj' = [obj EXCEPT ![i][j] = o] /\ obj'[i][j] = o /\ o.phase = "none"
    BY <2>1, NewObj
  <2> HIDE DEF r
  <2>5. /\ \A k \in Rows \ {j} : row'[k] = row[k]
        /\ Used(j)' /\ (Open(j)' => row'[j] = r /\ ~ r.cancelled)
    BY <2>1, <2>2, StoreRow, ObjUsed
  <2>6. Open(j)' => Has(i, j) BY <2>1, <2>3, <2>5 DEF Has
  <2>7. Clean(j) /\ Open(j)' => starts[j] = 0
    BY <1>r, <2>1, <2>6 DEF RowOnce, StartedIsClosed, Begun
  <2>8. ~ Has(i, j)' /\ OwnCopy(i, j)' BY <2>4 DEF Has, OwnCopy, Begun
  <2> QED BY <1>r, <2>1, <2>4, <2>5, <2>6, <2>7, <2>8, OwnerStep
<1> QED BY <1>1, <1>2, <1>3, <1>4

(* A job that has begun goes on; another row may be made.                  *)
LEMMA BegunStep ==
  ASSUME IInv, Once, NEW i \in Instances, NEW j \in Rows, NEW o \in ObjType,
         obj' = [obj EXCEPT ![i][j] = o], obj'[i][j] = o,
         obj[i][j].phase \in Begun, o.phase \in Begun,
         o.copy.runBy = obj[i][j].copy.runBy, o.copy.started = obj[i][j].copy.started,
         o.copy.cancelled = obj[i][j].copy.cancelled,
         UNCHANGED row \/ (\E r \in RowType : Create(r)), UNCHANGED <<starts, marks>>
  PROVE  Once'
<1>1. /\ OwnCopy(i, j) /\ starts \in [Rows -> Nat] BY DEF Once
<1>2. Has(i, j) BY <1>1 DEF Has, OwnCopy, Begun, Reading, Phases
<1>3. OwnCopy(i, j)' BY <1>1 DEF OwnCopy
<1>4. Used(j) BY ObjUsed DEF Begun
<1>5. /\ \A k \in Rows \ {j} : row'[k] = row[k] \/ row[k] = NoRow
      /\ row'[j] = row[j]
  BY <1>4, CreateRow
<1>6. Used(j)' /\ (Open(j)' <=> Open(j)) BY <1>4, <1>5 DEF Used, Open, Exists
<1>7. obj[i][j].phase # "none" BY DEF Begun
<1> QED BY <1>1, <1>2, <1>3, <1>5, <1>6, <1>7, OwnerStep

(* A job that has begun ends, and its row is written back.                 *)
LEMMA EndStep ==
  ASSUME IInv, Once, NEW i \in Instances, NEW j \in Rows, NEW r \in RowType,
         obj[i][j].phase \in Begun, Drop(i, j), Store(j, r),
         r.runBy = obj[i][j].copy.runBy, r.started = obj[i][j].copy.started,
         UNCHANGED <<starts, marks>>
  PROVE  Once'
<1>1. /\ OwnCopy(i, j) /\ starts \in [Rows -> Nat] BY DEF Once
<1>2. Has(i, j) /\ obj[i][j].phase # "none"
  BY <1>1 DEF Has, OwnCopy, Begun, Reading, Phases
<1>3. r.runBy = i /\ r.started BY <1>1 DEF OwnCopy
<1>4. PICK o \in ObjType : obj' = [obj EXCEPT ![i][j] = o] /\ obj'[i][j] = o /\ o.phase = "none"
  BY NewObj
<1>5. /\ \A k \in Rows \ {j} : row'[k] = row[k]
      /\ Used(j)' /\ (Open(j)' => row'[j] = r)
  BY <1>2, StoreRow, ObjUsed
<1>6. ~ Has(i, j)' /\ OwnCopy(i, j)' BY <1>4 DEF Has, OwnCopy, Begun, Reading
<1> QED BY <1>1, <1>2, <1>3, <1>4, <1>5, <1>6, OwnerStep

LEMMA InitOnce ==
  ASSUME IInv, Once, NEW i \in Instances, NEW j \in Rows,
         InitCheck(i, j) \/ InitStore(i, j) \/ InitRecur(i, j)
  PROVE  Once'
<1>r. RowOnce(j) /\ OwnCopy(i, j) /\ starts \in [Rows -> Nat] BY DEF Once
<1>o. obj[i][j] \in ObjType /\ obj \in [Instances -> [Rows -> ObjType]]
  BY DEF IInv, TypeInv, ObjsTyped
<1>1. CASE InitCheck(i, j)
  <2>1. obj[i][j].phase = "queued" /\ UNCHANGED <<row, starts, marks>>
    BY <1>1 DEF InitCheck, jobVars
  <2>2. CASE Drop(i, j) BY <2>1, <2>2, DropOnce
  <2>3. CASE InitAllowed(i, j) /\ Reread(i, j, "iread")
    <3>1. PICK o \in ObjType : /\ obj' = [obj EXCEPT ![i][j] = o] /\ obj'[i][j] = o
                               /\ o.phase = "iread" /\ o.copy = row[j]
      BY <2>3, NewObj DEF InitAllowed, Phases
    <3>2. Has(i, j) BY <2>1 DEF Has
    <3>3. OwnCopy(i, j)' BY <2>3, <3>1 DEF OwnCopy, Begun, InitAllowed
    <3>4. Used(j)' /\ (Open(j)' <=> Open(j)) BY <2>1, ObjUsed DEF Used, Open, Exists
    <3>5. Clean(j) => starts[j] = 0
      BY <1>r, <2>1, <3>2 DEF RowOnce, StartedIsClosed, Begun
    <3> QED BY <1>r, <2>1, <3>1, <3>2, <3>3, <3>4, <3>5, OwnerStep
  <2> QED BY <1>1, <2>2, <2>3 DEF InitCheck
<1>2. CASE InitStore(i, j)
  <2> DEFINE r == [obj[i][j].copy EXCEPT !.status = "RUNNING", !.started = TRUE]
             p == IF r.expr /\ r.left > 0 THEN "started" ELSE "ready"
             o == [obj[i][j] EXCEPT !.phase = p, !.copy = r]
  <2>1. /\ obj[i][j].phase = "iread" /\ Store(j, r) /\ UNCHANGED marks
        /\ starts' = [starts EXCEPT ![j] = @ + 1] /\ obj' = [obj EXCEPT ![i][j] = o]
    <3>1. /\ obj[i][j].phase = "iread" /\ Store(j, r) /\ UNCHANGED marks
          /\ starts' = [starts EXCEPT ![j] = @ + 1]
      BY <1>2 DEF InitStore, jobVars
    <3>2. obj' = [obj EXCEPT ![i][j].phase = p, ![i][j].copy = r]
      BY <1>2, Zenon DEF InitStore
    <3> HIDE DEF p, r
    <3>3. obj' = [obj EXCEPT ![i][j] = o] BY <3>2
    <3> QED BY <3>1, <3>3
  <2>2. obj[i][j].copy \in RowType /\ r \in RowType
    BY <2>1, CopyStored DEF Statuses, Live, Reading, Phases
  <2>3. r.runBy = i /\ ~ r.cancelled /\ r.started /\ ~ obj[i][j].copy.cancelled
    BY <1>r, <2>1, <2>2 DEF OwnCopy, RowType
  <2>4. Has(i, j) BY <2>1, <2>3 DEF Has, Reading, Phases
  <2>5. Clean(j) => starts[j] = 0
    BY <1>r, <2>1, <2>4 DEF RowOnce, StartedIsClosed, Begun
  <2>6. p \in Begun /\ p \in Phases BY DEF Begun, Phases
  <2> HIDE DEF r, p
  <2>7. o \in ObjType /\ o.phase = p /\ o.copy = r BY <1>o, <2>2, <2>6 DEF ObjType
  <2> HIDE DEF o
  <2>8. obj'[i][j] = o BY <1>o, <2>1
  <2>9. OwnCopy(i, j)' BY <2>3, <2>7, <2>8 DEF OwnCopy
  <2>10. /\ \A k \in Rows \ {j} : row'[k] = row[k] /\ starts'[k] = starts[k]
         /\ starts'[j] = starts[j] + 1 /\ starts' \in [Rows -> Nat]
    BY <1>r, <2>1, <2>2, StoreRow
  <2>11. Used(j)' /\ (Open(j)' => row'[j] = r) BY <2>1, <2>2, StoreRow, ObjUsed
  <2>12. Clean(j) => starts'[j] = 1 BY <1>r, <2>5, <2>10
  <2> QED BY <2>1, <2>3, <2>4, <2>5, <2>6, <2>7, <2>9, <2>10, <2>11, <2>12, OwnerStep
<1>3. CASE InitRecur(i, j)
  <2> DEFINE c == obj[i][j].copy
             r == [c EXCEPT !.left = c.left - 1]
             o == [obj[i][j] EXCEPT !.phase = "ready", !.recurred = TRUE, !.copy = r]
  <2>1. /\ obj[i][j].phase = "started" /\ UNCHANGED <<starts, marks>>
        /\ obj' = [obj EXCEPT ![i][j] = o] /\ Create(NewRow(c, c.expr, c.left - 1, 0, j))
    <3>1. /\ obj[i][j].phase = "started" /\ UNCHANGED <<starts, marks>>
          /\ Create(NewRow(c, c.expr, c.left - 1, 0, j))
      BY <1>3 DEF InitRecur, jobVars
    <3>2. obj' = [obj EXCEPT ![i][j].phase = "ready", ![i][j].recurred = TRUE, ![i][j].copy = r]
      BY <1>3, Zenon DEF InitRecur
    <3> HIDE DEF c, r
    <3>3. obj' = [obj EXCEPT ![i][j] = o] BY <3>2
    <3> QED BY <3>1, <3>3
  <2>2. c \in RowType /\ c.left > 0
    BY <2>1 DEF IInv, TypeInv, CopiesRead, Reading, Phases
  <2>3. c.left - 1 \in Nat /\ c.expr \in BOOLEAN BY <2>2 DEF RowType
  <2>4. NewRow(c, c.expr, c.left - 1, 0, j) \in RowType BY <2>2, <2>3, NewRowType
  <2>5. /\ r \in RowType /\ r.runBy = c.runBy /\ r.started = c.started
        /\ r.cancelled = c.cancelled
    BY <2>2, <2>3 DEF RowType
  <2> HIDE DEF r
  <2>6. o \in ObjType /\ o.phase = "ready" /\ o.copy = r BY <1>o, <2>5 DEF ObjType, Phases
  <2> HIDE DEF o
  <2>7. obj'[i][j] = o BY <1>o, <2>1
  <2>8. obj[i][j].phase \in Begun /\ o.phase \in Begun BY <2>1, <2>6 DEF Begun
  <2> QED BY <2>1, <2>4, <2>5, <2>6, <2>7, <2>8, BegunStep
<1> QED BY <1>1, <1>2, <1>3

LEMMA RunOnce ==
  ASSUME IInv, Once, NEW i \in Instances, NEW j \in Rows,
         \/ AcquireAndRun(i, j) \/ AcquireGivesUp(i, j) \/ BodyEnds(i, j)
         \/ Finish(i, j) \/ FailRetry(i, j) \/ FailStore(i, j)
  PROVE  Once'
<1>1. CASE AcquireAndRun(i, j) \/ AcquireGivesUp(i, j) \/ BodyEnds(i, j) \/ FailRetry(i, j)
  <2>1. /\ obj[i][j].phase \in Begun /\ UNCHANGED <<starts, marks>>
        /\ \E p \in Begun : Move(i, j, p)
    BY <1>1 DEF AcquireAndRun, AcquireGivesUp, BodyEnds, FailRetry, Begun, jobVars
  <2>2. PICK p \in Begun : Move(i, j, p) BY <2>1
  <2>3. p \in Phases BY DEF Begun, Phases
  <2>4. PICK o \in ObjType : /\ obj' = [obj EXCEPT ![i][j] = o] /\ obj'[i][j] = o
                             /\ o.phase = p /\ o.copy = obj[i][j].copy
    BY <2>2, <2>3, NewObj
  <2>5. UNCHANGED row \/ \E r \in RowType : Create(r)
    <3>1. CASE FailRetry(i, j)
      <4> DEFINE c == obj[i][j].copy
      <4>1. c \in RowType BY <3>1, CopyStored DEF FailRetry, Statuses, Live, Reading, Phases
      <4>2. c.expr \in BOOLEAN /\ c.left \in Nat /\ c.retry + 1 \in Nat BY <4>1 DEF RowType
      <4>3. NewRow(c, c.expr, c.left, c.retry + 1, j) \in RowType BY <4>1, <4>2, NewRowType
      <4> QED BY <3>1, <4>3 DEF FailRetry
    <3> QED BY <1>1, <3>1 DEF AcquireAndRun, AcquireGivesUp, BodyEnds
  <2> QED BY <2>1, <2>4, <2>5, BegunStep
<1>2. CASE Finish(i, j) \/ FailStore(i, j)
  <2>1. PICK st \in {"FINISHED", "FAILED"} :
           Store(j, [obj[i][j].copy EXCEPT !.status = st, !.finished = TRUE])
    BY <1>2 DEF Finish, FailStore
  <2> DEFINE r == [obj[i][j].copy EXCEPT !.status = st, !.finished = TRUE]
  <2>2. /\ obj[i][j].phase \in Begun /\ obj[i][j].phase \in Reading
        /\ Drop(i, j) /\ UNCHANGED <<starts, marks>>
    BY <1>2 DEF Finish, FailStore, Begun, Reading, Phases, jobVars
  <2>3. obj[i][j].copy \in RowType /\ r \in RowType BY <2>2, CopyStored DEF Statuses
  <2>4. r.runBy = obj[i][j].copy.runBy /\ r.started = obj[i][j].copy.started
    BY <2>3 DEF RowType
  <2> HIDE DEF r
  <2>5. Store(j, r) BY <2>1 DEF r
  <2> QED BY <2>2, <2>3, <2>4, <2>5, EndStep
<1> QED BY <1>1, <1>2

-----------------------------------------------------------------------------
(* The steps of the poller, the administrator and whole instances          *)

LEMMA SameOnce ==
  ASSUME IInv, Once, UNCHANGED row \/ (\E r \in RowType : Create(r)), UNCHANGED <<obj, starts>>,
         marks \subseteq marks'
  PROVE  Once'
<1>1. \A k \in Rows : Clean(k)' => Clean(k) BY DEF Clean
<1>2. \A k \in Rows : row'[k] = row[k] \/ row[k] = NoRow BY CreateRow
<1>3. \A k \in Rows : RowOnce(k)' /\ \A h \in Instances : OwnCopy(h, k)'
  BY <1>1, <1>2, Elsewhere
<1> QED BY <1>3 DEF Once

(* A row is written back as a closed one, or with its claim as it was.     *)
LEMMA TableOnce ==
  ASSUME IInv, Once, NEW j \in Rows, NEW r \in RowType, Store(j, r), UNCHANGED <<obj, starts>>,
         \A k \in Rows : Clean(k)' => Clean(k),
         Exists(j) /\ Clean(j)' =>
            \/ r.cancelled
            \/ r.cancelled = row[j].cancelled /\ r.started = row[j].started /\ r.runBy = row[j].runBy
  PROVE  Once'
<1>1. /\ \A k \in Rows \ {j} : row'[k] = row[k]
      /\ row'[j] = IF Exists(j) THEN r ELSE row[j]
      /\ Used(j) => Used(j)'
      /\ Open(j)' => Exists(j) /\ row'[j] = r /\ ~ r.cancelled
  BY StoreRow
<1>2. \A k \in Rows \ {j} : RowOnce(k)' /\ \A h \in Instances : OwnCopy(h, k)'
  BY <1>1, Elsewhere
<1>3. Fresh(j)' BY <1>1 DEF Once, RowOnce, Fresh
<1>4. Clean(j)' /\ Open(j)' =>
         /\ Open(j) /\ row'[j].started = row[j].started
         /\ row'[j].runBy = row[j].runBy \/ row[j].runBy = None
  BY <1>1 DEF Open
<1>5. RowOnce(j)' /\ \A h \in Instances : OwnCopy(h, j)' BY <1>3, <1>4, RowStep
<1> QED BY <1>2, <1>5 DEF Once

LEMMA PollerOnce ==
  ASSUME IInv, Once, NEW i \in Instances,
         \/ ReloadRead(i) \/ PollRead(i) \/ PollClaim(i) \/ \E j \in Rows : PollPurge(i, j)
         \/ \E c \in crashed[i] : ReloadCreate(i, c) \/ ReloadMark(i, c)
  PROVE  Once'
<1>t. /\ crashed \in [Instances -> SUBSET CrashedType] /\ RowsTyped
      /\ due \in [Instances -> SUBSET Rows] /\ obj \in [Instances -> [Rows -> ObjType]]
  BY DEF IInv, TypeInv, ObjsTyped
<1>1. CASE ReloadRead(i) \/ PollRead(i) BY <1>1, SameOnce DEF ReloadRead, PollRead
<1>2. ASSUME NEW c \in crashed[i], ReloadCreate(i, c) PROVE Once'
  <2>1. c.copy \in RowType /\ c.job \in Rows BY <1>t DEF CrashedType
  <2>2. ReloadExpr(c.copy) \in BOOLEAN /\ c.copy.left \in Nat /\ c.copy.retry \in Nat
    BY <2>1 DEF ReloadExpr, RowType
  <2>3. NewRow(c.copy, ReloadExpr(c.copy), c.copy.left, c.copy.retry, c.job) \in RowType
    BY <2>1, <2>2, NewRowType
  <2> QED BY <1>2, <2>3, SameOnce DEF ReloadCreate
<1>3. ASSUME NEW c \in crashed[i], ReloadMark(i, c) PROVE Once'
  <2> DEFINE r == [c.copy EXCEPT !.status = "CRASHED", !.cancelled = TRUE]
  <2>1. c.copy \in RowType /\ c.job \in Rows BY <1>t DEF CrashedType
  <2>2. r \in RowType /\ r.cancelled BY <2>1 DEF RowType, Statuses
  <2>3. Store(c.job, r) /\ UNCHANGED <<obj, starts, marks>> BY <1>3 DEF ReloadMark
  <2> HIDE DEF r
  <2> QED BY <2>1, <2>2, <2>3, TableOnce DEF Clean
<1>4. CASE PollClaim(i)
  <2>1. PICK S \in SUBSET {j \in due[i] : Claimable(j) /\ obj[i][j].phase = "none"} :
           /\ row' = [j \in Rows |-> IF j \in S THEN [row[j] EXCEPT !.runBy = i] ELSE row[j]]
           /\ obj' = [obj EXCEPT ![i] = [j \in Rows |->
                        IF j \in S THEN [NoObj EXCEPT !.phase = "claimed", !.limit = row[j].limit]
                        ELSE @[j]]]
    BY <1>4 DEF PollClaim
  <2>2. UNCHANGED <<starts, marks>> BY <1>4 DEF PollClaim
  <2>3. ASSUME NEW k \in Rows \ S PROVE RowOnce(k)' /\ \A h \in Instances : OwnCopy(h, k)'
    <3>1. row'[k] = row[k] /\ \A h \in Instances : obj'[h][k] = obj[h][k] BY <1>t, <2>1
    <3> QED BY <2>2, <3>1, Elsewhere DEF Clean
  <2>4. ASSUME NEW k \in S PROVE RowOnce(k)' /\ \A h \in Instances : OwnCopy(h, k)'
    <3>1. k \in Rows /\ Exists(k) /\ row[k].runBy = None BY <1>t, <2>1 DEF Claimable
    <3>2. row[k] \in RowType BY <1>t, <3>1, ExistsType
    <3>3. row'[k] = [row[k] EXCEPT !.runBy = i] BY <2>1, <3>1
    <3>4. row'[k] \in RowType BY <3>2, <3>3 DEF RowType
    <3>5. /\ obj'[i][k].phase = "claimed"
          /\ \A h \in Instances \ {i} : obj'[h][k] = obj[h][k]
      BY <1>t, <2>1, <3>1 DEF NoObj
    <3>6. Fresh(k)' BY <3>4, RowIsNew DEF Fresh, Used
    <3>7. row'[k].started = row[k].started /\ row'[k].cancelled = row[k].cancelled
      BY <3>2, <3>3 DEF RowType
    <3>8. Open(k)' => Open(k) BY <3>1, <3>7 DEF Open
    <3> QED BY <2>2, <3>1, <3>5, <3>6, <3>7, <3>8, RowStep DEF Clean
  <2>5. starts' \in [Rows -> Nat] BY <2>2 DEF Once
  <2> QED BY <2>3, <2>4, <2>5 DEF Once
<1>5. ASSUME NEW j \in Rows, PollPurge(i, j) PROVE Once'
  <2>1. /\ row' = [row EXCEPT ![j].status = "PURGED"] /\ Exists(j)
        /\ UNCHANGED <<obj, starts, marks>>
    BY <1>5 DEF PollPurge, jobVars
  <2>2. row[j] \in RowType BY <1>t, <2>1, ExistsType
  <2>3. row'[j] \in RowType /\ row'[j].status = "PURGED" /\ \A k \in Rows \ {j} : row'[k] = row[k]
    BY <1>t, <2>1, <2>2 DEF RowsTyped, RowType, Statuses
  <2>4. \A k \in Rows \ {j} : RowOnce(k)' /\ \A h \in Instances : OwnCopy(h, k)'
    BY <2>1, <2>3, Elsewhere DEF Clean
  <2>5. Fresh(j)' BY <2>3, RowIsNew DEF Fresh, Used
  <2>6. ~ Open(j)' BY <2>3 DEF Open, Exists
  <2>7. RowOnce(j)' /\ \A h \in Instances : OwnCopy(h, j)'
    BY <2>1, <2>5, <2>6, RowStep DEF Clean
  <2> QED BY <2>1, <2>4, <2>7 DEF Once
<1> QED BY <1>1, <1>2, <1>3, <1>4, <1>5

LEMMA AdminOnce ==
  ASSUME IInv, Once, (\E op \in AdminOps, j \in Rows : AdminRead(op, j)) \/ AdminStore
  PROVE  Once'
<1>1. CASE \E op \in AdminOps, j \in Rows : AdminRead(op, j)
  BY <1>1, SameOnce DEF AdminRead
<1>2. CASE AdminStore
  <2>1. PICK j \in Rows : j = admin.job BY <1>2 DEF AdminStore, IInv, TypeInv, AdminTyped
  <2>2. admin.op \in {"cancel", "noRetry", "reset"} /\ admin.copy \in RowType
    BY <1>2 DEF AdminStore, IInv, TypeInv, AdminTyped
  <2> DEFINE r == AdminValue(admin.op, admin.copy)
  <2>3. /\ Store(j, r) /\ UNCHANGED <<obj, starts>>
        /\ marks' = IF \/ ~Exists(j)
                       \/ admin.op = "cancel" /\ WriteBackPending(j)
                       \/ admin.op = "noRetry" /\ row[j] = admin.copy
                    THEN marks
                    ELSE IF admin.op = "cancel" THEN marks \cup {<<"cancelled", j>>}
                    ELSE (marks \ {<<"cancelled", j>>}) \cup {<<"rewritten", j>>}
    BY <1>2, <2>1 DEF AdminStore
  <2>4. \A k \in Rows : Clean(k)' => Clean(k)
    <3> SUFFICES ASSUME NEW k \in Rows, <<"rewritten", k>> \in marks
                 PROVE  <<"rewritten", k>> \in marks'
      BY DEF Clean
    <3>1. <<"rewritten", k>> # <<"cancelled", j>> OBVIOUS
    <3> QED BY <2>3, <3>1
  <2>5. CASE admin.op = "cancel"
    <3>1. r \in RowType /\ r.cancelled BY <2>2, <2>5 DEF AdminValue, RowType, Statuses
    <3> HIDE DEF r
    <3> QED BY <2>3, <2>4, <3>1, TableOnce
  <2>6. CASE admin.op = "noRetry"
    <3>1. /\ r \in RowType /\ r.cancelled = admin.copy.cancelled
          /\ r.started = admin.copy.started /\ r.runBy = admin.copy.runBy
      BY <2>2, <2>6 DEF AdminValue, RowType
    <3>2. Exists(j) /\ Clean(j)' => row[j] = admin.copy
      <4>1. Exists(j) /\ row[j] # admin.copy => <<"rewritten", j>> \in marks' BY <2>3, <2>6
      <4> QED BY <4>1 DEF Clean
    <3> HIDE DEF r
    <3>3. Exists(j) /\ Clean(j)' =>
             r.cancelled = row[j].cancelled /\ r.started = row[j].started /\ r.runBy = row[j].runBy
      BY <3>1, <3>2
    <3> QED BY <2>3, <2>4, <3>1, <3>3, TableOnce
  <2>7. CASE admin.op = "reset"
    <3>1. r \in RowType BY <2>2, <2>7 DEF AdminValue, RowType, Statuses, Live
    <3>2. Exists(j) => ~ Clean(j)'
      <4>1. Exists(j) => <<"rewritten", j>> \in marks' BY <2>3, <2>7
      <4> QED BY <4>1 DEF Clean
    <3> HIDE DEF r
    <3> QED BY <2>3, <2>4, <3>1, <3>2, TableOnce
  <2> QED BY <2>2, <2>5, <2>6, <2>7
<1> QED BY <1>1, <1>2

LEMMA InstanceOnce ==
  ASSUME IInv, Once, NEW i \in Instances, StopInstance(i) \/ InstanceEnds(i) \/ Restart(i)
  PROVE  Once'
<1>1. CASE StopInstance(i) \/ Restart(i) BY <1>1, SameOnce DEF StopInstance, Restart
<1>2. CASE InstanceEnds(i)
  <2>1. /\ obj' = [obj EXCEPT ![i] = [j \in Rows |-> NoObj]] /\ UNCHANGED <<row, starts>>
        /\ marks \subseteq marks'
    BY <1>2 DEF InstanceEnds
  <2>2. \A h \in Instances, k \in Rows :
           obj'[h][k] = obj[h][k] \/ obj'[h][k].phase = "none"
    BY <2>1 DEF IInv, TypeInv, ObjsTyped, NoObj
  <2>3. ASSUME NEW k \in Rows PROVE RowOnce(k)' /\ \A h \in Instances : OwnCopy(h, k)'
    <3>1. (Used(k)' <=> Used(k)) /\ (Open(k)' <=> Open(k)) BY <2>1 DEF Used, Open, Exists
    <3>2. Fresh(k)' BY <2>1, <2>2, <3>1 DEF Once, RowOnce, Fresh
    <3>3. Clean(k)' => Clean(k) BY <2>1 DEF Clean
    <3> QED BY <2>1, <2>2, <3>1, <3>2, <3>3, RowStep
  <2> QED BY <2>1, <2>3 DEF Once
<1> QED BY <1>1, <1>2

-----------------------------------------------------------------------------
(* The theorem                                                             *)

LEMMA InitIsOnce == Init => Once
<1> SUFFICES ASSUME Init PROVE Once
  OBVIOUS
<1>1. starts \in [Rows -> Nat] /\ \A j \in Rows : starts[j] = 0 BY DEF Init
<1>2. \A i \in Instances, j \in Rows : obj[i][j].phase = "none" BY DEF Init, NoObj
<1>3. \A i \in Instances, j \in Rows : ~ Has(i, j) /\ OwnCopy(i, j)
  BY <1>2 DEF Has, OwnCopy, Reading, Begun
<1> QED BY <1>1, <1>2, <1>3 DEF Once, RowOnce, Fresh, OneOwner, StartedIsClosed

LEMMA StepOnce == IInv /\ Once /\ [Next]_vars => Once'
<1> SUFFICES ASSUME IInv, Once, [Next]_vars PROVE Once'
  OBVIOUS
<1>1. ASSUME NEW i \in Instances, PollerStep(i) PROVE Once'
  BY <1>1, PollerOnce, QueueOnce DEF PollerStep
<1>2. ASSUME NEW i \in Instances, NEW j \in Rows, JobStep(i, j) PROVE Once'
  BY <1>2, QueueOnce, InitOnce, RunOnce DEF JobStep
<1>3. ASSUME NEW i \in Instances, StopInstance(i) \/ InstanceEnds(i) \/ Restart(i) PROVE Once'
  BY <1>3, InstanceOnce
<1>4. CASE (\E op \in AdminOps, j \in Rows : AdminRead(op, j)) \/ AdminStore
  BY <1>4, AdminOnce
<1>5. CASE UNCHANGED vars BY <1>5, SameOnce DEF vars
<1> QED BY <1>1, <1>2, <1>3, <1>4, <1>5 DEF Next

(* The conditional claim of JobManager.poll and the checks of              *)
(* PersistedServiceJob.queue and init start a row of JobSandbox at most    *)
(* once, on whichever instance, through dequeues, cancellations, stops,    *)
(* crashes, restarts and reloads.                                          *)
THEOREM StartedOnce == Spec => []SingleStart
<1>1. IInv /\ Once => SingleStart
  BY DEF Once, RowOnce, Clean, SingleStart, Marked
<1>2. Init => Once BY InitIsOnce
<1>3. IInv /\ Once /\ [Next]_vars => Once' BY StepOnce
<1>4. Spec => []IInv BY Invariance
<1> QED BY <1>1, <1>2, <1>3, <1>4, PTL DEF Spec
=============================================================================
