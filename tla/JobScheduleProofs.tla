------------------------- MODULE JobScheduleProofs --------------------------
(***************************************************************************)
(* What the scheduler promises of a job, for any number of instances, jobs *)
(* and services, through crashes, reloads and the administrator's          *)
(* write-backs: a cancelled job stays cancelled, a claimed one is not      *)
(* forgotten, a schedule neither forks nor dies.  The four promises rest   *)
(* on one invariant, Fate, of each row with its job objects, what          *)
(* reloadCrashedJobs has read of it and its successors.                    *)
(***************************************************************************)
EXTENDS JobSandboxProofs, FiniteSetTheorems

HasMark(what, j) == <<what, j>> \in marks

(* A successor of row j that carries its schedule on.                      *)
Heir(j, k) == Used(k) /\ row[k].prev = j /\ row[k].expr

(* What every value read from row j and still to be written back has in    *)
(* common with the row.                                                    *)
ValueOk(j, r) ==
    /\ r.prev = row[j].prev /\ r.expr = row[j].expr /\ r.plan = row[j].plan
    /\ starts[j] = 0 => r.left = r.plan /\ ~ r.started
    /\ Clean(j) => r.left + 1 >= r.plan

RowValue(j) == Used(j) => ValueOk(j, row[j]) /\ (row[j].prev = 0 \/ Used(row[j].prev))

ObjValue(i, j) ==
    /\ obj[i][j].phase \in Reading => ValueOk(j, obj[i][j].copy)
    /\ obj[i][j].phase \in Begun => starts[j] # 0
    /\ obj[i][j].phase = "qread" => ~ obj[i][j].copy.started
    /\ obj[i][j].phase = "started" /\ Clean(j) => obj[i][j].copy.left = obj[i][j].copy.plan

EntryValue(j, c) == c.job = j => Used(j) /\ ValueOk(j, c.copy) /\ c.copy.status \in Live

Values(j) ==
    /\ RowValue(j)
    /\ \A i \in Instances : ObjValue(i, j) /\ (j \in due[i] => Used(j))
    /\ \A i \in Instances : \A c \in crashed[i] : EntryValue(j, c)
    /\ admin.op # "none" /\ admin.job = j => Used(j) /\ ValueOk(j, admin.copy)

(* An instance that is down, or has not reloaded its crashed jobs yet,     *)
(* works on no row.                                                        *)
Idle(i) ==
    /\ ~ reloaded[i] \/ inst[i] = "down" =>
          due[i] = {} /\ \A j \in Rows : obj[i][j].phase = "none"
    /\ crashed[i] # {} => ~ reloaded[i] /\ inst[i] # "down"

Pollers == reloaded \in [Instances -> BOOLEAN] /\ \A i \in Instances : Idle(i)

-----------------------------------------------------------------------------
(* What a step does to a row                                               *)

KeepsHeirs(j) ==
    \A k \in Rows : /\ Heir(j, k)' <=> Heir(j, k)
                    /\ Heir(j, k) => row'[k].plan = row[k].plan

MarkKinds == {"unqueued", "unrecurred", "unmarked", "cancelled", "rewritten"}

SameMarks(j) == \A w \in MarkKinds : <<w, j>> \in marks' <=> <<w, j>> \in marks

SameEntries(j) ==
    \A h \in Instances : \A c \in CrashedType :
        c.job = j => (c \in crashed'[h] <=> c \in crashed[h])

SameObjs(j) == \A h \in Instances : obj'[h][j] = obj[h][j]

(* Instance h has reloaded its crashed jobs, or is at it.                  *)
Reloads(h) == inst[h] # "down" /\ (reloaded[h] \/ crashed[h] # {})

(* The rows reloadCrashedJobs of instance h looks for.                     *)
LeftBehind(h, j) == Exists(j) /\ row[j].runBy = h /\ row[j].status \in Live

Around(j) ==
    /\ SameObjs(j) /\ SameEntries(j) /\ SameMarks(j) /\ starts'[j] = starts[j]
    /\ \A h \in Instances : j \in due'[h] => j \in due[h] \/ Due(j)
    /\ admin'.op # "none" /\ admin'.job = j =>
          \/ admin.op # "none" /\ admin.job = j /\ admin'.copy = admin.copy
          \/ Exists(j) /\ admin'.copy = row[j]
    /\ \A h \in Instances : Reloads(h)' => Reloads(h) \/ ~ LeftBehind(h, j)
    /\ KeepsHeirs(j)

(* The step is about other rows.                                           *)
Untouched(j) == row'[j] = row[j] /\ Around(j)

(* The row is made by the step.                                            *)
Newborn(j) ==
    /\ row[j] = NoRow /\ row'[j] \in RowType /\ Around(j)
    /\ row'[j].status = "PENDING" /\ row'[j].runBy = None /\ ~ row'[j].started
    /\ row'[j].plan = row'[j].left /\ \E q \in Rows : row'[j].prev = q /\ Used(q)'
    /\ \A h \in Instances : j \notin due'[h]

(* A step of one job object.                                               *)
JobFrame(i, j) ==
    /\ UNCHANGED jobVars
    /\ \A h \in Instances, k \in Rows : h # i \/ k # j => obj'[h][k] = obj[h][k]
    /\ \A k \in Rows \ {j} : starts'[k] = starts[k]

Dropped(i, j) ==
    /\ JobFrame(i, j) /\ row'[j] = row[j] /\ starts'[j] = starts[j] /\ KeepsHeirs(j)
    /\ obj'[i][j].phase = "none"
    /\ \/ obj[i][j].phase = "claimed" /\ (Open(j) /\ row[j].runBy = i => row[j].started)
       \/ obj[i][j].phase \in {"queued", "rejected"} /\ (Open(j) => row[j].runBy # i)

Refreshed(i, j) ==
    /\ JobFrame(i, j) /\ row'[j] = row[j] /\ starts'[j] = starts[j] /\ KeepsHeirs(j)
    /\ Exists(j) /\ obj'[i][j].copy = row[j]
    /\ \/ /\ obj[i][j].phase = "claimed" /\ obj'[i][j].phase = "qread"
          /\ Open(j) /\ row[j].runBy = i /\ ~ row[j].started
       \/ obj[i][j].phase \in {"queued", "rejected"} /\ obj'[i][j].phase = "dread"
       \/ /\ obj[i][j].phase = "queued" /\ obj'[i][j].phase = "iread"
          /\ Open(j) /\ row[j].runBy = i

(* The value an object holds is written back, changed to r.                *)
Written(i, j, r) ==
    /\ JobFrame(i, j) /\ KeepsHeirs(j)
    /\ r \in RowType /\ row'[j] = IF Exists(j) THEN r ELSE row[j]
    /\ LET c == obj[i][j].copy
       IN  /\ c \in RowType /\ r.prev = c.prev /\ r.expr = c.expr /\ r.plan = c.plan
           /\ r.left = c.left /\ r.cancelled = c.cancelled

QueuedBack(i, j, r) ==
    /\ Written(i, j, r) /\ starts'[j] = starts[j]
    /\ obj[i][j].phase = "qread" /\ obj'[i][j].phase \in {"queued", "rejected"}
    /\ r.status = "QUEUED" /\ r.runBy = obj[i][j].copy.runBy
    /\ r.started = obj[i][j].copy.started

Dequeued(i, j, r) ==
    /\ Written(i, j, r) /\ starts'[j] = starts[j]
    /\ obj[i][j].phase = "dread" /\ obj'[i][j].phase = "none"
    /\ r.status = "PENDING" /\ r.runBy = None /\ ~ r.started

Started(i, j, r) ==
    /\ Written(i, j, r) /\ starts'[j] = starts[j] + 1
    /\ obj[i][j].phase = "iread" /\ obj'[i][j].copy = r
    /\ obj'[i][j].phase = IF r.expr /\ r.left > 0 THEN "started" ELSE "ready"
    /\ r.status = "RUNNING" /\ r.started /\ r.runBy = obj[i][j].copy.runBy

Ended(i, j, r) ==
    /\ Written(i, j, r) /\ starts'[j] = starts[j]
    /\ obj[i][j].phase \in {"finish", "failstore"} /\ obj'[i][j].phase = "none"
    /\ r.status \in {"FINISHED", "FAILED"} /\ r.runBy = obj[i][j].copy.runBy
    /\ r.started = obj[i][j].copy.started

Went(i, j) ==
    /\ JobFrame(i, j) /\ row'[j] = row[j] /\ starts'[j] = starts[j] /\ KeepsHeirs(j)
    /\ obj'[i][j].copy = obj[i][j].copy /\ obj'[i][j].recurred = obj[i][j].recurred
    /\ obj[i][j].phase \in {"ready", "body", "fail"}
    /\ obj'[i][j].phase \in {"body", "finish", "fail", "failstore"}

(* A successor b is made for row j.                                        *)
HeirMade(j, b, expr, left) ==
    /\ ~ Used(b) /\ Used(b)'
    /\ row'[b].prev = j /\ row'[b].expr = expr /\ row'[b].plan = left
    /\ \A k \in Rows \ {b} : /\ Heir(j, k)' <=> Heir(j, k)
                             /\ Heir(j, k) => row'[k].plan = row[k].plan

Recurred(i, j, b) ==
    /\ JobFrame(i, j) /\ row'[j] = row[j] /\ starts'[j] = starts[j]
    /\ obj[i][j].phase = "started" /\ obj'[i][j].phase = "ready" /\ obj'[i][j].recurred
    /\ LET c == obj[i][j].copy
           r == obj'[i][j].copy
       IN  /\ c \in RowType /\ c.left > 0
           /\ HeirMade(j, b, c.expr, c.left - 1)
           /\ r.prev = c.prev /\ r.expr = c.expr /\ r.plan = c.plan /\ r.left = c.left - 1
           /\ r.cancelled = c.cancelled /\ r.started = c.started

Retried(i, j, b) ==
    /\ JobFrame(i, j) /\ row'[j] = row[j] /\ starts'[j] = starts[j]
    /\ obj[i][j].phase = "fail" /\ obj'[i][j].phase = "failstore" /\ ~ obj[i][j].recurred
    /\ obj'[i][j].copy = obj[i][j].copy
    /\ HeirMade(j, b, obj[i][j].copy.expr, obj[i][j].copy.left)

(* The claim of a row is committed.                                        *)
Claimed(i, j) ==
    /\ UNCHANGED <<inst, reloaded, crashed, admin, marks>> /\ KeepsHeirs(j)
    /\ \A h \in Instances : j \in due'[h] => j \in due[h]
    /\ \A h \in Instances \ {i} : obj'[h][j] = obj[h][j]
    /\ starts'[j] = starts[j]
    /\ Exists(j) /\ row[j].runBy = None /\ j \in due[i] /\ obj[i][j].phase = "none"
    /\ row'[j] \in RowType /\ row'[j].runBy = i /\ obj'[i][j].phase = "claimed"
    /\ row'[j].status = row[j].status /\ row'[j].started = row[j].started
    /\ row'[j].cancelled = row[j].cancelled /\ row'[j].left = row[j].left
    /\ row'[j].prev = row[j].prev /\ row'[j].expr = row[j].expr /\ row'[j].plan = row[j].plan

(* reloadCrashedJobs reads a row left behind.                              *)
Listed(i, j) ==
    /\ UNCHANGED <<inst, due, admin, marks>> /\ KeepsHeirs(j) /\ SameObjs(j)
    /\ row'[j] = row[j] /\ starts'[j] = starts[j]
    /\ LeftBehind(i, j) /\ ~ reloaded[i] /\ crashed[i] = {} /\ inst[i] = "up"
    /\ \A h \in Instances \ {i} : crashed'[h] = crashed[h] /\ reloaded'[h] = reloaded[h]
    /\ \E c \in crashed'[i] : c.job = j
    /\ \A c, d \in crashed'[i] : c.job = j /\ d.job = j => c = d
    /\ \A c \in crashed'[i] : c.job = j => c.copy = row[j] /\ ~ c.made

(* It makes a new job for one it has read ...                              *)
Replaced(i, j, c, b) ==
    /\ UNCHANGED <<inst, reloaded, due, admin, marks>> /\ SameObjs(j)
    /\ row'[j] = row[j] /\ starts'[j] = starts[j]
    /\ c \in crashed[i] /\ c.job = j /\ ~ c.made
    /\ \A h \in Instances \ {i} : crashed'[h] = crashed[h]
    /\ \E e \in crashed'[i] :
          /\ e.job = j /\ e.copy = c.copy /\ e.made
          /\ \A d \in CrashedType : d \in crashed'[i] <=> d \in crashed[i] \ {c} \/ d = e
    /\ HeirMade(j, b, ReloadExpr(c.copy), c.copy.left)

(* ... and marks the row.                                                  *)
MarkedCrashed(i, j, c) ==
    /\ UNCHANGED <<inst, due, admin, marks>> /\ KeepsHeirs(j) /\ SameObjs(j)
    /\ starts'[j] = starts[j]
    /\ c \in crashed[i] /\ c.job = j /\ c.made
    /\ Exists(j) => /\ row'[j] \in RowType /\ row'[j].status = "CRASHED" /\ row'[j].cancelled
                    /\ row'[j].prev = row[j].prev /\ row'[j].expr = row[j].expr
                    /\ row'[j].plan = row[j].plan /\ row'[j].left = c.copy.left
                    /\ row'[j].started = c.copy.started
    /\ ~ Exists(j) => row'[j] = row[j]
    /\ \A h \in Instances \ {i} : crashed'[h] = crashed[h] /\ reloaded'[h] = reloaded[h]
    /\ \A d \in CrashedType : d \in crashed'[i] <=> d \in crashed[i] \ {c}

Purged(j) ==
    /\ UNCHANGED jobVars /\ KeepsHeirs(j) /\ SameObjs(j) /\ starts'[j] = starts[j]
    /\ \A h \in Instances : obj[h][j].phase = "none"
    /\ Exists(j) /\ row'[j] \in RowType /\ row'[j].status = "PURGED"
    /\ row'[j].started = row[j].started /\ row'[j].left = row[j].left
    /\ row'[j].prev = row[j].prev /\ row'[j].expr = row[j].expr /\ row'[j].plan = row[j].plan

(* The administrator writes the row back: another value for a row that     *)
(* exists, with the origin and the counts of the one that was read.        *)
AdminWrote(j) ==
    /\ UNCHANGED <<inst, reloaded, due, crashed>> /\ KeepsHeirs(j) /\ SameObjs(j)
    /\ starts'[j] = starts[j] /\ admin'.op = "none"
    /\ admin.op # "none" /\ admin.job = j
    /\ Exists(j) /\ row'[j] \in RowType
    /\ LET c == admin.copy
       IN  /\ row'[j].prev = c.prev /\ row'[j].expr = c.expr /\ row'[j].plan = c.plan
           /\ row'[j].left = c.left /\ (row'[j].started => c.started)

CancelledRow(j) ==
    /\ AdminWrote(j) /\ row'[j].status = "CANCELLED" /\ row'[j].cancelled
    /\ marks \subseteq marks' /\ \A w \in MarkKinds \ {"cancelled"} :
          <<w, j>> \in marks' <=> <<w, j>> \in marks
    /\ ~ WriteBackPending(j) => <<"cancelled", j>> \in marks'
    /\ WriteBackPending(j) => marks' = marks

LimitStored(j) ==
    /\ AdminWrote(j) /\ SameMarks(j)
    /\ row'[j].status = row[j].status /\ row'[j].started = row[j].started
    /\ row'[j].cancelled = row[j].cancelled /\ row'[j].runBy = row[j].runBy

Rewritten(j) ==
    /\ AdminWrote(j)
    /\ <<"rewritten", j>> \in marks' /\ <<"cancelled", j>> \notin marks'

(* The row's objects and what was read of it are lost with an instance.    *)
Killed(i, j) ==
    /\ UNCHANGED <<reloaded, admin>> /\ KeepsHeirs(j)
    /\ row'[j] = row[j] /\ starts'[j] = starts[j]
    /\ \A h \in Instances \ {i} : /\ obj'[h][j] = obj[h][j] /\ crashed'[h] = crashed[h]
                                  /\ due'[h] = due[h] /\ inst'[h] = inst[h]
    /\ obj'[i][j].phase = "none" /\ crashed'[i] = {} /\ due'[i] = {} /\ inst'[i] = "down"
    /\ marks \subseteq marks'
    /\ \A w \in {"cancelled", "rewritten"} : <<w, j>> \in marks' <=> <<w, j>> \in marks
    /\ obj[i][j].phase \in {"claimed", "qread"} => <<"unqueued", j>> \in marks'
    /\ obj[i][j].phase = "started" => <<"unrecurred", j>> \in marks'
    /\ (\E c \in crashed[i] : c.job = j /\ c.made) => <<"unmarked", j>> \in marks'

(* What can happen to row j in a step.                                     *)
JobEvent(i, j) ==
    \/ Dropped(i, j) \/ Refreshed(i, j) \/ Went(i, j)
    \/ \E r \in RowType : \/ QueuedBack(i, j, r) \/ Dequeued(i, j, r)
                          \/ Started(i, j, r) \/ Ended(i, j, r)
    \/ \E b \in Rows : Recurred(i, j, b) \/ Retried(i, j, b)

PollerEvent(i, j) ==
    \/ Claimed(i, j) \/ Listed(i, j)
    \/ \E c \in crashed[i] : MarkedCrashed(i, j, c) \/ \E b \in Rows : Replaced(i, j, c, b)

RowEvent(j) ==
    \/ Untouched(j) \/ Newborn(j)
    \/ \E i \in Instances : JobEvent(i, j) \/ PollerEvent(i, j) \/ Killed(i, j)
    \/ Purged(j) \/ CancelledRow(j) \/ LimitStored(j) \/ Rewritten(j)

-----------------------------------------------------------------------------
(* From the actions to what they do to each row                            *)

LEMMA KeepHeirs ==
  ASSUME \A k \in Rows : /\ Used(k)' <=> Used(k)
                         /\ Used(k) => /\ row'[k].prev = row[k].prev
                                       /\ row'[k].expr = row[k].expr
                                       /\ row'[k].plan = row[k].plan
  PROVE  \A j \in Rows : KeepsHeirs(j)
BY DEF KeepsHeirs, Heir

LEMMA AroundJob ==
  ASSUME NEW j \in Rows, NEW k \in Rows \ {j}, NEW i \in Instances,
         JobFrame(i, j), KeepsHeirs(k)
  PROVE  Around(k)
<1>1. UNCHANGED <<inst, reloaded, due, crashed, admin, marks>> BY DEF JobFrame, jobVars
<1>2. SameObjs(k) /\ starts'[k] = starts[k] BY DEF JobFrame, SameObjs
<1>3. SameEntries(k) /\ SameMarks(k) BY <1>1 DEF SameEntries, SameMarks
<1>4. \A h \in Instances : Reloads(h)' <=> Reloads(h) BY <1>1 DEF Reloads
<1> QED BY <1>1, <1>2, <1>3, <1>4 DEF Around

(* A job object moves on, and the table stays as it is.                    *)
LEMMA MoveEffect ==
  ASSUME IInv, NEW i \in Instances, NEW j \in Rows, NEW o \in ObjType,
         obj' = [obj EXCEPT ![i][j] = o], UNCHANGED <<row, starts>>, UNCHANGED jobVars
  PROVE  /\ JobFrame(i, j) /\ obj'[i][j] = o /\ KeepsHeirs(j)
         /\ row'[j] = row[j] /\ starts'[j] = starts[j]
         /\ \A k \in Rows \ {j} : Untouched(k)
<1>1. /\ obj'[i][j] = o
      /\ \A h \in Instances, k \in Rows : h # i \/ k # j => obj'[h][k] = obj[h][k]
  BY DEF IInv, TypeInv, ObjsTyped
<1>2. JobFrame(i, j) BY <1>1 DEF JobFrame
<1>3. \A k \in Rows : KeepsHeirs(k) BY KeepHeirs DEF Used
<1> QED BY <1>1, <1>2, <1>3, AroundJob DEF Untouched

(* A job object moves on, and a value it held is written back.             *)
LEMMA WriteEffect ==
  ASSUME IInv, NEW i \in Instances, NEW j \in Rows, NEW o \in ObjType, NEW r \in RowType,
         \A k \in Rows : Values(k), obj[i][j].phase \in Reading,
         obj' = [obj EXCEPT ![i][j] = o], Store(j, r), UNCHANGED jobVars,
         \A k \in Rows \ {j} : starts'[k] = starts[k],
         LET c == obj[i][j].copy
         IN  /\ r.prev = c.prev /\ r.expr = c.expr /\ r.plan = c.plan
             /\ r.left = c.left /\ r.cancelled = c.cancelled
  PROVE  /\ Written(i, j, r) /\ obj'[i][j] = o
         /\ \A k \in Rows \ {j} : Untouched(k)
<1>1. /\ obj'[i][j] = o
      /\ \A h \in Instances, k \in Rows : h # i \/ k # j => obj'[h][k] = obj[h][k]
  BY DEF IInv, TypeInv, ObjsTyped
<1>2. JobFrame(i, j) BY <1>1 DEF JobFrame
<1>3. /\ \A k \in Rows \ {j} : row'[k] = row[k]
      /\ row'[j] = IF Exists(j) THEN r ELSE row[j]
  BY StoreRow
<1>4. ValueOk(j, obj[i][j].copy) BY DEF Values, ObjValue
<1>5. Exists(j) => Used(j) BY DEF Exists, Used, NoRow
<1>6. r # NoRow BY RowIsNew
<1>7. \A k \in Rows : KeepsHeirs(k)
  <2>1. \A k \in Rows : Used(k)' <=> Used(k) BY <1>3, <1>5, <1>6 DEF Used
  <2>2. \A k \in Rows : /\ row'[k].prev = row[k].prev
                        /\ row'[k].expr = row[k].expr /\ row'[k].plan = row[k].plan
    BY <1>3, <1>4 DEF ValueOk
  <2> QED BY <2>1, <2>2, KeepHeirs
<1>8. \A k \in Rows \ {j} : Untouched(k) BY <1>2, <1>3, <1>7, AroundJob DEF Untouched
<1>9. obj[i][j].copy \in RowType BY DEF IInv, TypeInv, CopiesRead
<1>10. Written(i, j, r) BY <1>2, <1>3, <1>7, <1>9 DEF Written
<1> QED BY <1>1, <1>8, <1>10

(* Row b is made, as a successor of row j.                                 *)
Made(b, j, expr, left) ==
    /\ row[b] = NoRow /\ row'[b] \in RowType /\ b # j
    /\ row'[b].status = "PENDING" /\ row'[b].runBy = None /\ ~ row'[b].started
    /\ row'[b].plan = row'[b].left /\ row'[b].prev = j
    /\ \A k \in Rows \ {b} : row'[k] = row[k]
    /\ HeirMade(j, b, expr, left)
    /\ \A k \in Rows \ {j} : KeepsHeirs(k)

(* A successor is made, with an id never used before.                      *)
LEMMA CreateEffect ==
  ASSUME IInv, \A k \in Rows : Values(k), NEW c \in RowType, NEW expr \in BOOLEAN,
         NEW left \in Nat, NEW retry \in Nat, NEW j \in Rows, Used(j),
         Create(NewRow(c, expr, left, retry, j))
  PROVE  \E b \in Rows : Made(b, j, expr, left)
<1> DEFINE r == NewRow(c, expr, left, retry, j)
<1>1. r \in RowType BY NewRowType
<1>2. /\ r.status = "PENDING" /\ r.runBy = None /\ r.started = FALSE /\ r.plan = left
      /\ r.left = left /\ r.prev = j /\ r.expr = expr
  BY DEF NewRow, RowType
<1> HIDE DEF r
<1>3. PICK b \in Free : row' = [row EXCEPT ![b] = r] BY DEF Create, r
<1>4. b \in Rows /\ row[b] = NoRow /\ b # j BY <1>3 DEF Free, Rows, Used
<1>5. row'[b] = r /\ \A k \in Rows \ {b} : row'[k] = row[k]
  BY <1>3, <1>4 DEF IInv, TypeInv, RowsTyped
<1>6. r # NoRow BY <1>1, RowIsNew
<1>7. HeirMade(j, b, expr, left)
  BY <1>2, <1>4, <1>5, <1>6 DEF HeirMade, Heir, Used
<1>8. ASSUME NEW k \in Rows \ {j} PROVE KeepsHeirs(k)
  <2>1. ~ Heir(k, b) /\ ~ Heir(k, b)' BY <1>2, <1>4, <1>5 DEF Heir, Used
  <2>2. \A l \in Rows \ {b} : (Heir(k, l)' <=> Heir(k, l)) /\ row'[l].plan = row[l].plan
    BY <1>5 DEF Heir, Used
  <2> QED BY <2>1, <2>2 DEF KeepsHeirs
<1> QED BY <1>1, <1>2, <1>4, <1>5, <1>7, <1>8 DEF Made

LEMMA QueueEffects ==
  ASSUME IInv, Once, \A k \in Rows : Values(k), NEW i \in Instances, NEW j \in Rows,
         QueueCheck(i, j) \/ QueueStore(i, j) \/ DeQueueRead(i, j) \/ DeQueueStore(i, j)
  PROVE  /\ \A k \in Rows \ {j} : Untouched(k)
         /\ \/ Dropped(i, j) \/ Refreshed(i, j)
            \/ \E r \in RowType : QueuedBack(i, j, r) \/ Dequeued(i, j, r)
<1> USE DEF Phases, Reading
<1> DEFINE c == obj[i][j].copy
<1>1. CASE QueueCheck(i, j)
  <2>1. obj[i][j].phase = "claimed" /\ UNCHANGED <<row, starts>> /\ UNCHANGED jobVars
    BY <1>1 DEF QueueCheck
  <2>2. CASE /\ Drop(i, j)
             /\ ~ (Exists(j) /\ row[j].runBy = i /\ ~row[j].cancelled /\ ~row[j].started)
    <3>1. PICK o \in ObjType : obj' = [obj EXCEPT ![i][j] = o] /\ o.phase = "none"
      BY <2>2, NewObj
    <3> QED BY <2>1, <2>2, <3>1, MoveEffect DEF Dropped, Open
  <2>3. CASE /\ Exists(j) /\ row[j].runBy = i /\ ~ row[j].cancelled /\ ~ row[j].started
             /\ Reread(i, j, "qread")
    <3>1. PICK o \in ObjType : /\ obj' = [obj EXCEPT ![i][j] = o]
                               /\ o.phase = "qread" /\ o.copy = row[j]
      BY <2>3, NewObj
    <3> QED BY <2>1, <2>3, <3>1, MoveEffect DEF Refreshed, Open
  <2> QED BY <1>1, <2>2, <2>3 DEF QueueCheck
<1>2. CASE QueueStore(i, j)
  <2> DEFINE r == [c EXCEPT !.status = "QUEUED"]
  <2>1. /\ obj[i][j].phase = "qread" /\ Store(j, r) /\ UNCHANGED starts /\ UNCHANGED jobVars
    BY <1>2 DEF QueueStore
  <2>2. c \in RowType /\ r \in RowType BY <2>1, CopyStored DEF Statuses, Live
  <2>3. /\ r.prev = c.prev /\ r.expr = c.expr /\ r.plan = c.plan
        /\ r.left = c.left /\ r.cancelled = c.cancelled
        /\ r.status = "QUEUED" /\ r.runBy = c.runBy /\ r.started = c.started
    BY <2>2 DEF RowType
  <2>4. PICK p \in {"queued", "rejected"} : Move(i, j, p) BY <1>2 DEF QueueStore
  <2>5. PICK o \in ObjType : obj' = [obj EXCEPT ![i][j] = o] /\ o.phase = p
    BY <2>4, NewObj
  <2> HIDE DEF r
  <2> QED BY <2>1, <2>2, <2>3, <2>5, WriteEffect DEF QueuedBack
<1>3. CASE DeQueueRead(i, j)
  <2>1. /\ obj[i][j].phase \in {"rejected", "queued"} /\ UNCHANGED <<row, starts>>
        /\ UNCHANGED jobVars
    BY <1>3 DEF DeQueueRead
  <2>2. CASE Drop(i, j) /\ ~ Exists(j)
    <3>1. PICK o \in ObjType : obj' = [obj EXCEPT ![i][j] = o] /\ o.phase = "none"
      BY <2>2, NewObj
    <3> QED BY <2>1, <2>2, <3>1, MoveEffect DEF Dropped, Open
  <2>3. CASE Exists(j) /\ Reread(i, j, "dread")
    <3>1. PICK o \in ObjType : /\ obj' = [obj EXCEPT ![i][j] = o]
                               /\ o.phase = "dread" /\ o.copy = row[j]
      BY <2>3, NewObj
    <3> QED BY <2>1, <2>3, <3>1, MoveEffect DEF Refreshed
  <2> QED BY <1>3, <2>2, <2>3 DEF DeQueueRead
<1>4. CASE DeQueueStore(i, j)
  <2> DEFINE r == [c EXCEPT !.started = FALSE, !.runBy = None, !.status = "PENDING"]
  <2>1. /\ obj[i][j].phase = "dread" /\ Store(j, r) /\ Drop(i, j)
        /\ UNCHANGED starts /\ UNCHANGED jobVars
    BY <1>4 DEF DeQueueStore
  <2>2. c \in RowType /\ r \in RowType BY <2>1, CopyStored DEF Statuses, Live
  <2>3. /\ r.prev = c.prev /\ r.expr = c.expr /\ r.plan = c.plan
        /\ r.left = c.left /\ r.cancelled = c.cancelled
        /\ r.status = "PENDING" /\ r.runBy = None /\ ~ r.started
    BY <2>2 DEF RowType
  <2>4. PICK o \in ObjType : obj' = [obj EXCEPT ![i][j] = o] /\ o.phase = "none"
    BY <2>1, NewObj
  <2> HIDE DEF r
  <2> QED BY <2>1, <2>2, <2>3, <2>4, WriteEffect DEF Dequeued
<1> QED BY <1>1, <1>2, <1>3, <1>4

LEMMA InitEffects ==
  ASSUME IInv, Once, \A k \in Rows : Values(k), NEW i \in Instances, NEW j \in Rows,
         InitCheck(i, j) \/ InitStore(i, j)
  PROVE  /\ \A k \in Rows \ {j} : Untouched(k)
         /\ Dropped(i, j) \/ Refreshed(i, j) \/ \E r \in RowType : Started(i, j, r)
<1>o. obj[i][j] \in ObjType BY DEF IInv, TypeInv, ObjsTyped
<1>1. CASE InitCheck(i, j)
  <2>1. obj[i][j].phase = "queued" /\ UNCHANGED <<row, starts>> /\ UNCHANGED jobVars
    BY <1>1 DEF InitCheck
  <2>2. CASE Drop(i, j) /\ ~ InitAllowed(i, j)
    <3>1. PICK o \in ObjType : obj' = [obj EXCEPT ![i][j] = o] /\ o.phase = "none"
      BY <2>2, NewObj
    <3> QED BY <2>1, <2>2, <3>1, MoveEffect DEF Dropped, Open, InitAllowed
  <2>3. CASE InitAllowed(i, j) /\ Reread(i, j, "iread")
    <3>1. PICK o \in ObjType : /\ obj' = [obj EXCEPT ![i][j] = o]
                               /\ o.phase = "iread" /\ o.copy = row[j]
      BY <2>3, NewObj DEF InitAllowed, Phases
    <3> QED BY <2>1, <2>3, <3>1, MoveEffect DEF Refreshed, Open, InitAllowed
  <2> QED BY <1>1, <2>2, <2>3 DEF InitCheck
<1>2. CASE InitStore(i, j)
  <2> DEFINE c == obj[i][j].copy
             r == [c EXCEPT !.status = "RUNNING", !.started = TRUE]
             p == IF r.expr /\ r.left > 0 THEN "started" ELSE "ready"
             o == [obj[i][j] EXCEPT !.phase = p, !.copy = r]
  <2>1. /\ obj[i][j].phase = "iread" /\ Store(j, r) /\ UNCHANGED jobVars
        /\ starts' = [starts EXCEPT ![j] = @ + 1] /\ obj' = [obj EXCEPT ![i][j] = o]
    <3>1. /\ obj[i][j].phase = "iread" /\ Store(j, r) /\ UNCHANGED jobVars
          /\ starts' = [starts EXCEPT ![j] = @ + 1]
      BY <1>2, Zenon DEF InitStore
    <3>2. obj' = [obj EXCEPT ![i][j].phase = p, ![i][j].copy = r]
      BY <1>2, Zenon DEF InitStore
    <3> HIDE DEF p, r
    <3>3. obj' = [obj EXCEPT ![i][j] = o] BY <3>2
    <3> QED BY <3>1, <3>3
  <2>2. c \in RowType /\ r \in RowType BY <2>1, CopyStored DEF Statuses, Live, Reading, Phases
  <2>3. /\ r.prev = c.prev /\ r.expr = c.expr /\ r.plan = c.plan
        /\ r.left = c.left /\ r.cancelled = c.cancelled
        /\ r.status = "RUNNING" /\ r.started /\ r.runBy = c.runBy
    BY <2>2 DEF RowType
  <2>4. p \in Phases /\ p = IF r.expr /\ r.left > 0 THEN "started" ELSE "ready" BY DEF Phases
  <2> HIDE DEF r, p
  <2>5. o \in ObjType /\ o.phase = p /\ o.copy = r BY <1>o, <2>2, <2>4 DEF ObjType
  <2> HIDE DEF o
  <2>6. /\ starts'[j] = starts[j] + 1
        /\ \A k \in Rows \ {j} : starts'[k] = starts[k]
    BY <2>1 DEF Once
  <2>7. obj[i][j].phase \in Reading BY <2>1 DEF Reading, Phases
  <2>8. /\ Written(i, j, r) /\ obj'[i][j] = o
        /\ \A k \in Rows \ {j} : Untouched(k)
    BY <2>1, <2>2, <2>3, <2>5, <2>6, <2>7, WriteEffect
  <2> QED BY <2>1, <2>2, <2>3, <2>4, <2>5, <2>6, <2>8 DEF Started
<1> QED BY <1>1, <1>2

(* A job that makes a successor of its row.                                *)
LEMMA HeirEffect ==
  ASSUME IInv, \A k \in Rows : Values(k), NEW i \in Instances, NEW j \in Rows,
         NEW b \in Rows, NEW expr, NEW left, Made(b, j, expr, left), JobFrame(i, j), Used(j)
  PROVE  /\ row'[j] = row[j] /\ HeirMade(j, b, expr, left) /\ Newborn(b)
         /\ \A k \in Rows \ {j, b} : Untouched(k)
<1>1. \A k \in Rows \ {j} : Around(k) BY AroundJob DEF Made
<1>2. \A k \in Rows \ {j, b} : Untouched(k) BY <1>1 DEF Untouched, Made
<1>3. Newborn(b)
  <2>1. \A h \in Instances : b \notin due'[h] BY DEF Values, JobFrame, jobVars, Used, Made
  <2>2. Used(j)' BY DEF Used, Made
  <2> QED BY <1>1, <2>1, <2>2 DEF Newborn, Made
<1> QED BY <1>2, <1>3 DEF Made

LEMMA RecurEffect ==
  ASSUME IInv, Once, \A k \in Rows : Values(k), NEW i \in Instances, NEW j \in Rows,
         InitRecur(i, j)
  PROVE  \E b \in Rows : /\ Recurred(i, j, b) /\ Newborn(b)
                         /\ \A k \in Rows \ {j, b} : Untouched(k)
<1> DEFINE c == obj[i][j].copy
           r == [c EXCEPT !.left = c.left - 1]
           o == [obj[i][j] EXCEPT !.phase = "ready", !.recurred = TRUE, !.copy = r]
<1>o. obj[i][j] \in ObjType BY DEF IInv, TypeInv, ObjsTyped
<1>1. /\ obj[i][j].phase = "started" /\ UNCHANGED starts /\ UNCHANGED jobVars
      /\ obj' = [obj EXCEPT ![i][j] = o] /\ Create(NewRow(c, c.expr, c.left - 1, 0, j))
  BY DEF InitRecur
<1>2. c \in RowType /\ c.left > 0
  BY <1>1 DEF IInv, TypeInv, CopiesRead, Reading, Phases
<1>3. c.left - 1 \in Nat /\ c.expr \in BOOLEAN BY <1>2 DEF RowType
<1>4. /\ r \in RowType
      /\ r.prev = c.prev /\ r.expr = c.expr /\ r.plan = c.plan /\ r.left = c.left - 1
      /\ r.cancelled = c.cancelled /\ r.started = c.started
  BY <1>2, <1>3 DEF RowType
<1> HIDE DEF r
<1>5. o \in ObjType /\ o.phase = "ready" /\ o.copy = r /\ o.recurred
  BY <1>o, <1>4 DEF ObjType, Phases
<1> HIDE DEF o
<1>6. Used(j) BY <1>1, ObjUsed
<1>7. PICK v \in RowType, expr \in BOOLEAN, left \in Nat :
         v = c /\ expr = c.expr /\ left = c.left - 1
  BY <1>2, <1>3
<1>8. PICK b \in Rows : Made(b, j, expr, left)
  BY <1>1, <1>6, <1>7, CreateEffect
<1>9. JobFrame(i, j) /\ obj'[i][j] = o BY <1>1, <1>5 DEF JobFrame, IInv, TypeInv, ObjsTyped
<1>10. /\ row'[j] = row[j] /\ HeirMade(j, b, expr, left) /\ Newborn(b)
       /\ \A k \in Rows \ {j, b} : Untouched(k)
  BY <1>6, <1>8, <1>9, HeirEffect
<1>11. Recurred(i, j, b) BY <1>1, <1>2, <1>4, <1>5, <1>7, <1>9, <1>10 DEF Recurred
<1> QED BY <1>10, <1>11

LEMMA RunEffects ==
  ASSUME IInv, Once, \A k \in Rows : Values(k), NEW i \in Instances, NEW j \in Rows,
         \/ AcquireAndRun(i, j) \/ AcquireGivesUp(i, j) \/ BodyEnds(i, j)
         \/ FailRetry(i, j) /\ UNCHANGED row
  PROVE  Went(i, j) /\ \A k \in Rows \ {j} : Untouched(k)
<1>o. obj[i][j] \in ObjType BY DEF IInv, TypeInv, ObjsTyped
<1>1. /\ obj[i][j].phase \in {"ready", "body", "fail"} /\ UNCHANGED <<row, starts>>
      /\ UNCHANGED jobVars
      /\ \E p \in {"body", "finish", "fail", "failstore"} : Move(i, j, p)
  BY DEF AcquireAndRun, AcquireGivesUp, BodyEnds, FailRetry
<1>2. PICK p \in {"body", "finish", "fail", "failstore"} : Move(i, j, p) BY <1>1
<1> DEFINE o == [obj[i][j] EXCEPT !.phase = p]
<1>3. /\ o \in ObjType /\ o.phase = p /\ o.copy = obj[i][j].copy
      /\ o.recurred = obj[i][j].recurred
  BY <1>o DEF ObjType, Phases
<1>4. obj' = [obj EXCEPT ![i][j] = o] BY <1>2 DEF Move
<1> HIDE DEF o
<1> QED BY <1>1, <1>3, <1>4, MoveEffect DEF Went

LEMMA RetryEffect ==
  ASSUME IInv, Once, \A k \in Rows : Values(k), NEW i \in Instances, NEW j \in Rows,
         FailRetry(i, j), ~ UNCHANGED row
  PROVE  \E b \in Rows : /\ Retried(i, j, b) /\ Newborn(b)
                         /\ \A k \in Rows \ {j, b} : Untouched(k)
<1> DEFINE c == obj[i][j].copy
           o == [obj[i][j] EXCEPT !.phase = "failstore"]
<1>o. obj[i][j] \in ObjType BY DEF IInv, TypeInv, ObjsTyped
<1>1. /\ obj[i][j].phase = "fail" /\ ~ obj[i][j].recurred
      /\ UNCHANGED starts /\ UNCHANGED jobVars
      /\ Move(i, j, "failstore") /\ Create(NewRow(c, c.expr, c.left, c.retry + 1, j))
  BY DEF FailRetry
<1>2. c \in RowType BY <1>1, CopyStored DEF Statuses, Live, Reading, Phases
<1>3. c.expr \in BOOLEAN /\ c.left \in Nat /\ c.retry + 1 \in Nat BY <1>2 DEF RowType
<1>4. o \in ObjType /\ o.phase = "failstore" /\ o.copy = c BY <1>o DEF ObjType, Phases
<1>5. obj' = [obj EXCEPT ![i][j] = o] BY <1>1 DEF Move
<1> HIDE DEF o
<1>6. Used(j) BY <1>1, ObjUsed
<1>7. PICK v \in RowType, expr \in BOOLEAN, left \in Nat, retry \in Nat :
         v = c /\ expr = c.expr /\ left = c.left /\ retry = c.retry + 1
  BY <1>2, <1>3
<1>8. PICK b \in Rows : Made(b, j, expr, left)
  BY <1>1, <1>6, <1>7, CreateEffect
<1>9. JobFrame(i, j) /\ obj'[i][j] = o BY <1>1, <1>4, <1>5 DEF JobFrame, IInv, TypeInv, ObjsTyped
<1>10. /\ row'[j] = row[j] /\ HeirMade(j, b, expr, left) /\ Newborn(b)
       /\ \A k \in Rows \ {j, b} : Untouched(k)
  BY <1>6, <1>8, <1>9, HeirEffect
<1>11. Retried(i, j, b) BY <1>1, <1>4, <1>7, <1>9, <1>10 DEF Retried
<1> QED BY <1>10, <1>11

LEMMA EndEffects ==
  ASSUME IInv, Once, \A k \in Rows : Values(k), NEW i \in Instances, NEW j \in Rows,
         Finish(i, j) \/ FailStore(i, j)
  PROVE  /\ \A k \in Rows \ {j} : Untouched(k)
         /\ \E r \in RowType : Ended(i, j, r)
<1>1. PICK st \in {"FINISHED", "FAILED"} :
         Store(j, [obj[i][j].copy EXCEPT !.status = st, !.finished = TRUE])
  BY DEF Finish, FailStore
<1> DEFINE c == obj[i][j].copy
           r == [c EXCEPT !.status = st, !.finished = TRUE]
<1>2. /\ obj[i][j].phase \in {"finish", "failstore"} /\ obj[i][j].phase \in Reading
      /\ Drop(i, j) /\ UNCHANGED starts /\ UNCHANGED jobVars
  BY DEF Finish, FailStore, Reading, Phases
<1>3. c \in RowType /\ r \in RowType BY <1>2, CopyStored DEF Statuses
<1>4. /\ r.prev = c.prev /\ r.expr = c.expr /\ r.plan = c.plan
      /\ r.left = c.left /\ r.cancelled = c.cancelled
      /\ r.status = st /\ r.runBy = c.runBy /\ r.started = c.started
  BY <1>3 DEF RowType
<1> HIDE DEF r
<1>5. Store(j, r) BY <1>1 DEF r
<1>6. PICK o \in ObjType : obj' = [obj EXCEPT ![i][j] = o] /\ o.phase = "none"
  BY <1>2, NewObj
<1>7. /\ Written(i, j, r) /\ obj'[i][j] = o
      /\ \A k \in Rows \ {j} : Untouched(k)
  BY <1>2, <1>3, <1>4, <1>5, <1>6, WriteEffect
<1> QED BY <1>2, <1>3, <1>4, <1>6, <1>7 DEF Ended

LEMMA JobEvents ==
  ASSUME IInv, Once, \A k \in Rows : Values(k), NEW i \in Instances, NEW j \in Rows,
         JobStep(i, j) \/ QueueCheck(i, j) \/ QueueStore(i, j)
  PROVE  \A k \in Rows : RowEvent(k)
<1>1. CASE QueueCheck(i, j) \/ QueueStore(i, j) \/ DeQueueRead(i, j) \/ DeQueueStore(i, j)
  BY <1>1, QueueEffects DEF RowEvent, JobEvent
<1>2. CASE InitCheck(i, j) \/ InitStore(i, j)
  BY <1>2, InitEffects DEF RowEvent, JobEvent
<1>3. CASE InitRecur(i, j)
  BY <1>3, RecurEffect DEF RowEvent, JobEvent
<1>4. CASE \/ AcquireAndRun(i, j) \/ AcquireGivesUp(i, j) \/ BodyEnds(i, j)
           \/ FailRetry(i, j) /\ UNCHANGED row
  BY <1>4, RunEffects DEF RowEvent, JobEvent
<1>5. CASE FailRetry(i, j) /\ ~ UNCHANGED row
  BY <1>5, RetryEffect DEF RowEvent, JobEvent
<1>6. CASE Finish(i, j) \/ FailStore(i, j)
  BY <1>6, EndEffects DEF RowEvent, JobEvent
<1> QED BY <1>1, <1>2, <1>3, <1>4, <1>5, <1>6 DEF JobStep

(* Steps that leave the rows and their objects as they are.                *)
LEMMA QuietEvents ==
  ASSUME IInv, Pollers, NEW i \in Instances,
         PollRead(i) \/ StopInstance(i) \/ Restart(i)
  PROVE  \A k \in Rows : RowEvent(k)
<1>t. /\ due \in [Instances -> SUBSET Rows] /\ inst \in [Instances -> {"up", "stopping", "down"}]
  BY DEF IInv, TypeInv
<1>1. \A k \in Rows : KeepsHeirs(k)
  <2>1. UNCHANGED row BY DEF PollRead, StopInstance, Restart
  <2> QED BY <2>1, KeepHeirs DEF Used
<1>2. UNCHANGED <<row, obj, starts, crashed, admin, marks>>
  BY DEF PollRead, StopInstance, Restart
<1>3. \A k \in Rows : SameObjs(k) /\ SameEntries(k) /\ SameMarks(k)
  BY <1>2 DEF SameObjs, SameEntries, SameMarks
<1>4. \A h \in Instances, k \in Rows : k \in due'[h] => k \in due[h] \/ Due(k)
  BY <1>t DEF PollRead, StopInstance, Restart
<1>5. \A h \in Instances : Reloads(h)' => Reloads(h)
  BY <1>t, <1>2 DEF PollRead, StopInstance, Restart, Reloads, Idle, Pollers
<1> QED BY <1>1, <1>2, <1>3, <1>4, <1>5 DEF RowEvent, Untouched, Around

LEMMA ClaimEvents ==
  ASSUME IInv, NEW i \in Instances, PollClaim(i)
  PROVE  \A k \in Rows : RowEvent(k)
<1>t. /\ due \in [Instances -> SUBSET Rows] /\ RowsTyped
      /\ obj \in [Instances -> [Rows -> ObjType]]
  BY DEF IInv, TypeInv, ObjsTyped
<1>1. PICK S \in SUBSET {j \in due[i] : Claimable(j) /\ obj[i][j].phase = "none"} :
         /\ row' = [j \in Rows |-> IF j \in S THEN [row[j] EXCEPT !.runBy = i] ELSE row[j]]
         /\ obj' = [obj EXCEPT ![i] = [j \in Rows |->
                      IF j \in S THEN [NoObj EXCEPT !.phase = "claimed", !.limit = row[j].limit]
                      ELSE @[j]]]
  BY DEF PollClaim
<1>2. /\ UNCHANGED <<inst, reloaded, crashed, admin, marks, starts>>
      /\ due' = [due EXCEPT ![i] = {}]
  BY DEF PollClaim
<1>3. ASSUME NEW k \in S
      PROVE  /\ k \in Rows /\ Exists(k) /\ row[k].runBy = None /\ k \in due[i]
             /\ obj[i][k].phase = "none" /\ row'[k] \in RowType /\ row'[k].runBy = i
             /\ row'[k].status = row[k].status /\ row'[k].started = row[k].started
             /\ row'[k].cancelled = row[k].cancelled /\ row'[k].left = row[k].left
             /\ row'[k].prev = row[k].prev /\ row'[k].expr = row[k].expr
             /\ row'[k].plan = row[k].plan
  <2>1. k \in Rows /\ Exists(k) /\ row[k].runBy = None /\ k \in due[i] /\ obj[i][k].phase = "none"
    BY <1>t, <1>1 DEF Claimable
  <2>2. row[k] \in RowType BY <1>t, <2>1, ExistsType
  <2>3. row'[k] = [row[k] EXCEPT !.runBy = i] BY <1>1, <2>1
  <2> QED BY <2>1, <2>2, <2>3 DEF RowType
<1>4. \A k \in Rows \ S : row'[k] = row[k] BY <1>1
<1>5. \A k \in Rows : KeepsHeirs(k)
  <2>1. \A k \in S : Used(k) /\ Used(k)' BY <1>3, RowIsNew DEF Used, Exists, NoRow
  <2> QED BY <1>3, <1>4, <2>1, KeepHeirs DEF Used
<1>6. \A h \in Instances, k \in Rows : k \in due'[h] => k \in due[h] BY <1>t, <1>2
<1>7. \A h \in Instances, k \in Rows : h # i \/ k \notin S => obj'[h][k] = obj[h][k]
  BY <1>t, <1>1
<1>8. \A k \in S : obj'[i][k].phase = "claimed"
  BY <1>t, <1>1, <1>3 DEF NoObj
<1>9. \A k \in S : Claimed(i, k) BY <1>2, <1>3, <1>5, <1>6, <1>7, <1>8 DEF Claimed
<1>10. ASSUME NEW k \in Rows \ S PROVE Untouched(k)
  <2>1. SameObjs(k) /\ SameEntries(k) /\ SameMarks(k)
    BY <1>2, <1>7 DEF SameObjs, SameEntries, SameMarks
  <2>2. \A h \in Instances : Reloads(h)' <=> Reloads(h) BY <1>2 DEF Reloads
  <2> QED BY <1>2, <1>4, <1>5, <1>6, <2>1, <2>2 DEF Untouched, Around
<1> QED BY <1>9, <1>10 DEF RowEvent, PollerEvent

LEMMA ReloadReadEvents ==
  ASSUME IInv, Pollers, NEW i \in Instances, ReloadRead(i)
  PROVE  \A k \in Rows : RowEvent(k)
<1> DEFINE left == {j \in Rows : Exists(j) /\ row[j].runBy = i /\ row[j].status \in Live}
           L == {[job |-> j, copy |-> row[j], made |-> FALSE] : j \in left}
<1>t. /\ crashed \in [Instances -> SUBSET CrashedType] /\ reloaded \in [Instances -> BOOLEAN]
  BY DEF IInv, TypeInv, Pollers
<1>1. /\ crashed' = [crashed EXCEPT ![i] = L] /\ crashed[i] = {} /\ ~ reloaded[i] /\ inst[i] = "up"
      /\ reloaded' = [reloaded EXCEPT ![i] = (left = {})]
      /\ UNCHANGED <<sem, row, obj, inst, due, admin, faults, starts, marks>>
  BY DEF ReloadRead, PollerIdle
<1>2. \A k \in Rows : k \in left <=> LeftBehind(i, k) BY DEF LeftBehind
<1> DEFINE entry(j) == [job |-> j, copy |-> row[j], made |-> FALSE]
<1>3. \A j \in left : entry(j).job = j /\ entry(j).copy = row[j] /\ ~ entry(j).made OBVIOUS
<1>l. \A c : c \in L <=> \E j \in left : c = entry(j) OBVIOUS
<1> HIDE DEF left, L, entry
<1>4. \A k \in left : \E c \in L : c.job = k BY <1>3, <1>l
<1>5. \A c, d \in L : c.job = d.job => c = d BY <1>3, <1>l
<1>p. \A c \in L : c.job \in left /\ c.copy = row[c.job] /\ ~ c.made BY <1>3, <1>l
<1>6. crashed'[i] = L /\ \A h \in Instances \ {i} : crashed'[h] = crashed[h] BY <1>t, <1>1
<1>7. \A h \in Instances \ {i} : reloaded'[h] = reloaded[h] BY <1>t, <1>1
<1>8. \A k \in Rows : KeepsHeirs(k) /\ SameObjs(k)
  BY <1>1, KeepHeirs DEF Used, SameObjs
<1>9. ASSUME NEW k \in Rows, LeftBehind(i, k) PROVE Listed(i, k)
  BY <1>1, <1>2, <1>p, <1>4, <1>5, <1>6, <1>7, <1>8, <1>9 DEF Listed
<1>10. ASSUME NEW k \in Rows, ~ LeftBehind(i, k) PROVE Untouched(k)
  <2>1. SameEntries(k) BY <1>1, <1>2, <1>p, <1>6, <1>10 DEF SameEntries
  <2>2. SameMarks(k) BY <1>1 DEF SameMarks
  <2>3. \A h \in Instances : Reloads(h)' => Reloads(h) \/ h = i BY <1>1, <1>6, <1>7 DEF Reloads
  <2> QED BY <1>1, <1>8, <1>10, <2>1, <2>2, <2>3 DEF Untouched, Around
<1> QED BY <1>9, <1>10 DEF RowEvent, PollerEvent

LEMMA ReloadCreateEvents ==
  ASSUME IInv, Pollers, \A k \in Rows : Values(k), NEW i \in Instances, NEW c \in crashed[i],
         ReloadCreate(i, c)
  PROVE  \A k \in Rows : RowEvent(k)
<1> DEFINE e == [c EXCEPT !.made = TRUE]
<1>t. crashed \in [Instances -> SUBSET CrashedType] BY DEF IInv, TypeInv
<1>1. PICK j \in Rows : c.job = j /\ c \in CrashedType BY <1>t DEF CrashedType
<1>2. /\ Create(NewRow(c.copy, ReloadExpr(c.copy), c.copy.left, c.copy.retry, j)) /\ ~ c.made
      /\ crashed' = [crashed EXCEPT ![i] = (@ \ {c}) \cup {e}]
      /\ UNCHANGED <<sem, obj, inst, reloaded, due, admin, faults, starts, marks>>
  BY <1>1 DEF ReloadCreate
<1>3. c.copy \in RowType /\ Used(j) BY <1>1 DEF CrashedType, Values, EntryValue
<1>4. e \in CrashedType /\ e.job = j /\ e.copy = c.copy /\ e.made BY <1>1 DEF CrashedType
<1> HIDE DEF e
<1>5. ReloadExpr(c.copy) \in BOOLEAN /\ c.copy.left \in Nat /\ c.copy.retry \in Nat
  BY <1>3 DEF ReloadExpr, RowType
<1>6. PICK v \in RowType, expr \in BOOLEAN, left \in Nat, retry \in Nat :
         v = c.copy /\ expr = ReloadExpr(c.copy) /\ left = c.copy.left /\ retry = c.copy.retry
  BY <1>3, <1>5
<1>7. PICK b \in Rows : Made(b, j, expr, left)
  BY <1>2, <1>3, <1>6, CreateEffect
<1>8. /\ crashed'[i] = (crashed[i] \ {c}) \cup {e}
      /\ \A h \in Instances \ {i} : crashed'[h] = crashed[h]
  BY <1>t, <1>2
<1>9. Replaced(i, j, c, b)
  <2>1. row'[j] = row[j] /\ HeirMade(j, b, ReloadExpr(c.copy), c.copy.left)
    BY <1>6, <1>7 DEF Made
  <2>2. SameObjs(j) BY <1>2 DEF SameObjs
  <2> QED BY <1>1, <1>2, <1>4, <1>8, <2>1, <2>2 DEF Replaced
<1>10. ASSUME NEW k \in Rows \ {j} PROVE Around(k)
  <2>1. SameEntries(k) BY <1>1, <1>4, <1>8 DEF SameEntries
  <2>2. SameObjs(k) /\ SameMarks(k) BY <1>2 DEF SameObjs, SameMarks
  <2>3. \A h \in Instances : Reloads(h)' => Reloads(h) BY <1>2, <1>8 DEF Reloads
  <2> QED BY <1>2, <1>7, <2>1, <2>2, <2>3 DEF Around, Made
<1>11. \A k \in Rows \ {j, b} : Untouched(k) BY <1>7, <1>10 DEF Untouched, Made
<1>12. Newborn(b)
  <2>1. \A h \in Instances : b \notin due'[h] BY <1>2, <1>7 DEF Values, Used, Made
  <2>2. Used(j)' BY <1>3, <1>7 DEF Used, Made
  <2> QED BY <1>7, <1>10, <2>1, <2>2 DEF Newborn, Made
<1> QED BY <1>9, <1>11, <1>12 DEF RowEvent, PollerEvent

LEMMA ReloadMarkEvents ==
  ASSUME IInv, Pollers, \A k \in Rows : Values(k), NEW i \in Instances, NEW c \in crashed[i],
         ReloadMark(i, c)
  PROVE  \A k \in Rows : RowEvent(k)
<1> DEFINE r == [c.copy EXCEPT !.status = "CRASHED", !.cancelled = TRUE]
<1>t. /\ crashed \in [Instances -> SUBSET CrashedType] /\ reloaded \in [Instances -> BOOLEAN]
  BY DEF IInv, TypeInv, Pollers
<1>1. PICK j \in Rows : c.job = j /\ c \in CrashedType BY <1>t DEF CrashedType
<1>2. /\ Store(j, r) /\ inst[i] # "down" /\ c.made
      /\ crashed' = [crashed EXCEPT ![i] = @ \ {c}]
      /\ reloaded' = [reloaded EXCEPT ![i] = (crashed[i] = {c})]
      /\ UNCHANGED <<sem, obj, inst, due, admin, faults, starts, marks>>
  BY <1>1 DEF ReloadMark
<1>3. c.copy \in RowType /\ ValueOk(j, c.copy) BY <1>1 DEF CrashedType, Values, EntryValue
<1>4. /\ r \in RowType /\ r.status = "CRASHED" /\ r.cancelled
      /\ r.prev = c.copy.prev /\ r.expr = c.copy.expr /\ r.plan = c.copy.plan
      /\ r.left = c.copy.left /\ r.started = c.copy.started
  BY <1>3 DEF RowType, Statuses
<1> HIDE DEF r
<1>5. /\ \A k \in Rows \ {j} : row'[k] = row[k]
      /\ row'[j] = IF Exists(j) THEN r ELSE row[j]
  BY <1>2, <1>4, StoreRow
<1>6. /\ crashed'[i] = crashed[i] \ {c}
      /\ \A h \in Instances \ {i} : crashed'[h] = crashed[h] /\ reloaded'[h] = reloaded[h]
  BY <1>t, <1>2
<1>7. \A k \in Rows : KeepsHeirs(k)
  <2>1. \A k \in Rows : Used(k)' <=> Used(k) BY <1>4, <1>5, RowIsNew DEF Used, Exists, NoRow
  <2> QED BY <1>3, <1>4, <1>5, <2>1, KeepHeirs DEF ValueOk
<1>8. \A k \in Rows : SameObjs(k) BY <1>2 DEF SameObjs
<1>9. MarkedCrashed(i, j, c)
  BY <1>1, <1>2, <1>3, <1>4, <1>5, <1>6, <1>7, <1>8 DEF MarkedCrashed, ValueOk
<1>10. ASSUME NEW k \in Rows \ {j} PROVE Untouched(k)
  <2>1. SameEntries(k) BY <1>1, <1>6 DEF SameEntries
  <2>2. SameMarks(k) BY <1>2 DEF SameMarks
  <2>3. \A h \in Instances : Reloads(h)' => Reloads(h) BY <1>2, <1>6 DEF Reloads
  <2> QED BY <1>2, <1>5, <1>7, <1>8, <2>1, <2>2, <2>3 DEF Untouched, Around
<1> QED BY <1>9, <1>10 DEF RowEvent, PollerEvent

LEMMA PurgeEvents ==
  ASSUME IInv, NEW i \in Instances, NEW j \in Rows, PollPurge(i, j)
  PROVE  \A k \in Rows : RowEvent(k)
<1>1. /\ row' = [row EXCEPT ![j].status = "PURGED"] /\ Exists(j)
      /\ UNCHANGED obj /\ UNCHANGED starts /\ UNCHANGED jobVars
      /\ \A h \in Instances : obj[h][j].phase = "none"
  BY DEF PollPurge
<1>2. row[j] \in RowType BY <1>1, ExistsType DEF IInv, TypeInv
<1>3. /\ row'[j] \in RowType /\ row'[j].status = "PURGED"
      /\ row'[j].started = row[j].started /\ row'[j].left = row[j].left
      /\ row'[j].prev = row[j].prev /\ row'[j].expr = row[j].expr /\ row'[j].plan = row[j].plan
  BY <1>1, <1>2 DEF IInv, TypeInv, RowsTyped, RowType, Statuses
<1>4. \A k \in Rows \ {j} : row'[k] = row[k] BY <1>1 DEF IInv, TypeInv, RowsTyped
<1>5. \A k \in Rows : KeepsHeirs(k) /\ SameObjs(k)
  <2>1. \A k \in Rows : Used(k)' <=> Used(k) BY <1>1, <1>3, <1>4, RowIsNew DEF Used, Exists, NoRow
  <2> QED BY <1>1, <1>3, <1>4, <2>1, KeepHeirs DEF SameObjs
<1>6. Purged(j) BY <1>1, <1>3, <1>5 DEF Purged
<1>7. ASSUME NEW k \in Rows \ {j} PROVE Untouched(k)
  <2>1. SameEntries(k) /\ SameMarks(k) BY <1>1 DEF SameEntries, SameMarks, jobVars
  <2>2. \A h \in Instances : Reloads(h)' => Reloads(h) BY <1>1 DEF Reloads, jobVars
  <2> QED BY <1>1, <1>4, <1>5, <2>1, <2>2 DEF Untouched, Around, jobVars
<1> QED BY <1>6, <1>7 DEF RowEvent

LEMMA AdminReadEvents ==
  ASSUME IInv, NEW op \in AdminOps, NEW j \in Rows, AdminRead(op, j)
  PROVE  \A k \in Rows : RowEvent(k)
<1>1. /\ admin' = [op |-> op, job |-> j, copy |-> row[j]] /\ Exists(j)
      /\ UNCHANGED <<sem, row, obj, inst, reloaded, due, crashed, starts, marks>>
  BY DEF AdminRead
<1>2. \A k \in Rows : KeepsHeirs(k) /\ SameObjs(k) /\ SameEntries(k) /\ SameMarks(k)
  BY <1>1, KeepHeirs DEF Used, SameObjs, SameEntries, SameMarks
<1>3. \A h \in Instances : Reloads(h)' => Reloads(h) BY <1>1 DEF Reloads
<1>4. \A k \in Rows : admin'.job = k => Exists(k) /\ admin'.copy = row[k] BY <1>1
<1> QED BY <1>1, <1>2, <1>3, <1>4 DEF RowEvent, Untouched, Around

LEMMA AdminStoreEvents ==
  ASSUME IInv, \A k \in Rows : Values(k), AdminStore
  PROVE  \A k \in Rows : RowEvent(k)
<1>1. PICK j \in Rows : j = admin.job BY DEF AdminStore, IInv, TypeInv, AdminTyped
<1> DEFINE c == admin.copy
           r == AdminValue(admin.op, c)
<1>2. admin.op \in {"cancel", "noRetry", "reset"} /\ admin.op # "none" /\ c \in RowType
  BY DEF AdminStore, IInv, TypeInv, AdminTyped
<1>3. /\ Store(j, r) /\ admin' = [op |-> "none"]
      /\ UNCHANGED <<sem, obj, inst, reloaded, due, crashed, faults, starts>>
      /\ marks' = IF \/ ~Exists(j)
                     \/ admin.op = "cancel" /\ WriteBackPending(j)
                     \/ admin.op = "noRetry" /\ row[j] = c
                  THEN marks
                  ELSE IF admin.op = "cancel" THEN marks \cup {<<"cancelled", j>>}
                  ELSE (marks \ {<<"cancelled", j>>}) \cup {<<"rewritten", j>>}
  BY <1>1 DEF AdminStore
<1>4. ValueOk(j, c) BY <1>1, <1>2 DEF Values
<1>5. /\ r \in RowType /\ r.prev = c.prev /\ r.expr = c.expr /\ r.plan = c.plan
      /\ r.left = c.left /\ (r.started => c.started)
      /\ admin.op = "cancel" => r.status = "CANCELLED" /\ r.cancelled
      /\ admin.op = "noRetry" => /\ r.status = c.status /\ r.started = c.started
                                 /\ r.cancelled = c.cancelled /\ r.runBy = c.runBy
  <2>1. CASE admin.op = "cancel" BY <1>2, <2>1 DEF AdminValue, RowType, Statuses
  <2>2. CASE admin.op = "noRetry" BY <1>2, <2>2 DEF AdminValue, RowType
  <2>3. CASE admin.op = "reset" BY <1>2, <2>3 DEF AdminValue, RowType, Statuses, Live
  <2> QED BY <1>2, <2>1, <2>2, <2>3
<1> HIDE DEF r
<1>6. /\ \A k \in Rows \ {j} : row'[k] = row[k]
      /\ row'[j] = IF Exists(j) THEN r ELSE row[j]
  BY <1>3, <1>5, StoreRow
<1>7. \A k \in Rows : KeepsHeirs(k)
  <2>1. \A k \in Rows : Used(k)' <=> Used(k) BY <1>5, <1>6, RowIsNew DEF Used, Exists, NoRow
  <2> QED BY <1>4, <1>5, <1>6, <2>1, KeepHeirs DEF ValueOk
<1>8. \A k \in Rows : SameObjs(k) /\ SameEntries(k) BY <1>3 DEF SameObjs, SameEntries
<1>9. \A k \in Rows, w \in MarkKinds :
         k # j \/ ~ Exists(j) \/ w \notin {"cancelled", "rewritten"} =>
            (<<w, k>> \in marks' <=> <<w, k>> \in marks)
  BY <1>3
<1>10. ASSUME NEW k \in Rows, row'[k] = row[k], k # j \/ ~ Exists(j) PROVE Untouched(k)
  <2>1. SameMarks(k) BY <1>9, <1>10 DEF SameMarks
  <2>2. \A h \in Instances : Reloads(h)' => Reloads(h) BY <1>3 DEF Reloads
  <2>3. admin'.op = "none" BY <1>3
  <2> QED BY <1>3, <1>7, <1>8, <1>10, <2>1, <2>2, <2>3 DEF Untouched, Around
<1>11. CASE ~ Exists(j)
  BY <1>6, <1>10, <1>11 DEF RowEvent
<1>12. ASSUME Exists(j)
       PROVE  CancelledRow(j) \/ LimitStored(j) \/ Rewritten(j)
  <2>1. AdminWrote(j)
    BY <1>1, <1>2, <1>3, <1>5, <1>6, <1>7, <1>8, <1>12 DEF AdminWrote
  <2>2. row'[j] = r BY <1>6, <1>12
  <2>3. CASE admin.op = "cancel"
    <3>1. /\ marks \subseteq marks'
          /\ \A w \in MarkKinds \ {"cancelled"} : <<w, j>> \in marks' <=> <<w, j>> \in marks
      BY <1>3, <1>12, <2>3
    <3>2. /\ ~ WriteBackPending(j) => <<"cancelled", j>> \in marks'
          /\ WriteBackPending(j) => marks' = marks
      BY <1>3, <1>12, <2>3
    <3> QED BY <1>5, <2>1, <2>2, <2>3, <3>1, <3>2 DEF CancelledRow
  <2>4. CASE admin.op = "noRetry" /\ row[j] = c
    <3>1. SameMarks(j) BY <1>3, <2>4 DEF SameMarks
    <3> QED BY <1>5, <2>1, <2>2, <2>4, <3>1 DEF LimitStored
  <2>5. CASE admin.op # "cancel" /\ ~ (admin.op = "noRetry" /\ row[j] = c)
    <3>1. marks' = (marks \ {<<"cancelled", j>>}) \cup {<<"rewritten", j>>}
      BY <1>3, <1>12, <2>5
    <3>2. <<"cancelled", j>> # <<"rewritten", j>> OBVIOUS
    <3> QED BY <2>1, <3>1, <3>2 DEF Rewritten
  <2> QED BY <2>3, <2>4, <2>5
<1>13. CASE Exists(j)
  BY <1>6, <1>10, <1>12, <1>13 DEF RowEvent
<1> QED BY <1>11, <1>13

LEMMA EndsEvents ==
  ASSUME IInv, NEW i \in Instances, InstanceEnds(i)
  PROVE  \A k \in Rows : RowEvent(k)
<1>t. /\ due \in [Instances -> SUBSET Rows] /\ crashed \in [Instances -> SUBSET CrashedType]
      /\ obj \in [Instances -> [Rows -> ObjType]]
      /\ inst \in [Instances -> {"up", "stopping", "down"}]
  BY DEF IInv, TypeInv, ObjsTyped
<1>1. /\ inst' = [inst EXCEPT ![i] = "down"] /\ due' = [due EXCEPT ![i] = {}]
      /\ obj' = [obj EXCEPT ![i] = [j \in Rows |-> NoObj]]
      /\ crashed' = [crashed EXCEPT ![i] = {}] /\ marks' = marks \cup Windows(i)
      /\ UNCHANGED <<sem, row, reloaded, admin, starts>>
  BY DEF InstanceEnds
<1>2. \A k \in Rows : KeepsHeirs(k) BY <1>1, KeepHeirs DEF Used
<1>3. \A k \in Rows : /\ obj'[i][k].phase = "none"
                      /\ \A h \in Instances \ {i} : obj'[h][k] = obj[h][k]
  BY <1>t, <1>1 DEF NoObj
<1>4. /\ crashed'[i] = {} /\ due'[i] = {} /\ inst'[i] = "down"
      /\ \A h \in Instances \ {i} : /\ crashed'[h] = crashed[h]
                                    /\ due'[h] = due[h] /\ inst'[h] = inst[h]
  BY <1>t, <1>1
<1>5. ASSUME NEW k \in Rows
      PROVE  /\ obj[i][k].phase \in {"claimed", "qread"} => <<"unqueued", k>> \in Windows(i)
             /\ obj[i][k].phase = "started" => <<"unrecurred", k>> \in Windows(i)
             /\ (\E c \in crashed[i] : c.job = k /\ c.made) => <<"unmarked", k>> \in Windows(i)
  BY DEF Windows
<1>6. ASSUME NEW k \in Rows
      PROVE  <<"cancelled", k>> \notin Windows(i) /\ <<"rewritten", k>> \notin Windows(i)
  BY DEF Windows
<1>7. \A k \in Rows : Killed(i, k) BY <1>1, <1>2, <1>3, <1>4, <1>5, <1>6 DEF Killed
<1> QED BY <1>7 DEF RowEvent

(* Every step does one of these things to every row.                       *)
LEMMA StepEvents ==
  ASSUME IInv, Once, Pollers, \A k \in Rows : Values(k), Next
  PROVE  \A k \in Rows : RowEvent(k)
<1>1. ASSUME NEW i \in Instances, PollerStep(i) PROVE \A k \in Rows : RowEvent(k)
  BY <1>1, ReloadReadEvents, ReloadCreateEvents, ReloadMarkEvents, QuietEvents, ClaimEvents,
     PurgeEvents, JobEvents DEF PollerStep
<1>2. ASSUME NEW i \in Instances, NEW j \in Rows, JobStep(i, j)
      PROVE  \A k \in Rows : RowEvent(k)
  BY <1>2, JobEvents
<1>3. ASSUME NEW i \in Instances, StopInstance(i) \/ InstanceEnds(i) \/ Restart(i)
      PROVE  \A k \in Rows : RowEvent(k)
  BY <1>3, QuietEvents, EndsEvents
<1>4. ASSUME (\E op \in AdminOps, j \in Rows : AdminRead(op, j)) \/ AdminStore
      PROVE  \A k \in Rows : RowEvent(k)
  BY <1>4, AdminReadEvents, AdminStoreEvents
<1> QED BY <1>1, <1>2, <1>3, <1>4 DEF Next

(* When nothing changes, nothing happens to any row.                       *)
LEMMA StutterEvents ==
  ASSUME UNCHANGED vars PROVE \A k \in Rows : RowEvent(k)
<1>1. \A k \in Rows : SameObjs(k) /\ SameEntries(k) /\ SameMarks(k)
  BY DEF vars, SameObjs, SameEntries, SameMarks
<1>2. \A k \in Rows : KeepsHeirs(k) BY KeepHeirs DEF vars, Used
<1>3. \A h \in Instances : Reloads(h)' => Reloads(h) BY DEF vars, Reloads
<1>4. \A k \in Rows : Untouched(k)
  BY <1>1, <1>2, <1>3 DEF vars, Untouched, Around
<1> QED BY <1>4 DEF RowEvent

-----------------------------------------------------------------------------
(* An instance works on no row before it has reloaded its crashed jobs     *)

LEMMA InitPollers == Init => Pollers
BY DEF Init, Pollers, Idle, NoObj

(* A step of an instance that is up and has reloaded, or a job step.       *)
LEMMA PollersStep ==
  ASSUME Pollers, NEW i \in Instances, UNCHANGED <<reloaded, inst, crashed>>,
         inst[i] # "down",
         \A h \in Instances \ {i} : obj'[h] = obj[h] /\ due'[h] = due[h],
         reloaded[i] \/ (/\ due'[i] \subseteq due[i]
                         /\ \A j \in Rows : obj[i][j].phase = "none" => obj'[i][j].phase = "none")
  PROVE  Pollers'
<1>1. \A h \in Instances \ {i} : Idle(h)' <=> Idle(h) BY DEF Idle
<1>2. Idle(i)' BY DEF Pollers, Idle
<1> QED BY <1>1, <1>2 DEF Pollers

(* init() moves one object only.                                           *)
LEMMA InitMoves ==
  ASSUME obj \in [Instances -> [Rows -> ObjType]], NEW i \in Instances, NEW j \in Rows,
         InitStore(i, j) \/ InitRecur(i, j)
  PROVE  /\ \A h \in Instances \ {i} : obj'[h] = obj[h]
         /\ \A k \in Rows \ {j} : obj'[i][k] = obj[i][k]
<1>1. \E o : obj' = [obj EXCEPT ![i][j] = o]
  <2>1. CASE InitStore(i, j)
    <3>1. PICK p, r : obj' = [obj EXCEPT ![i][j].phase = p, ![i][j].copy = r]
      BY <2>1, Zenon DEF InitStore
    <3>2. obj' = [obj EXCEPT ![i][j] = [@ EXCEPT !.phase = p, !.copy = r]] BY <3>1
    <3> QED BY <3>2
  <2>2. CASE InitRecur(i, j)
    <3>1. PICK r : obj' = [obj EXCEPT ![i][j].phase = "ready", ![i][j].recurred = TRUE,
                                      ![i][j].copy = r]
      BY <2>2, Zenon DEF InitRecur
    <3>2. obj' = [obj EXCEPT ![i][j] = [@ EXCEPT !.phase = "ready", !.recurred = TRUE,
                                                 !.copy = r]]
      BY <3>1
    <3> QED BY <3>2
  <2> QED BY <2>1, <2>2
<1> QED BY <1>1

LEMMA StepPollers == IInv /\ Pollers /\ [Next]_vars => Pollers'
<1> SUFFICES ASSUME IInv, Pollers, [Next]_vars PROVE Pollers'
  OBVIOUS
<1>t. /\ due \in [Instances -> SUBSET Rows] /\ crashed \in [Instances -> SUBSET CrashedType]
      /\ obj \in [Instances -> [Rows -> ObjType]]
      /\ inst \in [Instances -> {"up", "stopping", "down"}]
      /\ reloaded \in [Instances -> BOOLEAN]
  BY DEF IInv, TypeInv, ObjsTyped, Pollers
<1>1. ASSUME NEW i \in Instances, ReloadRead(i) PROVE Pollers'
  <2>1. PICK S : /\ crashed' = [crashed EXCEPT ![i] = S]
                 /\ reloaded' = [reloaded EXCEPT ![i] = (S = {})]
    <3> DEFINE left == {j \in Rows : Exists(j) /\ row[j].runBy = i /\ row[j].status \in Live}
               S == {[job |-> j, copy |-> row[j], made |-> FALSE] : j \in left}
    <3>1. (S = {}) = (left = {}) OBVIOUS
    <3> QED BY <1>1, <3>1 DEF ReloadRead
  <2>2. UNCHANGED <<inst, due, obj>> /\ inst[i] = "up" /\ ~ reloaded[i]
    BY <1>1 DEF ReloadRead, PollerIdle
  <2>3. /\ reloaded' \in [Instances -> BOOLEAN] /\ crashed'[i] = S /\ reloaded'[i] = (S = {})
        /\ \A h \in Instances \ {i} : reloaded'[h] = reloaded[h] /\ crashed'[h] = crashed[h]
    BY <1>t, <2>1
  <2>4. \A h \in Instances : Idle(h)' BY <2>2, <2>3 DEF Pollers, Idle
  <2> QED BY <2>3, <2>4 DEF Pollers
<1>2. ASSUME NEW i \in Instances, NEW c \in crashed[i], ReloadCreate(i, c) PROVE Pollers'
  <2>1. UNCHANGED <<inst, due, obj, reloaded>> /\ crashed[i] # {}
    BY <1>2 DEF ReloadCreate
  <2>2. \A h \in Instances \ {i} : crashed'[h] = crashed[h]
    BY <1>t, <1>2 DEF ReloadCreate
  <2>3. \A h \in Instances : Idle(h)' BY <2>1, <2>2 DEF Pollers, Idle
  <2> QED BY <2>1, <2>3 DEF Pollers
<1>3. ASSUME NEW i \in Instances, NEW c \in crashed[i], ReloadMark(i, c) PROVE Pollers'
  <2>1. UNCHANGED <<inst, due, obj>> /\ crashed[i] # {}
    BY <1>3 DEF ReloadMark
  <2>2. /\ reloaded' \in [Instances -> BOOLEAN] /\ crashed'[i] = crashed[i] \ {c}
        /\ reloaded'[i] = (crashed[i] = {c})
        /\ \A h \in Instances \ {i} : reloaded'[h] = reloaded[h] /\ crashed'[h] = crashed[h]
    BY <1>t, <1>3 DEF ReloadMark
  <2>3. \A h \in Instances : Idle(h)' BY <2>1, <2>2 DEF Pollers, Idle
  <2> QED BY <2>2, <2>3 DEF Pollers
<1>4. ASSUME NEW i \in Instances, PollRead(i) PROVE Pollers'
  BY <1>t, <1>4, PollersStep DEF PollRead, PollerIdle
<1>5. ASSUME NEW i \in Instances, PollClaim(i) PROVE Pollers'
  <2>1. due[i] # {} /\ inst[i] # "down" /\ UNCHANGED <<inst, reloaded, crashed>>
    BY <1>5 DEF PollClaim
  <2>2. \A h \in Instances \ {i} : obj'[h] = obj[h] /\ due'[h] = due[h]
    BY <1>t, <1>5 DEF PollClaim
  <2>3. reloaded[i] BY <1>t, <2>1 DEF Pollers, Idle
  <2> QED BY <2>1, <2>2, <2>3, PollersStep
<1>6. ASSUME NEW i \in Instances, NEW j \in Rows, PollPurge(i, j) PROVE Pollers'
  BY <1>6 DEF PollPurge, jobVars, Pollers, Idle
<1>7. ASSUME NEW i \in Instances, NEW j \in Rows,
             QueueCheck(i, j) \/ QueueStore(i, j) \/ JobStep(i, j)
      PROVE  Pollers'
  <2>1. /\ \A h \in Instances \ {i} : obj'[h] = obj[h]
        /\ \A k \in Rows \ {j} : obj'[i][k] = obj[i][k]
    <3>1. CASE InitStore(i, j) BY <1>t, <3>1, InitMoves
    <3>2. CASE InitRecur(i, j) BY <1>t, <3>2, InitMoves
    <3>3. ASSUME (\E p \in Phases : Move(i, j, p) \/ Reread(i, j, p)) \/ Drop(i, j)
          PROVE  /\ \A h \in Instances \ {i} : obj'[h] = obj[h]
                 /\ \A k \in Rows \ {j} : obj'[i][k] = obj[i][k]
      <4>1. ASSUME NEW p, Move(i, j, p)
            PROVE  /\ \A h \in Instances \ {i} : obj'[h] = obj[h]
                   /\ \A k \in Rows \ {j} : obj'[i][k] = obj[i][k]
        BY <1>t, <4>1 DEF Move
      <4>2. ASSUME NEW p, Reread(i, j, p)
            PROVE  /\ \A h \in Instances \ {i} : obj'[h] = obj[h]
                   /\ \A k \in Rows \ {j} : obj'[i][k] = obj[i][k]
        BY <1>t, <4>2 DEF Reread
      <4>3. CASE Drop(i, j) BY <1>t, <4>3 DEF Drop
      <4> QED BY <3>3, <4>1, <4>2, <4>3
    <3>4. CASE ~ InitStore(i, j) /\ ~ InitRecur(i, j)
      <4>1. (\E p \in Phases : Move(i, j, p) \/ Reread(i, j, p)) \/ Drop(i, j)
        <5>1. CASE QueueCheck(i, j) \/ QueueStore(i, j) \/ DeQueueRead(i, j) \/ DeQueueStore(i, j)
          BY <5>1 DEF Phases, QueueCheck, QueueStore, DeQueueRead, DeQueueStore
        <5>2. CASE InitCheck(i, j) \/ AcquireAndRun(i, j) \/ AcquireGivesUp(i, j)
          BY <5>2 DEF Phases, InitCheck, AcquireAndRun, AcquireGivesUp
        <5>3. CASE Finish(i, j) \/ FailRetry(i, j) \/ FailStore(i, j) \/ BodyEnds(i, j)
          BY <5>3 DEF Phases, Finish, FailRetry, FailStore, BodyEnds
        <5> QED BY <1>7, <3>4, <5>1, <5>2, <5>3 DEF JobStep
      <4> QED BY <3>3, <4>1
    <3> QED BY <3>1, <3>2, <3>4
  <2>2. /\ obj[i][j].phase # "none" /\ UNCHANGED <<inst, reloaded, due, crashed>>
    BY <1>7 DEF jobVars, QueueCheck, QueueStore, JobStep, DeQueueRead, DeQueueStore, InitCheck,
       InitStore, InitRecur, AcquireAndRun, AcquireGivesUp, BodyEnds, Finish, FailRetry, FailStore
  <2>3. /\ \A h \in Instances \ {i} : obj'[h] = obj[h] /\ due'[h] = due[h]
        /\ \A k \in Rows : obj[i][k].phase = "none" => obj'[i][k].phase = "none"
    BY <2>1, <2>2
  <2>4. inst[i] # "down" BY <2>2 DEF IInv, DownIsIdle
  <2> QED BY <2>2, <2>3, <2>4, PollersStep
<1>8. ASSUME NEW i \in Instances, StopInstance(i) PROVE Pollers'
  BY <1>t, <1>8 DEF StopInstance, Pollers, Idle
<1>9. ASSUME NEW i \in Instances, InstanceEnds(i) PROVE Pollers'
  <2>1. /\ crashed'[i] = {} /\ due'[i] = {} /\ UNCHANGED reloaded
        /\ \A j \in Rows : obj'[i][j] = NoObj
        /\ \A h \in Instances \ {i} : /\ crashed'[h] = crashed[h] /\ due'[h] = due[h]
                                      /\ inst'[h] = inst[h] /\ obj'[h] = obj[h]
    BY <1>t, <1>9 DEF InstanceEnds
  <2>2. \A h \in Instances : Idle(h)' BY <2>1 DEF Pollers, Idle, NoObj
  <2> QED BY <2>1, <2>2 DEF Pollers
<1>10. ASSUME NEW i \in Instances, Restart(i) PROVE Pollers'
  <2>1. /\ UNCHANGED <<obj, due, crashed>> /\ inst[i] = "down"
        /\ reloaded' \in [Instances -> BOOLEAN]
        /\ \A h \in Instances \ {i} : inst'[h] = inst[h] /\ reloaded'[h] = reloaded[h]
    BY <1>t, <1>10 DEF Restart
  <2>2. \A h \in Instances : Idle(h)' BY <2>1 DEF Pollers, Idle
  <2> QED BY <2>1, <2>2 DEF Pollers
<1>11. CASE (\E op \in AdminOps, j \in Rows : AdminRead(op, j)) \/ AdminStore \/ UNCHANGED vars
  BY <1>11 DEF AdminRead, AdminStore, vars, Pollers, Idle
<1>12. ASSUME NEW i \in Instances, PollerStep(i) PROVE Pollers'
  BY <1>12, <1>1, <1>2, <1>3, <1>4, <1>5, <1>6, <1>7 DEF PollerStep
<1> QED BY <1>7, <1>8, <1>9, <1>10, <1>11, <1>12 DEF Next

-----------------------------------------------------------------------------
(* What all events have in common                                          *)

(* The origin and the plan of a row never change, a row that was rewritten *)
(* stays so, and starts are only counted.                                  *)
Lasting(j) ==
    /\ Clean(j)' => Clean(j)
    /\ Used(j) => /\ Used(j)' /\ row'[j].prev = row[j].prev
                  /\ row'[j].expr = row[j].expr /\ row'[j].plan = row[j].plan
    /\ starts'[j] = starts[j] \/ starts'[j] = starts[j] + 1

LEMMA JobLasting ==
  ASSUME NEW i \in Instances, NEW j \in Rows, Values(j), JobEvent(i, j)
  PROVE  Lasting(j)
<1>1. CASE Dropped(i, j) \/ Refreshed(i, j) \/ Went(i, j) \/ \E b \in Rows : Recurred(i, j, b) \/ Retried(i, j, b)
  BY <1>1 DEF Dropped, Refreshed, Went, Recurred, Retried, JobFrame, jobVars, Lasting, Clean, Used
<1>2. ASSUME NEW r \in RowType,
             QueuedBack(i, j, r) \/ Dequeued(i, j, r) \/ Started(i, j, r) \/ Ended(i, j, r)
      PROVE  Lasting(j)
  <2>1. /\ Written(i, j, r) /\ obj[i][j].phase \in Reading
        /\ starts'[j] = starts[j] \/ starts'[j] = starts[j] + 1
    BY <1>2 DEF QueuedBack, Dequeued, Started, Ended, Reading, Phases
  <2>2. ValueOk(j, obj[i][j].copy) BY <2>1 DEF Values, ObjValue
  <2> QED BY <2>1, <2>2, RowIsNew DEF Written, JobFrame, jobVars, ValueOk, Lasting, Clean, Used, Exists
<1> QED BY <1>1, <1>2 DEF JobEvent

LEMMA RowLasting ==
  ASSUME NEW j \in Rows, Values(j), RowEvent(j)
  PROVE  Lasting(j)
<1>1. CASE Untouched(j)
  BY <1>1 DEF Untouched, Around, SameMarks, MarkKinds, Lasting, Clean, Used
<1>2. CASE Newborn(j)
  BY <1>2 DEF Newborn, Around, SameMarks, MarkKinds, Lasting, Clean, Used
<1>3. ASSUME NEW i \in Instances, PollerEvent(i, j) PROVE Lasting(j)
  <2>1. CASE Claimed(i, j)
    BY <2>1, RowIsNew DEF Claimed, Lasting, Clean, Used
  <2>2. CASE Listed(i, j) \/ \E c \in crashed[i], b \in Rows : Replaced(i, j, c, b)
    BY <2>2 DEF Listed, Replaced, Lasting, Clean, Used
  <2>3. CASE \E c \in crashed[i] : MarkedCrashed(i, j, c)
    BY <2>3, RowIsNew DEF MarkedCrashed, Lasting, Clean, Used
  <2> QED BY <1>3, <2>1, <2>2, <2>3 DEF PollerEvent
<1>4. ASSUME NEW i \in Instances, Killed(i, j) PROVE Lasting(j)
  BY <1>4 DEF Killed, Lasting, Clean, Used
<1>5. CASE Purged(j)
  BY <1>5, RowIsNew DEF Purged, jobVars, Lasting, Clean, Used
<1>6. ASSUME AdminWrote(j), Clean(j)' => Clean(j) PROVE Lasting(j)
  BY <1>6, RowIsNew DEF AdminWrote, Values, ValueOk, Lasting, Used
<1>7. CASE CancelledRow(j) \/ LimitStored(j) \/ Rewritten(j)
  BY <1>6, <1>7 DEF CancelledRow, LimitStored, Rewritten, SameMarks, MarkKinds, Clean
<1> QED BY <1>1, <1>2, <1>3, <1>4, <1>5, <1>7, JobLasting DEF RowEvent

-----------------------------------------------------------------------------
(* Every value read from a row and still to be written back has the origin *)
(* and the plan of the row                                                 *)

LEMMA RowValueStep ==
  ASSUME Once, \A k \in Rows : Values(k), \A k \in Rows : Lasting(k), IInv',
         NEW j \in Rows, RowEvent(j)
  PROVE  RowValue(j)'
<1>1. starts[j] \in Nat /\ Lasting(j) /\ Values(j) BY DEF Once
<1>2. ASSUME Used(j) PROVE ValueOk(j, row[j])'
  <2>1. ValueOk(j, row[j]) BY <1>1, <1>2 DEF Values, RowValue
  <2>2. ASSUME row'[j] = row[j] PROVE ValueOk(j, row[j])'
    BY <1>1, <1>2, <2>1, <2>2 DEF ValueOk, Lasting
  <2>3. ASSUME NEW i \in Instances, NEW r \in RowType,
               QueuedBack(i, j, r) \/ Dequeued(i, j, r) \/ Started(i, j, r) \/ Ended(i, j, r)
        PROVE  ValueOk(j, row[j])'
    <3>1. obj[i][j].phase \in Reading /\ Written(i, j, r)
      BY <2>3 DEF QueuedBack, Dequeued, Started, Ended, Reading, Phases
    <3>2. ObjValue(i, j) BY <1>1 DEF Values
    <3>3. r.started => starts'[j] # 0
      <4>1. CASE QueuedBack(i, j, r) \/ Dequeued(i, j, r)
        BY <3>2, <4>1 DEF QueuedBack, Dequeued, ObjValue, RowType
      <4>2. CASE Started(i, j, r) BY <1>1, <4>2 DEF Started
      <4>3. CASE Ended(i, j, r) BY <3>2, <4>3 DEF Ended, ObjValue, Begun
      <4> QED BY <2>3, <4>1, <4>2, <4>3
    <3>4. ValueOk(j, obj[i][j].copy) BY <3>1, <3>2 DEF ObjValue
    <3>5. CASE row'[j] = r
      <4>1. r.prev = row'[j].prev /\ r.expr = row'[j].expr /\ r.plan = row'[j].plan BY <3>5
      <4>2. starts'[j] = 0 => starts[j] = 0 BY <1>1 DEF Lasting
      <4>3. starts'[j] = 0 => r.left = r.plan /\ ~ r.started
        BY <3>1, <3>3, <3>4, <4>2 DEF Written, ValueOk
      <4>4. Clean(j)' => r.left + 1 >= r.plan
        BY <1>1, <1>2, <3>1, <3>4 DEF Written, ValueOk, Lasting
      <4> QED BY <3>5, <4>3, <4>4 DEF ValueOk
    <3> QED BY <2>2, <3>1, <3>5 DEF Written
  <2>4. ASSUME NEW i \in Instances, JobEvent(i, j) PROVE ValueOk(j, row[j])'
    BY <2>2, <2>3, <2>4 DEF JobEvent, Dropped, Refreshed, Went, Recurred, Retried
  <2>5. ASSUME NEW i \in Instances, PollerEvent(i, j) PROVE ValueOk(j, row[j])'
    <3>1. CASE Claimed(i, j) BY <1>1, <1>2, <2>1, <3>1 DEF Claimed, ValueOk, Lasting
    <3>2. ASSUME NEW c \in crashed[i], MarkedCrashed(i, j, c) PROVE ValueOk(j, row[j])'
      <4>1. ValueOk(j, c.copy) BY <1>1, <3>2 DEF MarkedCrashed, Values, EntryValue
      <4> QED BY <1>1, <1>2, <2>2, <3>2, <4>1 DEF MarkedCrashed, ValueOk, Lasting
    <3> QED BY <2>2, <2>5, <3>1, <3>2 DEF PollerEvent, Listed, Replaced
  <2>6. ASSUME AdminWrote(j) PROVE ValueOk(j, row[j])'
    <3>1. ValueOk(j, admin.copy) BY <1>1, <2>6 DEF AdminWrote, Values
    <3> QED BY <1>1, <1>2, <2>6, <3>1 DEF AdminWrote, ValueOk, Lasting
  <2>7. CASE Purged(j) BY <1>1, <1>2, <2>1, <2>7 DEF Purged, ValueOk, Lasting
  <2>8. ~ Newborn(j) BY <1>2 DEF Newborn, Used
  <2> QED BY <2>2, <2>4, <2>5, <2>6, <2>7, <2>8
      DEF RowEvent, Untouched, Killed, CancelledRow, LimitStored, Rewritten
<1>3. ASSUME Used(j) PROVE RowValue(j)'
  <2>1. row'[j].prev = 0 \/ Used(row[j].prev)
    BY <1>1, <1>3 DEF Lasting, Values, RowValue
  <2>2. row'[j] \in RowType BY <1>1, <1>3 DEF IInv, TypeInv, RowsTyped, Lasting, Used
  <2>3. PICK q \in Rows \cup {0} : q = row'[j].prev BY <2>2 DEF RowType
  <2>4. q = 0 \/ Used(q) BY <1>1, <1>3, <2>1, <2>3 DEF Lasting
  <2>5. q = 0 \/ Used(q)' BY <2>3, <2>4 DEF Lasting
  <2>6. ValueOk(j, row[j])' BY <1>2, <1>3
  <2>7. row'[j].prev = 0 \/ row'[row'[j].prev] # NoRow BY <2>3, <2>5 DEF Used
  <2> QED BY <2>6, <2>7 DEF RowValue, Used
<1>4. CASE Newborn(j)
  <2>1. PICK q \in Rows : row'[j].prev = q /\ Used(q)' BY <1>4 DEF Newborn
  <2>2. row'[row'[j].prev] # NoRow BY <2>1 DEF Used
  <2>3. ValueOk(j, row[j])' BY <1>4 DEF Newborn, ValueOk, RowType
  <2> QED BY <2>2, <2>3 DEF RowValue, Used
<1>5. ASSUME ~ Used(j) PROVE Newborn(j) \/ row'[j] = row[j]
  <2>1. ~ Exists(j) BY <1>5 DEF Used, Exists, NoRow
  <2>2. ASSUME NEW i \in Instances, JobEvent(i, j) PROVE row'[j] = row[j]
    BY <2>1, <2>2 DEF JobEvent, Dropped, Refreshed, Went, QueuedBack, Dequeued, Started, Ended,
       Written, Recurred, Retried
  <2>3. ASSUME NEW i \in Instances, PollerEvent(i, j) PROVE row'[j] = row[j]
    BY <2>1, <2>3 DEF PollerEvent, Claimed, Listed, MarkedCrashed, Replaced
  <2> QED BY <2>1, <2>2, <2>3
      DEF RowEvent, Untouched, Killed, Purged, CancelledRow, LimitStored, Rewritten, AdminWrote
<1>6. CASE row'[j] = row[j] /\ ~ Used(j)
  BY <1>6 DEF RowValue, Used
<1> QED BY <1>3, <1>4, <1>5, <1>6

LEMMA ObjValueStep ==
  ASSUME Once, \A k \in Rows : Values(k), NEW j \in Rows, Lasting(j), RowEvent(j),
         NEW h \in Instances
  PROVE  ObjValue(h, j)'
<1>1. starts[j] \in Nat /\ Values(j) BY DEF Once
<1>2. ObjValue(h, j) BY <1>1 DEF Values
<1>3. ASSUME obj'[h][j] = obj[h][j] PROVE ObjValue(h, j)'
  <2>1. obj[h][j].phase \in Reading => Used(j) BY ObjUsed DEF Reading
  <2>2. starts[j] # 0 => starts'[j] # 0 BY <1>1 DEF Lasting
  <2>3. Clean(j)' => Clean(j) BY DEF Lasting
  <2>4. obj[h][j].phase \in Reading => ValueOk(j, obj[h][j].copy)'
    BY <1>1, <1>2, <1>3, <2>1 DEF ObjValue, ValueOk, Lasting
  <2>5. obj'[h][j].phase \in Reading => ValueOk(j, obj[h][j].copy)' BY <1>3, <2>4
  <2> QED BY <1>2, <1>3, <2>2, <2>3, <2>5 DEF ObjValue
<1>4. ASSUME obj'[h][j].phase \in {"none", "claimed", "queued", "rejected"} PROVE ObjValue(h, j)'
  BY <1>4 DEF ObjValue, Reading, Begun
<1>5. ASSUME NEW i \in Instances, JobEvent(i, j) PROVE ObjValue(h, j)'
  <2>1. CASE h # i
    <3>1. obj'[h][j] = obj[h][j]
      BY <1>5, <2>1 DEF JobEvent, Dropped, Refreshed, Went, QueuedBack, Dequeued, Started, Ended,
         Written, Recurred, Retried, JobFrame
    <3> QED BY <1>3, <3>1
  <2>2. CASE h = i /\ Refreshed(i, j)
    <3>1. Used(j) BY <2>2, ObjUsed DEF Refreshed
    <3>2. ValueOk(j, row[j]) BY <1>1, <3>1 DEF Values, RowValue
    <3>3. ValueOk(j, obj[h][j].copy)'
      BY <1>1, <2>2, <3>1, <3>2 DEF Refreshed, ValueOk, Lasting
    <3> QED BY <2>2, <3>3 DEF Refreshed, ObjValue, Begun
  <2>3. ASSUME NEW r \in RowType, h = i, Started(i, j, r) PROVE ObjValue(h, j)'
    <3>1. obj[i][j].phase \in Reading /\ Written(i, j, r)
      BY <2>3 DEF Started, Reading, Phases
    <3>2. Used(j) BY <3>1, ObjUsed DEF Reading
    <3>3. ValueOk(j, obj[i][j].copy) BY <1>2, <2>3, <3>1 DEF ObjValue
    <3>4. starts'[j] # 0 BY <1>1, <2>3 DEF Started
    <3>5. Clean(j)' => starts[j] = 0
      <4>1. Has(i, j) BY <2>3, <3>1 DEF Has, Started, Once, OwnCopy
      <4>2. Clean(j)' => StartedIsClosed(j) BY DEF Once, RowOnce, Lasting
      <4>3. obj[i][j].phase \notin Begun BY <2>3 DEF Started, Begun
      <4> QED BY <4>1, <4>2, <4>3 DEF StartedIsClosed
    <3>6. Clean(j)' => r.left = r.plan BY <3>1, <3>3, <3>5 DEF Written, ValueOk
    <3>7. ValueOk(j, obj[h][j].copy)'
      BY <1>1, <2>3, <3>1, <3>2, <3>3, <3>4 DEF Started, Written, ValueOk, Lasting
    <3>8. obj'[h][j].phase \in {"started", "ready"} /\ obj'[h][j].copy = r
      BY <2>3 DEF Started
    <3> QED BY <3>4, <3>6, <3>7, <3>8 DEF ObjValue
  <2>4. ASSUME NEW b \in Rows, h = i, Recurred(i, j, b) PROVE ObjValue(h, j)'
    <3>1. obj[i][j].phase \in Reading \cap Begun /\ obj'[i][j].phase = "ready"
      BY <2>4 DEF Recurred, Reading, Phases, Begun
    <3>2. Used(j) BY <3>1, ObjUsed DEF Reading
    <3>3. ValueOk(j, obj[i][j].copy) /\ starts[j] # 0
      BY <1>2, <2>4, <3>1 DEF ObjValue
    <3>4. PICK c \in RowType : c = obj[i][j].copy BY <2>4 DEF Recurred
    <3>5. PICK r : r = obj'[i][j].copy OBVIOUS
    <3>6. /\ r.prev = c.prev /\ r.expr = c.expr /\ r.plan = c.plan /\ r.left = c.left - 1
          /\ c.left \in Nat /\ c.plan \in Nat
      BY <2>4, <3>4, <3>5 DEF Recurred, RowType
    <3>7. Clean(j) => c.left = c.plan
      BY <1>2, <2>4, <3>4 DEF ObjValue, Recurred
    <3>8. ValueOk(j, r)'
      BY <1>1, <3>2, <3>3, <3>4, <3>6, <3>7 DEF ValueOk, Lasting
    <3>9. obj'[i][j].copy.prev = r.prev BY <3>5
    <3>10. ValueOk(j, obj[i][j].copy)'
      BY <3>5, <3>8 DEF ValueOk
    <3>11. starts'[j] # 0 BY <1>1, <3>3 DEF Lasting
    <3> QED BY <2>4, <3>1, <3>10, <3>11 DEF ObjValue
  <2>5. ASSUME h = i, Went(i, j) \/ \E b \in Rows : Retried(i, j, b) PROVE ObjValue(h, j)'
    <3>1. /\ obj[i][j].phase \in Reading \cap Begun /\ obj'[i][j].copy = obj[i][j].copy
          /\ obj'[i][j].phase \in Begun \ {"started", "qread"}
      BY <2>5 DEF Went, Retried, Reading, Phases, Begun
    <3>2. Used(j) BY <3>1, ObjUsed DEF Reading
    <3>3. ValueOk(j, obj[i][j].copy) /\ starts[j] # 0
      BY <1>2, <2>5, <3>1 DEF ObjValue
    <3>4. starts'[j] # 0 BY <1>1, <3>3 DEF Lasting
    <3>5. ValueOk(j, obj[i][j].copy)'
      BY <1>1, <3>1, <3>2, <3>3 DEF ValueOk, Lasting
    <3>6. obj'[i][j].phase # "started" /\ obj'[i][j].phase # "qread" BY <3>1 DEF Begun
    <3> QED BY <2>5, <3>4, <3>5, <3>6 DEF ObjValue
  <2>6. CASE h = i /\ (\/ Dropped(i, j)
                       \/ \E r \in RowType : QueuedBack(i, j, r) \/ Dequeued(i, j, r) \/ Ended(i, j, r))
    BY <1>4, <2>6 DEF Dropped, QueuedBack, Dequeued, Ended
  <2> QED BY <1>5, <2>1, <2>2, <2>3, <2>4, <2>5, <2>6 DEF JobEvent
<1>6. ASSUME NEW i \in Instances, PollerEvent(i, j) \/ Killed(i, j) PROVE ObjValue(h, j)'
  <2>1. obj'[h][j] = obj[h][j] \/ obj'[h][j].phase \in {"none", "claimed"}
    BY <1>6 DEF PollerEvent, Claimed, Listed, Replaced, MarkedCrashed, Killed, SameObjs
  <2> QED BY <1>3, <1>4, <2>1
<1>7. CASE \/ Untouched(j) \/ Newborn(j) \/ Purged(j)
           \/ CancelledRow(j) \/ LimitStored(j) \/ Rewritten(j)
  BY <1>3, <1>7 DEF Untouched, Newborn, Around, Purged, CancelledRow, LimitStored, Rewritten,
     AdminWrote, SameObjs
<1> QED BY <1>5, <1>6, <1>7 DEF RowEvent

LEMMA ReadRowsStep ==
  ASSUME IInv, \A k \in Rows : Values(k), NEW j \in Rows, Lasting(j), RowEvent(j),
         NEW h \in Instances
  PROVE  j \in due'[h] => Used(j)'
<1>1. Values(j) /\ (Used(j) => Used(j)') BY DEF Lasting
<1>2. Exists(j) => Used(j) BY DEF Exists, Used, NoRow
<1>3. ASSUME j \in due'[h] => j \in due[h] \/ Due(j) PROVE j \in due'[h] => Used(j)'
  BY <1>1, <1>2, <1>3 DEF Values, Due
<1>4. ASSUME NEW i \in Instances, JobEvent(i, j) PROVE j \in due'[h] => j \in due[h]
  BY <1>4 DEF JobEvent, Dropped, Refreshed, Went, QueuedBack, Dequeued, Started, Ended,
     Written, Recurred, Retried, JobFrame, jobVars
<1>5. ASSUME NEW i \in Instances, PollerEvent(i, j) PROVE j \in due'[h] => j \in due[h]
  BY <1>5 DEF PollerEvent, Claimed, Listed, MarkedCrashed, Replaced
<1>6. ASSUME NEW i \in Instances, Killed(i, j) PROVE j \in due'[h] => j \in due[h]
  BY <1>6 DEF Killed
<1> QED BY <1>3, <1>4, <1>5, <1>6
    DEF RowEvent, Untouched, Newborn, Around, Purged, CancelledRow, LimitStored, Rewritten,
        AdminWrote, jobVars

LEMMA EntryValueStep ==
  ASSUME IInv, IInv', Once, \A k \in Rows : Values(k), NEW j \in Rows, Lasting(j), RowEvent(j),
         NEW h \in Instances, NEW c \in crashed'[h]
  PROVE  EntryValue(j, c)'
<1> SUFFICES ASSUME c.job = j PROVE Used(j)' /\ ValueOk(j, c.copy)' /\ c.copy.status \in Live
  BY DEF EntryValue
<1>1. starts[j] \in Nat /\ Values(j) BY DEF Once
<1>2. c \in CrashedType BY DEF IInv, TypeInv
<1>3. ASSUME Used(j), ValueOk(j, c.copy) PROVE Used(j)' /\ ValueOk(j, c.copy)'
  BY <1>1, <1>3 DEF ValueOk, Lasting
<1>4. ASSUME c \in crashed[h] PROVE Used(j)' /\ ValueOk(j, c.copy)' /\ c.copy.status \in Live
  BY <1>1, <1>3, <1>4 DEF Values, EntryValue
<1>5. ASSUME NEW i \in Instances, JobEvent(i, j) PROVE c \in crashed[h]
  BY <1>5 DEF JobEvent, Dropped, Refreshed, Went, QueuedBack, Dequeued, Started, Ended,
     Written, Recurred, Retried, JobFrame, jobVars
<1>6. ASSUME NEW i \in Instances, Listed(i, j), c \notin crashed[h]
      PROVE  Used(j)' /\ ValueOk(j, c.copy)' /\ c.copy.status \in Live
  <2>1. h = i BY <1>6 DEF Listed
  <2>2. c.copy = row[j] /\ Exists(j) /\ row[j].status \in Live
    BY <1>6, <2>1 DEF Listed, LeftBehind
  <2>3. Used(j) BY <2>2 DEF Exists, Used, NoRow
  <2>4. ValueOk(j, row[j]) BY <1>1, <2>3 DEF Values, RowValue
  <2>5. PICK r : r = c.copy OBVIOUS
  <2>6. ValueOk(j, r) BY <2>2, <2>4, <2>5 DEF ValueOk
  <2>7. ValueOk(j, c.copy) BY <2>5, <2>6
  <2> QED BY <1>3, <2>2, <2>3, <2>7
<1>7. ASSUME NEW i \in Instances, NEW d \in crashed[i], NEW b \in Rows, Replaced(i, j, d, b),
             c \notin crashed[h]
      PROVE  Used(j)' /\ ValueOk(j, c.copy)' /\ c.copy.status \in Live
  <2>1. h = i BY <1>7 DEF Replaced
  <2>2. c.copy = d.copy /\ d.job = j BY <1>2, <1>7, <2>1 DEF Replaced
  <2>3. Used(j) /\ ValueOk(j, d.copy) /\ d.copy.status \in Live
    BY <1>1, <2>2 DEF Values, EntryValue
  <2> QED BY <1>3, <2>2, <2>3
<1>8. ASSUME NEW i \in Instances, NEW d \in crashed[i], MarkedCrashed(i, j, d)
      PROVE  c \in crashed[h]
  BY <1>2, <1>8 DEF MarkedCrashed
<1>9. ASSUME NEW i \in Instances, Killed(i, j) \/ Claimed(i, j) PROVE c \in crashed[h]
  BY <1>9 DEF Killed, Claimed
<1>10. CASE Untouched(j) \/ Newborn(j)
  BY <1>2, <1>4, <1>10 DEF Untouched, Newborn, Around, SameEntries
<1>11. CASE Purged(j) \/ CancelledRow(j) \/ LimitStored(j) \/ Rewritten(j)
  BY <1>4, <1>11 DEF Purged, CancelledRow, LimitStored, Rewritten, AdminWrote, jobVars
<1> QED BY <1>4, <1>5, <1>6, <1>7, <1>8, <1>9, <1>10, <1>11 DEF RowEvent, PollerEvent

LEMMA AdminValueStep ==
  ASSUME Once, \A k \in Rows : Values(k), NEW j \in Rows, Lasting(j), RowEvent(j)
  PROVE  admin'.op # "none" /\ admin'.job = j => Used(j)' /\ ValueOk(j, admin.copy)'
<1> SUFFICES ASSUME admin'.op # "none", admin'.job = j
             PROVE  Used(j)' /\ ValueOk(j, admin.copy)'
  OBVIOUS
<1>1. starts[j] \in Nat /\ Values(j) BY DEF Once
<1>2. ASSUME admin.op # "none", admin.job = j, admin'.copy = admin.copy
      PROVE  Used(j)' /\ ValueOk(j, admin.copy)'
  BY <1>1, <1>2 DEF Values, ValueOk, Lasting
<1>3. ASSUME Exists(j), admin'.copy = row[j] PROVE Used(j)' /\ ValueOk(j, admin.copy)'
  <2>1. Used(j) BY <1>3 DEF Exists, Used, NoRow
  <2>2. ValueOk(j, row[j]) BY <1>1, <2>1 DEF Values, RowValue
  <2> QED BY <1>1, <1>3, <2>1, <2>2 DEF ValueOk, Lasting
<1>4. CASE Untouched(j) \/ Newborn(j)
  BY <1>2, <1>3, <1>4 DEF Untouched, Newborn, Around
<1>5. ASSUME NEW i \in Instances, JobEvent(i, j) PROVE admin' = admin
  BY <1>5 DEF JobEvent, Dropped, Refreshed, Went, QueuedBack, Dequeued, Started, Ended,
     Written, Recurred, Retried, JobFrame, jobVars
<1>6. ASSUME NEW i \in Instances, PollerEvent(i, j) \/ Killed(i, j) PROVE admin' = admin
  BY <1>6 DEF PollerEvent, Claimed, Listed, MarkedCrashed, Replaced, Killed
<1>7. CASE Purged(j) \/ CancelledRow(j) \/ LimitStored(j) \/ Rewritten(j)
  BY <1>2, <1>7 DEF Purged, CancelledRow, LimitStored, Rewritten, AdminWrote, jobVars
<1> QED BY <1>2, <1>4, <1>5, <1>6, <1>7 DEF RowEvent

LEMMA StepValues ==
  ASSUME IInv, IInv', Once, \A k \in Rows : Values(k), \A k \in Rows : Lasting(k),
         NEW j \in Rows, RowEvent(j)
  PROVE  Values(j)'
BY RowValueStep, ObjValueStep, ReadRowsStep, EntryValueStep, AdminValueStep DEF Values

LEMMA InitValues == Init => \A j \in Rows : Values(j)
<1> SUFFICES ASSUME Init, NEW j \in Rows PROVE Values(j)
  OBVIOUS
<1>1. RowValue(j)
  BY JobAssumption DEF Init, RowValue, RootRow, Used, ValueOk
<1> QED BY <1>1 DEF Init, Values, ObjValue, NoObj, Reading, Begun

-----------------------------------------------------------------------------
(* A cancelled job stays cancelled                                         *)

(* No object that could still write the row back as it was before a        *)
(* cancelJob that is to be honoured.                                       *)
CancelKept(j) ==
    HasMark("cancelled", j) =>
        /\ Used(j)
        /\ Exists(j) =>
              /\ row[j].cancelled
              /\ \A i \in Instances :
                    /\ obj[i][j].phase \in {"none", "claimed", "queued", "rejected", "dread"}
                    /\ obj[i][j].phase = "dread" => obj[i][j].copy.cancelled

LEMMA StepCancelKept ==
  ASSUME NEW j \in Rows, CancelKept(j), RowEvent(j), Lasting(j)
  PROVE  CancelKept(j)'
<1> SUFFICES ASSUME HasMark("cancelled", j)' PROVE CancelKept(j)'
  BY DEF CancelKept
<1>1. ASSUME row'[j] = row[j], SameObjs(j), HasMark("cancelled", j) PROVE CancelKept(j)'
  BY <1>1 DEF SameObjs, CancelKept, Used, Exists
<1>2. CASE Untouched(j) \/ Newborn(j)
  BY <1>1, <1>2 DEF Untouched, Newborn, Around, SameMarks, MarkKinds, HasMark, CancelKept, Used
<1>3. ASSUME NEW i \in Instances, JobEvent(i, j) PROVE CancelKept(j)'
  <2>1. JobFrame(i, j)
    BY <1>3 DEF JobEvent, Dropped, Refreshed, Went, QueuedBack, Dequeued, Started, Ended,
       Written, Recurred, Retried
  <2>2. HasMark("cancelled", j) BY <2>1 DEF JobFrame, jobVars, HasMark
  <2>3. Used(j) /\ Used(j)' BY <2>2 DEF CancelKept, Lasting
  <2>4. CASE ~ Exists(j)
    <3>1. row'[j] = row[j]
      BY <1>3, <2>4 DEF JobEvent, Dropped, Refreshed, Went, QueuedBack, Dequeued, Started, Ended,
         Written, Recurred, Retried
    <3> QED BY <2>3, <2>4, <3>1 DEF CancelKept, Exists
  <2>5. CASE Exists(j)
    <3>1. /\ row[j].cancelled
          /\ \A h \in Instances :
                /\ obj[h][j].phase \in {"none", "claimed", "queued", "rejected", "dread"}
                /\ obj[h][j].phase = "dread" => obj[h][j].copy.cancelled
      BY <2>2, <2>5 DEF CancelKept
    <3>2. \A h \in Instances \ {i} : obj'[h][j] = obj[h][j] BY <2>1 DEF JobFrame
    <3>3. CASE Dropped(i, j) \/ Refreshed(i, j)
      BY <2>3, <3>1, <3>2, <3>3 DEF Dropped, Refreshed, Open, CancelKept
    <3>4. ASSUME NEW r \in RowType, Dequeued(i, j, r) PROVE CancelKept(j)'
      <4>1. row'[j] = r /\ r.cancelled /\ obj'[i][j].phase = "none"
        BY <2>5, <3>1, <3>4 DEF Dequeued, Written
      <4> QED BY <2>3, <3>1, <3>2, <4>1 DEF CancelKept
    <3> QED BY <1>3, <3>1, <3>3, <3>4
        DEF JobEvent, Went, QueuedBack, Started, Ended, Recurred, Retried
  <2> QED BY <2>4, <2>5
<1>4. ASSUME NEW i \in Instances, PollerEvent(i, j) PROVE CancelKept(j)'
  <2>1. HasMark("cancelled", j)
    BY <1>4 DEF PollerEvent, Claimed, Listed, MarkedCrashed, Replaced, HasMark
  <2>2. CASE Claimed(i, j)
    BY <2>1, <2>2, RowIsNew DEF Claimed, CancelKept, Used, Exists
  <2>3. ASSUME NEW c \in crashed[i], MarkedCrashed(i, j, c) PROVE CancelKept(j)'
    BY <2>1, <2>3, RowIsNew DEF MarkedCrashed, SameObjs, CancelKept, Used, Exists
  <2> QED BY <1>1, <1>4, <2>1, <2>2, <2>3 DEF PollerEvent, Listed, Replaced
<1>5. ASSUME NEW i \in Instances, Killed(i, j) PROVE CancelKept(j)'
  BY <1>5 DEF Killed, HasMark, CancelKept, Used, Exists
<1>6. CASE Purged(j)
  BY <1>6, RowIsNew DEF Purged, jobVars, HasMark, CancelKept, Used, Exists
<1>7. CASE LimitStored(j)
  BY <1>7, RowIsNew DEF LimitStored, AdminWrote, SameMarks, MarkKinds, SameObjs, HasMark,
     CancelKept, Used, Exists
<1>8. CASE CancelledRow(j)
  <2>1. /\ Used(j)' /\ Exists(j) /\ row'[j].cancelled
        /\ \A h \in Instances : obj'[h][j] = obj[h][j]
    BY <1>8, RowIsNew DEF CancelledRow, AdminWrote, SameObjs, Used
  <2>2. CASE WriteBackPending(j)
    BY <1>8, <2>1, <2>2 DEF CancelledRow, HasMark, CancelKept
  <2>3. CASE ~ WriteBackPending(j)
    BY <2>1, <2>3 DEF WriteBackPending, CancelKept
  <2> QED BY <2>2, <2>3
<1>9. ~ Rewritten(j) BY DEF Rewritten, HasMark
<1> QED BY <1>2, <1>3, <1>4, <1>5, <1>6, <1>7, <1>8, <1>9 DEF RowEvent

-----------------------------------------------------------------------------
(* A claimed row is not forgotten                                          *)

(* A claim that is not queued yet is of a row that was never started.      *)
ClaimedFresh(j) ==
    \A i \in Instances :
        obj[i][j].phase = "claimed" /\ Open(j) /\ row[j].runBy = i => starts[j] = 0

(* The rows that name an instance are worked on by it, or about to be      *)
(* reloaded.                                                               *)
Kept(j) ==
    \A i \in Instances :
        Reloads(i) /\ LeftBehind(i, j) /\ ~ row[j].cancelled
            => obj[i][j].phase # "none" \/ \E c \in crashed[i] : c.job = j

Attended(j) == Clean(j) => ClaimedFresh(j) /\ Kept(j)

(* What an object has passed the checks of queue() or init() with.         *)
LEMMA OwnRead ==
  ASSUME Once, NEW i \in Instances, NEW j \in Rows
  PROVE  obj[i][j].phase \in Begun \cup {"qread", "iread"}
            => obj[i][j].copy.runBy = i /\ ~ obj[i][j].copy.cancelled
BY DEF Once, OwnCopy

LEMMA JobAttended ==
  ASSUME IInv, Once, NEW j \in Rows, Values(j), Attended(j), NEW i \in Instances, JobEvent(i, j)
  PROVE  Attended(j)'
<1>0. JobFrame(i, j)
  BY DEF JobEvent, Dropped, Refreshed, Went, QueuedBack, Dequeued, Started, Ended,
     Written, Recurred, Retried
<1> SUFFICES ASSUME Clean(j), ClaimedFresh(j), Kept(j) PROVE ClaimedFresh(j)' /\ Kept(j)'
  BY <1>0 DEF JobFrame, jobVars, Clean, Attended
<1>1. /\ \A h \in Instances \ {i} : obj'[h][j] = obj[h][j]
      /\ \A h \in Instances : Reloads(h)' <=> Reloads(h)
      /\ UNCHANGED crashed
  BY <1>0 DEF JobFrame, jobVars, Reloads
<1>2. None \notin Instances BY SemaphoreAssumption
<1>3. CASE row'[j] = row[j] /\ starts'[j] = starts[j]
  <2>1. obj'[i][j].phase # "claimed"
    BY <1>3 DEF JobEvent, Dropped, Refreshed, Went, QueuedBack, Dequeued, Started, Ended, Recurred,
       Retried
  <2>2. ClaimedFresh(j)' BY <1>1, <1>3, <2>1 DEF ClaimedFresh, Open, Exists
  <2>3. ASSUME LeftBehind(i, j), ~ row[j].cancelled PROVE obj'[i][j].phase # "none"
    <3>1. Open(j) /\ row[j].runBy = i BY <2>3 DEF LeftBehind, Open
    <3>2. ~ Dropped(i, j)
      <4>1. obj[i][j].phase = "claimed" => starts[j] = 0 BY <3>1 DEF ClaimedFresh
      <4>2. starts[j] = 0 => ~ row[j].started
        BY <3>1 DEF Values, RowValue, ValueOk, Open, Exists, Used, NoRow
      <4> QED BY <3>1, <4>1, <4>2 DEF Dropped
    <3>3. ASSUME NEW r \in RowType, Dequeued(i, j, r) \/ Ended(i, j, r) PROVE FALSE
      <4>1. row[j] = r BY <1>3, <3>1, <3>3 DEF Dequeued, Ended, Written, Open
      <4> QED BY <1>2, <2>3, <3>1, <3>3, <4>1 DEF Dequeued, Ended, LeftBehind, Live
    <3> QED BY <3>2, <3>3 DEF JobEvent, Refreshed, Went, QueuedBack, Started, Recurred, Retried
  <2>4. Kept(j)' BY <1>1, <1>3, <2>3 DEF Kept, LeftBehind, Exists
  <2> QED BY <2>2, <2>4
<1>4. ASSUME NEW r \in RowType, QueuedBack(i, j, r) \/ Started(i, j, r)
      PROVE  ClaimedFresh(j)' /\ Kept(j)'
  <2>1. /\ Written(i, j, r) /\ r.runBy = i
        /\ obj'[i][j].phase \notin {"none", "claimed"}
    BY <1>4, OwnRead DEF QueuedBack, Started
  <2>2. CASE Exists(j)
    <3>1. row'[j] = r BY <2>1, <2>2 DEF Written
    <3> QED BY <2>1, <3>1 DEF ClaimedFresh, Kept, LeftBehind
  <2>3. CASE ~ Exists(j)
    <3>1. row'[j] = row[j] BY <2>1, <2>3 DEF Written
    <3> QED BY <2>3, <3>1 DEF ClaimedFresh, Kept, LeftBehind, Open, Exists
  <2> QED BY <2>2, <2>3
<1>5. ASSUME NEW r \in RowType, Dequeued(i, j, r) \/ Ended(i, j, r)
      PROVE  ClaimedFresh(j)' /\ Kept(j)'
  <2>1. /\ Written(i, j, r) /\ obj'[i][j].phase = "none"
        /\ r.runBy \in {i, None} /\ (r.status \in Live => r.runBy = None)
    BY <1>5, OwnRead DEF Dequeued, Ended, Live, Begun
  <2>2. CASE Exists(j)
    <3>1. row'[j] = r BY <2>1, <2>2 DEF Written
    <3> QED BY <1>2, <2>1, <3>1 DEF ClaimedFresh, Kept, LeftBehind
  <2>3. CASE ~ Exists(j)
    <3>1. row'[j] = row[j] BY <2>1, <2>3 DEF Written
    <3> QED BY <2>3, <3>1 DEF ClaimedFresh, Kept, LeftBehind, Open, Exists
  <2> QED BY <2>2, <2>3
<1> QED BY <1>3, <1>4, <1>5 DEF JobEvent, Dropped, Refreshed, Went, Recurred, Retried

LEMMA StepAttended ==
  ASSUME IInv, IInv', Once, NEW j \in Rows, Values(j), Lasting(j), Attended(j), RowEvent(j)
  PROVE  Attended(j)'
<1> SUFFICES ASSUME Clean(j)' PROVE ClaimedFresh(j)' /\ Kept(j)'
  BY DEF Attended
<1>0. Clean(j) /\ ClaimedFresh(j) /\ Kept(j) BY DEF Lasting, Attended
<1>1. None \notin Instances BY SemaphoreAssumption
<1>2. \A h \in Instances : crashed[h] \subseteq CrashedType BY DEF IInv, TypeInv
<1>3. CASE Untouched(j)
  <2>1. ClaimedFresh(j)' BY <1>0, <1>3 DEF Untouched, Around, SameObjs, ClaimedFresh, Open, Exists
  <2>2. ASSUME NEW h \in Instances, Reloads(h)', LeftBehind(h, j), ~ row[j].cancelled
        PROVE  obj'[h][j].phase # "none" \/ \E c \in crashed'[h] : c.job = j
    BY <1>0, <1>2, <1>3, <2>2 DEF Untouched, Around, SameObjs, SameEntries, Kept
  <2>3. \A h \in Instances : LeftBehind(h, j)' <=> LeftBehind(h, j)
    BY <1>3 DEF Untouched, LeftBehind, Exists
  <2>4. Kept(j)' BY <1>3, <2>2, <2>3 DEF Untouched, Kept
  <2> QED BY <2>1, <2>4
<1>4. CASE Newborn(j)
  BY <1>1, <1>4 DEF Newborn, ClaimedFresh, Kept, LeftBehind
<1>5. ASSUME NEW i \in Instances, PollerEvent(i, j) PROVE ClaimedFresh(j)' /\ Kept(j)'
  <2>1. CASE Claimed(i, j)
    <3>1. Open(j) => starts[j] = 0
      BY <1>0, <2>1 DEF Once, RowOnce, StartedIsClosed, Claimed
    <3>2. Open(j)' => Open(j) BY <2>1 DEF Claimed, Open, Exists
    <3>3. row'[j].runBy = i /\ obj'[i][j].phase = "claimed" /\ starts'[j] = starts[j]
      BY <2>1 DEF Claimed
    <3> QED BY <3>1, <3>2, <3>3 DEF ClaimedFresh, Kept, LeftBehind
  <2>2. CASE Listed(i, j)
    <3>1. ClaimedFresh(j)' BY <1>0, <2>2 DEF Listed, SameObjs, ClaimedFresh, Open, Exists
    <3>2. \A h \in Instances \ {i} : Reloads(h)' <=> Reloads(h) BY <2>2 DEF Listed, Reloads
    <3>3. Kept(j)'
      BY <1>0, <2>2, <3>2 DEF Listed, SameObjs, Kept, LeftBehind, Exists
    <3> QED BY <3>1, <3>3
  <2>3. ASSUME NEW c \in crashed[i], NEW b \in Rows, Replaced(i, j, c, b)
        PROVE  ClaimedFresh(j)' /\ Kept(j)'
    <3>1. ClaimedFresh(j)' BY <1>0, <2>3 DEF Replaced, SameObjs, ClaimedFresh, Open, Exists
    <3>2. \A h \in Instances : Reloads(h)' => Reloads(h) BY <2>3 DEF Replaced, Reloads
    <3>3. \E d \in crashed'[i] : d.job = j BY <2>3 DEF Replaced
    <3>4. Kept(j)'
      BY <1>0, <2>3, <3>2, <3>3 DEF Replaced, SameObjs, Kept, LeftBehind, Exists
    <3> QED BY <3>1, <3>4
  <2>4. ASSUME NEW c \in crashed[i], MarkedCrashed(i, j, c) PROVE ClaimedFresh(j)' /\ Kept(j)'
    <3>1. Exists(j)' => row'[j].cancelled BY <2>4 DEF MarkedCrashed, Exists
    <3> QED BY <3>1 DEF ClaimedFresh, Kept, LeftBehind, Open
  <2> QED BY <1>5, <2>1, <2>2, <2>3, <2>4 DEF PollerEvent
<1>6. ASSUME NEW i \in Instances, Killed(i, j) PROVE ClaimedFresh(j)' /\ Kept(j)'
  <2>1. /\ ~ Reloads(i)' /\ obj'[i][j].phase # "claimed"
        /\ \A h \in Instances \ {i} : Reloads(h)' <=> Reloads(h)
    BY <1>6 DEF Killed, Reloads
  <2> QED BY <1>0, <1>6, <2>1 DEF Killed, ClaimedFresh, Kept, LeftBehind, Open, Exists
<1>7. CASE Purged(j) \/ CancelledRow(j)
  <2>1. ~ Open(j)' BY <1>7 DEF Purged, CancelledRow, Open, Exists
  <2> QED BY <2>1 DEF ClaimedFresh, Kept, LeftBehind, Open
<1>8. CASE LimitStored(j)
  <2>1. \A h \in Instances : Reloads(h)' <=> Reloads(h)
    BY <1>8 DEF LimitStored, AdminWrote, Reloads
  <2> QED BY <1>0, <1>8, <2>1
      DEF LimitStored, AdminWrote, SameObjs, ClaimedFresh, Kept, LeftBehind, Open, Exists
<1>9. ~ Rewritten(j) BY DEF Rewritten, Clean
<1>10. ASSUME NEW i \in Instances, JobEvent(i, j) PROVE ClaimedFresh(j)' /\ Kept(j)'
  BY <1>0, <1>10, JobAttended DEF Attended
<1> QED BY <1>3, <1>4, <1>5, <1>6, <1>7, <1>8, <1>9, <1>10 DEF RowEvent

-----------------------------------------------------------------------------
(* What a job object may write                                             *)

(* The object that may still run or dequeue the job has written the row.   *)
Wrote(i, j) ==
    /\ Exists(j) /\ Has(i, j) /\ row'[j] \in RowType /\ ~ row'[j].cancelled
    /\ \/ /\ obj[i][j].phase = "qread" /\ obj'[i][j].phase \in {"queued", "rejected"}
          /\ row'[j].status = "QUEUED" /\ row'[j].runBy = i /\ ~ row'[j].started
       \/ /\ obj[i][j].phase = "dread" /\ obj'[i][j].phase = "none"
          /\ row'[j].status = "PENDING" /\ row'[j].runBy = None /\ ~ row'[j].started
       \/ /\ obj[i][j].phase = "iread" /\ obj'[i][j].phase \in Begun
          /\ row'[j].status = "RUNNING" /\ row'[j].runBy = i /\ row'[j].started
       \/ /\ obj[i][j].phase \in {"finish", "failstore"} /\ obj'[i][j].phase = "none"
          /\ row'[j].status \in {"FINISHED", "FAILED"} /\ row'[j].runBy = i /\ row'[j].started

(* deQueue() has written a cancelled row.                                  *)
GaveBack(i, j) ==
    /\ Exists(j) /\ obj[i][j].phase = "dread" /\ obj'[i][j].phase = "none"
    /\ obj[i][j].copy.cancelled /\ row'[j] \in RowType /\ row'[j].cancelled
    /\ row'[j].status = "PENDING" /\ row'[j].runBy = None

LEMMA JobWrites ==
  ASSUME Once, NEW i \in Instances, NEW j \in Rows, Values(j), JobEvent(i, j)
  PROVE  row'[j] = row[j] \/ Wrote(i, j) \/ GaveBack(i, j)
<1> SUFFICES ASSUME row'[j] # row[j] PROVE Wrote(i, j) \/ GaveBack(i, j)
  OBVIOUS
<1>1. PICK r \in RowType : QueuedBack(i, j, r) \/ Dequeued(i, j, r) \/ Started(i, j, r) \/ Ended(i, j, r)
  BY DEF JobEvent, Dropped, Refreshed, Went, Recurred, Retried
<1>2. Written(i, j, r) BY <1>1 DEF QueuedBack, Dequeued, Started, Ended
<1>3. Exists(j) /\ row'[j] = r BY <1>2 DEF Written
<1>4. ObjValue(i, j) /\ OwnCopy(i, j) BY DEF Values, Once
<1>5. CASE QueuedBack(i, j, r)
  <2>1. ~ obj[i][j].copy.cancelled /\ ~ obj[i][j].copy.started /\ obj[i][j].copy.runBy = i
    BY <1>4, <1>5 DEF QueuedBack, ObjValue, OwnCopy
  <2>2. ~ r.cancelled /\ ~ r.started /\ r.runBy = i
    BY <1>2, <1>5, <2>1 DEF QueuedBack, Written, RowType
  <2>3. Has(i, j) BY <1>5, <2>1 DEF Has, QueuedBack, Reading, Phases
  <2> QED BY <1>3, <1>5, <2>2, <2>3 DEF QueuedBack, Wrote
<1>6. CASE Dequeued(i, j, r)
  <2>1. r.cancelled = obj[i][j].copy.cancelled BY <1>2 DEF Written
  <2>2. CASE obj[i][j].copy.cancelled
    BY <1>3, <1>6, <2>1, <2>2 DEF Dequeued, GaveBack
  <2>3. CASE ~ obj[i][j].copy.cancelled
    <3>1. Has(i, j) BY <1>6, <2>3 DEF Has, Dequeued, Reading, Phases
    <3>2. ~ r.cancelled BY <1>2, <2>3 DEF Written, RowType
    <3> QED BY <1>3, <1>6, <3>1, <3>2 DEF Dequeued, Wrote
  <2> QED BY <2>2, <2>3
<1>7. CASE Started(i, j, r)
  <2>1. ~ obj[i][j].copy.cancelled /\ obj[i][j].copy.runBy = i
    BY <1>4, <1>7 DEF Started, OwnCopy
  <2>2. ~ r.cancelled /\ r.runBy = i
    BY <1>2, <1>7, <2>1 DEF Started, Written, RowType
  <2>3. Has(i, j) BY <1>7, <2>1 DEF Has, Started, Reading, Phases
  <2>4. obj'[i][j].phase \in Begun BY <1>7 DEF Started, Begun
  <2> QED BY <1>3, <1>7, <2>2, <2>3, <2>4 DEF Started, Wrote
<1>8. CASE Ended(i, j, r)
  <2>1. /\ ~ obj[i][j].copy.cancelled /\ obj[i][j].copy.runBy = i /\ obj[i][j].copy.started
    BY <1>4, <1>8 DEF Ended, OwnCopy, Begun
  <2>2. ~ r.cancelled /\ r.runBy = i /\ r.started
    BY <1>2, <1>8, <2>1 DEF Ended, Written, RowType
  <2>3. Has(i, j) BY <1>8, <2>1 DEF Has, Ended, Reading, Phases
  <2> QED BY <1>3, <1>8, <2>2, <2>3 DEF Ended, Wrote
<1> QED BY <1>1, <1>5, <1>6, <1>7, <1>8

(* The objects that may still run or dequeue a job do not come from        *)
(* nowhere.                                                                *)
LEMMA JobHas ==
  ASSUME IInv', Once, Once', NEW i \in Instances, NEW j \in Rows, JobEvent(i, j)
  PROVE  /\ \A h \in Instances \ {i} :
               (Has(h, j)' <=> Has(h, j)) /\ obj'[h][j] = obj[h][j]
         /\ obj[i][j].phase # "none" /\ UNCHANGED jobVars
         /\ Has(i, j)' => \/ Has(i, j)
                          \/ /\ obj[i][j].phase = "claimed" /\ obj'[i][j].phase = "qread"
                             /\ Open(j) /\ row[j].runBy = i /\ row'[j] = row[j]
<1>1. JobFrame(i, j) /\ obj[i][j].phase # "none"
  BY DEF JobEvent, Dropped, Refreshed, Went, QueuedBack, Dequeued, Started, Ended,
     Written, Recurred, Retried
<1>2. \A h \in Instances \ {i} : (Has(h, j)' <=> Has(h, j)) /\ obj'[h][j] = obj[h][j]
  BY <1>1 DEF JobFrame, Has
<1>3. ASSUME Has(i, j)', ~ Has(i, j)
      PROVE  /\ obj[i][j].phase = "claimed" /\ obj'[i][j].phase = "qread"
             /\ Open(j) /\ row[j].runBy = i /\ row'[j] = row[j]
  <2>1. obj'[i][j].phase \notin {"none", "claimed"} BY <1>3 DEF Has, Reading
  <2>2. ~ Dropped(i, j) /\ \A r \in RowType : ~ Dequeued(i, j, r) /\ ~ Ended(i, j, r)
    BY <2>1 DEF Dropped, Dequeued, Ended
  <2>3. /\ obj[i][j].phase \notin {"queued", "rejected"}
        /\ obj[i][j].phase \in Begun \cup {"qread", "iread"} => obj[i][j].phase \in Reading
    BY <1>3 DEF Has, Reading, Phases, Begun
  <2>4. obj[i][j].phase \notin Begun \cup {"qread", "iread"}
    BY <1>3, <2>3, OwnRead DEF Has
  <2> QED BY <1>3, <2>2, <2>3, <2>4
      DEF JobEvent, Refreshed, Went, QueuedBack, Started, Recurred, Retried, Begun
<1> QED BY <1>1, <1>2, <1>3 DEF JobFrame

LEMMA RowHas ==
  ASSUME IInv', Once, Once', NEW j \in Rows, RowEvent(j), \A h \in Instances : ~ JobEvent(h, j)
  PROVE  \A h \in Instances : Has(h, j)' => Has(h, j) /\ obj'[h][j] = obj[h][j]
<1>1. ASSUME NEW h \in Instances, Has(h, j)', obj'[h][j] = obj[h][j] PROVE Has(h, j)
  BY <1>1 DEF Has
<1>2. ASSUME NEW h \in Instances, Has(h, j)' PROVE obj'[h][j].phase \notin {"none", "claimed"}
  BY <1>2 DEF Has, Reading
<1>3. ASSUME NEW h \in Instances, Has(h, j)', NEW i \in Instances, PollerEvent(i, j) \/ Killed(i, j)
      PROVE  obj'[h][j] = obj[h][j]
  BY <1>2, <1>3 DEF PollerEvent, Claimed, Listed, MarkedCrashed, Replaced, Killed, SameObjs
<1>4. ASSUME NEW h \in Instances, Has(h, j)' PROVE obj'[h][j] = obj[h][j]
  BY <1>3, <1>4 DEF RowEvent, Untouched, Newborn, Around, Purged, CancelledRow, LimitStored,
     Rewritten, AdminWrote, SameObjs
<1> QED BY <1>1, <1>4

-----------------------------------------------------------------------------
(* What reloadCrashedJobs has read is what nobody else writes              *)

QueuedIsOpen(j) ==
    row[j].status = "QUEUED" => ~ row[j].cancelled /\ ~ row[j].started /\ row[j].runBy # None

RunningIsOpen(j) == row[j].status = "RUNNING" => ~ row[j].cancelled

(* While a row is listed for reloading, no object may run or dequeue it.   *)
ReadAlone(j) ==
    \A i \in Instances : \A c \in crashed[i] : c.job = j =>
        /\ \A h \in Instances : ~ Has(h, j)
        /\ Open(j) => row[j].runBy = i /\ row[j].status = c.copy.status

(* Entry c of instance i is of row j, read when it was queued.             *)
QueuedEntry(i, c, j) == c \in crashed[i] /\ c.job = j /\ c.copy.status = "QUEUED"

(* It is then reloaded by one instance only.                               *)
ReadOnce(j) ==
    \A i, h \in Instances : \A c \in crashed[i], d \in crashed[h] :
        QueuedEntry(i, c, j) /\ QueuedEntry(h, d, j) => i = h /\ c = d

(* Who is about to give back a cancelled row is its last owner.            *)
GivenBack(j) ==
    \A i \in Instances :
        obj[i][j].phase = "dread" /\ obj[i][j].copy.cancelled =>
            /\ ~ Open(j) /\ HasMark("cancelled", j)
            /\ \A h \in Instances : ~ Has(h, j)

PendingIsLeft(j) ==
    row[j].status = "PENDING" /\ row[j].cancelled =>
        /\ \A h \in Instances : ~ Has(h, j)
        /\ \/ HasMark("cancelled", j)
           \/ row[j].runBy = None /\ \A i \in Instances : j \notin due[i]

(* A cancelled row that is still in a queue was cancelled for good.        *)
CancelledIsMarked(j) ==
    Exists(j) /\ row[j].cancelled =>
        \A i \in Instances : obj[i][j].phase \in {"queued", "rejected"} => HasMark("cancelled", j)

Settled(j) ==
    Clean(j) => /\ QueuedIsOpen(j) /\ RunningIsOpen(j) /\ ReadAlone(j) /\ ReadOnce(j)
                /\ GivenBack(j) /\ PendingIsLeft(j) /\ CancelledIsMarked(j)

LEMMA JobSettled ==
  ASSUME IInv, IInv', Once, Once', Pollers, NEW j \in Rows, Values(j), Settled(j),
         NEW i \in Instances, JobEvent(i, j)
  PROVE  Settled(j)'
<1>1. /\ \A h \in Instances \ {i} :
               (Has(h, j)' <=> Has(h, j)) /\ obj'[h][j] = obj[h][j]
      /\ obj[i][j].phase # "none" /\ UNCHANGED jobVars
      /\ Has(i, j)' => \/ Has(i, j)
                       \/ /\ obj[i][j].phase = "claimed" /\ obj'[i][j].phase = "qread"
                          /\ Open(j) /\ row[j].runBy = i /\ row'[j] = row[j]
  BY JobHas
<1>2. UNCHANGED <<due, crashed, marks>> BY <1>1 DEF jobVars
<1> SUFFICES ASSUME Clean(j), QueuedIsOpen(j), RunningIsOpen(j), ReadAlone(j), ReadOnce(j),
                    GivenBack(j), PendingIsLeft(j), CancelledIsMarked(j)
             PROVE  /\ QueuedIsOpen(j)' /\ RunningIsOpen(j)' /\ ReadAlone(j)' /\ ReadOnce(j)'
                    /\ GivenBack(j)' /\ PendingIsLeft(j)' /\ CancelledIsMarked(j)'
  BY <1>2 DEF Settled, Clean
<1>3. row'[j] = row[j] \/ Wrote(i, j) \/ GaveBack(i, j) BY JobWrites
<1>4. row'[j] = row[j] => (Open(j)' <=> Open(j)) /\ (Exists(j)' <=> Exists(j)) BY DEF Open, Exists
<1>5. QueuedIsOpen(j)' /\ RunningIsOpen(j)'
  BY <1>3, SemaphoreAssumption DEF QueuedIsOpen, RunningIsOpen, Wrote, GaveBack
<1>6. ReadAlone(j)'
  <2> SUFFICES ASSUME NEW h \in Instances, NEW c \in crashed[h], c.job = j
               PROVE  /\ \A g \in Instances : ~ Has(g, j)'
                      /\ Open(j)' => row'[j].runBy = h /\ row'[j].status = c.copy.status
    BY <1>2 DEF ReadAlone
  <2>1. /\ \A g \in Instances : ~ Has(g, j)
        /\ Open(j) => row[j].runBy = h /\ row[j].status = c.copy.status
    BY DEF ReadAlone
  <2>2. h # i BY <1>1 DEF Pollers, Idle
  <2>3. \A g \in Instances : ~ Has(g, j)' BY <1>1, <2>1, <2>2
  <2>4. ~ Wrote(i, j) BY <2>1 DEF Wrote
  <2>5. GaveBack(i, j) => ~ Open(j)' BY DEF GaveBack, Open
  <2> QED BY <1>3, <1>4, <2>1, <2>3, <2>4, <2>5
<1>7. ReadOnce(j)' BY <1>2 DEF ReadOnce, QueuedEntry
<1>8. GivenBack(j)'
  <2> SUFFICES ASSUME NEW h \in Instances, obj'[h][j].phase = "dread", obj'[h][j].copy.cancelled
               PROVE  /\ ~ Open(j)' /\ HasMark("cancelled", j)
                      /\ \A g \in Instances : ~ Has(g, j)'
    BY <1>2 DEF GivenBack, HasMark
  <2>1. CASE h # i
    <3>1. /\ ~ Open(j) /\ HasMark("cancelled", j) /\ \A g \in Instances : ~ Has(g, j)
      BY <1>1, <2>1 DEF GivenBack
    <3>2. ~ Wrote(i, j) BY <3>1 DEF Wrote
    <3>3. GaveBack(i, j) => ~ Open(j)' BY DEF GaveBack, Open
    <3> QED BY <1>1, <1>3, <1>4, <3>1, <3>2, <3>3
  <2>2. CASE h = i
    <3>1. Refreshed(i, j) /\ obj[i][j].phase \in {"queued", "rejected"} /\ obj'[i][j].copy = row[j]
      BY <2>2 DEF JobEvent, Dropped, Refreshed, Went, QueuedBack, Dequeued, Started, Ended,
         Recurred, Retried
    <3>2. Exists(j) /\ row[j].cancelled /\ row'[j] = row[j] BY <2>2, <3>1 DEF Refreshed
    <3>3. ~ Open(j)' /\ HasMark("cancelled", j)
      BY <1>4, <3>1, <3>2 DEF CancelledIsMarked, Open
    <3>4. Has(i, j) BY <3>1 DEF Has
    <3>5. \A g \in Instances \ {i} : ~ Has(g, j) BY <3>4 DEF Once, RowOnce, OneOwner
    <3>6. ~ Has(i, j)' BY <2>2 DEF Has
    <3> QED BY <1>1, <3>3, <3>5, <3>6
  <2> QED BY <2>1, <2>2
<1>9. ASSUME GaveBack(i, j) PROVE HasMark("cancelled", j) /\ \A g \in Instances : ~ Has(g, j)'
  <2>1. obj[i][j].phase = "dread" /\ obj[i][j].copy.cancelled BY <1>9 DEF GaveBack
  <2>2. HasMark("cancelled", j) /\ \A g \in Instances : ~ Has(g, j) BY <2>1 DEF GivenBack
  <2> QED BY <1>1, <2>1, <2>2
<1>10. PendingIsLeft(j)'
  <2>1. CASE row'[j] = row[j]
    <3>1. row[j].cancelled => ~ Open(j) BY DEF Open
    <3>2. HasMark("cancelled", j)' <=> HasMark("cancelled", j) BY <1>2 DEF HasMark
    <3> QED BY <1>1, <1>2, <2>1, <3>1, <3>2 DEF PendingIsLeft
  <2>2. CASE Wrote(i, j) BY <2>2 DEF Wrote, PendingIsLeft
  <2>3. CASE GaveBack(i, j)
    <3>1. HasMark("cancelled", j)' BY <1>2, <1>9, <2>3 DEF HasMark
    <3> QED BY <1>9, <2>3, <3>1 DEF PendingIsLeft
  <2> QED BY <1>3, <2>1, <2>2, <2>3
<1>11. CancelledIsMarked(j)'
  <2> SUFFICES ASSUME Exists(j)', row'[j].cancelled, NEW h \in Instances,
                      obj'[h][j].phase \in {"queued", "rejected"}
               PROVE  HasMark("cancelled", j)
    BY <1>2 DEF CancelledIsMarked, HasMark
  <2>1. ~ Wrote(i, j) BY DEF Wrote
  <2>2. CASE row'[j] = row[j]
    <3>1. Exists(j) /\ row[j].cancelled BY <1>4, <2>2
    <3>2. CASE h # i BY <1>1, <3>1, <3>2 DEF CancelledIsMarked
    <3>3. CASE h = i
      <4>1. PICK r \in RowType : QueuedBack(i, j, r)
        BY <3>3 DEF JobEvent, Dropped, Refreshed, Went, QueuedBack, Dequeued, Started, Ended,
           Recurred, Retried
      <4>2. r = row[j] /\ r.cancelled = obj[i][j].copy.cancelled
        BY <2>2, <3>1, <4>1 DEF QueuedBack, Written
      <4>3. ~ obj[i][j].copy.cancelled BY <4>1, OwnRead DEF QueuedBack
      <4> QED BY <3>1, <4>2, <4>3
    <3> QED BY <3>2, <3>3
  <2> QED BY <1>3, <1>9, <2>1, <2>2
<1> QED BY <1>5, <1>6, <1>7, <1>8, <1>10, <1>11

(* reloadCrashedJobs lists rows no object may run or dequeue.              *)
LEMMA ListedIsLeft ==
  ASSUME Once, Pollers, NEW j \in Rows, Clean(j), Settled(j), NEW i \in Instances, Listed(i, j)
  PROVE  /\ \A h \in Instances : ~ Has(h, j)
         /\ row[j].status = "QUEUED" => Open(j)
         /\ Open(j) => row[j].runBy = i
<1>1. Exists(j) /\ row[j].runBy = i /\ row[j].status \in Live BY DEF Listed, LeftBehind
<1>2. \A k \in Rows : ~ Has(i, k) BY DEF Listed, Pollers, Idle, Has, Reading
<1>3. row[j].status = "QUEUED" => Open(j) BY <1>1 DEF Settled, QueuedIsOpen, Open
<1>4. CASE Open(j) BY <1>1, <1>2, <1>4 DEF Once, RowOnce, OneOwner
<1>5. CASE ~ Open(j)
  <2>1. row[j].cancelled /\ row[j].status = "PENDING"
    BY <1>1, <1>3, <1>5 DEF Open, Settled, RunningIsOpen, Live
  <2> QED BY <1>3, <1>5, <2>1 DEF Settled, PendingIsLeft
<1> QED BY <1>1, <1>3, <1>4, <1>5

LEMMA PollerSettled ==
  ASSUME IInv, IInv', Once, Once', Pollers, NEW j \in Rows, Values(j), Settled(j),
         NEW i \in Instances, PollerEvent(i, j), RowEvent(j),
         \A h \in Instances : ~ JobEvent(h, j)
  PROVE  Settled(j)'
<1>1. \A h \in Instances : Has(h, j)' => Has(h, j) /\ obj'[h][j] = obj[h][j] BY RowHas
<1>2. UNCHANGED marks BY DEF PollerEvent, Claimed, Listed, MarkedCrashed, Replaced
<1>3. /\ HasMark("cancelled", j)' <=> HasMark("cancelled", j)
      /\ Clean(j)' <=> Clean(j)
  BY <1>2 DEF HasMark, Clean
<1>4. \A h \in Instances : crashed[h] \subseteq CrashedType /\ crashed'[h] \subseteq CrashedType
  BY DEF IInv, TypeInv
<1> SUFFICES ASSUME Clean(j)
             PROVE  /\ QueuedIsOpen(j)' /\ RunningIsOpen(j)' /\ ReadAlone(j)' /\ ReadOnce(j)'
                    /\ GivenBack(j)' /\ PendingIsLeft(j)' /\ CancelledIsMarked(j)'
  BY <1>3 DEF Settled
<1>5. /\ QueuedIsOpen(j) /\ RunningIsOpen(j) /\ ReadAlone(j) /\ ReadOnce(j)
      /\ GivenBack(j) /\ PendingIsLeft(j) /\ CancelledIsMarked(j)
  BY DEF Settled
(* Unless the row is marked, it stays as open as it was.                   *)
<1>6. ASSUME Open(j)' => Open(j), (Exists(j) /\ row[j].cancelled) <=> (Exists(j) /\ row[j].cancelled)',
             row'[j].status = row[j].status, row'[j].cancelled = row[j].cancelled,
             HasMark("cancelled", j) \/ row'[j].runBy = row[j].runBy \/ ~ row[j].cancelled,
             \A h \in Instances : j \in due'[h] => j \in due[h],
             \A h \in Instances : obj'[h][j] = obj[h][j] \/ obj'[h][j].phase = "claimed"
      PROVE  GivenBack(j)' /\ PendingIsLeft(j)' /\ CancelledIsMarked(j)'
  <2>1. GivenBack(j)' BY <1>1, <1>3, <1>5, <1>6 DEF GivenBack
  <2>2. PendingIsLeft(j)' BY <1>1, <1>3, <1>5, <1>6 DEF PendingIsLeft
  <2>3. CancelledIsMarked(j)'
    <3>1. \A h \in Instances : obj'[h][j].phase \in {"queued", "rejected"}
                                  => obj[h][j].phase \in {"queued", "rejected"}
      BY <1>6
    <3> QED BY <1>3, <1>5, <1>6, <3>1 DEF CancelledIsMarked
  <2> QED BY <2>1, <2>2, <2>3
<1>7. CASE Claimed(i, j)
  <2>1. /\ crashed' = crashed /\ row'[j].status = row[j].status
        /\ row'[j].cancelled = row[j].cancelled /\ row'[j].runBy = i /\ row[j].runBy = None
        /\ (Exists(j)' <=> Exists(j)) /\ j \in due[i]
        /\ \A h \in Instances : j \in due'[h] => j \in due[h]
        /\ \A h \in Instances : obj'[h][j] = obj[h][j] \/ obj'[h][j].phase = "claimed"
    BY <1>7 DEF Claimed, Exists
  <2>2. Open(j)' <=> Open(j) BY <2>1 DEF Open
  <2>3. QueuedIsOpen(j)' /\ RunningIsOpen(j)' BY <1>5, <2>1 DEF QueuedIsOpen, RunningIsOpen
  <2>4. ReadAlone(j)'
    BY <1>1, <1>5, <2>1, <2>2, SemaphoreAssumption DEF ReadAlone
  <2>5. ReadOnce(j)' BY <1>5, <2>1 DEF ReadOnce, QueuedEntry
  <2>6. HasMark("cancelled", j) \/ ~ row[j].cancelled \/ row[j].status # "PENDING"
    BY <1>5, <2>1 DEF PendingIsLeft
  <2>7. GivenBack(j)' BY <1>1, <1>3, <1>5, <2>1, <2>2 DEF GivenBack
  <2>8. PendingIsLeft(j)' BY <1>1, <1>3, <1>5, <2>1, <2>6 DEF PendingIsLeft
  <2>9. CancelledIsMarked(j)'
    <3>1. \A h \in Instances : obj'[h][j].phase \in {"queued", "rejected"}
                                  => obj[h][j].phase \in {"queued", "rejected"}
      BY <2>1
    <3> QED BY <1>3, <1>5, <2>1, <3>1 DEF CancelledIsMarked
  <2> QED BY <2>3, <2>4, <2>5, <2>7, <2>8, <2>9
<1>8. ASSUME row'[j] = row[j], SameObjs(j), due' = due
      PROVE  /\ QueuedIsOpen(j)' /\ RunningIsOpen(j)' /\ GivenBack(j)' /\ PendingIsLeft(j)'
             /\ CancelledIsMarked(j)'
  <2>1. /\ Open(j)' <=> Open(j)
        /\ Exists(j)' <=> Exists(j)
    BY <1>8 DEF Open, Exists
  <2>2. QueuedIsOpen(j)' /\ RunningIsOpen(j)' BY <1>5, <1>8 DEF QueuedIsOpen, RunningIsOpen
  <2> QED BY <1>6, <1>8, <2>1, <2>2 DEF SameObjs
<1>9. CASE Listed(i, j)
  <2>1. row'[j] = row[j] /\ SameObjs(j) /\ due' = due BY <1>9 DEF Listed
  <2>2. /\ \A h \in Instances : ~ Has(h, j)
        /\ row[j].status = "QUEUED" => Open(j)
        /\ Open(j) => row[j].runBy = i
    BY <1>9, ListedIsLeft
  <2>3. \A c \in crashed'[i] : c.job = j => c.copy = row[j] BY <1>9 DEF Listed
  <2>4. Open(j)' <=> Open(j) BY <2>1 DEF Open, Exists
  <2>5. ReadAlone(j)'
    BY <1>1, <1>5, <1>9, <2>1, <2>2, <2>3, <2>4 DEF ReadAlone, Listed
  <2>6. ASSUME NEW h \in Instances \ {i}, NEW d \in crashed[h], QueuedEntry(h, d, j)
        PROVE  row[j].status # "QUEUED"
    <3>1. Open(j) => row[j].runBy = h BY <1>5, <2>6 DEF ReadAlone, QueuedEntry
    <3> QED BY <2>2, <2>6, <3>1
  <2>7. ReadOnce(j)'
    <3> SUFFICES ASSUME NEW g \in Instances, NEW h \in Instances,
                        NEW c \in crashed'[g], NEW d \in crashed'[h],
                        QueuedEntry(g, c, j)', QueuedEntry(h, d, j)'
                 PROVE  g = h /\ c = d
      BY DEF ReadOnce
    <3>1. \A f \in Instances \ {i} : crashed'[f] = crashed[f] BY <1>9 DEF Listed
    <3>2. CASE g = i /\ h = i BY <1>9, <3>2 DEF Listed, QueuedEntry
    <3>3. CASE g # i /\ h # i BY <1>5, <3>1, <3>3 DEF ReadOnce, QueuedEntry
    <3>4. CASE g = i /\ h # i
      <4>1. row[j].status = "QUEUED" BY <2>3, <3>4 DEF QueuedEntry
      <4>2. QueuedEntry(h, d, j) BY <3>1, <3>4 DEF QueuedEntry
      <4> QED BY <2>6, <3>1, <3>4, <4>1, <4>2
    <3>5. CASE g # i /\ h = i
      <4>1. row[j].status = "QUEUED" BY <2>3, <3>5 DEF QueuedEntry
      <4>2. QueuedEntry(g, c, j) BY <3>1, <3>5 DEF QueuedEntry
      <4> QED BY <2>6, <3>1, <3>5, <4>1, <4>2
    <3> QED BY <3>2, <3>3, <3>4, <3>5
  <2> QED BY <1>8, <2>1, <2>5, <2>7
<1>10. ASSUME NEW c \in crashed[i], NEW b \in Rows, Replaced(i, j, c, b)
       PROVE  /\ QueuedIsOpen(j)' /\ RunningIsOpen(j)' /\ ReadAlone(j)' /\ ReadOnce(j)'
              /\ GivenBack(j)' /\ PendingIsLeft(j)' /\ CancelledIsMarked(j)'
  <2>1. row'[j] = row[j] /\ SameObjs(j) /\ due' = due /\ c.job = j BY <1>10 DEF Replaced
  <2>2. PICK e \in crashed'[i] :
           /\ e.job = j /\ e.copy = c.copy /\ e.made
           /\ \A d \in CrashedType : d \in crashed'[i] <=> d \in crashed[i] \ {c} \/ d = e
    BY <1>10 DEF Replaced
  <2>3. \A h \in Instances \ {i} : crashed'[h] = crashed[h] BY <1>10 DEF Replaced
  <2>4. \A h \in Instances : \A d \in crashed'[h] :
           \/ d \in crashed[h] /\ (h = i => d # c)
           \/ h = i /\ d = e
    BY <1>4, <2>2, <2>3
  <2>5. Open(j)' <=> Open(j) BY <2>1 DEF Open, Exists
  <2>6. ReadAlone(j)' BY <1>1, <1>5, <2>1, <2>2, <2>4, <2>5 DEF ReadAlone
  <2>7. ReadOnce(j)'
    BY <1>5, <2>1, <2>2, <2>4 DEF ReadOnce, QueuedEntry
  <2> QED BY <1>8, <2>1, <2>6, <2>7
<1>11. ASSUME NEW c \in crashed[i], MarkedCrashed(i, j, c)
       PROVE  /\ QueuedIsOpen(j)' /\ RunningIsOpen(j)' /\ ReadAlone(j)' /\ ReadOnce(j)'
              /\ GivenBack(j)' /\ PendingIsLeft(j)' /\ CancelledIsMarked(j)'
  <2>1. /\ SameObjs(j) /\ due' = due /\ c.job = j
        /\ \A h \in Instances : crashed'[h] \subseteq crashed[h]
    BY <1>4, <1>11 DEF MarkedCrashed
  <2>2. ~ Open(j)' BY <1>11 DEF MarkedCrashed, Open, Exists
  <2>3. row'[j].status \notin Live
    <3>1. CASE Exists(j) BY <1>11, <3>1 DEF MarkedCrashed, Live
    <3>2. CASE ~ Exists(j) BY <1>11, <3>2 DEF MarkedCrashed, Live, Exists
    <3> QED BY <3>1, <3>2
  <2>4. \A h \in Instances : ~ Has(h, j) BY <1>5, <2>1 DEF ReadAlone
  <2>5. QueuedIsOpen(j)' /\ RunningIsOpen(j)' /\ PendingIsLeft(j)'
    BY <2>3 DEF QueuedIsOpen, RunningIsOpen, PendingIsLeft, Live
  <2>6. ReadAlone(j)' BY <1>1, <1>5, <2>1, <2>2 DEF ReadAlone
  <2>7. ReadOnce(j)' BY <1>5, <2>1 DEF ReadOnce, QueuedEntry
  <2>8. GivenBack(j)' BY <1>1, <1>3, <1>5, <2>1, <2>2 DEF GivenBack, SameObjs
  <2>9. CancelledIsMarked(j)' BY <2>1, <2>4 DEF CancelledIsMarked, SameObjs, Has
  <2> QED BY <2>5, <2>6, <2>7, <2>8, <2>9
<1> QED BY <1>7, <1>9, <1>10, <1>11 DEF PollerEvent

LEMMA StepSettled ==
  ASSUME IInv, IInv', Once, Once', Pollers, NEW j \in Rows, Values(j), Lasting(j), Settled(j),
         RowEvent(j)
  PROVE  Settled(j)'
<1>1. CASE \E i \in Instances : JobEvent(i, j) BY <1>1, JobSettled
<1>2. CASE \A i \in Instances : ~ JobEvent(i, j)
  <2>1. \A h \in Instances : Has(h, j)' => Has(h, j) /\ obj'[h][j] = obj[h][j]
    BY <1>2, RowHas
  <2>2. \A h \in Instances : crashed[h] \subseteq CrashedType /\ crashed'[h] \subseteq CrashedType
    BY DEF IInv, TypeInv
  <2> SUFFICES ASSUME Clean(j)'
               PROVE  /\ QueuedIsOpen(j)' /\ RunningIsOpen(j)' /\ ReadAlone(j)' /\ ReadOnce(j)'
                      /\ GivenBack(j)' /\ PendingIsLeft(j)' /\ CancelledIsMarked(j)'
    BY DEF Settled
  <2>3. /\ QueuedIsOpen(j) /\ RunningIsOpen(j) /\ ReadAlone(j) /\ ReadOnce(j)
        /\ GivenBack(j) /\ PendingIsLeft(j) /\ CancelledIsMarked(j)
    BY DEF Settled, Lasting
  (* What was read of the row is not read again.                           *)
  <2>4. ASSUME \A h \in Instances : \A c \in crashed'[h] : c.job = j => c \in crashed[h],
               Open(j)' => /\ Open(j) /\ row'[j].runBy = row[j].runBy
                           /\ row'[j].status = row[j].status
        PROVE  ReadAlone(j)' /\ ReadOnce(j)'
    BY <2>1, <2>3, <2>4 DEF ReadAlone, ReadOnce, QueuedEntry
  <2>5. CASE Untouched(j)
    <3>1. /\ row'[j] = row[j] /\ \A h \in Instances : obj'[h][j] = obj[h][j]
          /\ (HasMark("cancelled", j)' <=> HasMark("cancelled", j))
          /\ \A h \in Instances : j \in due'[h] => j \in due[h] \/ Due(j)
      BY <2>5 DEF Untouched, Around, SameObjs, SameMarks, MarkKinds, HasMark
    <3>2. (Open(j)' <=> Open(j)) /\ (Exists(j)' <=> Exists(j)) BY <3>1 DEF Open, Exists
    <3>3. QueuedIsOpen(j)' /\ RunningIsOpen(j)' BY <2>3, <3>1 DEF QueuedIsOpen, RunningIsOpen
    <3>4. ReadAlone(j)' /\ ReadOnce(j)'
      BY <2>2, <2>4, <2>5, <3>1, <3>2 DEF Untouched, Around, SameEntries
    <3>5. GivenBack(j)' BY <2>1, <2>3, <3>1, <3>2 DEF GivenBack
    <3>6. PendingIsLeft(j)' BY <2>1, <2>3, <3>1 DEF PendingIsLeft, Due
    <3>7. CancelledIsMarked(j)' BY <2>3, <3>1, <3>2 DEF CancelledIsMarked
    <3> QED BY <3>3, <3>4, <3>5, <3>6, <3>7
  <2>6. CASE Newborn(j)
    <3>1. \A h \in Instances : obj'[h][j].phase = "none"
      BY <2>6 DEF Newborn, Around, SameObjs, Once, RowOnce, Fresh, Used
    <3>2. \A h \in Instances : \A c \in crashed'[h] : c.job # j
      BY <2>2, <2>6 DEF Newborn, Around, SameEntries, Values, EntryValue, Used
    <3>3. \A h \in Instances : ~ Has(h, j)' BY <3>1 DEF Has, Reading
    <3>4. ReadAlone(j)' /\ ReadOnce(j)' BY <3>2 DEF ReadAlone, ReadOnce, QueuedEntry
    <3>5. GivenBack(j)' /\ CancelledIsMarked(j)' BY <3>1 DEF GivenBack, CancelledIsMarked
    <3>6. PendingIsLeft(j)' BY <2>6, <3>3 DEF Newborn, PendingIsLeft
    <3> QED BY <2>6, <3>4, <3>5, <3>6 DEF Newborn, QueuedIsOpen, RunningIsOpen
  <2>7. ASSUME NEW i \in Instances, PollerEvent(i, j)
        PROVE  /\ QueuedIsOpen(j)' /\ RunningIsOpen(j)' /\ ReadAlone(j)' /\ ReadOnce(j)'
               /\ GivenBack(j)' /\ PendingIsLeft(j)' /\ CancelledIsMarked(j)'
    BY <1>2, <2>7, PollerSettled DEF Settled
  <2>8. ASSUME NEW i \in Instances, Killed(i, j)
        PROVE  /\ QueuedIsOpen(j)' /\ RunningIsOpen(j)' /\ ReadAlone(j)' /\ ReadOnce(j)'
               /\ GivenBack(j)' /\ PendingIsLeft(j)' /\ CancelledIsMarked(j)'
    <3>1. /\ row'[j] = row[j] /\ (HasMark("cancelled", j)' <=> HasMark("cancelled", j))
          /\ \A h \in Instances : obj'[h][j] = obj[h][j] \/ obj'[h][j].phase = "none"
          /\ \A h \in Instances : due'[h] \subseteq due[h] /\ crashed'[h] \subseteq crashed[h]
      BY <2>8 DEF Killed, HasMark
    <3>2. (Open(j)' <=> Open(j)) /\ (Exists(j)' <=> Exists(j)) BY <3>1 DEF Open, Exists
    <3>3. QueuedIsOpen(j)' /\ RunningIsOpen(j)' BY <2>3, <3>1 DEF QueuedIsOpen, RunningIsOpen
    <3>4. ReadAlone(j)' /\ ReadOnce(j)' BY <2>4, <3>1, <3>2
    <3>5. GivenBack(j)' BY <2>1, <2>3, <3>1, <3>2 DEF GivenBack
    <3>6. PendingIsLeft(j)' BY <2>1, <2>3, <3>1 DEF PendingIsLeft
    <3>7. CancelledIsMarked(j)' BY <2>3, <3>1, <3>2 DEF CancelledIsMarked
    <3> QED BY <3>3, <3>4, <3>5, <3>6, <3>7
  <2>9. CASE Purged(j)
    <3>1. /\ ~ Open(j)' /\ ~ Exists(j)' /\ row'[j].status = "PURGED" /\ crashed' = crashed
          /\ \A h \in Instances : obj'[h][j].phase = "none"
      BY <2>9 DEF Purged, Open, Exists, SameObjs, jobVars
    <3>2. ReadAlone(j)' /\ ReadOnce(j)' BY <2>4, <3>1
    <3> QED BY <3>1, <3>2
        DEF QueuedIsOpen, RunningIsOpen, GivenBack, PendingIsLeft, CancelledIsMarked
  <2>10. CASE CancelledRow(j)
    <3>1. /\ ~ Open(j)' /\ row'[j].status = "CANCELLED" /\ crashed' = crashed /\ Exists(j)
          /\ \A h \in Instances : obj'[h][j] = obj[h][j]
      BY <2>10 DEF CancelledRow, AdminWrote, Open, SameObjs
    <3>2. ReadAlone(j)' /\ ReadOnce(j)' BY <2>4, <3>1
    <3>3. HasMark("cancelled", j) => HasMark("cancelled", j)'
      BY <2>10 DEF CancelledRow, HasMark
    <3>4. GivenBack(j)' BY <2>1, <2>3, <3>1, <3>3 DEF GivenBack
    <3>5. CancelledIsMarked(j)'
      <4> SUFFICES ASSUME NEW h \in Instances, obj[h][j].phase \in {"queued", "rejected"}
                   PROVE  HasMark("cancelled", j)'
        BY <3>1 DEF CancelledIsMarked
      <4>1. Has(h, j) BY DEF Has
      <4>2. \A g \in Instances \ {h} : ~ Has(g, j) BY <4>1 DEF Once, RowOnce, OneOwner, Lasting
      <4>3. \A g \in Instances : \A c \in crashed[g] : c.job # j
        BY <2>3, <4>1 DEF ReadAlone
      <4>4. ASSUME NEW g \in Instances,
                   obj[g][j].phase \notin {"none", "claimed", "queued", "rejected"}
            PROVE  FALSE
        <5>1. g # h /\ obj[g][j].phase \in Reading BY <4>4 DEF Reading, IInv, TypeInv, ObjsTyped, ObjType
        <5>2. obj[g][j].copy.cancelled BY <4>2, <5>1 DEF Has
        <5>3. obj[g][j].phase \notin Begun \cup {"qread", "iread"} BY <5>2, OwnRead
        <5>4. obj[g][j].phase = "dread" BY <5>1, <5>3 DEF Reading, Phases, Begun
        <5> QED BY <2>3, <4>1, <5>2, <5>4 DEF GivenBack
      <4>5. ~ WriteBackPending(j) BY <4>3, <4>4 DEF WriteBackPending
      <4> QED BY <2>10, <4>5 DEF CancelledRow, HasMark
    <3> QED BY <3>1, <3>2, <3>4, <3>5 DEF QueuedIsOpen, RunningIsOpen, PendingIsLeft
  <2>11. CASE LimitStored(j)
    <3>1. /\ row'[j].status = row[j].status /\ row'[j].started = row[j].started
          /\ row'[j].cancelled = row[j].cancelled /\ row'[j].runBy = row[j].runBy
          /\ (HasMark("cancelled", j)' <=> HasMark("cancelled", j))
          /\ crashed' = crashed /\ due' = due
          /\ \A h \in Instances : obj'[h][j] = obj[h][j]
      BY <2>11 DEF LimitStored, AdminWrote, SameObjs, SameMarks, MarkKinds, HasMark
    <3>2. (Open(j)' <=> Open(j)) /\ (Exists(j)' <=> Exists(j)) BY <3>1 DEF Open, Exists
    <3>3. QueuedIsOpen(j)' /\ RunningIsOpen(j)' BY <2>3, <3>1 DEF QueuedIsOpen, RunningIsOpen
    <3>4. ReadAlone(j)' /\ ReadOnce(j)' BY <2>4, <3>1, <3>2
    <3>5. GivenBack(j)' BY <2>1, <2>3, <3>1, <3>2 DEF GivenBack
    <3>6. PendingIsLeft(j)' BY <2>1, <2>3, <3>1 DEF PendingIsLeft
    <3>7. CancelledIsMarked(j)' BY <2>3, <3>1, <3>2 DEF CancelledIsMarked
    <3> QED BY <3>3, <3>4, <3>5, <3>6, <3>7
  <2>12. ~ Rewritten(j) BY DEF Rewritten, Clean
  <2> QED BY <1>2, <2>5, <2>6, <2>7, <2>8, <2>9, <2>10, <2>11, <2>12 DEF RowEvent
<1> QED BY <1>1, <1>2

-----------------------------------------------------------------------------
(* A schedule does not fork                                                *)

(* Neither rewritten, nor reloaded by an instance that died at it.         *)
Clear(j) == Clean(j) /\ ~ HasMark("unmarked", j)

HasHeir(j) == \E k \in Rows : Heir(j, k)

AtMostOne(j) == \A k, l \in Rows : Heir(j, k) /\ Heir(j, l) => k = l

(* A row with a successor makes no other: its object has recurred or       *)
(* retried already, or reloadCrashedJobs has yet to mark it.               *)
HeirSpent(j) ==
    HasHeir(j) =>
        /\ \A i \in Instances : Has(i, j) =>
              /\ obj[i][j].phase \in Begun \ {"started"}
              /\ obj[i][j].recurred \/ obj[i][j].phase = "failstore"
        /\ \A i \in Instances : \A c \in crashed[i] : QueuedEntry(i, c, j) => c.made
        /\ Open(j) /\ ~ row[j].started =>
              \E i \in Instances : \E c \in crashed[i] : QueuedEntry(i, c, j)

Spent(j) == Clear(j) => AtMostOne(j) /\ HeirSpent(j)

LEMMA HeirsKept ==
  ASSUME NEW j \in Rows, KeepsHeirs(j)
  PROVE  (AtMostOne(j) => AtMostOne(j)') /\ (HasHeir(j)' => HasHeir(j))
BY DEF KeepsHeirs, AtMostOne, HasHeir

LEMMA HeirAdded ==
  ASSUME NEW j \in Rows, NEW b \in Rows, NEW expr, NEW left, HeirMade(j, b, expr, left)
  PROVE  /\ ~ HasHeir(j) => AtMostOne(j)'
         /\ expr = FALSE => (AtMostOne(j) => AtMostOne(j)') /\ (HasHeir(j)' => HasHeir(j))
<1>1. \A k \in Rows \ {b} : Heir(j, k)' <=> Heir(j, k) BY DEF HeirMade
<1>2. expr = FALSE => ~ Heir(j, b)' BY DEF HeirMade, Heir
<1>3. ~ HasHeir(j) => AtMostOne(j)' BY <1>1 DEF HasHeir, AtMostOne
<1>4. expr = FALSE => (AtMostOne(j) => AtMostOne(j)') /\ (HasHeir(j)' => HasHeir(j))
  BY <1>1, <1>2 DEF HasHeir, AtMostOne
<1> QED BY <1>3, <1>4

(* An object that works on a job may still end it.                         *)
LEMMA BegunHas ==
  ASSUME Once, NEW i \in Instances, NEW j \in Rows,
         obj[i][j].phase \in Begun \cup {"qread", "iread"}
  PROVE  Has(i, j)
<1>1. obj[i][j].phase \in Reading BY DEF Begun, Reading, Phases
<1> QED BY <1>1, OwnRead DEF Has

LEMMA JobSpent ==
  ASSUME IInv, IInv', Once, Once', Pollers, NEW j \in Rows, Values(j), Settled(j), Spent(j),
         Clear(j), NEW i \in Instances, JobEvent(i, j)
  PROVE  AtMostOne(j)' /\ HeirSpent(j)'
<1>1. /\ \A h \in Instances \ {i} :
               (Has(h, j)' <=> Has(h, j)) /\ obj'[h][j] = obj[h][j]
      /\ obj[i][j].phase # "none" /\ UNCHANGED jobVars
      /\ Has(i, j)' => \/ Has(i, j)
                       \/ /\ obj[i][j].phase = "claimed" /\ obj'[i][j].phase = "qread"
                          /\ Open(j) /\ row[j].runBy = i /\ row'[j] = row[j]
  BY JobHas
<1>2. UNCHANGED crashed BY <1>1 DEF jobVars
<1>3. Clean(j) /\ ReadAlone(j) /\ AtMostOne(j) /\ HeirSpent(j) BY DEF Clear, Settled, Spent
<1>4. OneOwner(j) /\ StartedIsClosed(j) BY <1>3 DEF Once, RowOnce
<1>5. CASE \E b \in Rows : Recurred(i, j, b) \/ Retried(i, j, b)
  <2>1. /\ obj[i][j].phase \in Begun /\ row'[j] = row[j]
        /\ obj[i][j].phase = "started" \/ (obj[i][j].phase = "fail" /\ ~ obj[i][j].recurred)
        /\ obj'[i][j].phase \in Begun \ {"started"}
        /\ obj'[i][j].recurred \/ obj'[i][j].phase = "failstore"
    BY <1>5 DEF Recurred, Retried, Begun
  <2>2. Has(i, j) BY <2>1, BegunHas
  <2>3. ~ HasHeir(j) BY <1>3, <2>1, <2>2 DEF HeirSpent
  <2>4. AtMostOne(j)' BY <1>5, <2>3, HeirAdded DEF Recurred, Retried
  <2>5. \A h \in Instances : Has(h, j)' => h = i
    BY <1>1, <1>4, <2>2 DEF OneOwner
  <2>6. \A h \in Instances : \A c \in crashed[h] : c.job # j BY <1>3, <2>2 DEF ReadAlone
  <2>7. starts[j] # 0 BY <2>1 DEF Values, ObjValue
  <2>8. ~ (Open(j) /\ ~ row[j].started)' BY <1>4, <2>1, <2>7 DEF StartedIsClosed, Open, Exists
  <2> QED BY <1>2, <2>1, <2>4, <2>5, <2>6, <2>8 DEF HeirSpent, QueuedEntry
<1>6. CASE \A b \in Rows : ~ Recurred(i, j, b) /\ ~ Retried(i, j, b)
  <2>1. KeepsHeirs(j)
    BY <1>6 DEF JobEvent, Dropped, Refreshed, Went, QueuedBack, Dequeued, Started, Ended, Written
  <2>2. AtMostOne(j)' /\ (HasHeir(j)' => HasHeir(j)) BY <1>3, <2>1, HeirsKept
  <2> SUFFICES ASSUME HasHeir(j) PROVE HeirSpent(j)'
    BY <2>2 DEF HeirSpent
  <2>3. /\ \A h \in Instances : Has(h, j) =>
              /\ obj[h][j].phase \in Begun \ {"started"}
              /\ obj[h][j].recurred \/ obj[h][j].phase = "failstore"
        /\ \A h \in Instances : \A c \in crashed[h] : QueuedEntry(h, c, j) => c.made
        /\ Open(j) /\ ~ row[j].started =>
              \E h \in Instances : \E c \in crashed[h] : QueuedEntry(h, c, j)
    BY <1>3 DEF HeirSpent
  (* The claim of a row that is being reloaded does not get any further.   *)
  <2>4. ASSUME obj[i][j].phase = "claimed", Open(j), row[j].runBy = i, ~ row[j].started PROVE FALSE
    <3>1. PICK h \in Instances : \E c \in crashed[h] : QueuedEntry(h, c, j) BY <2>3, <2>4
    <3>2. h = i BY <1>3, <2>4, <3>1 DEF ReadAlone, QueuedEntry
    <3> QED BY <2>4, <3>1, <3>2 DEF Pollers, Idle
  <2>5. ~ Refreshed(i, j) \/ obj[i][j].phase # "claimed" BY <2>4 DEF Refreshed
  <2>6. Has(i, j)' => Has(i, j)
    <3>1. ASSUME obj[i][j].phase = "claimed", obj'[i][j].phase = "qread" PROVE FALSE
      BY <2>5, <3>1 DEF JobEvent, Dropped, Refreshed, Went, QueuedBack, Dequeued, Started, Ended,
         Recurred, Retried
    <3> QED BY <1>1, <3>1
  <2>7. ASSUME Has(i, j)'
        PROVE  /\ obj'[i][j].phase \in Begun \ {"started"}
               /\ obj'[i][j].recurred \/ obj'[i][j].phase = "failstore"
    <3>1. /\ Has(i, j) /\ obj[i][j].phase \in Begun \ {"started"}
          /\ obj[i][j].recurred \/ obj[i][j].phase = "failstore"
      BY <2>3, <2>6, <2>7
    <3>2. obj'[i][j].phase # "none" BY <2>7 DEF Has, Reading
    <3>3. Went(i, j)
      BY <1>6, <3>1, <3>2 DEF JobEvent, Dropped, Refreshed, QueuedBack, Dequeued, Started, Ended,
         Begun
    <3> QED BY <3>1, <3>3 DEF Went, Begun
  <2>8. ASSUME (Open(j) /\ ~ row[j].started)'
        PROVE  \E h \in Instances : \E c \in crashed[h] : QueuedEntry(h, c, j)
    <3>1. row'[j] = row[j] \/ Wrote(i, j) \/ GaveBack(i, j) BY JobWrites
    <3>2. ~ GaveBack(i, j) BY <2>8 DEF GaveBack, Open
    <3>3. ~ Wrote(i, j) BY <2>3, <2>8 DEF Wrote, Begun
    <3>4. Open(j) /\ ~ row[j].started BY <2>8, <3>1, <3>2, <3>3 DEF Open, Exists
    <3> QED BY <2>3, <3>4
  <2> QED BY <1>1, <1>2, <2>3, <2>7, <2>8 DEF HeirSpent, QueuedEntry
<1> QED BY <1>5, <1>6

LEMMA PollerSpent ==
  ASSUME IInv, IInv', Once, Once', Pollers, NEW j \in Rows, Values(j), Settled(j), Spent(j),
         Clear(j), NEW i \in Instances, PollerEvent(i, j), RowEvent(j),
         \A h \in Instances : ~ JobEvent(h, j)
  PROVE  AtMostOne(j)' /\ HeirSpent(j)'
<1>1. \A h \in Instances : Has(h, j)' => Has(h, j) /\ obj'[h][j] = obj[h][j] BY RowHas
<1>2. \A h \in Instances : crashed[h] \subseteq CrashedType /\ crashed'[h] \subseteq CrashedType
  BY DEF IInv, TypeInv
<1>3. /\ Clean(j) /\ QueuedIsOpen(j) /\ ReadAlone(j) /\ ReadOnce(j)
      /\ AtMostOne(j) /\ HeirSpent(j)
  BY DEF Clear, Settled, Spent
<1>4. HasHeir(j) =>
        /\ \A h \in Instances : Has(h, j)' =>
              /\ obj'[h][j].phase \in Begun \ {"started"}
              /\ obj'[h][j].recurred \/ obj'[h][j].phase = "failstore"
        /\ \A h \in Instances : \A d \in crashed[h] : QueuedEntry(h, d, j) => d.made
        /\ Open(j) /\ ~ row[j].started =>
              \E h \in Instances : \E d \in crashed[h] : QueuedEntry(h, d, j)
  BY <1>1, <1>3 DEF HeirSpent
<1>5. CASE Claimed(i, j)
  <2>1. AtMostOne(j)' /\ (HasHeir(j)' => HasHeir(j)) BY <1>3, <1>5, HeirsKept DEF Claimed
  <2>2. /\ crashed' = crashed /\ row'[j].started = row[j].started
        /\ row'[j].cancelled = row[j].cancelled /\ row'[j].status = row[j].status
    BY <1>5 DEF Claimed
  <2>3. Open(j)' => Open(j) BY <2>2 DEF Open, Exists
  <2> QED BY <1>4, <2>1, <2>2, <2>3 DEF HeirSpent, QueuedEntry
<1>6. CASE Listed(i, j)
  <2>1. AtMostOne(j)' /\ (HasHeir(j)' => HasHeir(j)) BY <1>3, <1>6, HeirsKept DEF Listed
  <2>2. /\ row'[j] = row[j] /\ row[j].runBy = i /\ crashed[i] = {}
        /\ \A h \in Instances \ {i} : crashed'[h] = crashed[h]
        /\ \A c \in crashed'[i] : c.job = j => c.copy = row[j] /\ ~ c.made
    BY <1>6 DEF Listed, LeftBehind
  <2>3. Open(j)' => Open(j) BY <2>2 DEF Open, Exists
  (* A row that was read before is not listed again.                       *)
  <2>4. ASSUME HasHeir(j), row[j].status = "QUEUED" PROVE FALSE
    <3>1. Open(j) /\ ~ row[j].started
      BY <1>3, <2>4 DEF QueuedIsOpen, Open, Exists
    <3>2. PICK h \in Instances : \E d \in crashed[h] : QueuedEntry(h, d, j)
      BY <1>4, <2>4, <3>1
    <3>3. row[j].runBy = h BY <1>3, <3>1, <3>2 DEF ReadAlone, QueuedEntry
    <3> QED BY <2>2, <3>2, <3>3
  <2>5. ASSUME HasHeir(j), NEW h \in Instances, NEW d \in crashed'[h], QueuedEntry(h, d, j)'
        PROVE  d.made
    <3>1. h # i BY <2>2, <2>4, <2>5 DEF QueuedEntry
    <3> QED BY <1>4, <2>2, <2>5, <3>1 DEF QueuedEntry
  <2>6. ASSUME HasHeir(j), (Open(j) /\ ~ row[j].started)'
        PROVE  \E h \in Instances : \E d \in crashed'[h] : QueuedEntry(h, d, j)'
    <3>1. PICK h \in Instances : \E d \in crashed[h] : QueuedEntry(h, d, j)
      BY <1>4, <2>2, <2>3, <2>6
    <3>2. crashed'[h] = crashed[h] BY <2>2, <3>1
    <3> QED BY <3>1, <3>2 DEF QueuedEntry
  <2> QED BY <1>4, <2>1, <2>5, <2>6 DEF HeirSpent
<1>7. ASSUME NEW c \in crashed[i], NEW b \in Rows, Replaced(i, j, c, b)
      PROVE  AtMostOne(j)' /\ HeirSpent(j)'
  <2>1. PICK e \in crashed'[i] :
           /\ e.job = j /\ e.copy = c.copy /\ e.made
           /\ \A d \in CrashedType : d \in crashed'[i] <=> d \in crashed[i] \ {c} \/ d = e
    BY <1>7 DEF Replaced
  <2>2. /\ row'[j] = row[j] /\ c.job = j /\ ~ c.made
        /\ \A h \in Instances \ {i} : crashed'[h] = crashed[h]
        /\ HeirMade(j, b, ReloadExpr(c.copy), c.copy.left)
    BY <1>7 DEF Replaced
  <2>3. Open(j)' => Open(j) BY <2>2 DEF Open, Exists
  <2>4. CASE c.copy.status = "QUEUED"
    <3>1. QueuedEntry(i, c, j) BY <2>2, <2>4 DEF QueuedEntry
    <3>2. ~ HasHeir(j) BY <1>4, <2>2, <3>1
    <3>3. AtMostOne(j)' BY <2>2, <3>2, HeirAdded
    <3>4. \A h \in Instances : ~ Has(h, j)' BY <1>1, <1>3, <2>2 DEF ReadAlone
    <3>5. ASSUME NEW h \in Instances, NEW d \in crashed'[h], QueuedEntry(h, d, j)'
          PROVE  d.made
      <4>1. CASE d \in crashed[h] /\ ~ (h = i /\ d = c)
        <5>1. QueuedEntry(h, d, j) BY <3>5, <4>1 DEF QueuedEntry
        <5> QED BY <1>3, <3>1, <4>1, <5>1 DEF ReadOnce
      <4>2. CASE h = i /\ d = e BY <2>1, <4>2
      <4> QED BY <1>2, <2>1, <2>2, <4>1, <4>2
    <3>6. QueuedEntry(i, e, j)' BY <2>1, <2>4 DEF QueuedEntry
    <3> QED BY <3>3, <3>4, <3>5, <3>6 DEF HeirSpent
  <2>5. CASE c.copy.status # "QUEUED"
    <3>1. ReloadExpr(c.copy) = FALSE BY <2>5 DEF ReloadExpr
    <3>2. AtMostOne(j)' /\ (HasHeir(j)' => HasHeir(j)) BY <1>3, <2>2, <3>1, HeirAdded
    <3>3. ASSUME NEW h \in Instances, NEW d PROVE QueuedEntry(h, d, j)' <=> QueuedEntry(h, d, j)
      <4>1. CASE h # i BY <2>2, <4>1 DEF QueuedEntry
      <4>2. CASE h = i
        <5>1. ~ QueuedEntry(i, c, j) /\ ~ QueuedEntry(i, e, j) /\ ~ QueuedEntry(i, e, j)'
          BY <2>1, <2>5 DEF QueuedEntry
        <5>2. d # c /\ d # e => (d \in crashed'[i] <=> d \in crashed[i])
          BY <1>2, <2>1
        <5> QED BY <4>2, <5>1, <5>2 DEF QueuedEntry
      <4> QED BY <4>1, <4>2
    <3>4. \A h \in Instances : \A d \in crashed'[h] : QueuedEntry(h, d, j)' => d \in crashed[h] /\ QueuedEntry(h, d, j)
      BY <3>3 DEF QueuedEntry
    <3>5. \A h \in Instances : \A d \in crashed[h] : QueuedEntry(h, d, j) => d \in crashed'[h] /\ QueuedEntry(h, d, j)'
      BY <3>3 DEF QueuedEntry
    <3> QED BY <1>4, <2>2, <2>3, <3>2, <3>4, <3>5 DEF HeirSpent
  <2> QED BY <2>4, <2>5
<1>8. ASSUME NEW c \in crashed[i], MarkedCrashed(i, j, c) PROVE AtMostOne(j)' /\ HeirSpent(j)'
  <2>1. AtMostOne(j)' /\ (HasHeir(j)' => HasHeir(j)) BY <1>3, <1>8, HeirsKept DEF MarkedCrashed
  <2>2. ~ Open(j)' BY <1>8 DEF MarkedCrashed, Open, Exists
  <2>3. \A h \in Instances : crashed'[h] \subseteq crashed[h]
    BY <1>2, <1>8 DEF MarkedCrashed
  <2> QED BY <1>4, <2>1, <2>2, <2>3 DEF HeirSpent, QueuedEntry
<1> QED BY <1>5, <1>6, <1>7, <1>8 DEF PollerEvent

LEMMA StepSpent ==
  ASSUME IInv, IInv', Once, Once', Pollers, NEW j \in Rows, \A k \in Rows : Values(k), Lasting(j),
         Settled(j), Spent(j), RowEvent(j)
  PROVE  Spent(j)'
<1> SUFFICES ASSUME Clear(j)' PROVE AtMostOne(j)' /\ HeirSpent(j)'
  BY DEF Spent
<1>1. CASE Newborn(j)
  <2>1. ~ HasHeir(j)
    <3> SUFFICES ASSUME NEW k \in Rows, Heir(j, k) PROVE FALSE
      BY DEF HasHeir
    <3>1. row[k].prev = j /\ (row[k].prev = 0 \/ Used(row[k].prev))
      BY DEF Heir, Values, RowValue
    <3>2. ~ Used(j) BY <1>1 DEF Newborn, Used
    <3>3. j # 0 BY JobAssumption DEF Rows
    <3> QED BY <3>1, <3>2, <3>3 DEF Used
  <2>2. KeepsHeirs(j) BY <1>1 DEF Newborn, Around
  <2>3. ~ HasHeir(j)' BY <2>1, <2>2, HeirsKept
  <2>4. AtMostOne(j)' BY <2>1, <2>2 DEF KeepsHeirs, HasHeir, AtMostOne
  <2> QED BY <2>3, <2>4 DEF HeirSpent
<1>2. CASE ~ Newborn(j)
  <2>1. Clear(j)
    <3>1. ASSUME HasMark("unmarked", j) PROVE HasMark("unmarked", j)'
      <4>1. CASE Untouched(j) \/ LimitStored(j)
        BY <3>1, <4>1 DEF Untouched, Around, LimitStored, SameMarks, MarkKinds, HasMark
      <4>2. CASE CancelledRow(j) \/ \E i \in Instances : Killed(i, j)
        BY <3>1, <4>2 DEF CancelledRow, Killed, HasMark
      <4>3. CASE \E i \in Instances : JobEvent(i, j)
        BY <3>1, <4>3, JobHas DEF jobVars, HasMark
      <4>4. CASE Purged(j) \/ \E i \in Instances : PollerEvent(i, j)
        BY <3>1, <4>4
           DEF Purged, jobVars, PollerEvent, Claimed, Listed, MarkedCrashed, Replaced, HasMark
      <4>5. ~ Rewritten(j) BY DEF Rewritten, Clear, Clean
      <4> QED BY <1>2, <4>1, <4>2, <4>3, <4>4, <4>5 DEF RowEvent
    <3> QED BY <3>1 DEF Lasting, Clear
  <2>2. CASE \E i \in Instances : JobEvent(i, j) BY <2>1, <2>2, JobSpent
  <2>3. CASE \A i \in Instances : ~ JobEvent(i, j)
    <3>1. \A h \in Instances : Has(h, j)' => Has(h, j) /\ obj'[h][j] = obj[h][j]
      BY <2>3, RowHas
    <3>2. \A h \in Instances : crashed[h] \subseteq CrashedType /\ crashed'[h] \subseteq CrashedType
      BY DEF IInv, TypeInv
    <3>3. AtMostOne(j) /\ HeirSpent(j) BY <2>1 DEF Spent
    <3>4. ASSUME KeepsHeirs(j),
                 \A h \in Instances : \A c \in crashed'[h] : c.job = j => c \in crashed[h],
                 Open(j)' => /\ Open(j) /\ row'[j].started = row[j].started
                             /\ \A h \in Instances : \A c \in crashed[h] :
                                   QueuedEntry(h, c, j) /\ c.made => c \in crashed'[h]
          PROVE  AtMostOne(j)' /\ HeirSpent(j)'
      <4>1. AtMostOne(j)' /\ (HasHeir(j)' => HasHeir(j)) BY <3>3, <3>4, HeirsKept
      <4> SUFFICES ASSUME HasHeir(j) PROVE HeirSpent(j)'
        BY <4>1 DEF HeirSpent
      <4>2. \A h \in Instances : Has(h, j)' =>
              /\ obj'[h][j].phase \in Begun \ {"started"}
              /\ obj'[h][j].recurred \/ obj'[h][j].phase = "failstore"
        BY <3>1, <3>3 DEF HeirSpent
      <4>3. \A h \in Instances : \A c \in crashed'[h] : QueuedEntry(h, c, j)' => c.made
        BY <3>3, <3>4 DEF HeirSpent, QueuedEntry
      <4>4. ASSUME (Open(j) /\ ~ row[j].started)'
            PROVE  \E h \in Instances : \E c \in crashed'[h] : QueuedEntry(h, c, j)'
        <5>1. PICK h \in Instances : \E c \in crashed[h] : QueuedEntry(h, c, j) /\ c.made
          BY <3>3, <3>4, <4>4 DEF HeirSpent
        <5>2. PICK c \in crashed[h] : QueuedEntry(h, c, j) /\ c.made BY <5>1
        <5>3. c \in crashed'[h] BY <3>4, <4>4, <5>2
        <5>4. QueuedEntry(h, c, j)' BY <5>2, <5>3 DEF QueuedEntry
        <5> QED BY <5>3, <5>4
      <4> QED BY <4>2, <4>3, <4>4 DEF HeirSpent
    <3>5. CASE Untouched(j)
      BY <3>2, <3>4, <3>5 DEF Untouched, Around, SameEntries, Open, Exists, QueuedEntry
    <3>6. ASSUME NEW i \in Instances, Killed(i, j) PROVE AtMostOne(j)' /\ HeirSpent(j)'
      <4>1. \A c \in crashed[i] : ~ (c.job = j /\ c.made)
        BY <3>6 DEF Killed, Clear, HasMark
      <4> QED BY <3>4, <3>6, <4>1 DEF Killed, Open, Exists, QueuedEntry
    <3>7. CASE Purged(j) \/ CancelledRow(j)
      BY <3>4, <3>7 DEF Purged, jobVars, CancelledRow, AdminWrote, Open, Exists
    <3>8. CASE LimitStored(j)
      BY <3>4, <3>8 DEF LimitStored, AdminWrote, Open, Exists
    <3>9. ~ Rewritten(j) BY DEF Rewritten, Clear, Clean
    <3>10. ASSUME NEW i \in Instances, PollerEvent(i, j) PROVE AtMostOne(j)' /\ HeirSpent(j)'
      BY <2>1, <2>3, <3>10, PollerSpent
    <3> QED BY <1>2, <2>3, <3>5, <3>6, <3>7, <3>8, <3>9, <3>10 DEF RowEvent
  <2> QED BY <2>2, <2>3
<1> QED BY <1>1, <1>2

-----------------------------------------------------------------------------
(* A schedule does not die                                                 *)

Recurring(j) == row[j].expr /\ row[j].plan > 0

Succ(j) == \E k \in Rows : Heir(j, k) /\ row[k].plan + 1 >= row[j].plan

(* What may end a schedule, as ScheduleLives says.                         *)
Excused(j) == Marked(j, {"unqueued", "unrecurred", "cancelled", "rewritten"})

Succeeded(j) == Recurring(j) => Succ(j) \/ Excused(j)

(* Once init() has made the recurrence, the row has its successor ...      *)
BegunSucceeded(j) ==
    \A i \in Instances : obj[i][j].phase \in Begun \ {"started"} => Succeeded(j)

(* ... until then the job is known to be starting ...                      *)
RunningSucceeded(j) ==
    row[j].status = "RUNNING" =>
        Succeeded(j) \/ \E i \in Instances : obj[i][j].phase = "started"

EndedSucceeded(j) == row[j].status \in {"FINISHED", "FAILED", "CRASHED"} => Succeeded(j)

(* ... and a row that is reloaded has one, or gets it from the reload.     *)
ReadSucceeded(j) ==
    \A i \in Instances : \A c \in crashed[i] :
        c.job = j /\ (c.made \/ c.copy.status \in {"PENDING", "RUNNING"}) => Succeeded(j)

(* A pending row that is claimed is about to be queued.                    *)
ClaimIsQueued(j) ==
    row[j].status = "PENDING" =>
        \A i \in Instances :
            row[j].runBy = i => Excused(j) \/ obj[i][j].phase \in {"claimed", "qread"}

CarriedOn(j) ==
    /\ BegunSucceeded(j) /\ RunningSucceeded(j) /\ EndedSucceeded(j) /\ ReadSucceeded(j)
    /\ Clean(j) => ClaimIsQueued(j)

LEMMA UncleanExcused ==
  ASSUME NEW j \in Rows
  PROVE  (~ Clean(j) => Excused(j)) /\ (~ Clean(j)' => Excused(j)')
BY DEF Clean, Excused, Marked

LEMMA StaysExcused ==
  ASSUME IInv', Once, Once', NEW j \in Rows, RowEvent(j), Excused(j)
  PROVE  Excused(j)'
<1> DEFINE K == {"unqueued", "unrecurred", "cancelled", "rewritten"}
<1>1. PICK w \in K : <<w, j>> \in marks BY DEF Excused, Marked
<1>2. ASSUME <<w, j>> \in marks' PROVE Excused(j)' BY <1>2 DEF Excused, Marked
<1>3. CASE Untouched(j) \/ Newborn(j) \/ LimitStored(j)
  BY <1>1, <1>2, <1>3 DEF Untouched, Newborn, Around, LimitStored, SameMarks, MarkKinds
<1>4. CASE CancelledRow(j) \/ \E i \in Instances : Killed(i, j)
  BY <1>1, <1>2, <1>4 DEF CancelledRow, Killed
<1>5. CASE \E i \in Instances : JobEvent(i, j)
  BY <1>1, <1>2, <1>5, JobHas DEF jobVars
<1>6. CASE Purged(j) \/ \E i \in Instances : PollerEvent(i, j)
  BY <1>1, <1>2, <1>6
     DEF Purged, jobVars, PollerEvent, Claimed, Listed, MarkedCrashed, Replaced
<1>7. CASE Rewritten(j) BY <1>7 DEF Rewritten, Excused, Marked
<1> QED BY <1>3, <1>4, <1>5, <1>6, <1>7 DEF RowEvent

LEMMA StaysSucceeded ==
  ASSUME IInv', Once, Once', NEW j \in Rows, Lasting(j), Used(j), RowEvent(j), Succeeded(j)
  PROVE  Succeeded(j)'
<1>1. Recurring(j)' => Recurring(j) BY DEF Recurring, Lasting
<1>2. Excused(j) => Excused(j)' BY StaysExcused
<1>3. ASSUME NEW k \in Rows, Heir(j, k), row[k].plan + 1 >= row[j].plan,
             Heir(j, k)', row'[k].plan = row[k].plan
      PROVE  Succ(j)'
  <2>1. row'[k].plan + 1 >= row'[j].plan BY <1>3 DEF Lasting
  <2> QED BY <1>3, <2>1 DEF Succ
<1>4. KeepsHeirs(j) => (Succ(j) => Succ(j)') BY <1>3 DEF KeepsHeirs, Succ
<1>5. ASSUME NEW b \in Rows, NEW expr, NEW left, HeirMade(j, b, expr, left)
      PROVE  Succ(j) => Succ(j)'
  <2>1. ~ Heir(j, b) BY <1>5 DEF HeirMade, Heir
  <2> QED BY <1>3, <1>5, <2>1 DEF HeirMade, Succ
<1>6. ASSUME NEW i \in Instances, JobEvent(i, j) PROVE Succ(j) => Succ(j)'
  <2>1. \A b \in Rows : Recurred(i, j, b) \/ Retried(i, j, b) => (Succ(j) => Succ(j)')
    BY <1>5 DEF Recurred, Retried
  <2> QED BY <1>4, <1>6, <2>1
      DEF JobEvent, Dropped, Refreshed, Went, QueuedBack, Dequeued, Started, Ended, Written
<1>7. ASSUME NEW i \in Instances, PollerEvent(i, j) PROVE Succ(j) => Succ(j)'
  <2>1. \A c \in crashed[i], b \in Rows : Replaced(i, j, c, b) => (Succ(j) => Succ(j)')
    BY <1>5 DEF Replaced
  <2> QED BY <1>4, <1>7, <2>1 DEF PollerEvent, Claimed, Listed, MarkedCrashed
<1>8. Succ(j) => Succ(j)'
  BY <1>4, <1>6, <1>7 DEF RowEvent, Untouched, Newborn, Around, Killed, Purged, CancelledRow,
     LimitStored, Rewritten, AdminWrote
<1> QED BY <1>1, <1>2, <1>8 DEF Succeeded

(* The successor a step makes is the one the schedule asks for.            *)
LEMMA NowSucceeded ==
  ASSUME IInv', NEW j \in Rows, Lasting(j), Used(j), NEW b \in Rows, NEW expr, NEW left \in Nat,
         HeirMade(j, b, expr, left), Clean(j) /\ row[j].expr => expr,
         Clean(j) => left + 1 >= row[j].plan, Clean(j)' <=> Clean(j)
  PROVE  Succeeded(j)'
<1>1. CASE ~ Clean(j) BY <1>1, UncleanExcused DEF Succeeded
<1>2. CASE Clean(j)
  <2> SUFFICES ASSUME Recurring(j)' PROVE Succ(j)'
    BY DEF Succeeded
  <2>1. row[j].expr /\ row'[j].plan = row[j].plan BY DEF Recurring, Lasting
  <2>2. expr BY <1>2, <2>1
  <2>3. Heir(j, b)' /\ row'[b].plan = left BY <2>2 DEF HeirMade, Heir, Used
  <2>4. row'[b].plan + 1 >= row'[j].plan BY <1>2, <2>1, <2>3
  <2> QED BY <2>3, <2>4 DEF Succ
<1> QED BY <1>1, <1>2

LEMMA JobCarriedOn ==
  ASSUME IInv, IInv', Once, Once', NEW j \in Rows, Values(j), Lasting(j), RowEvent(j),
         Settled(j), Attended(j), CarriedOn(j), NEW i \in Instances, JobEvent(i, j)
  PROVE  CarriedOn(j)'
<1>1. /\ \A h \in Instances \ {i} : obj'[h][j] = obj[h][j]
      /\ obj[i][j].phase # "none" /\ UNCHANGED jobVars
  BY JobHas
<1>2. UNCHANGED <<crashed, marks>> /\ (Clean(j)' <=> Clean(j)) BY <1>1 DEF jobVars, Clean
<1>3. Used(j) /\ Used(j)' BY <1>1, ObjUsed DEF Lasting
<1>4. (Succeeded(j) => Succeeded(j)') /\ (Excused(j) => Excused(j)')
  BY <1>3, StaysSucceeded, StaysExcused
<1>5. /\ BegunSucceeded(j) /\ RunningSucceeded(j) /\ EndedSucceeded(j) /\ ReadSucceeded(j)
      /\ Clean(j) => ClaimIsQueued(j)
  BY DEF CarriedOn
<1>6. row'[j] = row[j] \/ Wrote(i, j) \/ GaveBack(i, j) BY JobWrites
(* The successor is made, or none is asked for.                            *)
<1>7. ASSUME NEW b \in Rows, Recurred(i, j, b) PROVE Succeeded(j)'
  <2>1. /\ obj[i][j].phase \in Reading /\ obj[i][j].phase = "started"
        /\ HeirMade(j, b, obj[i][j].copy.expr, obj[i][j].copy.left - 1)
        /\ obj[i][j].copy \in RowType /\ obj[i][j].copy.left > 0
    BY <1>7 DEF Recurred, Reading, Phases
  <2>2. ValueOk(j, obj[i][j].copy) /\ (Clean(j) => obj[i][j].copy.left = obj[i][j].copy.plan)
    BY <2>1 DEF Values, ObjValue
  <2>3. ValueOk(j, row[j]) /\ row[j] \in RowType
    BY <1>3 DEF Values, RowValue, IInv, TypeInv, RowsTyped, Used
  <2>4. obj[i][j].copy.left - 1 \in Nat BY <2>1 DEF RowType
  <2>5. Clean(j) => obj[i][j].copy.left - 1 + 1 >= row[j].plan
    BY <2>1, <2>2, <2>3 DEF ValueOk, RowType
  <2>6. obj[i][j].copy.expr = row[j].expr BY <2>2 DEF ValueOk
  <2> QED BY <1>2, <1>3, <2>1, <2>4, <2>5, <2>6, NowSucceeded
<1>8. ASSUME NEW r \in RowType, Started(i, j, r), obj'[i][j].phase # "started"
      PROVE  Succeeded(j)'
  <2>1. CASE ~ Clean(j) BY <1>2, <2>1, UncleanExcused DEF Succeeded
  <2>2. CASE Clean(j)
    <3>1. obj[i][j].phase = "iread" /\ obj[i][j].phase \in Reading
      BY <1>8 DEF Started, Reading, Phases
    <3>2. Has(i, j) BY <3>1, BegunHas
    <3>3. starts[j] = 0
      BY <2>2, <3>1, <3>2 DEF Once, RowOnce, StartedIsClosed, Begun
    <3>4. ValueOk(j, obj[i][j].copy) BY <3>1 DEF Values, ObjValue
    <3>5. ~ (r.expr /\ r.left > 0) BY <1>8 DEF Started
    <3>6. r.expr = row[j].expr /\ r.left = row[j].plan
      BY <1>8, <3>3, <3>4 DEF Started, Written, ValueOk
    <3>7. ~ Recurring(j)' BY <1>3, <3>5, <3>6 DEF Recurring, Lasting
    <3> QED BY <3>7 DEF Succeeded
  <2> QED BY <2>1, <2>2
<1>9. BegunSucceeded(j)'
  <2> SUFFICES ASSUME NEW h \in Instances, obj'[h][j].phase \in Begun \ {"started"}
               PROVE  Succeeded(j)'
    BY DEF BegunSucceeded
  <2>1. CASE h # i BY <1>1, <1>4, <1>5, <2>1 DEF BegunSucceeded
  <2>2. CASE h = i
    <3>1. CASE obj[i][j].phase \in Begun \ {"started"} BY <1>4, <1>5, <3>1 DEF BegunSucceeded
    <3>2. CASE obj[i][j].phase \notin Begun \ {"started"}
      <4>1. \/ \E b \in Rows : Recurred(i, j, b)
            \/ \E r \in RowType : Started(i, j, r)
        BY <2>2, <3>2 DEF JobEvent, Dropped, Refreshed, Went, QueuedBack, Dequeued, Ended, Retried,
           Begun
      <4> QED BY <1>7, <1>8, <2>2, <4>1
    <3> QED BY <3>1, <3>2
  <2> QED BY <2>1, <2>2
<1>10. RunningSucceeded(j)'
  <2> SUFFICES ASSUME row'[j].status = "RUNNING",
                      \A h \in Instances : obj'[h][j].phase # "started"
               PROVE  Succeeded(j)'
    BY DEF RunningSucceeded
  <2>1. ~ GaveBack(i, j) BY DEF GaveBack
  <2>2. ASSUME obj'[i][j].phase \in Begun PROVE Succeeded(j)'
    BY <1>9, <2>2 DEF BegunSucceeded
  <2>3. CASE Wrote(i, j) BY <2>2, <2>3 DEF Wrote
  <2>4. CASE row'[j] = row[j]
    <3>1. CASE Succeeded(j) BY <1>4, <3>1
    <3>2. CASE \E h \in Instances : obj[h][j].phase = "started"
      <4>1. obj[i][j].phase = "started" BY <1>1, <3>2
      <4>2. obj'[i][j].phase \in Begun
        BY <4>1 DEF JobEvent, Dropped, Refreshed, Went, QueuedBack, Dequeued, Started, Ended,
           Recurred, Retried, Begun
      <4> QED BY <2>2, <4>2
    <3> QED BY <1>5, <2>4, <3>1, <3>2 DEF RunningSucceeded
  <2> QED BY <1>6, <2>1, <2>3, <2>4
<1>11. EndedSucceeded(j)'
  <2> SUFFICES ASSUME row'[j].status \in {"FINISHED", "FAILED", "CRASHED"} PROVE Succeeded(j)'
    BY DEF EndedSucceeded
  <2>1. CASE row'[j] = row[j] BY <1>4, <1>5, <2>1 DEF EndedSucceeded
  <2>2. CASE Wrote(i, j) BY <1>4, <1>5, <2>2 DEF Wrote, BegunSucceeded, Begun
  <2> QED BY <1>6, <2>1, <2>2 DEF GaveBack
<1>12. ReadSucceeded(j)' BY <1>2, <1>4, <1>5 DEF ReadSucceeded
<1>13. ASSUME Clean(j) PROVE ClaimIsQueued(j)'
  <2> SUFFICES ASSUME row'[j].status = "PENDING", NEW h \in Instances, row'[j].runBy = h
               PROVE  Excused(j)' \/ obj'[h][j].phase \in {"claimed", "qread"}
    BY DEF ClaimIsQueued
  <2>0. h # None BY SemaphoreAssumption
  <2>1. row'[j] = row[j] BY <1>6, <2>0 DEF Wrote, GaveBack
  <2>2. Excused(j) \/ obj[h][j].phase \in {"claimed", "qread"}
    BY <1>5, <1>13, <2>1 DEF ClaimIsQueued
  <2>3. CASE h # i BY <1>1, <1>4, <2>2, <2>3
  <2>4. CASE h = i /\ ~ Excused(j)
    <3>1. obj[i][j].phase \in {"claimed", "qread"} BY <2>2, <2>4
    <3>2. CASE \E r \in RowType : QueuedBack(i, j, r)
      <4>1. PICK r \in RowType : QueuedBack(i, j, r) BY <3>2
      <4>2. Exists(j) BY <2>1 DEF Exists
      <4> QED BY <4>1, <4>2 DEF QueuedBack, Written
    <3>3. CASE Dropped(i, j)
      <4>1. obj[i][j].phase = "claimed" /\ (Open(j) => row[j].started)
        BY <2>1, <2>4, <3>1, <3>3 DEF Dropped
      <4>2. Open(j) => starts[j] = 0
        BY <1>13, <2>1, <2>4, <4>1 DEF Attended, ClaimedFresh
      <4>3. starts[j] = 0 => ~ row[j].started BY <1>3 DEF Values, RowValue, ValueOk
      <4>4. row[j].cancelled /\ row[j].status = "PENDING"
        BY <2>1, <4>1, <4>2, <4>3 DEF Open, Exists
      <4>5. HasMark("cancelled", j)
        BY <1>13, <2>0, <2>1, <4>4 DEF Settled, PendingIsLeft
      <4> QED BY <2>4, <4>5 DEF HasMark, Excused, Marked
    <3>4. CASE Refreshed(i, j) BY <2>4, <3>1, <3>4 DEF Refreshed
    <3> QED BY <3>1, <3>2, <3>3, <3>4
        DEF JobEvent, Went, Dequeued, Started, Ended, Recurred, Retried
  <2>5. CASE Excused(j) BY <1>4, <2>5
  <2> QED BY <2>3, <2>4, <2>5
<1> QED BY <1>2, <1>9, <1>10, <1>11, <1>12, <1>13 DEF CarriedOn

LEMMA PollerCarriedOn ==
  ASSUME IInv, IInv', Once, Once', Pollers, NEW j \in Rows, Values(j), Lasting(j), RowEvent(j),
         Settled(j), CarriedOn(j), NEW i \in Instances, PollerEvent(i, j)
  PROVE  CarriedOn(j)'
<1>1. UNCHANGED marks BY DEF PollerEvent, Claimed, Listed, MarkedCrashed, Replaced
<1>2. Clean(j)' <=> Clean(j) BY <1>1 DEF Clean
<1>3. Used(j) => (Succeeded(j) => Succeeded(j)') /\ (Excused(j) => Excused(j)')
  BY StaysSucceeded, StaysExcused
<1>4. /\ BegunSucceeded(j) /\ RunningSucceeded(j) /\ EndedSucceeded(j) /\ ReadSucceeded(j)
      /\ Clean(j) => ClaimIsQueued(j)
  BY DEF CarriedOn
<1>5. Used(j)
  BY DEF PollerEvent, Claimed, Listed, LeftBehind, MarkedCrashed, Replaced, Exists, Used, NoRow,
     Values, EntryValue
<1>6. \A h \in Instances : crashed[h] \subseteq CrashedType /\ crashed'[h] \subseteq CrashedType
  BY DEF IInv, TypeInv
<1>7. \A h \in Instances : obj'[h][j] = obj[h][j] \/ (h = i /\ Claimed(i, j))
  BY DEF PollerEvent, Claimed, Listed, MarkedCrashed, Replaced, SameObjs
<1>8. BegunSucceeded(j)'
  BY <1>3, <1>4, <1>5, <1>7 DEF BegunSucceeded, Claimed, Begun
<1>9. ASSUME row'[j].status = row[j].status
      PROVE  RunningSucceeded(j)' /\ EndedSucceeded(j)'
  <2>1. \A h \in Instances : obj[h][j].phase = "started" => obj'[h][j].phase = "started"
    BY <1>7 DEF Claimed
  <2> QED BY <1>3, <1>4, <1>5, <1>9, <2>1 DEF RunningSucceeded, EndedSucceeded
<1>10. ASSUME row'[j] = row[j], SameObjs(j)
       PROVE  RunningSucceeded(j)' /\ EndedSucceeded(j)' /\ (Clean(j) => ClaimIsQueued(j)')
  BY <1>3, <1>4, <1>5, <1>9, <1>10 DEF ClaimIsQueued, SameObjs
<1>11. CASE Claimed(i, j)
  <2>1. /\ crashed' = crashed /\ row'[j].status = row[j].status
        /\ row'[j].runBy = i /\ obj'[i][j].phase = "claimed"
    BY <1>11 DEF Claimed
  <2>2. ReadSucceeded(j)' BY <1>3, <1>4, <1>5, <2>1 DEF ReadSucceeded
  <2>3. ClaimIsQueued(j)' BY <2>1 DEF ClaimIsQueued
  <2> QED BY <1>8, <1>9, <2>1, <2>2, <2>3 DEF CarriedOn
<1>12. CASE Listed(i, j)
  <2>1. /\ row'[j] = row[j] /\ SameObjs(j) /\ row[j].runBy = i /\ row[j].status \in Live
        /\ \A h \in Instances \ {i} : crashed'[h] = crashed[h]
        /\ \A c \in crashed'[i] : c.job = j => c.copy = row[j] /\ ~ c.made
    BY <1>12 DEF Listed, LeftBehind
  <2>2. obj[i][j].phase = "none" BY <1>12 DEF Listed, Pollers, Idle
  <2>3. ASSUME row[j].status \in {"PENDING", "RUNNING"} PROVE Succeeded(j)
    <3>1. CASE ~ Clean(j) BY <3>1, UncleanExcused DEF Succeeded
    <3>2. CASE Clean(j) /\ row[j].status = "PENDING"
      BY <1>4, <2>1, <2>2, <3>2 DEF ClaimIsQueued, Succeeded
    <3>3. CASE Clean(j) /\ row[j].status = "RUNNING"
      <4>1. ASSUME NEW h \in Instances, obj[h][j].phase = "started" PROVE FALSE
        <5>1. Has(h, j) BY <4>1, BegunHas DEF Begun
        <5> QED BY <1>12, <3>3, <5>1, ListedIsLeft
      <4> QED BY <1>4, <3>3, <4>1 DEF RunningSucceeded
    <3> QED BY <2>3, <3>1, <3>2, <3>3
  <2>4. ReadSucceeded(j)'
    <3> SUFFICES ASSUME NEW h \in Instances, NEW c \in crashed'[h], c.job = j,
                        c.made \/ c.copy.status \in {"PENDING", "RUNNING"}
                 PROVE  Succeeded(j)'
      BY DEF ReadSucceeded
    <3>1. CASE h = i BY <1>3, <1>5, <2>1, <2>3, <3>1
    <3>2. CASE h # i BY <1>3, <1>4, <1>5, <2>1, <3>2 DEF ReadSucceeded
    <3> QED BY <3>1, <3>2
  <2> QED BY <1>2, <1>8, <1>10, <2>1, <2>4 DEF CarriedOn
<1>13. ASSUME NEW c \in crashed[i], NEW b \in Rows, Replaced(i, j, c, b) PROVE CarriedOn(j)'
  <2>1. PICK e \in crashed'[i] :
           /\ e.job = j /\ e.copy = c.copy /\ e.made
           /\ \A d \in CrashedType : d \in crashed'[i] <=> d \in crashed[i] \ {c} \/ d = e
    BY <1>13 DEF Replaced
  <2>2. /\ row'[j] = row[j] /\ SameObjs(j) /\ c.job = j
        /\ \A h \in Instances \ {i} : crashed'[h] = crashed[h]
        /\ HeirMade(j, b, ReloadExpr(c.copy), c.copy.left)
    BY <1>13 DEF Replaced
  <2>3. c.copy \in RowType /\ c.copy.status \in Live /\ ValueOk(j, c.copy)
    BY <1>6, <2>2 DEF CrashedType, Values, EntryValue
  <2>4. ASSUME c.copy.status \in {"PENDING", "RUNNING"} PROVE Succeeded(j)'
    BY <1>3, <1>4, <1>5, <2>2, <2>4 DEF ReadSucceeded
  <2>5. ASSUME c.copy.status = "QUEUED" PROVE Succeeded(j)'
    <3>1. row[j].expr => ReloadExpr(c.copy) BY <2>3, <2>5 DEF ReloadExpr, ValueOk
    <3>2. Clean(j) => c.copy.left + 1 >= row[j].plan BY <2>3 DEF ValueOk
    <3>3. c.copy.left \in Nat BY <2>3 DEF RowType
    <3> QED BY <1>2, <1>5, <2>2, <3>1, <3>2, <3>3, NowSucceeded
  <2>6. Succeeded(j)' BY <2>3, <2>4, <2>5 DEF Live
  <2>7. ReadSucceeded(j)' BY <2>6 DEF ReadSucceeded
  <2> QED BY <1>2, <1>8, <1>10, <2>2, <2>7 DEF CarriedOn
<1>14. ASSUME NEW c \in crashed[i], MarkedCrashed(i, j, c) PROVE CarriedOn(j)'
  <2>1. c.job = j /\ c.made /\ \A h \in Instances : crashed'[h] \subseteq crashed[h]
    BY <1>6, <1>14 DEF MarkedCrashed
  <2>2. Succeeded(j)' BY <1>3, <1>4, <1>5, <2>1 DEF ReadSucceeded
  <2>3. row'[j].status # "PENDING" /\ row'[j].status # "RUNNING"
    <3>1. CASE Exists(j) BY <1>14, <3>1 DEF MarkedCrashed
    <3>2. CASE ~ Exists(j) BY <1>14, <3>2 DEF MarkedCrashed, Exists
    <3> QED BY <3>1, <3>2
  <2> QED BY <2>2, <2>3 DEF CarriedOn, BegunSucceeded, RunningSucceeded, EndedSucceeded,
          ReadSucceeded, ClaimIsQueued
<1> QED BY <1>11, <1>12, <1>13, <1>14 DEF PollerEvent

LEMMA StepCarriedOn ==
  ASSUME IInv, IInv', Once, Once', Pollers, NEW j \in Rows, Values(j), Lasting(j), RowEvent(j),
         Settled(j), Attended(j), CarriedOn(j)
  PROVE  CarriedOn(j)'
<1>1. Used(j) => (Succeeded(j) => Succeeded(j)') /\ (Excused(j) => Excused(j)')
  BY StaysSucceeded, StaysExcused
<1>2. /\ BegunSucceeded(j) /\ RunningSucceeded(j) /\ EndedSucceeded(j) /\ ReadSucceeded(j)
      /\ Clean(j) => ClaimIsQueued(j)
  BY DEF CarriedOn
<1>3. \A h \in Instances : crashed[h] \subseteq CrashedType /\ crashed'[h] \subseteq CrashedType
  BY DEF IInv, TypeInv
<1>4. \A h \in Instances : \A c \in crashed[h] : c.job = j => Used(j)
  BY DEF Values, EntryValue
<1>5. \A h \in Instances : obj[h][j].phase # "none" => Used(j) BY ObjUsed
<1>6. Clean(j)' => Clean(j) BY DEF Lasting
<1>7. row[j].status \in Statuses => Used(j) BY DEF Used, NoRow, Statuses, Live
(* A step after which no object works on the row that did not before.      *)
<1>8. ASSUME \A h \in Instances : obj'[h][j] = obj[h][j] \/ obj'[h][j].phase = "none",
             \A h \in Instances : \A c \in crashed'[h] : c.job = j => c \in crashed[h]
      PROVE  BegunSucceeded(j)' /\ ReadSucceeded(j)'
  <2>1. BegunSucceeded(j)' BY <1>1, <1>2, <1>5, <1>8 DEF BegunSucceeded, Begun
  <2>2. ReadSucceeded(j)' BY <1>1, <1>2, <1>4, <1>8 DEF ReadSucceeded
  <2> QED BY <2>1, <2>2
(* The row keeps its status, its claim and its objects.                    *)
<1>9. ASSUME row'[j].status = row[j].status, row'[j].runBy = row[j].runBy,
             \A h \in Instances : obj'[h][j] = obj[h][j],
             \A h \in Instances : \A c \in crashed'[h] : c.job = j => c \in crashed[h]
      PROVE  CarriedOn(j)'
  <2>1. BegunSucceeded(j)' /\ ReadSucceeded(j)' BY <1>8, <1>9
  <2>2. RunningSucceeded(j)' /\ EndedSucceeded(j)'
    BY <1>1, <1>2, <1>7, <1>9 DEF RunningSucceeded, EndedSucceeded, Statuses, Live
  <2>3. Clean(j)' => ClaimIsQueued(j)'
    BY <1>1, <1>2, <1>6, <1>7, <1>9 DEF ClaimIsQueued, Statuses, Live
  <2> QED BY <2>1, <2>2, <2>3 DEF CarriedOn
<1>10. CASE Untouched(j)
  BY <1>3, <1>9, <1>10 DEF Untouched, Around, SameObjs, SameEntries
<1>11. CASE Newborn(j)
  <2>1. \A h \in Instances : obj'[h][j] = obj[h][j] BY <1>11 DEF Newborn, Around, SameObjs
  <2>2. \A h \in Instances : \A c \in crashed'[h] : c.job = j => c \in crashed[h]
    BY <1>3, <1>11 DEF Newborn, Around, SameEntries
  <2>3. BegunSucceeded(j)' /\ ReadSucceeded(j)' BY <1>8, <2>1, <2>2
  <2>4. None \notin Instances BY SemaphoreAssumption
  <2> QED BY <1>11, <2>3, <2>4
      DEF Newborn, CarriedOn, RunningSucceeded, EndedSucceeded, ClaimIsQueued
<1>12. CASE \E i \in Instances : JobEvent(i, j) BY <1>12, JobCarriedOn
<1>13. CASE \E i \in Instances : PollerEvent(i, j) BY <1>13, PollerCarriedOn
<1>14. ASSUME NEW i \in Instances, Killed(i, j) PROVE CarriedOn(j)'
  <2>1. /\ row'[j] = row[j] /\ obj'[i][j].phase = "none"
        /\ \A h \in Instances \ {i} : obj'[h][j] = obj[h][j]
        /\ \A h \in Instances : crashed'[h] \subseteq crashed[h]
    BY <1>14 DEF Killed
  <2>2. obj[i][j].phase \in {"claimed", "qread", "started"} => Excused(j)'
    BY <1>14 DEF Killed, Excused, Marked
  <2>3. BegunSucceeded(j)' /\ ReadSucceeded(j)' BY <1>8, <2>1
  <2>4. RunningSucceeded(j)'
    <3> SUFFICES ASSUME row[j].status = "RUNNING",
                        \A h \in Instances : obj'[h][j].phase # "started"
                 PROVE  Succeeded(j)'
      BY <2>1 DEF RunningSucceeded
    <3>1. Used(j) BY <1>7 DEF Statuses, Live
    <3>2. Succeeded(j) \/ obj[i][j].phase = "started" BY <1>2, <2>1 DEF RunningSucceeded
    <3> QED BY <1>1, <2>2, <3>1, <3>2 DEF Succeeded
  <2>5. EndedSucceeded(j)' BY <1>1, <1>2, <1>7, <2>1 DEF EndedSucceeded, Statuses, Live
  <2>6. Clean(j)' => ClaimIsQueued(j)'
    BY <1>1, <1>2, <1>6, <1>7, <2>1, <2>2 DEF ClaimIsQueued, Statuses, Live
  <2> QED BY <2>3, <2>4, <2>5, <2>6 DEF CarriedOn
<1>15. CASE Purged(j) \/ CancelledRow(j)
  <2>1. /\ row'[j].status \in {"PURGED", "CANCELLED"} /\ crashed' = crashed
        /\ \A h \in Instances : obj'[h][j] = obj[h][j]
    BY <1>15 DEF Purged, CancelledRow, AdminWrote, SameObjs, jobVars
  <2>2. BegunSucceeded(j)' /\ ReadSucceeded(j)' BY <1>8, <2>1
  <2> QED BY <2>1, <2>2 DEF CarriedOn, RunningSucceeded, EndedSucceeded, ClaimIsQueued
<1>16. CASE LimitStored(j)
  BY <1>9, <1>16 DEF LimitStored, AdminWrote, SameObjs
<1>17. CASE Rewritten(j)
  <2>1. ~ Clean(j)' BY <1>17 DEF Rewritten, Clean
  <2>2. Succeeded(j)' BY <2>1, UncleanExcused DEF Succeeded
  <2> QED BY <2>1, <2>2
      DEF CarriedOn, BegunSucceeded, RunningSucceeded, EndedSucceeded, ReadSucceeded
<1> QED BY <1>10, <1>11, <1>12, <1>13, <1>14, <1>15, <1>16, <1>17 DEF RowEvent

-----------------------------------------------------------------------------
(* The invariant                                                           *)

RowFate(j) ==
    /\ Values(j) /\ CancelKept(j) /\ Attended(j) /\ Settled(j) /\ Spent(j) /\ CarriedOn(j)

Fate == Pollers /\ \A j \in Rows : RowFate(j)

LEMMA InitFate == Init => Fate
<1> SUFFICES ASSUME Init PROVE Fate
  OBVIOUS
<1>1. Pollers BY InitPollers
<1>2. ASSUME NEW j \in Rows PROVE RowFate(j)
  <2>1. /\ \A i \in Instances : obj[i][j].phase = "none" /\ crashed[i] = {} /\ due[i] = {}
        /\ marks = {}
    BY DEF Init, NoObj
  <2>2. /\ row[j].status \in {"NONE", "PENDING"}
        /\ row[j].status = "PENDING" => row[j].runBy = None /\ ~ row[j].cancelled
    BY DEF Init, RootRow, NoRow
  <2>3. \A k \in Rows : Used(k) => row[k].prev = 0 BY DEF Init, RootRow, Used
  <2>4. None \notin Instances BY SemaphoreAssumption
  <2>5. Values(j) BY InitValues
  <2>6. CancelKept(j) BY <2>1 DEF CancelKept, HasMark
  <2>7. Attended(j) BY <2>1, <2>2, <2>4 DEF Attended, ClaimedFresh, Kept, LeftBehind, Live
  <2>8. \A i \in Instances : ~ Has(i, j) BY <2>1 DEF Has, Reading
  <2>9. Settled(j)
    BY <2>1, <2>2, <2>8 DEF Settled, QueuedIsOpen, RunningIsOpen, ReadAlone, ReadOnce, GivenBack,
       PendingIsLeft, CancelledIsMarked
  <2>10. j # 0 BY JobAssumption DEF Rows
  <2>11. \A k \in Rows : ~ Heir(j, k) BY <2>3, <2>10 DEF Heir
  <2>12. Spent(j) BY <2>11 DEF Spent, AtMostOne, HeirSpent, HasHeir
  <2>13. CarriedOn(j)
    BY <2>1, <2>2, <2>4 DEF CarriedOn, BegunSucceeded, RunningSucceeded, EndedSucceeded,
       ReadSucceeded, ClaimIsQueued, Begun
  <2> QED BY <2>5, <2>6, <2>7, <2>9, <2>12, <2>13 DEF RowFate
<1> QED BY <1>1, <1>2 DEF Fate

LEMMA StepFate == IInv /\ IInv' /\ Once /\ Once' /\ Fate /\ [Next]_vars => Fate'
<1> SUFFICES ASSUME IInv, IInv', Once, Once', Fate, [Next]_vars PROVE Fate'
  OBVIOUS
<1>1. Pollers /\ \A k \in Rows : Values(k) BY DEF Fate, RowFate
<1>2. \A k \in Rows : RowEvent(k) BY <1>1, StepEvents, StutterEvents
<1>3. \A k \in Rows : Lasting(k) BY <1>1, <1>2, RowLasting
<1>4. Pollers' BY <1>1, StepPollers
<1>5. ASSUME NEW j \in Rows PROVE RowFate(j)'
  <2>1. RowEvent(j) /\ Lasting(j) /\ RowFate(j) BY <1>2, <1>3 DEF Fate
  <2>2. /\ Values(j) /\ CancelKept(j) /\ Attended(j) /\ Settled(j) /\ Spent(j) /\ CarriedOn(j)
    BY <2>1 DEF RowFate
  <2>3. Values(j)' BY <1>1, <1>3, <2>1, StepValues
  <2>4. CancelKept(j)' BY <2>1, <2>2, StepCancelKept
  <2>5. Attended(j)' BY <2>1, <2>2, StepAttended
  <2>6. Settled(j)' BY <1>1, <2>1, <2>2, StepSettled
  <2>7. Spent(j)' BY <1>1, <2>1, <2>2, StepSpent
  <2>8. CarriedOn(j)' BY <1>1, <2>1, <2>2, StepCarriedOn
  <2> QED BY <2>3, <2>4, <2>5, <2>6, <2>7, <2>8 DEF RowFate
<1> QED BY <1>4, <1>5 DEF Fate

LEMMA FateHolds == Spec => [](IInv /\ Once /\ Fate)
<1>1. Init => Once BY InitIsOnce
<1>2. Init => Fate BY InitFate
<1>3. IInv /\ Once /\ [Next]_vars => Once' BY StepOnce
<1>4. IInv /\ IInv' /\ Once /\ Once' /\ Fate /\ [Next]_vars => Fate' BY StepFate
<1>5. Spec => []IInv BY Invariance
<1> QED BY <1>1, <1>2, <1>3, <1>4, <1>5, PTL DEF Spec

-----------------------------------------------------------------------------
(* The theorems                                                            *)

(* A cancelJob that no write-back was pending against is honoured: the row *)
(* stays cancelled through queueing, dequeueing and crashes, and neither   *)
(* PersistedServiceJob.queue nor init lets the job start.                  *)
THEOREM CancelIsHonoured == Spec => []CancelHonoured
<1>1. Fate => CancelHonoured
  BY DEF Fate, RowFate, CancelKept, HasMark, CancelHonoured, Marked
<1> QED BY <1>1, FateHolds, PTL

(* No pending, queued or running row of a living instance is forgotten     *)
(* once reloadCrashedJobs is through: the instance has an object for it.   *)
THEOREM NoneIsStranded == Spec => []NotStranded
<1>1. IInv /\ Once /\ Fate => NotStranded
  <2> SUFFICES ASSUME IInv, Once, Fate, NEW i \in Instances, NEW j \in Rows,
                      inst[i] # "down", reloaded[i], row[j].status \in Live,
                      ~ row[j].cancelled, row[j].runBy = i, Clean(j)
               PROVE  obj[i][j].phase # "none"
    BY DEF NotStranded, Marked, Clean
  <2>1. crashed[i] = {} BY DEF Fate, Pollers, Idle
  <2>2. Reloads(i) /\ LeftBehind(i, j) BY DEF Reloads, LeftBehind, Exists, Live
  <2>3. Kept(j) BY DEF Fate, RowFate, Attended
  <2> QED BY <2>1, <2>2, <2>3 DEF Kept
<1> QED BY <1>1, FateHolds, PTL

(* At most one successor of a row carries its temporal expression on, be   *)
(* it init's recurrence, failed's retry or the job reloadCrashedJobs makes.*)
THEOREM SchedulesDoNotFork == Spec => []OneHeir
<1>1. Fate => OneHeir
  <2> SUFFICES ASSUME Fate, NEW j \in Rows, ~ Marked(j, {"unmarked", "rewritten"})
               PROVE  Cardinality({k \in Rows : Used(k) /\ row[k].prev = j /\ row[k].expr}) <= 1
    BY DEF OneHeir
  <2> DEFINE H == {k \in Rows : Used(k) /\ row[k].prev = j /\ row[k].expr}
  <2>1. Clear(j) BY DEF Clear, Clean, HasMark, Marked
  <2>2. AtMostOne(j) BY <2>1 DEF Fate, RowFate, Spent
  <2>3. \A k, l \in H : k = l BY <2>2 DEF AtMostOne, Heir
  <2> SUFFICES Cardinality(H) <= 1 OBVIOUS
  <2> HIDE DEF H
  <2>4. CASE H = {}
    <3>1. Cardinality(H) = 0 BY <2>4, FS_EmptySet
    <3> QED BY <3>1
  <2>5. CASE H # {}
    <3>1. PICK k \in H : TRUE BY <2>5
    <3>2. H = {k} BY <2>3, <3>1
    <3>3. Cardinality({k}) = 1 BY FS_Singleton
    <3>4. Cardinality(H) = 1 BY <3>2, <3>3
    <3> QED BY <3>4
  <2> QED BY <2>4, <2>5
<1> QED BY <1>1, FateHolds, PTL

(* A row that ended has a successor with the remaining recurrences, unless *)
(* it was cancelled or rewritten or a crash hit a window in which          *)
(* reloadCrashedJobs cannot tell whether the recurrence was made.          *)
THEOREM SchedulesLive == Spec => []ScheduleLives
<1>1. IInv /\ Fate => ScheduleLives
  <2> SUFFICES ASSUME IInv, Fate, NEW j \in Rows, row[j].expr, row[j].plan > 0,
                      row[j].status \in {"FINISHED", "FAILED", "CRASHED"}, ~ Excused(j), Exists(j)
               PROVE  \E k \in Rows : /\ Used(k) /\ row[k].prev = j
                                      /\ row[k].expr /\ row[k].plan >= row[j].plan - 1
    BY DEF ScheduleLives, Excused
  <2>1. Succ(j)
    BY DEF Fate, RowFate, CarriedOn, EndedSucceeded, Succeeded, Recurring
  <2>2. PICK k \in Rows : Heir(j, k) /\ row[k].plan + 1 >= row[j].plan BY <2>1 DEF Succ
  <2>3. row[j] \in RowType /\ row[k] \in RowType
    BY <2>2, ExistsType DEF Heir, Used, IInv, TypeInv, RowsTyped
  <2>4. row[k].plan >= row[j].plan - 1 BY <2>2, <2>3 DEF RowType
  <2> QED BY <2>2, <2>4 DEF Heir
<1> QED BY <1>1, FateHolds, PTL

=============================================================================
