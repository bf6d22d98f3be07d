----------------------------- MODULE JobSandbox -----------------------------
(***************************************************************************)
(* The job scheduler.  Several instances share the JobSandbox table; each  *)
(* has one poller thread (JobPoller, JobManager.poll) that claims due rows *)
(* and queues them, and job threads (PersistedServiceJob.exec) that run    *)
(* them.  An administrator cancels and resets jobs.  Every store() of an   *)
(* entity value writes back all the fields read before: a row is read in   *)
(* one step and stored in a later one, and what came between is lost.      *)
(***************************************************************************)
EXTENDS ServiceSemaphore, FiniteSets

CONSTANTS
    Roots,       \* the jobs scheduled at the start: 1 .. n
    MaxRow,      \* bound: job ids are 1 .. MaxRow
    ServiceOf,   \* the service of each root job
    Recurs,      \* the number of recurrences each root job asks for
    MaxRetry,    \* maxRetry of every root job
    AdminOps,    \* the administrator's operations: subset of {"cancel", "noRetry", "reset"}
    MaxFaults    \* bound: what a crash, a stop and the administrator may cost together

Rows == 1 .. MaxRow

ASSUME JobAssumption ==
    /\ MaxRow \in Nat /\ Roots \subseteq Rows
    /\ ServiceOf \in [Roots -> Services]
    /\ Recurs \in [Roots -> Nat]
    /\ MaxRetry \in Nat /\ MaxFaults \in Nat
    /\ AdminOps \subseteq {"cancel", "noRetry", "reset"}
    /\ None \notin [inst: Instances, holder: Rows]

VARIABLES
    row,       \* JobSandbox
    obj,       \* the PersistedServiceJob of each instance and row
    inst,      \* each instance: "up", "stopping" or "down"
    reloaded,  \* crashedJobsReloaded of each instance
    due,       \* what the poller's query returned and was not claimed yet
    crashed,   \* what reloadCrashedJobs read and did not handle yet
    admin,     \* the administrator's operation in progress
    faults,    \* counts towards MaxFaults
    starts,    \* history: how often each row was started
    marks      \* history: <<what, row>>, the windows a crash or a rewrite hit

vars == <<sem, row, obj, inst, reloaded, due, crashed, admin, faults, starts, marks>>

-----------------------------------------------------------------------------
(* Rows and job objects                                                    *)

Live == {"PENDING", "QUEUED", "RUNNING"}
Statuses == Live \cup {"FINISHED", "FAILED", "CRASHED", "CANCELLED", "PURGED"}

\* "expr": the row has a temporal expression, so that it recurs while "left" of
\* its recurrences are left.  "plan" is history: the recurrences left when the row was created.  A purged
\* row is kept as history too, with the status PURGED.
RowType ==
    [status: Statuses, runBy: Instances \cup {None}, started: BOOLEAN, finished: BOOLEAN,
     cancelled: BOOLEAN, expr: BOOLEAN, left: Nat, retry: Nat, limit: Nat, root: Roots, prev: Rows \cup {0},
     plan: Nat]

NoRow == [status |-> "NONE"]

Phases == {"none", "claimed", "qread", "queued", "rejected", "dread", "iread", "started",
           "ready", "body", "finish", "fail", "failstore"}

NoObj == [phase |-> "none", copy |-> NoRow, limit |-> 0, recurred |-> FALSE]

\* A new row: PENDING, claimed by nobody, otherwise a copy of its predecessor.
NewRow(r, expr, left, retry, prev) ==
    [r EXCEPT !.status = "PENDING", !.runBy = None, !.started = FALSE,
              !.expr = expr, !.left = left, !.retry = retry, !.prev = prev, !.plan = left]

RootRow(j) ==
    [status |-> "PENDING", runBy |-> None, started |-> FALSE, finished |-> FALSE,
     cancelled |-> FALSE, expr |-> Recurs[j] > 0, left |-> Recurs[j], retry |-> 0, limit |-> MaxRetry,
     root |-> j, prev |-> 0, plan |-> Recurs[j]]

\* Job ids are never reused, even after a purge.
Used(j) == row[j] # NoRow
Free == {j \in Rows : \A k \in Rows : k >= j => ~Used(k)} \ Roots

\* createSetNextSeqId (the model ends when its ids do).
Create(r) == \E j \in Free : /\ \A k \in Free : j <= k
                             /\ row' = [row EXCEPT ![j] = r]

Exists(j) == row[j].status \notin {"NONE", "PURGED"}

\* store(): the whole value is written, if the row still exists.
Store(j, r) == row' = IF Exists(j) THEN [row EXCEPT ![j] = r] ELSE row

\* The object of instance i for row j moves to phase p.
Move(i, j, p) == obj' = [obj EXCEPT ![i][j].phase = p]
Drop(i, j) == obj' = [obj EXCEPT ![i][j] = NoObj]

\* A refresh() of the object's value followed by phase p.
Reread(i, j, p) == obj' = [obj EXCEPT ![i][j].phase = p, ![i][j].copy = row[j]]

TypeOK ==
    /\ row \in [Rows -> RowType \cup {NoRow}]
    /\ \A i \in Instances : \A j \in Rows :
          /\ obj[i][j].phase \in Phases
          /\ obj[i][j].copy \in RowType \cup {NoRow}
    /\ inst \in [Instances -> {"up", "stopping", "down"}]
    /\ \A i \in Instances : due[i] \subseteq Rows
    /\ sem \in [Services -> {None} \cup [inst: Instances, holder: Rows]]

Init ==
    /\ sem = [v \in Services |-> None]
    /\ row = [j \in Rows |-> IF j \in Roots THEN RootRow(j) ELSE NoRow]
    /\ obj = [i \in Instances |-> [j \in Rows |-> NoObj]]
    /\ inst = [i \in Instances |-> "up"]
    /\ reloaded = [i \in Instances |-> FALSE]
    /\ due = [i \in Instances |-> {}]
    /\ crashed = [i \in Instances |-> {}]
    /\ admin = [op |-> "none"]
    /\ faults = 0
    /\ starts = [j \in Rows |-> 0]
    /\ marks = {}

jobVars == <<inst, reloaded, due, crashed, admin, faults, marks>>

-----------------------------------------------------------------------------
(* The poller: reloadCrashedJobs, poll, queueNow                           *)

\* The poller is between two rounds: nothing read, nothing left to queue.
PollerIdle(i) ==
    /\ inst[i] = "up"
    /\ due[i] = {} /\ crashed[i] = {}
    /\ \A j \in Rows : obj[i][j].phase \notin {"claimed", "qread"}

\* reloadCrashedJobs: the rows this instance left behind are listed.
ReloadRead(i) ==
    LET left == {j \in Rows : Exists(j) /\ row[j].runBy = i /\ row[j].status \in Live}
    IN  /\ PollerIdle(i) /\ ~reloaded[i]
        /\ crashed' = [crashed EXCEPT ![i] = {[job |-> j, copy |-> row[j], made |-> FALSE] : j \in left}]
        /\ reloaded' = [reloaded EXCEPT ![i] = (left = {})]
        /\ UNCHANGED <<sem, row, obj, inst, due, admin, faults, starts, marks>>

\* Mutant of ReloadExpr: every reloaded job carries the schedule over.
ReloadExprAlways(r) == r.expr

\* A queued job keeps its schedule; any other is run just one more time.
ReloadExpr(r) == r.status = "QUEUED" /\ r.expr

\* A new job is created for a crashed one ...
ReloadCreate(i, c) ==
    /\ inst[i] # "down" /\ c \in crashed[i] /\ ~c.made
    /\ \A d \in crashed[i] : ~d.made
    /\ Create(NewRow(c.copy, ReloadExpr(c.copy), c.copy.left, c.copy.retry, c.job))
    /\ crashed' = [crashed EXCEPT ![i] = (@ \ {c}) \cup {[c EXCEPT !.made = TRUE]}]
    /\ UNCHANGED <<sem, obj, inst, reloaded, due, admin, faults, starts, marks>>

\* ... and then the old one is marked, from the value read before.
ReloadMark(i, c) ==
    /\ inst[i] # "down" /\ c \in crashed[i] /\ c.made
    /\ Store(c.job, [c.copy EXCEPT !.status = "CRASHED", !.cancelled = TRUE])
    /\ crashed' = [crashed EXCEPT ![i] = @ \ {c}]
    /\ reloaded' = [reloaded EXCEPT ![i] = (crashed[i] = {c})]
    /\ UNCHANGED <<sem, obj, inst, due, admin, faults, starts, marks>>

\* poll's query: due, not started, not cancelled, claimed by nobody.
Due(j) == Exists(j) /\ ~row[j].started /\ ~row[j].cancelled /\ row[j].runBy = None

PollRead(i) ==
    /\ PollerIdle(i) /\ reloaded[i]
    /\ \E j \in Rows : Due(j)
    /\ due' = [due EXCEPT ![i] = {j \in Rows : Due(j)}]
    /\ UNCHANGED <<sem, row, obj, inst, reloaded, crashed, admin, faults, starts, marks>>

\* Mutant of Claimable: rows are claimed as they were read, without a condition.
ClaimUnconditionally(j) == Exists(j)

\* The condition of storeByCondition: still claimed by nobody.
Claimable(j) == Exists(j) /\ row[j].runBy = None

\* The claims are committed, as many as the queue had room for; a PersistedServiceJob
\* is made for each.  Its retry limit is the one read here.  Bound: one object per
\* instance and row (a rewritten row is started again by the other instance only).
PollClaim(i) ==
    LET ok == {j \in due[i] : Claimable(j) /\ obj[i][j].phase = "none"}
    IN  /\ inst[i] # "down" /\ due[i] # {}
        /\ \E S \in SUBSET ok :
              /\ ok # {} => S # {}
              /\ row' = [j \in Rows |-> IF j \in S THEN [row[j] EXCEPT !.runBy = i] ELSE row[j]]
              /\ obj' = [obj EXCEPT ![i] = [j \in Rows |->
                           IF j \in S THEN [NoObj EXCEPT !.phase = "claimed", !.limit = row[j].limit]
                           ELSE @[j]]]
        /\ due' = [due EXCEPT ![i] = {}]
        /\ UNCHANGED <<sem, inst, reloaded, crashed, admin, faults, starts, marks>>

\* Nothing was due: rows this instance finished or that were cancelled are purged, days
\* later (purge-job-days): when nothing else is in progress.
PollPurge(i, j) ==
    /\ PollerIdle(i) /\ reloaded[i]
    /\ \A k \in Rows : ~Due(k)
    /\ Exists(j) /\ row[j].runBy = i /\ (row[j].finished \/ row[j].cancelled)
    /\ admin.op = "none" /\ \A h \in Instances : \A k \in Rows : obj[h][k].phase = "none"
    /\ row' = [row EXCEPT ![j].status = "PURGED"]
    /\ UNCHANGED <<sem, obj, starts>> /\ UNCHANGED jobVars

\* queue(): refresh and check; a job that is not ours or was cancelled is dropped.
QueueCheck(i, j) ==
    /\ inst[i] # "down" /\ obj[i][j].phase = "claimed"
    /\ \A k \in Rows : obj[i][k].phase # "qread"
    /\ IF Exists(j) /\ row[j].runBy = i /\ ~row[j].cancelled /\ ~row[j].started
       THEN Reread(i, j, "qread") ELSE Drop(i, j)
    /\ UNCHANGED <<sem, row, starts>> /\ UNCHANGED jobVars

\* queue() stores QUEUED; execute() takes the job, or rejects it when the pool
\* is stopped or was filled by others meanwhile.
QueueStore(i, j) ==
    LET r == [obj[i][j].copy EXCEPT !.status = "QUEUED"]
    IN  /\ inst[i] # "down" /\ obj[i][j].phase = "qread"
        /\ Store(j, r)
        /\ \/ inst[i] = "up" /\ Move(i, j, "queued")
           \/ Move(i, j, "rejected")
        /\ UNCHANGED <<sem, starts>> /\ UNCHANGED jobVars

\* deQueue() of a rejected job, or by stop() of one that never left the queue.
DeQueueRead(i, j) ==
    /\ \/ inst[i] # "down" /\ obj[i][j].phase = "rejected"
       \/ inst[i] = "stopping" /\ obj[i][j].phase = "queued"
    /\ IF Exists(j) THEN Reread(i, j, "dread") ELSE Drop(i, j)
    /\ UNCHANGED <<sem, row, starts>> /\ UNCHANGED jobVars

\* Mutant of DeQueueStore: the claim is kept.
DeQueueKeepsClaim(i, j) ==
    /\ inst[i] # "down" /\ obj[i][j].phase = "dread"
    /\ Store(j, [obj[i][j].copy EXCEPT !.started = FALSE, !.status = "PENDING"])
    /\ Drop(i, j)
    /\ UNCHANGED <<sem, starts>> /\ UNCHANGED jobVars

\* deQueue() stores the row as pending and claimed by nobody.
DeQueueStore(i, j) ==
    /\ inst[i] # "down" /\ obj[i][j].phase = "dread"
    /\ Store(j, [obj[i][j].copy EXCEPT !.started = FALSE, !.runBy = None, !.status = "PENDING"])
    /\ Drop(i, j)
    /\ UNCHANGED <<sem, starts>> /\ UNCHANGED jobVars

-----------------------------------------------------------------------------
(* A job thread: exec, init, runSync under the semaphore, finish, failed   *)

\* Mutant of InitAllowed: the cancel date is not looked at again.
InitIgnoresCancel(i, j) == Exists(j) /\ row[j].runBy = i

\* init()'s checks on the refreshed value.
InitAllowed(i, j) == Exists(j) /\ row[j].runBy = i /\ ~row[j].cancelled

\* exec(), init(): a queued job starts; it is dropped when it was cancelled.
InitCheck(i, j) ==
    /\ inst[i] = "up" /\ obj[i][j].phase = "queued"
    /\ IF InitAllowed(i, j) THEN Reread(i, j, "iread") ELSE Drop(i, j)
    /\ UNCHANGED <<sem, row, starts>> /\ UNCHANGED jobVars

\* Mutant of InitStore: a recurrence is made whatever the count.
InitAlwaysRecurs(i, j) ==
    LET r == [obj[i][j].copy EXCEPT !.status = "RUNNING", !.started = TRUE]
    IN  /\ inst[i] # "down" /\ obj[i][j].phase = "iread"
        /\ Store(j, r)
        /\ obj' = [obj EXCEPT ![i][j].phase = "started", ![i][j].copy = r]
        /\ starts' = [starts EXCEPT ![j] = @ + 1]
        /\ UNCHANGED sem /\ UNCHANGED jobVars

\* init(): RUNNING and the start date are stored; init() ends there unless the
\* job recurs.
InitStore(i, j) ==
    LET r == [obj[i][j].copy EXCEPT !.status = "RUNNING", !.started = TRUE]
    IN  /\ inst[i] # "down" /\ obj[i][j].phase = "iread"
        /\ Store(j, r)
        /\ obj' = [obj EXCEPT ![i][j].phase = IF r.expr /\ r.left > 0 THEN "started" ELSE "ready",
                              ![i][j].copy = r]
        /\ starts' = [starts EXCEPT ![j] = @ + 1]
        /\ UNCHANGED sem /\ UNCHANGED jobVars

\* Mutant of InitRecur: the next recurrence is not created.
InitRecurNever(i, j) ==
    /\ inst[i] # "down" /\ obj[i][j].phase = "started"
    /\ Move(i, j, "ready")
    /\ UNCHANGED <<sem, row, starts>> /\ UNCHANGED jobVars

\* init(): the next recurrence is created as a new row.
InitRecur(i, j) ==
    LET c == obj[i][j].copy
    IN  /\ inst[i] # "down" /\ obj[i][j].phase = "started"
        /\ Create(NewRow(c, c.expr, c.left - 1, 0, j))
        /\ obj' = [obj EXCEPT ![i][j].phase = "ready", ![i][j].recurred = TRUE,
                              ![i][j].copy = [c EXCEPT !.left = c.left - 1]]
        /\ UNCHANGED <<sem, starts>> /\ UNCHANGED jobVars

Svc(i, j) == ServiceOf[obj[i][j].copy.root]

\* runSync acquires the service's semaphore, or waits: the step is then disabled.
AcquireAndRun(i, j) ==
    /\ inst[i] # "down" /\ obj[i][j].phase = "ready"
    /\ AcquireOk(Svc(i, j), i, j)
    /\ Move(i, j, "body")
    /\ UNCHANGED <<row, starts>> /\ UNCHANGED jobVars

\* The semaphore was not to be had.
AcquireGivesUp(i, j) ==
    /\ inst[i] # "down" /\ obj[i][j].phase = "ready"
    /\ AcquireFails(Svc(i, j))
    /\ Move(i, j, "fail")
    /\ UNCHANGED <<row, starts>> /\ UNCHANGED jobVars

\* The service ends well, with an error or an exception; runSync's finally
\* block releases the semaphore.
BodyEnds(i, j) ==
    /\ inst[i] # "down" /\ obj[i][j].phase = "body"
    /\ IF Mode[Svc(i, j)] = "none" THEN UNCHANGED sem ELSE Release(Svc(i, j))
    /\ \E p \in {"finish", "fail"} : Move(i, j, p)
    /\ UNCHANGED <<row, starts>> /\ UNCHANGED jobVars

\* finish(): the value held since init() is written back.
Finish(i, j) ==
    /\ inst[i] # "down" /\ obj[i][j].phase = "finish"
    /\ Store(j, [obj[i][j].copy EXCEPT !.status = "FINISHED", !.finished = TRUE])
    /\ Drop(i, j)
    /\ UNCHANGED <<sem, starts>> /\ UNCHANGED jobVars

\* failed(): unless a recurrence was created, a retry is, while retries are left.
FailRetry(i, j) ==
    LET o == obj[i][j]
    IN  /\ inst[i] # "down" /\ o.phase = "fail"
        /\ \/ /\ ~o.recurred /\ o.copy.retry < o.limit
              /\ Create(NewRow(o.copy, o.copy.expr, o.copy.left, o.copy.retry + 1, j))
           \/ (o.recurred \/ o.copy.retry >= o.limit) /\ UNCHANGED row
        /\ Move(i, j, "failstore")
        /\ UNCHANGED <<sem, starts>> /\ UNCHANGED jobVars

FailStore(i, j) ==
    /\ inst[i] # "down" /\ obj[i][j].phase = "failstore"
    /\ Store(j, [obj[i][j].copy EXCEPT !.status = "FAILED", !.finished = TRUE])
    /\ Drop(i, j)
    /\ UNCHANGED <<sem, starts>> /\ UNCHANGED jobVars

-----------------------------------------------------------------------------
(* Instances stop, die and come back                                       *)

\* Bound: a stop, a crash and a cancelJob count one, the other operations two.
Disturb(n) == faults + n <= MaxFaults /\ faults' = faults + n

\* JobManager.shutDown: no new job starts, running ones go on.
StopInstance(i) ==
    /\ inst[i] = "up" /\ Disturb(1)
    /\ inst' = [inst EXCEPT ![i] = "stopping"]
    /\ UNCHANGED <<sem, row, obj, reloaded, due, crashed, admin, starts, marks>>

\* What a crash now would cut in two.
Windows(i) ==
    {<<"unqueued", j>> : j \in {j \in Rows : obj[i][j].phase \in {"claimed", "qread"}}}
    \cup {<<"unrecurred", j>> : j \in {j \in Rows : obj[i][j].phase = "started"}}
    \cup {<<"unmarked", c.job>> : c \in {c \in crashed[i] : c.made}}

\* The JVM ends: after stop() with nothing left to do, or at any time.
InstanceEnds(i) ==
    /\ \/ inst[i] = "stopping" /\ UNCHANGED faults
          /\ \A j \in Rows : obj[i][j].phase = "none"
          /\ due[i] = {} /\ crashed[i] = {}
       \/ inst[i] # "down" /\ Disturb(1)
    /\ inst' = [inst EXCEPT ![i] = "down"]
    /\ obj' = [obj EXCEPT ![i] = [j \in Rows |-> NoObj]]
    /\ due' = [due EXCEPT ![i] = {}]
    /\ crashed' = [crashed EXCEPT ![i] = {}]
    /\ marks' = marks \cup Windows(i)
    /\ UNCHANGED <<sem, row, reloaded, admin, starts>>

\* A new JVM with the same instance id.
Restart(i) ==
    /\ inst[i] = "down"
    /\ inst' = [inst EXCEPT ![i] = "up"]
    /\ reloaded' = [reloaded EXCEPT ![i] = FALSE]
    /\ CleanUp(i)
    /\ UNCHANGED <<row, obj, due, crashed, admin, faults, starts, marks>>

-----------------------------------------------------------------------------
(* The administrator: cancelJob, cancelJobRetries, resetJob                *)

AdminRead(op, j) ==
    /\ admin.op = "none" /\ Disturb(IF op = "cancel" THEN 1 ELSE 2)
    /\ Exists(j)
    /\ admin' = [op |-> op, job |-> j, copy |-> row[j]]
    /\ UNCHANGED <<sem, row, obj, inst, reloaded, due, crashed, starts, marks>>

\* Somebody has read the row and is about to write all of it back.
WriteBackPending(j) ==
    \/ \E i \in Instances : obj[i][j].phase \notin {"none", "claimed", "queued", "rejected"}
    \/ \E i \in Instances : \E c \in crashed[i] : c.job = j

\* What the operation makes of the value it read.
AdminValue(op, r) ==
    CASE op = "cancel"  -> [r EXCEPT !.cancelled = TRUE, !.status = "CANCELLED"]
      [] op = "noRetry" -> [r EXCEPT !.limit = 0]
      [] op = "reset"   -> [r EXCEPT !.status = "PENDING", !.started = FALSE, !.finished = FALSE,
                                     !.cancelled = FALSE, !.runBy = None]

AdminStore ==
    LET j == admin.job
    IN  /\ admin.op # "none"
        /\ Store(j, AdminValue(admin.op, admin.copy))
        /\ marks' = IF \/ ~Exists(j)
                       \/ admin.op = "cancel" /\ WriteBackPending(j)
                       \/ admin.op = "noRetry" /\ row[j] = admin.copy
                    THEN marks
                    ELSE IF admin.op = "cancel" THEN marks \cup {<<"cancelled", j>>}
                    ELSE (marks \ {<<"cancelled", j>>}) \cup {<<"rewritten", j>>}
        /\ admin' = [op |-> "none"]
        /\ UNCHANGED <<sem, obj, inst, reloaded, due, crashed, faults, starts>>

-----------------------------------------------------------------------------

PollerStep(i) ==
    \/ ReloadRead(i)
    \/ \E c \in crashed[i] : ReloadCreate(i, c) \/ ReloadMark(i, c)
    \/ PollRead(i) \/ PollClaim(i)
    \/ \E j \in Rows : PollPurge(i, j) \/ QueueCheck(i, j) \/ QueueStore(i, j)

JobStep(i, j) ==
    \/ DeQueueRead(i, j) \/ DeQueueStore(i, j)
    \/ InitCheck(i, j) \/ InitStore(i, j) \/ InitRecur(i, j)
    \/ AcquireAndRun(i, j) \/ AcquireGivesUp(i, j)
    \/ BodyEnds(i, j) \/ Finish(i, j) \/ FailRetry(i, j) \/ FailStore(i, j)

Next ==
    \/ \E i \in Instances :
          \/ PollerStep(i)
          \/ \E j \in Rows : JobStep(i, j)
          \/ StopInstance(i) \/ InstanceEnds(i) \/ Restart(i)
    \/ \E op \in AdminOps, j \in Rows : AdminRead(op, j)
    \/ AdminStore

\* The poller loops, started threads run, services end, waits time out, an
\* instance that is down is started again and one that stops ends.  The pool is
\* not for ever full at the moments a given job is offered to it.
Fairness ==
    /\ \A i \in Instances :
          /\ WF_vars(PollerStep(i))
          /\ WF_vars(Restart(i))
          /\ WF_vars(InstanceEnds(i) /\ UNCHANGED faults)
          /\ \A j \in Rows : /\ WF_vars(JobStep(i, j))
                              /\ SF_vars(QueueStore(i, j) /\ obj'[i][j].phase = "queued")
    /\ WF_vars(AdminStore)

Spec == Init /\ [][Next]_vars /\ Fairness

-----------------------------------------------------------------------------
(* Properties                                                              *)

Marked(j, what) == \E w \in what : <<w, j>> \in marks

\* A row is started at most once, on whichever instance and through all dequeues,
\* stops and crashes, unless an administrator's write-back undid its claim: the
\* conditional claim of JobManager.poll and the checks of queue() and init() suffice.
SingleStart == \A j \in Rows : starts[j] > 1 => Marked(j, {"rewritten"})

\* A row an instance has claimed is worked on by it: once it has reloaded its crashed
\* jobs, no pending, queued or running row of a living instance is forgotten.
NotStranded ==
    \A i \in Instances : \A j \in Rows :
        /\ inst[i] # "down" /\ reloaded[i]
        /\ row[j].status \in Live /\ ~row[j].cancelled /\ row[j].runBy = i
        => obj[i][j].phase # "none" \/ Marked(j, {"rewritten"})

\* A service with a semaphore is run by the holder of its row and by nobody else, and
\* a row whose instance is alive belongs to a running job: none is leaked, and the
\* clean-up at start never takes the lock of another instance.
SemaphoreHeldByBody ==
    \A v \in Services : Mode[v] # "none" =>
        /\ \A i \in Instances, j \in Rows :
              obj[i][j].phase = "body" /\ Svc(i, j) = v => sem[v] = [inst |-> i, holder |-> j]
        /\ sem[v] # None /\ inst[sem[v].inst] # "down"
              => obj[sem[v].inst][sem[v].holder].phase = "body"

\* A cancelJob that no write-back was pending against is honoured: the row stays
\* cancelled through queueing, dequeueing and crashes, and the job does not start.
CancelHonoured ==
    \A j \in Rows : Marked(j, {"cancelled"}) /\ Exists(j) =>
        /\ row[j].cancelled
        /\ \A i \in Instances : obj[i][j].phase \in {"none", "claimed", "queued", "rejected", "dread"}

\* A recurring schedule goes on: a row that ended has a successor with the remaining
\* recurrences, unless it was cancelled, a crash hit between claim and queueing, or the start
\* and the creation of the recurrence (reloadCrashedJobs cannot tell), or it was rewritten.
ScheduleLives ==
    \A j \in Rows :
        /\ Exists(j) /\ row[j].expr /\ row[j].plan > 0
        /\ row[j].status \in {"FINISHED", "FAILED", "CRASHED"}
        /\ ~Marked(j, {"unqueued", "unrecurred", "cancelled", "rewritten"})
        => \E k \in Rows : /\ Used(k) /\ row[k].prev = j
                            /\ row[k].expr /\ row[k].plan >= row[j].plan - 1

\* A schedule never forks: at most one successor of a row carries the temporal
\* expression on, be it a recurrence, a retry or a reloaded job, unless a crash hit
\* between the two writes of reloadCrashedJobs.
OneHeir ==
    \A j \in Rows : ~Marked(j, {"unmarked", "rewritten"}) =>
        Cardinality({k \in Rows : Used(k) /\ row[k].prev = j /\ row[k].expr}) <= 1

\* Every job ends: it is run to its end, retried, cancelled or replaced after a crash,
\* and nothing stays pending, queued or running for ever.
JobsEnd == <>[](\A j \in Rows : row[j].status \in Live => row[j].cancelled)
=============================================================================
