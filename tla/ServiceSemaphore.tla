-------------------------- MODULE ServiceSemaphore --------------------------
(***************************************************************************)
(* The service semaphore (ServiceSemaphore.java): one row per locked       *)
(* service, shared by all instances.  The row's primary key is the service *)
(* name, so that its insertion, in a transaction of its own, decides who   *)
(* got the lock.  The module is composed with the callers that acquire and *)
(* release it: see JobSandbox.                                             *)
(***************************************************************************)
EXTENDS Naturals

CONSTANTS
    Instances,   \* the unique.instanceId of each server
    Services,    \* the services
    Mode,        \* the semaphore attribute of each service: "none", "fail" or "wait"
    None         \* no instance, no semaphore row

ASSUME SemaphoreAssumption ==
    /\ Mode \in [Services -> {"none", "fail", "wait"}]
    /\ None \notin Instances

VARIABLE sem     \* the row of each service: the instance and job that hold it, or None

\* acquire() returns at once for a service without a semaphore, or inserts the
\* row; checkLockNeedToWait reads first, and the insert fails on an existing key.
AcquireOk(v, i, h) ==
    \/ Mode[v] = "none" /\ UNCHANGED sem
    \/ /\ Mode[v] # "none" /\ sem[v] = None
       /\ sem' = [sem EXCEPT ![v] = [inst |-> i, holder |-> h]]

\* acquire() throws: at once in mode "fail", after the last try in mode "wait".
AcquireFails(v) == Mode[v] # "none" /\ sem[v] # None /\ UNCHANGED sem

\* release() removes the row (found by the service name) if this call made one.
Release(v) == sem' = [sem EXCEPT ![v] = None]

\* Mutant of CleanUp: all rows are removed.
CleanUpAll(i) == i \in Instances /\ sem' = [v \in Services |-> None]

\* ServiceDispatcher's constructor removes what its instance left behind.
CleanUp(i) ==
    sem' = [v \in Services |-> IF sem[v] # None /\ sem[v].inst = i THEN None ELSE sem[v]]
=============================================================================
