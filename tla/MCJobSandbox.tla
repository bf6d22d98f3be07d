---------------------------- MODULE MCJobSandbox ----------------------------
(* Model checking of the job scheduler and its semaphores. *)
EXTENDS JobSandbox, TLC

CONSTANTS i1, i2, v1

\* Instances are interchangeable.
InstanceSymmetry == Permutations(Instances)

\* The only service has a semaphore its callers wait for.
AllWait == [v \in Services |-> "wait"]
OneService == [r \in Roots |-> v1]

\* Every job recurs once.
RecurOnce == [r \in Roots |-> 1]
=============================================================================
