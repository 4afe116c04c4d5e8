------------------------- MODULE ScheduleJobRetries -------------------------
(***************************************************************************)
(* ScheduleJobs with a count of how often a worker has started to write    *)
(* each job, whether or not the transaction committed.                     *)
(***************************************************************************)
EXTENDS ScheduleJobs

VARIABLE executions   \* [Jobs -> Nat]

Starts(w, j) ==
    /\ thread[w].job = j
    /\ thread[w].pc = "begin"
    /\ thread'[w].pc = "running"

RetriesInit ==
    /\ Init
    /\ executions = [j \in Jobs |-> 0]

RetriesNext ==
    /\ Next
    /\ executions' = [j \in Jobs |->
          IF \E w \in Threads : Starts(w, j) THEN executions[j] + 1
                                             ELSE executions[j]]

RetriesSpec == RetriesInit /\ [][RetriesNext]_<<vars, executions>>

\* "WORKER_MAX_RETRIES: maximum worker retries for transient DB/Kafka errors"
\* (README.md): after the first run of a job at most that many retries.
RetriesBounded == \A j \in Jobs : executions[j] <= 1 + MaxRetries
=============================================================================
