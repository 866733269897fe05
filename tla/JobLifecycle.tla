----------------------------- MODULE JobLifecycle -----------------------------
(***************************************************************************)
(* What a background job promises: the life of its row in background_jobs, *)
(* as the jobs panel and the 409 checks of the Pi routes rely on it.       *)
(* BackgroundJobs implements it.                                           *)
(***************************************************************************)
CONSTANT Jobs
VARIABLE status     \* of each job's row; "none" before it exists

Active == {"pending", "running"}
Final  == {"done", "error", "cancelled"}

Init == status = [j \in Jobs |-> "none"]

Create(j) == /\ status[j] = "none"
             /\ status' = [status EXCEPT ![j] = "pending"]

Begin(j) == /\ status[j] = "pending"
            /\ status' = [status EXCEPT ![j] = "running"]

Settle(j) == /\ status[j] \in Active
             /\ \E s \in Final : status' = [status EXCEPT ![j] = s]

\* A failure right after the row was settled is reported on the row.
Spoil(j) == /\ status[j] \in {"done", "cancelled"}
            /\ status' = [status EXCEPT ![j] = "error"]

\* A restart queues what was running, all of it at once.
Requeue == status' = [j \in Jobs |-> IF status[j] = "running" THEN "pending"
                                     ELSE status[j]]

Next == \/ \E j \in Jobs : Create(j) \/ Begin(j) \/ Settle(j) \/ Spoil(j)
        \/ Requeue

Spec == Init /\ [][Next]_status
=============================================================================
