----------------------------- MODULE JobRecord -----------------------------
(***************************************************************************)
(* What a row of the job history promises to whoever reads it             *)
(* (jobs/models.py): it appears before anything runs, it goes from queued  *)
(* to running to exactly one verdict, and the verdict is the last thing    *)
(* that ever happens to it, short of an operator removing the row.  How    *)
(* web requests, the broker and the workers bring this about is the        *)
(* business of JobLifecycle, which implements this module.                 *)
(***************************************************************************)

CONSTANT Jobs        \* identities of the jobs whose rows are watched

VARIABLE status      \* status[j]: "none" before the row exists, "deleted" after

\* models.JobStatus, less PENDING, which no code path stores.
Unfinished == {"QUEUED", "RUNNING"}

\* models.FINISHED: "Statuses from which nothing more will happen."
Finished == {"SUCCESS", "FAILED", "CANCELED", "TIMEOUT"}

RowStatus == {"none", "deleted"} \cup Unfinished \cup Finished

----------------------------------------------------------------------------

Init == status = [j \in Jobs |-> "none"]

Become(j, from, to) ==
    /\ status[j] \in from
    /\ status' = [status EXCEPT ![j] = to]

Queue(j)  == Become(j, {"none"}, "QUEUED")
Start(j)  == Become(j, {"QUEUED"}, "RUNNING")
Finish(j) == \E verdict \in Finished : Become(j, {"RUNNING"}, verdict)
Remove(j) == Become(j, Unfinished \cup Finished, "deleted")

Next == \E j \in Jobs : Queue(j) \/ Start(j) \/ Finish(j) \/ Remove(j)

Spec == Init /\ [][Next]_status

=============================================================================
