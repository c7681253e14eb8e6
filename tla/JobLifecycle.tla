---------------------------- MODULE JobLifecycle ----------------------------
(***************************************************************************)
(* One job from the request that creates it to the last server row its     *)
(* result touches: the two views that launch work, the view that removes a *)
(* job, the broker, and the Celery workers stepping through run_job and    *)
(* check_connection.                                                       *)
(*                                                                         *)
(* Every database statement is a step of its own: the project runs in      *)
(* autocommit, so other requests and workers interleave between any two of *)
(* them.  A request, a worker or the broker may fail between two steps;    *)
(* which failures a model admits is the constant Faults.                   *)
(***************************************************************************)
EXTENDS Naturals, FiniteSets

CONSTANTS
    PlaybookJobs,   \* jobs of kind PLAYBOOK, executed by run_job
    TestJobs,       \* jobs of kind CONNECTION_TEST, executed by check_connection
    Servers,        \* managed machines
    Workers,        \* Celery worker processes (--concurrency)
    Nobody,         \* what an idle worker has in hand
    Faults,         \* the failures this model admits
    MaxFaults       \* bound on how many of them happen

FaultKind == {"web_dies",     \* a web process dies, or the database refuses an event (for an
                              \* X-Request-ID too long), or the broker the message
              "worker_lost",  \* a worker dies: task_reject_on_worker_lost requeues
              "soft_limit",   \* SoftTimeLimitExceeded raised inside the task
              "hard_limit",   \* the task's process is killed, its message acknowledged
              "redelivery",   \* the broker hands out a message still being worked on
              "disk_error",   \* the disk refuses to remove a directory
              "broker_loss"}  \* the broker loses a queued message

Jobs == PlaybookJobs \cup TestJobs

ASSUME KindsAreDisjoint  == PlaybookJobs \cap TestJobs = {}
ASSUME NobodyIsNoJob     == Nobody \notin Jobs
ASSUME FaultsAssumption  == Faults \subseteq FaultKind /\ MaxFaults \in Nat
ASSUME WorkersAreFinite  == IsFiniteSet(Workers)

VARIABLES
    status,    \* status[j]   Job.status, or "none" / "deleted" when there is no row
    servers,   \* servers[j]  Job.servers, the many-to-many rows
    recap,     \* recap[j]    Job.recap, as what it says of each server
    health,    \* health[s]   Server.status, or "deleted"
    trail,     \* trail[j]    audit events about the job
    creator,   \* creator[j]  where the request that launches j has got to
    asked,     \* asked[j]    the servers its validated form selects
    remover,   \* remover[j]  where the request that removes j has got to
    queue,     \* queue[j]    messages naming j that wait in the broker
    pc,        \* pc[w]       where worker w is in its task
    task,      \* task[w]     the job named by the message it holds
    todo,      \* todo[w]     its local list of servers, those still to update
    seen,      \* seen[w]     RunResult.hosts
    verdict,   \* verdict[w]  RunResult.status, in the platform's terms
    dirs,      \* dirs[j]     private data directories left on disk for j
    runs,      \* runs[j]     history: how often Ansible was started for j
    lost,      \* lost[j]     history: how often a worker died holding j
    left,      \* left[j]     history: how often a run of j was cut off from its directory
    faults     \* faults that happened so far

rowVars   == <<status, servers, recap>>
localVars == <<task, todo, seen, verdict>>
taskVars  == <<pc, task, todo, seen, verdict>>
histVars  == <<dirs, runs, lost, left>>
webVars   == <<creator, asked, remover, trail>>
vars == <<status, servers, recap, health, trail, creator, asked, remover, queue,
          pc, task, todo, seen, verdict, dirs, runs, lost, left, faults>>

----------------------------------------------------------------------------
(* Values *)

Finished   == {"SUCCESS", "FAILED", "CANCELED", "TIMEOUT"}
Unfinished == {"QUEUED", "RUNNING"}
RowStatus  == {"none", "deleted"} \cup Unfinished \cup Finished

\* ServerStatus, less MAINTENANCE, which no task writes.
Health == {"UNKNOWN", "ONLINE", "OFFLINE", "ERROR", "deleted"}

\* What a recap says of one host; "absent" when the host is not in it.
Observation == {"ok", "failures", "unreachable", "absent"}
NoHosts     == [s \in Servers |-> "absent"]

\* The status a server is given for what a run observed of it.
HealthFor(observed) ==
    [ok |-> "ONLINE", failures |-> "ERROR", unreachable |-> "OFFLINE",
     absent |-> "ERROR"][observed]

\* How ansible-runner reports the end of a run, and the platform's word for it;
\* anything the table does not name is FAILED.
RunnerStatus == {"successful", "failed", "timeout", "canceled", "error"}
StatusFor(reported) ==
    [successful |-> "SUCCESS", failed |-> "FAILED", timeout |-> "TIMEOUT",
     canceled |-> "CANCELED", error |-> "FAILED"][reported]

RowExists(j)    == status[j] \notin {"none", "deleted"}
LiveServers     == {s \in Servers : health[s] # "deleted"}

Step == {"idle", "fetch", "start", "targets", "run", "running", "finish_result",
         "finish_error", "finish_empty", "record", "mark_error", "return"}

----------------------------------------------------------------------------
(* Initial state: registered servers, no job, idle workers *)

Init ==
    /\ status  = [j \in Jobs |-> "none"]
    /\ servers = [j \in Jobs |-> {}]
    /\ recap   = [j \in Jobs |-> NoHosts]
    /\ health  = [s \in Servers |-> "UNKNOWN"]
    /\ trail   = [j \in Jobs |-> {}]
    /\ creator = [j \in Jobs |-> "new"]
    /\ asked   = [j \in Jobs |-> {}]
    /\ remover = [j \in Jobs |-> "none"]
    /\ queue   = [j \in Jobs |-> 0]
    /\ pc      = [w \in Workers |-> "idle"]
    /\ task    = [w \in Workers |-> Nobody]
    /\ todo    = [w \in Workers |-> {}]
    /\ seen    = [w \in Workers |-> NoHosts]
    /\ verdict = [w \in Workers |-> "FAILED"]
    /\ dirs    = [j \in Jobs |-> 0]
    /\ runs    = [j \in Jobs |-> 0]
    /\ lost    = [j \in Jobs |-> 0]
    /\ left    = [j \in Jobs |-> 0]
    /\ faults  = 0

\* A failure of the given kind happens, if the model admits one more.
Fault(kind) ==
    /\ kind \in Faults
    /\ faults < MaxFaults
    /\ faults' = faults + 1

----------------------------------------------------------------------------
(* Launching: job_create for a playbook, server_test for a connection test.  *)
(* Both save the row, attach the servers, record the event, then publish.    *)

\* RunPlaybookForm refuses an empty selection; a test names one server.  The
\* row is saved QUEUED with no servers yet.
Submit(j, selection) ==
    /\ creator[j] = "new"
    /\ selection # {} /\ selection \subseteq LiveServers
    /\ j \in TestJobs => \E s \in selection : selection = {s}
    /\ status'  = [status EXCEPT ![j] = "QUEUED"]
    /\ asked'   = [asked EXCEPT ![j] = selection]
    /\ creator' = [creator EXCEPT ![j] = "saved"]
    /\ UNCHANGED <<servers, recap, health, remover, trail, queue, taskVars,
                   histVars, faults>>

\* The form's selection is a query, evaluated again here, so a server deleted
\* since is simply not in it; a test inserts the very row it loaded.
Attached(j) == IF j \in PlaybookJobs THEN asked[j] \cap LiveServers ELSE asked[j]

AttachServers(j) ==
    /\ creator[j] = "saved"
    /\ Attached(j) = {} \/ RowExists(j)
    /\ Attached(j) \subseteq LiveServers
    /\ servers' = [servers EXCEPT ![j] = Attached(j)]
    /\ creator' = [creator EXCEPT ![j] = "attached"]
    /\ UNCHANGED <<status, recap, health, asked, remover, trail, queue, taskVars,
                   histVars, faults>>

\* A foreign key of the inserted rows points at nothing: the request ends in
\* an IntegrityError, with the row saved and nothing published.
AttachRefused(j) ==
    /\ creator[j] = "saved"
    /\ ~(Attached(j) = {} \/ RowExists(j)) \/ ~(Attached(j) \subseteq LiveServers)
    /\ creator' = [creator EXCEPT ![j] = "died"]
    /\ UNCHANGED <<rowVars, health, asked, remover, trail, queue, taskVars,
                   histVars, faults>>

RecordLaunch(j) ==
    /\ creator[j] = "attached"
    /\ trail'   = [trail EXCEPT ![j] = @ \cup {"LAUNCH"}]
    /\ creator' = [creator EXCEPT ![j] = "recorded"]
    /\ UNCHANGED <<rowVars, health, asked, remover, queue, taskVars, histVars,
                   faults>>

PublishAfter(j, before, copies) ==
    /\ creator[j] = before
    /\ queue'   = [queue EXCEPT ![j] = @ + copies]
    /\ creator' = [creator EXCEPT ![j] = "published"]
    /\ UNCHANGED <<rowVars, health, asked, remover, trail, taskVars, histVars,
                   faults>>

\* Mutants: the message is sent twice; the message is sent before the record.
PublishTwice(j)      == PublishAfter(j, "recorded", 2)
PublishUnrecorded(j) == PublishAfter(j, "attached", 1)

Publish(j) == PublishAfter(j, "recorded", 1)

CreatorDies(j) ==
    /\ creator[j] \in {"saved", "attached", "recorded"}
    /\ Fault("web_dies")
    /\ creator' = [creator EXCEPT ![j] = "died"]
    /\ UNCHANGED <<rowVars, health, asked, remover, trail, queue, taskVars, histVars>>

----------------------------------------------------------------------------
(* Removing: job_delete records the removal first, then deletes the row, at  *)
(* any status.  One removal request per job.                                 *)

LoadForRemoval(j) ==
    /\ remover[j] = "none"
    /\ RowExists(j)
    /\ remover' = [remover EXCEPT ![j] = "loaded"]
    /\ UNCHANGED <<rowVars, health, creator, asked, trail, queue, taskVars,
                   histVars, faults>>

RecordRemoval(j) ==
    /\ remover[j] = "loaded"
    /\ trail'   = [trail EXCEPT ![j] = @ \cup {"DELETE"}]
    /\ remover' = [remover EXCEPT ![j] = "recorded"]
    /\ UNCHANGED <<rowVars, health, creator, asked, queue, taskVars, histVars,
                   faults>>

\* The many-to-many rows go with the job, in one transaction.
RemoveRowAfter(j, before) ==
    /\ remover[j] = before
    /\ status'  = [status EXCEPT ![j] = "deleted"]
    /\ servers' = [servers EXCEPT ![j] = {}]
    /\ recap'   = [recap EXCEPT ![j] = NoHosts]
    /\ remover' = [remover EXCEPT ![j] = "done"]
    /\ UNCHANGED <<health, creator, asked, trail, queue, taskVars, histVars, faults>>

\* Mutant: the row is deleted before the removal is recorded.
RemoveRowUnrecorded(j) == RemoveRowAfter(j, "loaded")

RemoveRow(j) == RemoveRowAfter(j, "recorded")

RemoverDies(j) ==
    /\ remover[j] \in {"loaded", "recorded"}
    /\ Fault("web_dies")
    /\ remover' = [remover EXCEPT ![j] = "died"]
    /\ UNCHANGED <<rowVars, health, creator, asked, trail, queue, taskVars, histVars>>

\* A server is deleted from the management screens: its rows in every job's
\* many-to-many table go with it.
DeleteServer(s) ==
    /\ s \in LiveServers
    /\ health'  = [health EXCEPT ![s] = "deleted"]
    /\ servers' = [j \in Jobs |-> servers[j] \ {s}]
    /\ UNCHANGED <<status, recap, webVars, queue, taskVars, histVars, faults>>

----------------------------------------------------------------------------
(* The tasks *)

GoTo(w, step) == pc' = [pc EXCEPT ![w] = step]

\* The worker lets go of its message and forgets the task's local state.
Release(w) ==
    /\ pc'      = [pc EXCEPT ![w] = "idle"]
    /\ task'    = [task EXCEPT ![w] = Nobody]
    /\ todo'    = [todo EXCEPT ![w] = {}]
    /\ seen'    = [seen EXCEPT ![w] = NoHosts]
    /\ verdict' = [verdict EXCEPT ![w] = "FAILED"]

\* Acknowledgement is late: the message stays owed to the worker until Ack.
Receive(w, j) ==
    /\ pc[w] = "idle"
    /\ queue[j] > 0
    /\ queue' = [queue EXCEPT ![j] = @ - 1]
    /\ task'  = [task EXCEPT ![w] = j]
    /\ GoTo(w, "fetch")
    /\ UNCHANGED <<rowVars, health, webVars, todo, seen, verdict, histVars, faults>>

\* Mutant: run_job forgets to look at whether the job has finished.
SkipsOnlyMissing(j) == ~RowExists(j)

\* Both tasks return at once when the row is gone; only run_job also looks at
\* whether the job has finished before.
Skips(j) == \/ ~RowExists(j)
            \/ j \in PlaybookJobs /\ status[j] \in Finished

Fetch(w) ==
    /\ pc[w] = "fetch"
    /\ GoTo(w, IF Skips(task[w]) THEN "return" ELSE "start")
    /\ UNCHANGED <<rowVars, health, webVars, queue, localVars, histVars, faults>>

MarkRunning(w) ==
    /\ pc[w] = "start"
    /\ RowExists(task[w])
    /\ status' = [status EXCEPT ![task[w]] = "RUNNING"]
    /\ GoTo(w, "targets")
    /\ UNCHANGED <<servers, recap, health, webVars, queue, localVars, histVars,
                   faults>>

\* mark_running and mark_finished save with update_fields: a row deleted meanwhile
\* is never inserted again, the save raises DatabaseError, which leaves the task.
SaveRaises(w) ==
    /\ pc[w] \in {"start", "finish_result", "finish_error", "finish_empty"}
    /\ ~RowExists(task[w])
    /\ GoTo(w, "return")
    /\ UNCHANGED <<rowVars, health, webVars, queue, localVars, histVars, faults>>

ReadServers(w) ==
    /\ pc[w] = "targets"
    /\ todo' = [todo EXCEPT ![w] = servers[task[w]]]
    /\ GoTo(w, IF servers[task[w]] = {} THEN "finish_empty" ELSE "run")
    /\ UNCHANGED <<rowVars, health, webVars, queue, task, seen, verdict, histVars,
                   faults>>

\* _execute: a private directory with the inventory and the secrets, then Ansible.
StartRun(w) ==
    /\ pc[w] = "run"
    /\ dirs' = [dirs EXCEPT ![task[w]] = @ + 1]
    /\ runs' = [runs EXCEPT ![task[w]] = @ + 1]
    /\ GoTo(w, "running")
    /\ UNCHANGED <<rowVars, health, webVars, queue, localVars, lost, left, faults>>

\* The run of worker w is over and its directory is gone, or is still there.
Removes(w) == dirs' = [dirs EXCEPT ![task[w]] = @ - 1] /\ UNCHANGED left
Leaves(w)  == left' = [left EXCEPT ![task[w]] = @ + 1] /\ UNCHANGED dirs

\* Mutant: a directory is removed even when none was created.
CleanUpAlways(w) == Removes(w) /\ UNCHANGED faults

\* Mutant: it is never removed.
CleanUpNever(w) == UNCHANGED <<dirs, left, faults>>

\* The directory in use is removed, whichever way the run ends (finally); when
\* the disk refuses, rmtree ignores it and nobody hears of it.
CleanUp(w) ==
    IF pc[w] # "running"
    THEN UNCHANGED <<dirs, left, faults>>
    ELSE \/ Removes(w) /\ UNCHANGED faults
         \/ Leaves(w) /\ Fault("disk_error")

\* A run Ansible calls successful has no failed and no unreachable host.
RunEnds(w, reported, hosts) ==
    /\ pc[w] = "running"
    /\ hosts \in [Servers -> Observation]
    /\ \A s \in Servers \ todo[w] : hosts[s] = "absent"
    /\ reported = "successful" => \A s \in Servers : hosts[s] \in {"ok", "absent"}
    /\ seen'    = [seen EXCEPT ![w] = hosts]
    /\ verdict' = [verdict EXCEPT ![w] = StatusFor(reported)]
    /\ CleanUp(w)
    /\ GoTo(w, "finish_result")
    /\ UNCHANGED <<rowVars, health, webVars, queue, task, todo, runs, lost>>

\* Mutant: the exception leaves the task.
RunRaisesUncaught(w) ==
    /\ pc[w] \in {"run", "running"}
    /\ CleanUp(w)
    /\ GoTo(w, "return")
    /\ UNCHANGED <<rowVars, health, webVars, queue, localVars, runs, lost>>

\* The except branch: a missing playbook, an undecryptable secret, a full disk.
RunRaises(w) ==
    /\ pc[w] \in {"run", "running"}
    /\ CleanUp(w)
    /\ GoTo(w, "finish_error")
    /\ UNCHANGED <<rowVars, health, webVars, queue, localVars, runs, lost>>

\* What each of the three calls to mark_finished is followed by.
AfterFinish(w) ==
    CASE pc[w] = "finish_result" -> "record"
      [] pc[w] = "finish_error" /\ task[w] \in TestJobs -> "mark_error"
      [] OTHER -> "return"

\* seen and verdict are still NoHosts and FAILED unless the run returned a result.
FinishStoring(w, recaps) ==
    /\ pc[w] \in {"finish_result", "finish_error", "finish_empty"}
    /\ RowExists(task[w])
    /\ status' = [status EXCEPT ![task[w]] = verdict[w]]
    /\ recap'  = recaps
    /\ GoTo(w, AfterFinish(w))
    /\ UNCHANGED <<servers, health, webVars, queue, localVars, histVars, faults>>

\* Mutant: recap is missing from the update_fields of mark_finished.
MarkFinishedWithoutRecap(w) == FinishStoring(w, recap)

MarkFinished(w) == FinishStoring(w, [recap EXCEPT ![task[w]] = seen[w]])

\* _record_reachability and _mark_servers save the servers one by one.
RecordServer(w, s) ==
    /\ pc[w] \in {"record", "mark_error"}
    /\ s \in todo[w] \cap LiveServers
    /\ health' = [health EXCEPT ![s] =
                    IF pc[w] = "record" THEN HealthFor(seen[w][s]) ELSE "ERROR"]
    /\ todo' = [todo EXCEPT ![w] = @ \ {s}]
    /\ UNCHANGED <<rowVars, webVars, queue, pc, task, seen, verdict, histVars,
                   faults>>

\* Mutant: a server deleted meanwhile is waited for.
RecordServerWaits(w, s) == FALSE

\* The first server deleted meanwhile raises, and the rest are left as they were.
RecordServerRaises(w, s) ==
    /\ pc[w] \in {"record", "mark_error"}
    /\ s \in todo[w] \ LiveServers
    /\ GoTo(w, "return")
    /\ UNCHANGED <<rowVars, health, webVars, queue, localVars, histVars, faults>>

AllRecorded(w) ==
    /\ pc[w] \in {"record", "mark_error"}
    /\ todo[w] = {}
    /\ GoTo(w, "return")
    /\ UNCHANGED <<rowVars, health, webVars, queue, localVars, histVars, faults>>

Ack(w) ==
    /\ pc[w] = "return"
    /\ Release(w)
    /\ UNCHANGED <<rowVars, health, webVars, queue, histVars, faults>>

----------------------------------------------------------------------------
(* What Celery and Redis do to a task *)

\* Whatever a process that is killed had written to disk stays there.
Killed(w) ==
    /\ pc[w] # "idle"
    /\ IF pc[w] = "running" THEN Leaves(w) ELSE UNCHANGED <<dirs, left>>
    /\ Release(w)

\* The worker process dies.
LoseWorker(w, requeued) ==
    /\ Killed(w)
    /\ Fault("worker_lost")
    /\ queue' = [queue EXCEPT ![task[w]] = @ + requeued]
    /\ lost'  = [lost EXCEPT ![task[w]] = @ + 1]
    /\ UNCHANGED <<rowVars, health, webVars, runs>>

\* Mutant: task_reject_on_worker_lost is not set, and the message is acknowledged.
WorkerLostAcknowledged(w) == LoseWorker(w, 0)

\* task_reject_on_worker_lost: the message goes back to the queue.
WorkerLost(w) == LoseWorker(w, 1)

\* The exception is caught around the run and nowhere else; anywhere else it
\* leaves the task, and a task that raised is acknowledged.  Between mkdtemp and
\* the try, or in the middle of rmtree, it keeps the directory from being removed.
SoftLimit(w) ==
    /\ pc[w] \notin {"idle", "return"}
    /\ Fault("soft_limit")
    /\ IF pc[w] = "running" THEN Removes(w) \/ Leaves(w) ELSE UNCHANGED <<dirs, left>>
    /\ GoTo(w, IF pc[w] \in {"run", "running"} THEN "finish_error" ELSE "return")
    /\ UNCHANGED <<rowVars, health, webVars, queue, localVars, runs, lost>>

\* The process is killed; acks_on_failure_or_timeout acknowledges the message.
HardLimit(w) ==
    /\ Killed(w)
    /\ Fault("hard_limit")
    /\ UNCHANGED <<rowVars, health, webVars, queue, runs, lost>>

\* An unacknowledged message is handed out again while its worker still runs.
Redeliver(w) ==
    /\ pc[w] # "idle"
    /\ Fault("redelivery")
    /\ queue' = [queue EXCEPT ![task[w]] = @ + 1]
    /\ UNCHANGED <<rowVars, health, webVars, taskVars, histVars>>

LoseMessage(j) ==
    /\ queue[j] > 0
    /\ Fault("broker_loss")
    /\ queue' = [queue EXCEPT ![j] = @ - 1]
    /\ UNCHANGED <<rowVars, health, webVars, taskVars, histVars>>

----------------------------------------------------------------------------
(* The system *)

Creating(j) == AttachServers(j) \/ AttachRefused(j) \/ RecordLaunch(j) \/ Publish(j)

Removing(j) == LoadForRemoval(j) \/ RecordRemoval(j) \/ RemoveRow(j)

Running(w) ==
    \/ \E reported \in RunnerStatus, hosts \in [Servers -> Observation] :
           RunEnds(w, reported, hosts)
    \/ RunRaises(w)

Working(w) ==
    \/ \E j \in Jobs : Receive(w, j)
    \/ Fetch(w) \/ MarkRunning(w) \/ ReadServers(w) \/ StartRun(w) \/ Running(w)
    \/ MarkFinished(w) \/ SaveRaises(w) \/ AllRecorded(w) \/ Ack(w)
    \/ \E s \in Servers : RecordServer(w, s) \/ RecordServerRaises(w, s)

Failing ==
    \/ \E j \in Jobs : CreatorDies(j) \/ RemoverDies(j) \/ LoseMessage(j)
    \/ \E w \in Workers : WorkerLost(w) \/ SoftLimit(w) \/ HardLimit(w) \/ Redeliver(w)

Next ==
    \/ \E j \in Jobs, selection \in SUBSET Servers : Submit(j, selection)
    \/ \E j \in Jobs : Creating(j) \/ Removing(j)
    \/ \E s \in Servers : DeleteServer(s)
    \/ \E w \in Workers : Working(w)
    \/ Failing

Spec == Init /\ [][Next]_vars

\* Workers are long-running processes that keep taking messages, and every run
\* ends: ansible-runner is given a job_timeout.  Operators owe the system nothing.
FairSpec == Spec /\ \A w \in Workers : WF_vars(Working(w))

----------------------------------------------------------------------------
(* Properties *)

TypeOK ==
    /\ status  \in [Jobs -> RowStatus]
    /\ servers \in [Jobs -> SUBSET Servers]
    /\ recap   \in [Jobs -> [Servers -> Observation]]
    /\ health  \in [Servers -> Health]
    /\ trail   \in [Jobs -> SUBSET {"LAUNCH", "DELETE"}]
    /\ creator \in [Jobs -> {"new", "saved", "attached", "recorded", "published", "died"}]
    /\ asked   \in [Jobs -> SUBSET Servers]
    /\ remover \in [Jobs -> {"none", "loaded", "recorded", "done", "died"}]
    /\ queue   \in [Jobs -> Nat]
    /\ pc      \in [Workers -> Step]
    /\ task    \in [Workers -> Jobs \cup {Nobody}]
    /\ todo    \in [Workers -> SUBSET Servers]
    /\ seen    \in [Workers -> [Servers -> Observation]]
    /\ verdict \in [Workers -> Finished]
    /\ dirs    \in [Jobs -> Nat]
    /\ runs    \in [Jobs -> Nat]
    /\ lost    \in [Jobs -> Nat]
    /\ left    \in [Jobs -> Nat]
    /\ faults  \in Nat

InHand(j) == \E w \in Workers : task[w] = j

\* The request that launches j is over, and nobody is going to work on j.
Abandoned(j) ==
    creator[j] \in {"published", "died"} /\ queue[j] = 0 /\ ~InHand(j)

\* run_job: Ansible never works twice at the same time on one job, unless the
\* broker hands out a message that is still being worked on.
OneRunAtATime ==
    "redelivery" \notin Faults =>
        \A w1, w2 \in Workers :
            pc[w1] = "running" /\ pc[w2] = "running" /\ task[w1] = task[w2] => w1 = w2

\* acks_late with the finished check: Ansible is started again for a job only
\* to make up for a worker that died with it, once for each such death.
RerunOnlyAfterLoss ==
    "redelivery" \notin Faults => \A j \in Jobs : runs[j] <= lost[j] + 1

\* job_create and server_test record the event before they publish: nothing is
\* ever executed that the audit trail does not know of.
LaunchOnRecord == \A j \in Jobs : runs[j] > 0 => "LAUNCH" \in trail[j]

\* jobs/models.py: "A run that leaves no record is a run nobody can answer
\* questions about later".  Once Ansible was started for a job its row shows it,
\* and the row can only have gone with the removal on record.
RunLeavesRecord ==
    \A j \in Jobs : runs[j] > 0 =>
        /\ status[j] \notin {"none", "QUEUED"}
        /\ status[j] = "deleted" => "DELETE" \in trail[j]

\* ADR 0003: "so a task is not silently lost when a worker dies".  A published
\* job that has no verdict yet is waiting in the broker or held by a worker.
NotSilentlyLost ==
    Faults \cap {"soft_limit", "hard_limit", "broker_loss"} = {} =>
        \A j \in Jobs :
            creator[j] = "published" /\ status[j] \in Unfinished =>
                queue[j] > 0 \/ InHand(j)

\* A row that waits for nobody claims QUEUED because its request stopped before it
\* published, and then nothing was run; or something failed after that.  Without
\* a failure every row that was published gets its verdict.
OrphansAreExplained ==
    \A j \in Jobs : status[j] \in Unfinished /\ Abandoned(j) =>
        \/ creator[j] = "died" /\ status[j] = "QUEUED" /\ runs[j] = 0
        \/ creator[j] = "published" /\ faults > 0

RunningOn(j) == {w \in Workers : pc[w] = "running" /\ task[w] = j}

\* automation/runner.py says the private directory "never outlives the run".  It
\* does so exactly when its own run was killed, when the soft limit hit it outside
\* the try, or when its removal failed unheard; then it stays for good: no second
\* delivery and no removal of the job takes it away.  Nothing else that can go
\* wrong, with this job or with another, leaves one.
LeftoversAreExplained ==
    \A j \in Jobs : dirs[j] = Cardinality(RunningOn(j)) + left[j]

\* _record_reachability and mark_finished agree: when nothing is queued or in
\* progress, the status of a tested server is what the recap of one of its
\* finished jobs says, or of a job since removed from the history.  When a test is
\* repeated, a limit can cut it off between the two writes, a message lost leaves it
\* unfinished, and two deliveries may record in opposite orders.
StatusIsExplained ==
    Faults \cap {"soft_limit", "hard_limit", "broker_loss", "redelivery"} = {} =>
        ((\A j \in Jobs : queue[j] = 0 /\ ~InHand(j)) =>
            \A s \in LiveServers : health[s] # "UNKNOWN" =>
                \E j \in Jobs :
                    \/ status[j] = "deleted"
                    \/ /\ s \in servers[j] /\ status[j] \in Finished
                       /\ health[s] = HealthFor(recap[j][s]))

\* Playbook jobs keep the promise of the job history, through crashes of the
\* web process and of workers: JobRecord is implemented by the rows they leave.
History == INSTANCE JobRecord WITH Jobs <- PlaybookJobs,
                                   status <- [j \in PlaybookJobs |-> status[j]]
HistoryIsKept == History!Spec

\* Every published job gets its verdict, unless an operator removes it first.
EventuallySettled ==
    \A j \in Jobs : creator[j] = "published" ~> status[j] \in Finished \cup {"deleted"}

\* Every worker eventually lets go of what it took: no interleaving of removals
\* and failures leaves a worker occupied for good.
WorkersComeBack == \A w \in Workers : pc[w] # "idle" ~> pc[w] = "idle"
=============================================================================
