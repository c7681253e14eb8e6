# Ansible DevOps platform: models and proofs

TLA+ models of the platform's own logic: the jobs that run Ansible and what they
are run with, the host keys it trusts, the servers it knows and how they are
imported, the files of its workspace, the roles of its users, and the functions
that name groups, write inventories and clean audit events. The source paths
below are relative to the repository's root, `src/` in `PROJECT.json`.

* `tlc -workers 2 -config X.cfg M` checks a run; `PROJECT.json` lists module,
  configuration and properties of each, and whether it is to pass.
* `tlapm M_proofs.tla` checks the theorems of a component.
* `PROJECT.json`'s `map` names the lines every definition was translated from.

## 1. The system

A Django application serves screens and a REST API with several gunicorn
processes; two Celery worker processes take jobs from Redis and run Ansible;
PostgreSQL holds every record; one directory, the workspace, holds playbooks and
the `known_hosts` file and is mounted by all of them. Three facts shape every
model:

* the database runs in **autocommit** (no `ATOMIC_REQUESTS`), so each statement of
  a request or of a task is visible to the others at once, and a request that
  dies leaves what it had done so far;
* messages are acknowledged **late** and requeued when a worker dies
  (`core/settings.py:112-113`);
* nothing in the workspace is locked.

| Component | State it keeps | Operations | What is hard |
|---|---|---|---|
| Job execution (`jobs/models.py`, `jobs/tasks.py`, `core/celery.py`) | the row of a job (status, servers, recap), the worker's locals | `run_job`, `check_connection`, `mark_running`, `mark_finished`, `_record_reachability`, `_mark_servers` | a worker dying at any statement, two time limits, a message delivered twice, rows and servers deleted under the task |
| Launching and removing (`jobs/views.py`, `jobs/forms.py`) | the request's progress | `job_create`, `server_test`, `job_delete` | row, servers, audit event and message are four separate effects |
| Running Ansible (`automation/runner.py`) | the private directory with inventory and secrets | `run_playbook`, `run_module` | secrets on disk when the process is killed; which secret a server ends up with, and when it is read |
| Host key decisions (`automation/known_hosts.py`, trust screens of `jobs/views.py`) | the `known_hosts` file | scan, trust, forget | a shared file rewritten without a lock; two scans where a person saw one |
| Workspace files (`automation/workspace.py`, `automation/files.py`) | a directory tree | create, edit, rename, delete, validate | checks before the act, disk changed before the audit event, syntax rules |
| Servers and their references (`infrastructure/`) | servers, environments, groups, clients, credentials | forms, REST views, delete screens | full-row saves of a stale read, protected references, unique names |
| SSH config import (`infrastructure/ssh_config.py`, `import_ssh_config`) | servers, clients, environments, groups | parse, import, backfill | one long transaction beside everybody else; repeating an import; banners and blocks |
| Inventory (`inventory/builder.py`) | none | `build`, `render`, `graph` | two sources of group names in one namespace |
| Credentials (`credentials/`) | encrypted secrets | set, reveal | a secret under a rotated key |
| Audit trail (`audit/`, `commun/audit_mixins.py`) | append-only events | record, sanitize, read | events before or after the fact; secrets in values |
| Roles and sign-in (`authentication/`) | roles, user flags | grant, move, revoke, `sync_flags`, seeding, `has_perm` | flags derived from roles by separate statements |
| IP intelligence, security events, platform settings, health page, templates, containers | little or none | look-ups, pages | nothing concurrent |

**How they interact.** A screen creates a job row, attaches servers, writes the
audit event and publishes the job's identifier. A worker loads the row, marks it
running, reads its servers, builds an inventory with their credentials in a
private directory, runs Ansible with the shared `known_hosts`, stores the
verdict in the row and the observed status in each server. Screens delete jobs
and servers at any moment, worker or not.

**What makes each correct.** Jobs: one verdict, never lost, never run twice
without cause, always on record. Host keys: nothing trusted that nobody accepted,
nothing accepted that gets lost, nothing forgotten that comes back. Workspace:
a playbook stays a playbook, nothing is replaced, every change is on record.
Registry and import: references never dangle, names stay unique, a deleted row stays
deleted. Launch: the right servers, the right secrets, dry when it was to be dry.
Inventory: each server once in each group it belongs to, no collisions.
Audit: what is claimed happened, what happened is claimed, no secret in it.
Roles: the flags say what the roles say.

`PROJECT.json` lists the hazards one by one, with the line where each bites.

## 2. The modules

| Module | Models | Proofs |
|---|---|---|
| `JobRecord` | what a row of the history promises: queued, running, one verdict, removal | implemented by `JobLifecycle` |
| `JobLifecycle` | requests, broker and workers around one table of jobs | `JobLifecycle_proofs` |
| `Launch` | servers, credential and dry run of a job, from the form to Ansible | `Launch_proofs` |
| `KnownHosts` | the two host key screens over the shared file | `KnownHosts_proofs` |
| `Registry` | servers and the rows they refer to, under the screens and REST views that create, edit and delete them | `Registry_proofs` |
| `Workspace` | the file explorer over the tree on disk | `Workspace_proofs` |
| `Roles` | roles, assignments and derived flags | `Roles_proofs` |
| `SshConfig`, `SshImport` | the parser of an OpenSSH configuration, and the command that imports one | `SshImport_proofs`, `Outputs_proofs` |
| `Inventory`, `Sanitizer` | names and groups of the inventory; what an audit event keeps | `Outputs_proofs` |
| `Outputs` | one question and one answer of `Inventory`, `Sanitizer` or `SshConfig` | `Outputs_proofs` |
| `Subsequence` | a list filtered by a condition, which the parser and the names use | in both |
| `MC...` | the same modules with the sets TLC needs | |

`JobLifecycle` and `Launch` are two views of one job. The first follows it through
crashes, timeouts and redeliveries and abstracts what it is run with; the second
delivers it once and follows its servers and secrets while people edit them.
`SshImport` extends `SshConfig`: what it imports is what the parser reads.

### JobLifecycle

State, by owner:

* database: `status`, `servers`, `recap` (the job's row), `health` (a server's
  status), `trail` (audit events about the job);
* requests: `creator[j]` is where the request that launches j is, `asked[j]` the
  validated form, `remover[j]` where the one that deletes it is;
* broker: `queue[j]` counts waiting messages that name j;
* workers: `pc`, `task`, `todo` (the local list of servers), `seen`
  (`RunResult.hosts`), `verdict` (`RunResult.status`);
* disk: `dirs[j]`, private directories there are;
* history variables: `runs`, `lost`, `left` (how often a run was cut off from its directory),
  `faults`.

`Submit`, `AttachServers`, `RecordLaunch`, `Publish` are `job_create` (and
`server_test`, for a connection test) one statement at a time. The form's selection is a
query evaluated again when it is attached, so servers deleted meanwhile drop
out; a connection test inserts the row it loaded, and the foreign key refuses it
(`AttachRefused`). `LoadForRemoval`, `RecordRemoval`, `RemoveRow` are
`job_delete`. A worker goes `fetch` → `start` → `targets` → `run` → `running` →
`finish_*` → `record` → `return`; each step is one statement of the task that reads
or writes something shared. `run_job` and `check_connection` are one machine: they
differ in `Skips` (only the first looks at whether the job has finished) and in
`AfterFinish` (only the second marks its servers after an exception).
`mark_running` and `mark_finished` save with `update_fields`, so a row that is gone
makes them raise (`SaveRaises`) and is never inserted again.

What Celery and Redis do is modelled from the settings: a lost worker's message
comes back (`WorkerLost`), a soft limit is an exception, caught only around the
run (`SoftLimit`), a hard limit kills the process and acknowledges (`HardLimit`),
a message in use may be handed out again (`Redeliver`), a queued one may be lost
(`LoseMessage`). The private directory goes in a `finally`, by an `rmtree` that ignores its
errors: it stays (`Leaves`) when the process is killed, when the disk refuses, and when the soft
limit falls between `mkdtemp` and the `try` or into `rmtree` itself. `Faults` names which of these a model admits, `MaxFaults` bounds
how many happen.

The data Ansible produces is abstracted to what the platform reads: the status
word ansible-runner reports and, per host, one of ok, failures, unreachable,
absent. Output, timings and exit codes are left out.

### KnownHosts

The file is a set of lines (host and key): `trust` and `forget` treat each line
by itself, so order and repetition do not matter. A request is `idle`, has
`shown` a page, has `scanned` on acceptance, has read what is there
(`existing`), has `appended`, or is `forgetting` / `truncated`. `write_text` is two
steps, because opening for writing empties the file; `WriteBack` keeps an
arbitrary part of what others appended in between, since it writes from the
beginning. Each scan gets whatever set of keys the host offers at that moment,
so a machine may be reinstalled, or pretend to be another, between two scans; and
`Accept` needs no page before it, since the view answers any POST. `Replace` is what
the file explorer does to a file of that name: it deletes it, renames it away, renames
another to its place (`ByHand` is what text files hold). A request that was writing then
writes to a file nobody reads (`WriteAway`).

`approved` (lines a page showed before its reader accepted, as long as their host is not in
`unseen`), `unseen` (hosts that offered, on acceptance, a key their page had not shown), `placed` (lines that came by hand), `standing`
(accepted or placed, and not forgotten since), `stale` (a request has changed the file when what
it read was outdated) and `died` are history variables; the code has none of them.

### Registry

State: the rows that exist (`rows`), what each server refers to (`refs`: at most one
environment, client and credential, any groups) and its `status`; per request
its step (`pc`), operation (`op`), row (`target`), the status in the instance it works
on (`loaded`), what that instance refers to (`asked`: the foreign keys it was loaded with,
then what the form selects) and which fields were sent (`given`: all of them by a screen, any
of them by a PUT or PATCH). Names, addresses and the active flags only decide whether a form is valid
(`Validate` or `Reject`) and whether the database takes the row (`SaveRefused`),
so they are choices.

`_crud` of the screens and the `perform_...` methods of the REST views are the same
machine: `New` or `Load`, `Validate`, `Save`, `SaveGroups`, `Record`. `Save` writes
the whole instance, the columns no form shows and the foreign keys no request sent
included, and inserts it when its row has gone: this is what Django's `save()` does without `update_fields`, and
`Server.save` passes none. The many-to-many rows are a transaction of their own
(`SaveGroups`, which leaves groups that were not sent alone), and so is the event, which
the database may refuse (`RecordRefused`): its `source_ip` is whatever `X-Forwarded-For`
begins with. Deleting is `Load`, `Collect` (where
`ProtectedError` comes from), `Delete` (where the foreign keys of the database have
the last word) and `Record`. `Observe` is what the tasks write to a status.

History: `did` (whether a request has written something that is neither on record nor answered
with an error), `last` (the status a row was last given on purpose, or that it was deleted),
`wanted` (field by field, the references of the last request that sent the field), `mixed` (a
save overtook a test, a deletion or somebody else's foreign key, or the groups of two requests
met, were refused or cut off). Once `mixed` is true nothing is claimed of what rows should be,
and `Follow` forgets `wanted` and all of `last` but which identities were used; the run still
checks `ReferencesResolve` and `EveryWriteIsRecorded` there.

### Launch

State: the fleet (`servers`, `environments`, `credentials`), the columns of the job's row
(`given` is its credential, `attached` its servers, `check_mode`), the audit `event`, what the
worker holds (`held`, `passed`, `read`) and what it makes of it: an entry per server
(`entries`) and the one key file (`id_key`) in the run's directory, and `cmdline`, whether
Ansible is given `--check`. The choice of a dry run is thus kept four times (form, row, worker,
command line), as it is in the code, and each copy is made by the step that makes it there.

`SubmitRun` and `SubmitTest` are the two forms; `SaveRow`, `AttachServers` and
`RecordAndPublish` the statements that follow, `AttachServers` evaluating the form's
query once more; a server that is gone before its row is in fails the request
(`AttachRefused`). The event is computed from the request's own copy of the job (`ActionOf`).
`Fetch` reads the row, `ReadServers` the servers with their credentials,
`StartRun` the job's credential, which may be gone by then. `WriteEntry` is one turn
of `_inventory_for`'s loop: the job's credential, or else the server's own; a password
goes into the entry, a private key into `id_key`, the same file for all servers of
the run. `Execute` is `ansible_runner.run`. `EditServer`, `RemoveServer`,
`EditEnvironment` and `DeleteCredential` (`SET_NULL` everywhere) may come at any time.

### Workspace

State: `tree` maps the paths there are to "dir" or contents; per request its step, its
operation, `target`, `dest` and `body`, and what it has open (`fd`, which follows a file
that is renamed). `crossed[r]` says another request changed the tree since r looked, or,
before it looks, since it resolved.

A request resolves its path (`Resolve`), which makes the folders of the layout that are
missing (`Restored`) and fails if a file is in the place of one; looks (`Look`, which is the
form's `clean` and the view's own checks); makes the parents its path implies; then acts.
Writing a file and making a folder resolve once more after the look. Create and
edit open the file, which empties it, and write it, two steps; a rename moves a subtree in
one; a folder is deleted entry by entry. Then the event is recorded, or refused by the
database (`RecordRefused`: a path longer than `resource_id`, an `X-Request-ID` longer than
`request_id`). `Raises` and `Dies` may end a request at any of these calls. Contents are what
`validate` tells apart: plays, other YAML, nothing, and no YAML at all. One path has
several spellings: `FileForm` looks at how the request writes it, `resolve` takes off spaces
and a final `/.` later, so an odd beginning (` playbooks/x.yml`) is not taken for a playbook
and an odd end (`playbooks/x.yml/.`) not for YAML (`Accepts`).

`did`, `excused` and `raced` are history: what came of a request; which files got to their
place past the check of their contents (renamed into `playbooks/`, cut short by a death,
written into by two requests at once, or saved under an odd spelling); and which folders of
the layout a rename found gone although its own `resolve` had just made them.

### Roles

State: the tables (`roles`, `grants`, `assigned`, the users' `flags`), per transaction its
step, the assignments it makes (`pairs`) and the rows it has in hand to remove or rewrite
(`gone`), the users whose flags it has yet to derive, the user it has loaded (`user`, `seen`) and
what it has found and written. A transaction is one click in the admin or one step of
`seed_users`: an assignment is made, edited (`Move`) or removed, and the signal runs
`sync_flags`, which asks for the roles twice and saves two columns when they differ. For an
assignment that was edited it runs for the user it names now and for no other. A row in hand is
found again by its key: when another transaction moved it, it is what that one made of it
(`Followed`). Another transaction's writes are invisible until `Commit`, where
the foreign keys are checked, and lock the row until then. Editing a role, seeding
the roles and setting flags by hand run no signal.

History: `overtaken` (someone committed since the transaction loaded or read, or changed a row
it has in hand), `drifted` (users whose flags were left behind).

### SshConfig and SshImport

`Parse` reads a sequence of lines, one at a time; `ReadLine` is one turn of the loop,
`IsBanner` is `_banner_title`. What a line is has been decided (the regular expressions
are not taken apart), which lines make a banner has not: that depends on their neighbours. A
block keeps its first alias, which names the server, and the others, which `Importable` looks
at as well as at the address: a pattern in any of them drops the block, and so does anything
to be skipped.

An import is one transaction. `own[i]`, `joins[i]` and `made[i]` are the rows it has
written and nobody else sees; `Sees`, `Seen` and `Joined` are what a statement of its own
sees. Each host is a `LookUp` and then a `Create` or a `Fill` (`_backfill`, which saves the
whole row when something was blank, and adds groups). Inserts and updates wait for others
that hold the same row or name. `Commit` checks the keys; `Rollback` is an error or
`--dry-run`. `Put`, `RemoveServer`, `AddRecord` and `RemoveRecord` are what everybody else
may do in between. `stale[i]` (servers changed since import i began), `calm`, `last` and
`repeats` are history.

### Inventory, Sanitizer, Outputs

Pure functions, each beside a description of its result that does not compute it the same
way: `DescribedBy` for the parser, `Harmless` and `OnlyRedacted` for the sanitizer, membership
for the inventory. An inventory is asked for with any environment or none, any client or
none, and with or without the inactive servers. An environment or a client whose slug is empty
(the database lets a name of signs alone become one) is one all the same, and its group is
called `env_g_`, as in the code. A key is its text cut into pieces, so that `is_sensitive_key` can
look for the listed parts in it. The sanitizer, the filters and the parser are recursive in the code;
here they are functions of the depth that is left, of the length read so far, of the line,
so that proofs can use their defining equations.
`Outputs` has an initial state for each question and one step that answers it.

## 3. The runs

Passing:

| Run | Question | Bounds |
|---|---|---|
| `JobLifecycle_anyfault` | Under every kind of failure, is everything that ran on record, before and after? | 1 playbook job, 1 server, 2 workers, any 2 failures |
| `JobLifecycle_crash` | With web processes and workers dying, do runs of one job overlap, multiply or get lost; does some finished job explain each status; do the rows implement `JobRecord`? | playbook and test of one server, 2 workers, 1 death |
| `JobLifecycle_live` | Does every published job settle, and every worker come free? | 1 job, 2 workers, 1 lost or redelivered, fair workers |
| `KnownHosts` | Is every line one a person was shown and accepted, is the file what people decided, is every key on record? | 2 hosts, 2 keys (1 without fingerprint), a file with one line to put in place, 2 requests, any deaths |
| `Registry` | Do references ever dangle, is every write on record, are rows what people and tests made them? | 1 server, 1 environment, 1 credential, 1 group, 2 statuses, 2 requests, any deaths |
| `Launch` | Is a dry run still one when Ansible is run, is what runs on record as what it is, are its servers those that were asked for, does each get its secret? | 1 job, 2 servers, 1 environment, 2 private keys, 1 password, any 2 edits |
| `Workspace` | Does a playbook stay one, is anything replaced, or changed without a record, or in the layout's way? | 2 folders, a file name, 3 kinds of contents, 3 spellings, 2 requests, any failures and deaths |
| `Roles` | Do the flags say what the roles say, whoever commits when? | 2 users, 2 roles, 2 transactions, 1 change by hand |
| `SshImport` | Do references dangle, is anything set lost, does every host, new or old, get exactly what it should, does a repeated import change nothing? | 1 host (named twice, before, below or across a banner, once at an address that is skipped), 4 sets of options, 2 imports, 3 changes by others |
| `Outputs` | Do the functions answer what they should? | every name up to 4 characters, every fleet of 2 servers with every filter, every value up to 3 deep, every file up to 5 lines |

Violations, each a sentence of the sources that the code does not keep (the
quotations are in `PROJECT.json`, "findings"):

| Run | What happens |
|---|---|
| `Launch_dryrun` | an environment demands dry runs, and a playbook runs for real in it: nothing reads `require_check_mode` |
| `Launch_keys` | two servers with private keys of their own are contacted with one key: all are written to the same file |

**Why the bounds are enough.** The conflicts the code can have are between two
processes over one row or one file, so two workers, requests, transactions or imports
reach them; no step of the code looks at a third. In `Roles` a second user is the one a role is
moved to. A second server is needed where one
may get what is meant for the other (`Launch`), a second host where another one must be
left alone, a second job where two tasks write one server's status. Two failures reach
a failure during the recovery from another. In `Registry`, an environment stands for the
client too (both are protected), and one server is enough because no statement reads
another server's row. `Workspace` has two folders of the layout, the second of which also
fits into the first, so that a folder can be moved to where another belongs, or into
itself. In `SshImport`, one host named twice covers what two hosts do to each other, since
all that hosts share are the records of the file's sections and of the options. Three
changes by others are a record, a server that uses it, and its removal. Values three
deep go beyond `MAX_DEPTH`, which the run sets to 1; the repository's limit of 12
only makes the same cases larger. Five lines hold a banner of three, a Host line and a
directive, in any order. Sequences of one item have their item sanitized or not, which is all
one may differ in from a longer one. Every safety property of the passing runs is also proved
without these bounds (below). Deadlock is not checked: a platform nobody uses has nothing to
do.

The type invariants of `KnownHosts`, `Registry` and `Roles` are proved and not repeated
as runs.

**Fairness.** `FairSpec` asks weak fairness of each worker's next step
(`Working`): the worker processes are long-running and always take the next
message, every run ends because ansible-runner is given a `job_timeout`
(`automation/runner.py`), and the other steps are single statements. Nothing is
asked of operators, web requests, or failures, and `EventuallySettled` starts at
publication. No other module states liveness: a request or a command that stops half
way is never taken up again by anything, and a person may always wait.

## 4. What is proved

For every set of jobs, servers, workers, hosts, keys, requests, paths, roles, imports
(workers finite, kinds of jobs disjoint) and any number of failures and edits:

* `LaunchesAreOnRecord`, `RunsLeaveRecords`: from `RecordInv`, which ties the
  progress of the two requests, the queue, the worker's step and the row
  together (a queued message means the creator published; a row is deleted only by
  a remover that recorded it; a worker past `mark_running` has a row that says so).
* `NothingSilentlyLost`: from `OwedInv`, stronger than the property in what
  "held" means: a worker that still can bring the job to a verdict, not one that is about
  to return. Without it the step `Ack` breaks induction.
* `RunsDoNotOverlap`: from `SingleInv`: a message in use is in one hand, and not in the
  queue. Only redelivery breaks it.
* `RerunsMakeUpForLosses`: from `RerunInv`, which says how many starts a waiting
  or freshly received message can have behind it.
* `HistoryIsImplemented`: every step of the rows of playbook jobs is a step of
  `JobRecord` or a stutter, with `PlaybookInv` telling which statuses a row can have
  at each step of its task. Assumes no redelivery: a second delivery in flight may
  mark a finished row running, which is what `JobLifecycle_crash` leaves out too.
* `TypesAreCorrect` (every module). For jobs, that `dirs` stays natural needs
  that every run in progress has its directory, a statement about a cardinality which
  `LeftoversAreExplained` makes.
* `WhatIsTrustedWasShown`: every line in a request's hands has one of the three reasons, or was
  read from a file of such lines (`AcceptedInv`), and no reason is ever taken back.
* `FileFollowsDecisions`: from `DecidedInv`, which says what the file should hold while
  it is being rewritten: what the one request rewriting it has read.
* `TrustedIsRecorded`: from `RecordedInv`: a line is on the trail or in the hands of
  the request that appended it, and what others have read is no exception.
* `ReferencesAlwaysResolve`: inductive as it stands. `Validate` looks at the rows long
  before `Save`; the proof shows which later look each write needs.
* `WritesAreRecorded`: from `WriteInv`: before its first write a request has nothing
  to record.
* `RowsFollowDecisions`: from `DecisionInv`: a row that is being created is nobody
  else's, every other instance is of a row that once was, and between `Save` and
  `SaveGroups` only the groups of a server may differ from its last form; and from `FormsFit`:
  groups are sent together or not at all, and a row that is being created has no foreign key
  but those that were sent.
* `OrphansHaveAReason` and `LeftoversHaveAReason` (`JobLifecycle`): a row that waits for
  nobody was not published or something failed; and the directories of a job are those of its
  runs in progress and those its own runs were cut off from, by counting.
* `StatusHasAReason` (`JobLifecycle`): from `ExplainedInv`: each status that is known is explained
  by some job, which is removed, has finished and says so, or is a connection test at work
  again that will write both once more. It rests on `LocalInv`, which ties the worker's copies
  (`todo`, `seen`) to the row they were read from and will be written to: what is left to
  record is among the row's servers or the row is gone, and what was stored is what is being
  recorded. Each of the four kinds of failure its statement leaves out really breaks it, once
  a lost worker has made a test repeat: a limit falls between the two writes of the repetition, a
  lost message leaves it unfinished for good, and two deliveries of one test write in opposite
  orders (TLC finds each when the exception is dropped and the failure admitted). Lost workers
  alone do not: the message comes back and both writes are made again.
* `DryRunsArriveAsAsked`, `TargetsAreAsked`, `TheChoiceIsUsed`, `SecretsAreNotMixedUp`
  (`Launch`): from `LaunchesOnRecord`, `DryRunsAreCarried` (how far the choice of a dry run has
  been copied at each step, and that no copy loses it), `AttachedWereAsked`, `ChoiceIsKept` (the choice is in
  the row, then with the worker, until it is deleted for good) and `EntriesAreWritten`
  (the key file has the key of some entry that refers to it).
* `LayoutIsKept` (`Workspace`): from `Settled` (a request that has resolved and was not crossed
  since finds every folder of the layout), hence `Away` (what it then writes or renames
  to is none of them, or was raced for) and `WritesFiles`.
* `NothingIsLost`, `ChangesAreOnRecord`: from `Prepared`, what an uncrossed request may rely
  on at each step (`Stands`): the target it found free is still free, the parents it made
  still exist. `Explained` says what came of each request.
* `PlaybooksStayValid`: from `Vouched` (each playbook holds plays, is excused, or is open to a
  request that was asked for it and checked what it will write, unless it spelled the path
  oddly) and `Noticed`, which is about who has a file open under another name.
* `FlagsAreDerived` (`Roles`): from `UpToDate`: unless it was overtaken, a transaction knows the
  flags its user has and what the roles grant, as far as it has read them, its own
  uncommitted assignments included, and has derived or will derive the flags of everybody it
  gives a role to or takes one from, except by a move. It says nothing of the users a role was
  moved away from, or whose role or flags were edited by hand.
* `NoRoleIsGone`: from what each operation has in hand, since the database checks the foreign
  keys when a transaction commits.
* `NoReferenceDangles` (`SshImport`): inductive as it stands, since nothing an import read earlier
  is relied upon when it commits.
* `BlanksAreFilled`, `HostsAreThere`: from `Coherent`, what an import knows of the servers nobody
  else has changed since it began: every block of the file is done or still to do, and what the
  import sees of each host is what the blocks done so far make of the row that was there
  (`Expected`), neither more nor less.
* `ImportIsIdempotent`: from `LastIsImported` (while nothing else happens, the server of each
  block is there and complete), `Calmness` and `Repeating` (a repeated import has written
  nothing so far).

For names, values and files of any size (`Outputs_proofs`):

* `NamesAreAlwaysAccepted`: what is left of a name after `slugify` and `strip` is described first
  (`SlugIs`, `StripIs`, `GroupNameIs`), and then has no way to be empty or to begin with a digit.
* `SlugsAlwaysStayApart`: an ordinary slug can be read back from its group: nothing is stripped
  from it, and each character that was replaced was a hyphen (`OrdinaryNameIs`).
* `InventoryIsAlwaysThePlan`: the graph shows the selection, whatever it is (`GraphIs`), each server
  under its own groups (`MembersAre`); that the group of an environment or a client is that
  environment or client needs that no name of the other two kinds can take its prefix
  (`PrefixesAre`) and that ordinary slugs stay apart (`SlugsApart`).
* `EventsAreAlwaysHarmless`: by induction over the depth that is left: what `sanitize` leaves
  is harmless (`LeftIs`), stays as it is when it is sanitized again (`LeftStays`), and
  differs only where it may (`LeftIsAlike`).
* `FilesAreAlwaysUnderstood`: by induction over the lines: what has been read after each line is
  what the description says of the file up to there (`ToldStep`); and the blocks left by a filter
  are those of the lines that pass it (`ImportedIs`).
* `AnswersAreGiven` is the invariant that carries these facts to the one step of `Outputs`.

The prover cannot use an induction rule, which would take the predicate as a parameter. These
proofs induct by the least counterexample instead (`LeastNumber`: a nonempty set of numbers has
a least element, from the well-foundedness of `<`), and the defining equation of each recursive
function is proved first from approximations of it (`Recursion`, `UpTo`, `DownFrom`).
`SshImport_proofs` states the few it needs of these lemmas for itself: parsing
a file yields blocks (`FilesAreParsed`), for every file, not only those of the run.

Assumptions: the sets of identities are disjoint where the code has different
tables or sentinels, `Unknown` is a status, paths have their parents among them, workers are
finite, fleets are made of servers, files of lines; each is an `ASSUME` of the module, which the
runs evaluate. None of them says what a function returns.

The exceptions in `FileIsAsDecided`, `KeysWereShown`, `TrustIsRecorded`, `RowsAreAsDecided`,
`EveryWriteIsRecorded`, `FlagsFollowRoles`, `ChangesAreRecorded`, `PlaybooksAreValid`,
`LayoutStays` and the properties of imports are part of what they say: each names the interleaving, the death or
the change by hand that the code does not survive (section 5).

Only model-checked: the two liveness properties, `EventuallySettled` and `WorkersComeBack`
(the prover's logic has no fairness).

## 5. Where code and documents part

Besides the two violations, modelling met these; the properties are stated so that they
hold, with the exception written into them, or the module models what the code does.

* `jobs/models.py:25` calls the verdicts "statuses from which nothing more will happen", but
  `check_connection` (`jobs/tasks.py:84`) does not look at the status: a redelivered test goes
  from its verdict back to RUNNING. `HistoryIsKept` is about playbook jobs.
* `jobs/tasks.py:4`: "a job that dies with the worker must still leave a row saying so". A run
  killed at the hard time limit is acknowledged and its row says RUNNING for ever
  (`OrphansAreExplained`).
* `automation/runner.py:13`: the private directory "never outlives the run". That of a killed
  worker does, and so does one whose removal fails (`rmtree` is told to ignore that, line 208) or
  is not reached because the soft limit falls outside the `try` (`LeftoversAreExplained`).
* `jobs/tasks.py:116`: one server deleted during a run makes the save raise, and the servers
  after it are not recorded.
* `automation/known_hosts.py:128-139`: of two overlapping forgets the later writes back what
  the earlier removed (`FileIsAsDecided`).
* `automation/known_hosts.py:8-10`: "the fingerprint is fetched, shown to a person, and only
  written ... when they accept it". `server_trust` (`jobs/views.py:167`) scans again on
  acceptance and writes what that scan found, and a POST without a page before it is accepted too.
  `KeysWereShown` says so of the hosts where the two scans differed, and of no other.
* The same sentence, once more: `known_hosts` lies in the workspace, where the file explorer
  renames any file to its name, with no fingerprint shown (`placed` in `KnownHosts`).
* `infrastructure/views.py:76`: saving a form inserts a server that was deleted while the form
  was open. So does the import's backfill (`import_ssh_config.py:162`), which also reverts
  whatever others wrote since it loaded the row (`FillsOnlyBlanks` exempts those servers).
* The same save writes back every foreign key it was loaded with, so a PATCH of a server's
  description reverts the environment that another request gave it meanwhile
  (`infrastructure/serializers.py:66-83`; `RowsAreAsDecided` calls such a row mixed).
* `infrastructure/views.py:8-9`: "Writes here are audited". The event's `source_ip` is the first
  item of `X-Forwarded-For` as it came (`infrastructure/views.py:39-44`,
  `commun/audit_mixins.py:42-48`); if it is no address, PostgreSQL refuses the event and the
  request fails with its row written and nothing on record (`EveryWriteIsRecorded` says what
  holds of the requests that succeed). What Django Admin writes to the same rows has no event in
  the trail at all.
* `automation/files.py:5`: "Anything that changes disk is recorded". Renaming a folder into
  itself makes the parents, then fails, and records nothing. And the event of a path longer than
  128 characters (`audit/models.py:55`; the forms allow 200, `automation/forms.py:72`) is refused
  by PostgreSQL after the disk was changed, as is any event of a request whose `X-Request-ID`
  is longer than 64 (`audit/middleware.py:11`, `audit/models.py:48`), in the other components
  too (`ChangesAreRecorded` names both).
* `automation/files.py:110`: "YAML is validated before anything is written". `clean_content`
  (`automation/forms.py:110-114`) tells a playbook by the path as the request spells it, and
  `resolve` takes spaces and a final `/.` off later: saved at `playbooks/x.yml ` or
  `playbooks/x.yml/.`, any text becomes a playbook (`PlaybooksAreValid` names this).
* `automation/workspace.py:128`: `ensure_layout` is "safe to call on every request". It
  fails in every request once a file has the name of a folder of the layout, which a rename
  gives it if another request takes the folder away just before line 404 (`LayoutStays`).
* `docs/adr/0011`: granting and revoking "cannot leave the flags inconsistent". Two changes of
  one user's roles that overlap can, until the next one (`FlagsFollowRoles`).
* The same record, and `authentication/models.py:4-5` ("resynchronised whenever an assignment
  changes"): editing an assignment in Django Admin to name another user derives that user's
  flags (`authentication/signals.py:9-11`), and the one it named before keeps `is_superuser`
  with no role that grants it (`FlagsFollowRoles` names them).
* `inventory/builder.py:28`: "`env_production` always means the environment". A group whose
  slug is `env-production` is given the same name (`InventoryIsThePlan`, which also asks for ordinary
  slugs of the environments), as are the slugs `a-b`
  and `a_b` (`SlugsStayApart`).
* `infrastructure/views.py:375`: "Renaming a group renames the Ansible inventory group." The
  inventory is built from the slug, and the slug is set once.
* `inventory/views.py:6`: "exactly what Ansible will see". A run writes an inventory of its own
  (`automation/runner.py`, `_inventory_for`), without any groups.
* `infrastructure/ssh_config.py`: directives of a `Match` block are read as those of the host
  above it, and of a directive given twice the last counts, where ssh takes the first.
* `infrastructure/ssh_config.py:155`: "entries with no address" are dropped. None is: a block
  without a `HostName` goes by its name (`reaches_a_host`, line 66). A line `Host =` with no alias at
  all makes `name` raise instead, and the import with it; the model has no such line, nor
  patterns of `--skip` with a blank in them, which may match across two aliases.
* `audit/sanitizers.py:12-14`: "`new_password` and `X-Api-Key` are both caught", and
  `docs/audit.md:61-62` and `docs/adr/0010` (38-40) say the same. The parts are `api_key` and
  `apikey`, and `x-api-key` contains neither: what it names is kept. `EventsAreHarmless` is about
  the keys that do contain one of the 19 parts; the run asks about `X-Api-Key` too and finds its
  value left in place.

## 6. What is not modelled

Encryption, HTML, logging, HTTP routing, and how long anything takes. The rate
limits, sign-in and password rules are Django's and its REST framework's; there is no account
lockout (`docs/authentication.md:82`). IP intelligence is one read-only lookup; security events and platform settings are tables with no logic. Two
requests that delete the same job are one `remover`: the second finds no row. Of the
workspace: symbolic links, the `ansible.cfg` that `ensure_layout` writes when it is missing, and
the functions no view calls (`PlaybookForm`, `read_playbook`, `write_playbook`,
`delete_playbook`). Of roles: deleting a user; the two backends that answer
`has_perm` (`RolePermissionBackend`, and Django's own for groups and direct permissions), which
only read, once per request; and `UserRoleInline`, which no screen uses. Of the registry: Django Admin's own screens for the same rows, which
save in one transaction and write to Django's log, not to the audit trail. Of `server_test`: that it asks for a trusted key first (any server
may be tested in the models). Of the import: addresses, ports and users, which are
copied. Of the inventory: the variables of a host and the two formats it is written in.
Of the audit trail: that events are append-only, and the metadata of requests.

What is left of the system is input and output, or a library's.
