-------------------------------- MODULE Launch --------------------------------
(***************************************************************************)
(* What a job is launched with and what Ansible is then run with: the      *)
(* servers, the dry run, and the secrets each server is reached with.      *)
(*                                                                         *)
(* JobLifecycle follows a job through crashes and redeliveries; here each  *)
(* is delivered once, and people edit the fleet meanwhile.  A server is    *)
(* whether it is active, its environment and its credential, and an        *)
(* environment whether it may be selected and whether it demands dry runs. *)
(* A credential stands for its secret, and a private key or not is all its *)
(* type matters.  The filters by client and by group work like the one by  *)
(* environment and are left out.                                           *)
(***************************************************************************)
EXTENDS Naturals

CONSTANTS
    Servers, Environments,
    Credentials, PrivateKeys,
    Jobs,
    None,        \* no environment, no credential, no server
    MaxEdits     \* bound on what people edit

ASSUME KeysAreCredentials == PrivateKeys \subseteq Credentials
ASSUME NoneIsNothing      == None \notin Environments \cup Credentials \cup Servers
ASSUME TheFileIsNoSecret  == "id_key" \notin Credentials \cup {None}
ASSUME MaxEditsIsANumber  == MaxEdits \in Nat

Server      == [active : BOOLEAN, environment : Environments \cup {None},
                credential : Credentials \cup {None}]
Environment == [active : BOOLEAN, dry : BOOLEAN]

\* What is asked: the job's own columns, and for a connection test the server.
Form == [environment : Environments \cup {None}, credential : Credentials \cup {None},
         dry : BOOLEAN, test : Servers \cup {None}]
Blank == [environment |-> None, credential |-> None, dry |-> FALSE, test |-> None]

VARIABLES
    servers,       \* servers[s]      of those that are registered
    environments,  \* environments[e]
    credentials,   \* the credentials there are
    phase,         \* phase[j]    how far job j is
    form,          \* form[j]     what was asked
    given,         \* given[j]    the credential of the job's row
    attached,      \* attached[j] the servers of the job's row
    check_mode,    \* check_mode[j] of the job's row
    event,         \* event[j]    the action on record: "none", "check" or "execute"
    held,          \* held[j]     the credential the worker read off the row
    passed,        \* passed[j]   the check_mode the worker read off it, to pass on
    read,          \* read[j]     the servers the worker read, and the credential of each
    entries,       \* entries[j]  the secret in the entry of each server, or that it is in id_key
    id_key,        \* id_key[j]   the private key in the directory
    cmdline,       \* cmdline[j]  --check is given to Ansible
    edited,        \* history, edited[j]: servers edited since they were attached
    edits          \* how often people edited something

fleet == <<servers, environments, credentials>>
modes == <<check_mode, passed, cmdline>>
vars  == <<servers, environments, credentials, phase, form, given, attached, check_mode,
           event, held, passed, read, entries, id_key, cmdline, edited, edits>>

InFile == "id_key"

Init ==
    /\ servers      \in [Servers -> Server]
    /\ environments \in [Environments -> Environment]
    /\ credentials  = Credentials
    /\ phase    = [j \in Jobs |-> "new"]
    /\ form     = [j \in Jobs |-> Blank]
    /\ given    = [j \in Jobs |-> None]
    /\ attached = [j \in Jobs |-> {}]
    /\ event    = [j \in Jobs |-> "none"]
    /\ check_mode = [j \in Jobs |-> FALSE]
    /\ passed     = [j \in Jobs |-> FALSE]
    /\ cmdline    = [j \in Jobs |-> FALSE]
    /\ held     = [j \in Jobs |-> None]
    /\ read     = [j \in Jobs |-> [s \in {} |-> None]]
    /\ entries  = [j \in Jobs |-> [s \in {} |-> None]]
    /\ id_key   = [j \in Jobs |-> None]
    /\ edited   = [j \in Jobs |-> {}]
    /\ edits    = 0

GoTo(j, step) == phase' = [phase EXCEPT ![j] = step]

----------------------------------------------------------------------------
(* job_create and server_test *)

Selected(environment) ==
    {s \in DOMAIN servers : /\ servers[s].active
                            /\ environment \in {None, servers[s].environment}}

\* The form of a playbook run is valid.
SubmitRun(j, asked) ==
    /\ phase[j] = "new"
    /\ asked.test = None
    /\ asked.environment # None => environments[asked.environment].active
    /\ asked.credential \in credentials \cup {None}
    /\ Selected(asked.environment) # {}
    /\ form' = [form EXCEPT ![j] = asked]
    /\ GoTo(j, "valid")
    /\ UNCHANGED <<fleet, modes, given, attached, event, held, read, entries, id_key,
                   edited, edits>>

\* The test of one server, with its environment and its credential.
SubmitTest(j, s) ==
    /\ phase[j] = "new"
    /\ s \in DOMAIN servers
    /\ form' = [form EXCEPT ![j] = [test |-> s, environment |-> servers[s].environment,
                                     credential |-> servers[s].credential, dry |-> FALSE]]
    /\ GoTo(j, "valid")
    /\ UNCHANGED <<fleet, modes, given, attached, event, held, read, entries, id_key,
                   edited, edits>>

\* The row is saved; it is refused when the credential is gone by now.
SaveRow(j) ==
    /\ phase[j] = "valid"
    /\ IF form[j].credential \in credentials \cup {None}
       THEN /\ given' = [given EXCEPT ![j] = form[j].credential]
            /\ check_mode' = [check_mode EXCEPT ![j] = form[j].dry]
            /\ GoTo(j, "saved")
       ELSE GoTo(j, "over") /\ UNCHANGED <<given, check_mode>>
    /\ UNCHANGED <<fleet, passed, cmdline, form, attached, event, held, read, entries,
                   id_key, edited, edits>>

Attach(j, selected) ==
    /\ phase[j] = "saved"
    /\ attached' = [attached EXCEPT ![j] = selected]
    /\ edited'   = [edited EXCEPT ![j] = {}]
    /\ GoTo(j, "attached")
    /\ UNCHANGED <<fleet, modes, form, given, event, held, read, entries, id_key, edits>>

\* Mutant: everything that is active.
AttachAll(j) ==
    /\ form[j].test \in DOMAIN servers \cup {None}
    /\ Attach(j, IF form[j].test = None THEN Selected(None) ELSE {form[j].test})

\* The servers that match by now are attached, or the one to be tested.
AttachServers(j) ==
    /\ form[j].test \in DOMAIN servers \cup {None}
    /\ Attach(j, IF form[j].test = None THEN Selected(form[j].environment) ELSE {form[j].test})

\* The request fails at a server that is gone: the one to be tested, or one of those that
\* matched, removed before its row was in.
AttachRefused(j) ==
    /\ phase[j] = "saved"
    /\ form[j].test \notin DOMAIN servers
    /\ GoTo(j, "over")
    /\ UNCHANGED <<fleet, modes, form, given, attached, event, held, read, entries, id_key,
                   edited, edits>>

\* Computed from the request's own copy of the job, not from its row.
ActionOf(j) == IF form[j].dry \/ form[j].test # None THEN "check" ELSE "execute"

RecordAndPublish(j) ==
    /\ phase[j] = "attached"
    /\ event' = [event EXCEPT ![j] = ActionOf(j)]
    /\ GoTo(j, "queued")
    /\ UNCHANGED <<fleet, modes, form, given, attached, held, read, entries, id_key,
                   edited, edits>>

----------------------------------------------------------------------------
(* run_job and check_connection, and the runner *)

FetchAs(j, mode) ==
    /\ phase[j] = "queued"
    /\ held'   = [held EXCEPT ![j] = given[j]]
    /\ passed' = [passed EXCEPT ![j] = mode]
    /\ GoTo(j, "fetched")
    /\ UNCHANGED <<fleet, check_mode, cmdline, form, given, attached, event, read, entries,
                   id_key,
                    edited, edits>>

\* Mutant: run_playbook is called without check_mode, which is then its default.
FetchDefault(j) == FetchAs(j, FALSE)

\* The row is read: of the credential only which it is.
Fetch(j) == FetchAs(j, check_mode[j])

\* The servers that are left are read, each with its credential.
ReadServers(j) ==
    /\ phase[j] = "fetched"
    /\ LET left == attached[j] \cap DOMAIN servers
       IN  /\ read' = [read EXCEPT ![j] = [s \in left |-> servers[s].credential]]
           /\ GoTo(j, IF left = {} THEN "over" ELSE "read")
    /\ UNCHANGED <<fleet, modes, form, given, attached, event, held, entries, id_key,
                   edited, edits>>

\* The job's credential is read at last, and the run fails when it is gone.
StartRun(j) ==
    /\ phase[j] = "read"
    /\ GoTo(j, IF held[j] \in credentials \cup {None} THEN "building" ELSE "over")
    /\ UNCHANGED <<fleet, modes, form, given, attached, event, held, read, entries, id_key,
                   edited, edits>>

\* Mutant: a server's own credential comes first.
OwnFirst(j, s) == IF read[j][s] # None THEN read[j][s] ELSE held[j]

CredentialFor(j, s) == IF held[j] # None THEN held[j] ELSE read[j][s]

\* Mutant: a password goes to whoever is written next.
EntryOfAnother(j, s) ==
    LET c == CredentialFor(j, CHOOSE t \in DOMAIN read[j] : TRUE)
    IN  IF c \in PrivateKeys THEN InFile ELSE c

EntryFor(j, s) ==
    IF CredentialFor(j, s) \in PrivateKeys THEN InFile ELSE CredentialFor(j, s)

\* One server's entry; a private key goes to the one file there is.
WriteEntry(j, s) ==
    /\ phase[j] = "building"
    /\ s \in DOMAIN read[j] \ DOMAIN entries[j]
    /\ entries' = [entries EXCEPT ![j] = [t \in DOMAIN entries[j] \cup {s} |->
                      IF t = s THEN EntryFor(j, s) ELSE entries[j][t]]]
    /\ id_key'  = [id_key EXCEPT ![j] =
                      IF EntryFor(j, s) = InFile THEN CredentialFor(j, s) ELSE @]
    /\ UNCHANGED <<fleet, modes, phase, form, given, attached, event, held, read, edited,
                   edits>>

\* A secret that does not decrypt, or a directory that cannot be written.
BuildFails(j) ==
    /\ phase[j] = "building" /\ DOMAIN entries[j] # DOMAIN read[j]
    /\ GoTo(j, "over")
    /\ UNCHANGED <<fleet, modes, form, given, attached, event, held, read, entries, id_key,
                   edited, edits>>

\* Ansible is run with the entries, the file, and --check for the dry run of a playbook; a
\* connection test is a module, and has no such argument.
Execute(j) ==
    /\ phase[j] = "building" /\ DOMAIN entries[j] = DOMAIN read[j]
    /\ cmdline' = [cmdline EXCEPT ![j] = form[j].test = None /\ passed[j]]
    /\ GoTo(j, "run")
    /\ UNCHANGED <<fleet, check_mode, passed, form, given, attached, event, held, read,
                   entries, id_key, edited, edits>>

----------------------------------------------------------------------------
(* What people do meanwhile *)

jobs == <<phase, form, attached, modes, event, held, read, entries, id_key>>

Edit(changed) ==
    /\ edits < MaxEdits
    /\ edits'  = edits + 1
    /\ edited' = [j \in Jobs |-> edited[j] \cup changed]
    /\ UNCHANGED jobs

EditEnvironment(e, as) ==
    /\ environments' = [environments EXCEPT ![e] = as]
    /\ Edit({})
    /\ UNCHANGED <<servers, credentials, given>>

EditServer(s, as) ==
    /\ as.credential \in credentials \cup {None}
    /\ servers' = [t \in DOMAIN servers \cup {s} |-> IF t = s THEN as ELSE servers[t]]
    /\ Edit({s})
    /\ UNCHANGED <<environments, credentials, given>>

RemoveServer(s) ==
    /\ s \in DOMAIN servers
    /\ servers' = [t \in DOMAIN servers \ {s} |-> servers[t]]
    /\ Edit({s})
    /\ UNCHANGED <<environments, credentials, given>>

\* Those that have it lose it in the same transaction.
DeleteAnd(c, rows) ==
    /\ c \in credentials
    /\ credentials' = credentials \ {c}
    /\ servers' = [s \in DOMAIN servers |->
                      [servers[s] EXCEPT !.credential = IF @ = c THEN None ELSE @]]
    /\ given'   = [j \in Jobs |-> IF given[j] = c /\ j \in rows THEN None ELSE given[j]]
    /\ Edit({s \in DOMAIN servers : servers[s].credential = c})
    /\ UNCHANGED environments

\* Mutant: the jobs that are not over keep it.
DeleteForServers(c) == DeleteAnd(c, {j \in Jobs : phase[j] = "over"})

\* SET_NULL in the servers and the jobs that have it.
DeleteCredential(c) == DeleteAnd(c, Jobs)

----------------------------------------------------------------------------

Step(j) ==
    \/ \E asked \in Form : SubmitRun(j, asked)
    \/ \E s \in Servers : SubmitTest(j, s) \/ WriteEntry(j, s)
    \/ SaveRow(j) \/ AttachServers(j) \/ AttachRefused(j) \/ RecordAndPublish(j)
    \/ Fetch(j) \/ ReadServers(j) \/ StartRun(j) \/ BuildFails(j) \/ Execute(j)

Next ==
    \/ \E j \in Jobs : Step(j)
    \/ \E e \in Environments, as \in Environment : EditEnvironment(e, as)
    \/ \E s \in Servers, as \in Server : EditServer(s, as)
    \/ \E s \in Servers : RemoveServer(s)
    \/ \E c \in Credentials : DeleteCredential(c)

Spec == Init /\ [][Next]_vars

----------------------------------------------------------------------------
(* Properties *)

Phases == {"new", "valid", "saved", "attached", "queued", "fetched", "read", "building",
           "run", "over"}

\* Types; and no row keeps a credential that is not there.
TypeOK ==
    /\ DOMAIN servers \subseteq Servers /\ \A s \in DOMAIN servers : servers[s] \in Server
    /\ environments \in [Environments -> Environment]
    /\ credentials \subseteq Credentials
    /\ phase    \in [Jobs -> Phases]
    /\ form     \in [Jobs -> Form]
    /\ given    \in [Jobs -> credentials \cup {None}]
    /\ attached \in [Jobs -> SUBSET Servers]
    /\ check_mode \in [Jobs -> BOOLEAN]
    /\ event    \in [Jobs -> {"none", "check", "execute"}]
    /\ held     \in [Jobs -> Credentials \cup {None}]
    /\ passed   \in [Jobs -> BOOLEAN]
    /\ cmdline  \in [Jobs -> BOOLEAN]
    /\ id_key   \in [Jobs -> PrivateKeys \cup {None}]
    /\ edited   \in [Jobs -> SUBSET Servers]
    /\ edits    \in 0 .. MaxEdits
    /\ \A s \in DOMAIN servers : servers[s].credential \in credentials \cup {None}
    /\ \A j \in Jobs :
          /\ DOMAIN entries[j] \subseteq DOMAIN read[j] /\ DOMAIN read[j] \subseteq attached[j]
          /\ \A s \in DOMAIN read[j] : read[j][s] \in Credentials \cup {None}
          /\ \A s \in DOMAIN entries[j] : entries[j][s] \in Credentials \cup {None, InFile}

Run(j)       == phase[j] = "run"
IsPlaybook(j) == form[j].test = None

\* The secret Ansible finds for a server.
SecretFor(j, s) == IF entries[j][s] = InFile THEN id_key[j] ELSE entries[j][s]

\* The private keys a run brings along.
KeysOf(j) == {CredentialFor(j, s) : s \in DOMAIN read[j]} \cap PrivateKeys

\* A dry run survives the way from the form through the row and the task to Ansible, and
\* nothing else is run dry; and the audit trail has told which it would be, or that it is
\* a connection test, which changes nothing either.
DryRunsStayDry ==
    \A j \in Jobs : Run(j) =>
        /\ cmdline[j] <=> form[j].dry
        /\ event[j] = (IF cmdline[j] \/ ~IsPlaybook(j) THEN "check" ELSE "execute")

\* Ansible reaches only servers that are of the environment that was asked for, and
\* active, or were edited since the job was launched.
TargetsWereAsked ==
    \A j \in Jobs : Run(j) /\ IsPlaybook(j) =>
        \A s \in DOMAIN entries[j] \ edited[j] : s \in Selected(form[j].environment)

\* The credential that was chosen is used for every server.  Only when it was deleted
\* before the worker looked does the run fall back to what each server has of its own.
ChosenCredentialIsUsed ==
    \A j \in Jobs : Run(j) =>
        \A s \in DOMAIN entries[j] :
            \/ form[j].credential = None
            \/ SecretFor(j, s) = form[j].credential
            \/ form[j].credential \notin credentials

\* No server is sent the secret of another, as long as no two private keys are needed.
SecretsGoToTheirServers ==
    \A j \in Jobs : Run(j) /\ (\A k, l \in KeysOf(j) : k = l) =>
        \A s \in DOMAIN entries[j] : SecretFor(j, s) = CredentialFor(j, s)

\* "Each server's own credential": with none chosen, each server is reached with its own.
OwnCredentialIsUsed ==
    \A j \in Jobs : Run(j) /\ form[j].credential = None =>
        \A s \in DOMAIN entries[j] : SecretFor(j, s) = read[j][s]

\* "Forces every job against this environment to run in check mode."
RequiredDryRunIsForced ==
    \A j \in Jobs : Run(j) /\ IsPlaybook(j) =>
        \A s \in DOMAIN entries[j] :
            /\ s \in DOMAIN servers /\ servers[s].environment # None
            /\ environments[servers[s].environment].dry
            => form[j].dry
=============================================================================
