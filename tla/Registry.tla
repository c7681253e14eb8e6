------------------------------- MODULE Registry -------------------------------
(***************************************************************************)
(* The records Ansible acts on: servers, and the environments, clients,    *)
(* credentials and groups they refer to, under the screens and the REST    *)
(* views that create, edit and delete them and the tasks that write a      *)
(* server's status.                                                        *)
(*                                                                         *)
(* Screens (_crud, _delete) and REST views (AuditedModelMixin) do the same *)
(* statements in the same order, each on its own: load the row, validate,  *)
(* save the whole row, save the groups, record the event; or load, look    *)
(* for what protects the row, delete, record.  Other requests and the      *)
(* tasks interleave between any two, the database refuses what breaks a    *)
(* foreign key, and a process may die anywhere.                            *)
(*                                                                         *)
(* Of a row only what others write or refer to is kept: the references and *)
(* the status of a server.  Which names are taken, and which environments  *)
(* are inactive, only decides whether a form is valid and whether a row is *)
(* accepted, and is left open.  Django Admin writes the same rows in its    *)
(* own words: it keeps no event of the audit trail and is left out.         *)
(***************************************************************************)
EXTENDS FiniteSets

CONSTANTS
    Servers, Environments, Clients, Credentials, Groups,   \* identities of rows
    Status,      \* what a connection test may say of a server
    Unknown,     \* the status of a server never tested
    Requests,    \* requests the web processes serve at the same time
    NoRow        \* what a request that is not being served is about

Protecting == Environments \cup Clients      \* on_delete=PROTECT
Records    == Protecting \cup Credentials \cup Groups
Ids        == Servers \cup Records

ASSUME ServersAreNoRecords == Servers \cap Records = {}
ASSUME GroupsAreNotForeignKeys == Groups \cap (Protecting \cup Credentials) = {}
ASSUME NoRowIsNoId == NoRow \notin Ids
ASSUME UnknownIsAStatus == Unknown \in Status /\ {"none", "deleted"} \cap Status = {}

VARIABLES
    rows,     \* the rows that exist
    refs,     \* refs[s]    what server s refers to: its foreign keys and its groups
    status,   \* status[s]  Server.status
    pc,       \* pc[r]      where request r is
    op,       \* op[r]      "create", "edit" or "delete"
    target,   \* target[r]  the row it is about
    loaded,   \* loaded[r]  the status in the instance it works on
    given,    \* given[r]   what the form could select from: the fields that were sent
    asked,    \* asked[r]   what the instance refers to: as loaded, then as the form says
    did,      \* history, did[r]: "wrote" from a write of request r until it is on record
              \* or the request has failed, which its client is told
    last,     \* history, last[x]: "none", "deleted", or the status last set on purpose;
              \* only whether x has been used once rows are mixed
    wanted,   \* history, wanted[s]: what the last saved form selects, less what is gone;
              \* nothing once rows are mixed
    mixed     \* history: statements of two requests, or half of one's, made up a row

rowVars     == <<rows, refs, status>>
requestVars == <<pc, op, target, loaded, given, asked>>
histVars    == <<last, wanted, mixed>>
vars == <<rows, refs, status, pc, op, target, loaded, given, asked, did, last, wanted, mixed>>

\* A server has at most one of each foreign key, and any groups.
Selection ==
    {R \in SUBSET Records :
        \A Kind \in {Environments, Clients, Credentials} :
            \A x, y \in R \cap Kind : x = y}

\* The fields of a form or of a request body that name other rows.
Fields == {Environments, Clients, Credentials, Groups} \ {{}}

Init ==
    /\ rows = {}
    /\ refs   = [s \in Servers |-> {}]
    /\ status = [s \in Servers |-> Unknown]
    /\ pc     = [r \in Requests |-> "idle"]
    /\ op     = [r \in Requests |-> "edit"]
    /\ target = [r \in Requests |-> NoRow]
    /\ loaded = [r \in Requests |-> Unknown]
    /\ given  = [r \in Requests |-> {}]
    /\ asked  = [r \in Requests |-> {}]
    /\ did    = [r \in Requests |-> "nothing"]
    /\ last   = [x \in Ids |-> "none"]
    /\ wanted = [s \in Servers |-> {}]
    /\ mixed  = FALSE

GoTo(r, step) == pc' = [pc EXCEPT ![r] = step]
Did(r, what)  == did' = [did EXCEPT ![r] = what]

\* What rows should be is followed until two requests make one up; from then on only
\* which identities have been used.
Follow(lasts, wants) ==
    IF mixed'
    THEN /\ last'   = [x \in Ids |-> IF lasts[x] = "none" THEN "none" ELSE "deleted"]
         /\ wanted' = [s \in Servers |-> {}]
    ELSE last' = lasts /\ wanted' = wants

\* The request fails or dies: nobody takes what it wrote for recorded.
Fails(r) == Did(r, "nothing")

Done(r) ==
    /\ pc'     = [pc EXCEPT ![r] = "idle"]
    /\ op'     = [op EXCEPT ![r] = "edit"]
    /\ target' = [target EXCEPT ![r] = NoRow]
    /\ loaded' = [loaded EXCEPT ![r] = Unknown]
    /\ given'  = [given EXCEPT ![r] = {}]
    /\ asked'  = [asked EXCEPT ![r] = {}]

----------------------------------------------------------------------------
(* Beginning: an empty instance, or get_object_or_404 *)

Begin(r, operation, x, column, keys) ==
    /\ pc[r] = "idle"
    /\ op'     = [op EXCEPT ![r] = operation]
    /\ target' = [target EXCEPT ![r] = x]
    /\ loaded' = [loaded EXCEPT ![r] = column]
    /\ asked'  = [asked EXCEPT ![r] = keys]
    /\ Did(r, "nothing")
    /\ GoTo(r, "loaded")
    /\ UNCHANGED <<rowVars, given, histVars>>

\* A new row has an identity nobody has used.
New(r, x) ==
    /\ last[x] = "none"
    /\ \A q \in Requests : target[q] # x
    /\ Begin(r, "create", x, Unknown, {})

Load(r, operation, x) ==
    /\ x \in rows
    /\ IF operation = "edit" /\ x \in Servers
       THEN Begin(r, operation, x, status[x], refs[x] \ Groups)
       ELSE Begin(r, operation, x, Unknown, {})

----------------------------------------------------------------------------
(* Creating and editing *)

\* A form offers what exists; only servers refer to anything.  A screen sends every
\* field, the body of a PUT or PATCH may leave out any of them: the instance then
\* keeps the foreign key it was loaded with.
Validate(r, fields, selection) ==
    /\ pc[r] = "loaded" /\ op[r] # "delete"
    /\ selection \in Selection /\ selection \subseteq rows
    /\ target[r] \in Records => fields = {}
    /\ selection \subseteq UNION fields
    /\ given' = [given EXCEPT ![r] = UNION fields]
    /\ asked' = [asked EXCEPT ![r] = selection \cup (@ \ UNION fields)]
    /\ GoTo(r, "valid")
    /\ UNCHANGED <<rowVars, op, target, loaded, did, histVars>>

\* The page is shown again, with what is wrong with the form.
Reject(r) ==
    /\ pc[r] = "loaded" /\ op[r] # "delete"
    /\ Done(r)
    /\ UNCHANGED <<rowVars, did, histVars>>

KeysResolve(r) == asked[r] \ Groups \subseteq rows

\* The instance may have been overtaken: its row is gone, a task has written the
\* status since, or another request a foreign key this one was not sent.
Overtaken(r) ==
    /\ op[r] = "edit"
    /\ \/ target[r] \notin rows
       \/ /\ target[r] \in Servers
          /\ \/ status[target[r]] # loaded[r]
             \/ (refs[target[r]] \ Groups) \ given[r] # (asked[r] \ Groups) \ given[r]

\* Of a server's references, those of the fields that were sent are now these.
WantedAfter(r) ==
    IF target[r] \in Servers
    THEN [wanted EXCEPT ![target[r]] = (@ \ given[r]) \cup (asked[r] \cap given[r] \cap rows)]
    ELSE wanted

\* save() writes every column of the instance, those the form never showed and the
\* request never sent included: it updates the row, or inserts it when there is
\* none (any more).  Only the groups are left to be saved.
SaveWith(r, column) ==
    /\ pc[r] = "valid"
    /\ KeysResolve(r)
    /\ rows' = rows \cup {target[r]}
    /\ mixed' = (mixed \/ Overtaken(r))
    /\ IF target[r] \in Servers
       THEN /\ refs' = [refs EXCEPT ![target[r]] = (@ \cap Groups) \cup (asked[r] \ Groups)]
            /\ status' = [status EXCEPT ![target[r]] = column]
       ELSE UNCHANGED <<refs, status>>
    /\ Follow(IF op[r] = "create" THEN [last EXCEPT ![target[r]] = Unknown] ELSE last,
              WantedAfter(r))
    /\ Did(r, "wrote")
    /\ loaded' = [loaded EXCEPT ![r] = Unknown]
    /\ given'  = [given EXCEPT ![r] = @ \cap Groups]
    /\ asked'  = [asked EXCEPT ![r] = @ \cap Groups]
    /\ GoTo(r, "saved")
    /\ UNCHANGED <<op, target>>

\* Mutant: the form has a field for the status, and sends it empty.
SaveWithStatusField(r) == SaveWith(r, Unknown)

Save(r) == SaveWith(r, loaded[r])

\* IntegrityError: something the row is to refer to has been deleted since, or its
\* name has been taken.
SaveRefused(r) ==
    /\ pc[r] = "valid"
    /\ Done(r)
    /\ UNCHANGED <<rowVars, did, histVars>>

GroupsResolve(r) ==
    asked[r] \cap Groups # {} => target[r] \in rows /\ asked[r] \cap Groups \subseteq rows

\* Groups that were not sent are left alone.
GroupsGiven(r) == target[r] \in Servers /\ Groups \subseteq given[r]

\* save_m2m: the rows of the many-to-many table, in a transaction of their own.
SaveGroups(r) ==
    /\ pc[r] = "saved"
    /\ GroupsResolve(r)
    /\ IF GroupsGiven(r)
       THEN /\ refs' = [refs EXCEPT ![target[r]] = (@ \ Groups) \cup (asked[r] \cap Groups)]
            /\ mixed' = (mixed \/ wanted[target[r]] \cap Groups # asked[r] \cap Groups)
       ELSE UNCHANGED <<refs, mixed>>
    /\ Follow(last, wanted)
    /\ GoTo(r, "written")
    /\ given' = [given EXCEPT ![r] = {}]
    /\ asked' = [asked EXCEPT ![r] = {}]
    /\ UNCHANGED <<rows, status, op, target, loaded, did>>

\* The server or one of the groups has been deleted since: the row is saved, the
\* request fails.
GroupsRefused(r) ==
    /\ pc[r] = "saved"
    /\ ~GroupsResolve(r)
    /\ mixed' = TRUE /\ Follow(last, wanted)
    /\ Fails(r)
    /\ Done(r)
    /\ UNCHANGED rowVars

----------------------------------------------------------------------------
(* Deleting *)

InUse(x) == \E s \in Servers : x \in refs[s]

\* The collector looks for what protects the row before it deletes anything.
Collect(r) ==
    /\ pc[r] = "loaded" /\ op[r] = "delete"
    /\ target[r] \in Protecting => ~InUse(target[r])
    /\ GoTo(r, "collected")
    /\ UNCHANGED <<rowVars, op, target, loaded, given, asked, did, histVars>>

\* ProtectedError: the person is told to reassign the servers first.
Protected(r) ==
    /\ pc[r] = "loaded" /\ op[r] = "delete"
    /\ target[r] \in Protecting /\ InUse(target[r])
    /\ Done(r)
    /\ UNCHANGED <<rowVars, did, histVars>>

\* What is left of references when row x goes: foreign keys to it are set to null
\* and its rows of the many-to-many table go with it; PROTECT changes none.
Without(x, table) ==
    IF x \in Protecting THEN table
    ELSE [s \in Servers |-> IF s = x THEN {} ELSE table[s] \ {x}]

DeleteIf(r, unreferenced) ==
    /\ pc[r] = "collected"
    /\ unreferenced
    /\ rows'   = rows \ {target[r]}
    /\ refs'   = Without(target[r], refs)
    /\ mixed'  = mixed
    /\ Follow([last EXCEPT ![target[r]] = "deleted"], Without(target[r], wanted))
    /\ Did(r, IF target[r] \in rows THEN "wrote" ELSE "nothing")
    /\ GoTo(r, "written")
    /\ UNCHANGED <<status, op, target, loaded, given, asked>>

\* Mutant: PROTECT without a constraint in the database.
DeleteAsCollected(r) == DeleteIf(r, TRUE)

\* One transaction, which fails on foreign keys that point at the row by now.
\* Deleting a row that is gone is no error.
Delete(r) == DeleteIf(r, target[r] \in Protecting => ~InUse(target[r]))

\* IntegrityError: a row that refers to this one has been added since, a server
\* given the environment or a job with the credential.
DeleteRefused(r) ==
    /\ pc[r] = "collected"
    /\ Done(r)
    /\ UNCHANGED <<rowVars, did, histVars>>

----------------------------------------------------------------------------

RecordThis(r, left) ==
    /\ pc[r] = "written"
    /\ Did(r, left)
    /\ Done(r)
    /\ UNCHANGED <<rowVars, histVars>>

\* Mutant: a deleted instance has no key any more, and no event is written.
RecordWhatHasKey(r) == RecordThis(r, IF op[r] = "delete" THEN did[r] ELSE "nothing")

\* _audit and _record: the event comes last.
Record(r) == RecordThis(r, "nothing")

\* The event's source_ip is whatever X-Forwarded-For begins with, and its request_id
\* whatever X-Request-ID holds: no address, or too long, and the insert raises.  The row
\* stays written, the request fails.
RecordRefused(r) ==
    /\ pc[r] = "written"
    /\ Fails(r)
    /\ Done(r)
    /\ UNCHANGED <<rowVars, histVars>>

\* A task saves what a run observed, that column only, of a row that is there.
Observe(s, observed) ==
    /\ s \in rows
    /\ status' = [status EXCEPT ![s] = observed]
    /\ mixed'  = mixed
    /\ Follow([last EXCEPT ![s] = observed], wanted)
    /\ UNCHANGED <<rows, refs, requestVars, did>>

Dies(r) ==
    /\ pc[r] # "idle"
    /\ Fails(r)
    /\ mixed' = (mixed \/ pc[r] = "saved") /\ Follow(last, wanted)
    /\ Done(r)
    /\ UNCHANGED rowVars

Saving(r) ==
    \/ \E x \in Ids : New(r, x) \/ Load(r, "edit", x)
    \/ \E fields \in SUBSET Fields, selection \in SUBSET Records :
          Validate(r, fields, selection)
    \/ Reject(r)
    \/ Save(r) \/ SaveRefused(r)
    \/ SaveGroups(r) \/ GroupsRefused(r)

Deleting(r) ==
    \/ \E x \in Ids : Load(r, "delete", x)
    \/ Collect(r) \/ Protected(r)
    \/ Delete(r) \/ DeleteRefused(r)

Next ==
    \/ \E r \in Requests :
          Saving(r) \/ Deleting(r) \/ Record(r) \/ RecordRefused(r) \/ Dies(r)
    \/ \E s \in Servers, observed \in Status : Observe(s, observed)

Spec == Init /\ [][Next]_vars

----------------------------------------------------------------------------
(* Properties *)

Step == {"idle", "loaded", "valid", "saved", "collected", "written"}

TypeOK ==
    /\ rows \subseteq Ids
    /\ refs   \in [Servers -> SUBSET Records]
    /\ status \in [Servers -> Status]
    /\ pc     \in [Requests -> Step]
    /\ op     \in [Requests -> {"create", "edit", "delete"}]
    /\ target \in [Requests -> Ids \cup {NoRow}]
    /\ \A r \in Requests : pc[r] = "idle" <=> target[r] = NoRow
    /\ loaded \in [Requests -> Status]
    /\ given  \in [Requests -> SUBSET Records]
    /\ asked  \in [Requests -> SUBSET Records]
    /\ did    \in [Requests -> {"nothing", "wrote"}]
    /\ last   \in [Ids -> Status \cup {"none", "deleted"}]
    /\ wanted \in [Servers -> SUBSET Records]
    /\ mixed  \in BOOLEAN

\* PROTECT, SET_NULL and the many-to-many table: whatever is deleted while forms
\* that select it are on their way, no server refers to a row that is not there,
\* and nothing that refers is left of a server that is not there.
ReferencesResolve ==
    \A s \in Servers : refs[s] \subseteq rows /\ (refs[s] # {} => s \in rows)

\* "audit on every write": what a request that is over has written is on record,
\* unless the request died or failed with an error: the groups of the row it had
\* saved were refused, or the event was.  No request that succeeds, of two in any
\* order, leaves its write unrecorded.
EveryWriteIsRecorded ==
    \A r \in Requests : pc[r] = "idle" => did[r] # "wrote"

\* Rows are what people and tests made them: they are there unless deleted, with
\* the status the last test gave them and, field by field, the references of the
\* last form or body that sent the field; groups as soon as the request is past
\* saving them.  The exception is a row written by an instance that was overtaken,
\* or with groups that overlapped another's, were refused or cut off.
RowsAreAsDecided ==
    ~mixed =>
        /\ rows = {x \in Ids : last[x] \notin {"none", "deleted"}}
        /\ \A s \in rows \cap Servers :
              /\ status[s] = last[s]
              /\ refs[s] \ Groups = wanted[s] \ Groups
              /\ \/ refs[s] \cap Groups = wanted[s] \cap Groups
                 \/ \E r \in Requests :
                       pc[r] = "saved" /\ target[r] = s /\ GroupsGiven(r)
=============================================================================
