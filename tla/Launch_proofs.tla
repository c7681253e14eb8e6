----------------------------- MODULE Launch_proofs -----------------------------
(***************************************************************************)
(* What holds of Launch for every fleet, every set of credentials and      *)
(* every number of jobs and of edits.                                      *)
(***************************************************************************)
EXTENDS Launch, TLAPS

\* What the worker read is there from then on, and entries from when they are written.
Shape ==
    /\ read    = [j \in Jobs |-> read[j]]
    /\ entries = [j \in Jobs |-> entries[j]]
    /\ \A j \in Jobs :
          /\ phase[j] \notin {"read", "building", "run", "over"} => DOMAIN read[j] = {}
          /\ phase[j] \notin {"building", "run", "over"} => DOMAIN entries[j] = {}

\* TypeOK in three parts: what people edit, the rows of jobs, and their runs.
FleetOK ==
    /\ DOMAIN servers \subseteq Servers /\ \A s \in DOMAIN servers : servers[s] \in Server
    /\ environments \in [Environments -> Environment]
    /\ credentials \subseteq Credentials
    /\ edits \in 0 .. MaxEdits
    /\ \A s \in DOMAIN servers : servers[s].credential \in credentials \cup {None}

RowsOK ==
    /\ phase    \in [Jobs -> Phases]
    /\ form     \in [Jobs -> Form]
    /\ given    \in [Jobs -> credentials \cup {None}]
    /\ attached \in [Jobs -> SUBSET Servers]
    /\ check_mode \in [Jobs -> BOOLEAN]
    /\ event    \in [Jobs -> {"none", "check", "execute"}]
    /\ edited   \in [Jobs -> SUBSET Servers]

RunsOK ==
    /\ held   \in [Jobs -> Credentials \cup {None}]
    /\ passed  \in [Jobs -> BOOLEAN]
    /\ cmdline \in [Jobs -> BOOLEAN]
    /\ id_key \in [Jobs -> PrivateKeys \cup {None}]
    /\ \A j \in Jobs :
          /\ DOMAIN entries[j] \subseteq DOMAIN read[j] /\ DOMAIN read[j] \subseteq attached[j]
          /\ \A s \in DOMAIN read[j] : read[j][s] \in Credentials \cup {None}
          /\ \A s \in DOMAIN entries[j] : entries[j][s] \in Credentials \cup {None, InFile}

Launched == {"queued", "fetched", "read", "building", "run"}

LaunchesOnRecord == \A j \in Jobs : phase[j] \in Launched => event[j] = ActionOf(j)

\* How far the choice of a dry run has come: into the row, to the worker, to Ansible.  No
\* connection test is asked to be one.
Saved   == {"saved", "attached"} \cup Launched
Fetched == {"fetched", "read", "building", "run"}

DryRunsAreCarried ==
    \A j \in Jobs :
        /\ form[j].test # None => ~form[j].dry
        /\ phase[j] \in Saved => check_mode[j] = form[j].dry
        /\ phase[j] \in Fetched => passed[j] = form[j].dry
        /\ phase[j] = "run" => cmdline[j] = form[j].dry

\* Nothing is attached at first, and then what was asked for.
AttachedWereAsked ==
    \A j \in Jobs :
        /\ phase[j] \in {"new", "valid", "saved"} => attached[j] = {}
        /\ IsPlaybook(j) =>
              \A s \in attached[j] \ edited[j] : s \in Selected(form[j].environment)

\* The choice is in the row, and then with the worker, until it is deleted; what is
\* deleted never comes back.
ChoiceIsKept ==
    \A j \in Jobs :
        /\ phase[j] \notin {"new", "valid"} =>
              given[j] = form[j].credential \/ form[j].credential \notin credentials
        /\ phase[j] \in {"fetched", "read", "building", "run"} =>
              held[j] = form[j].credential \/ form[j].credential \notin credentials

\* Every entry is as it was written, and the file has the key of one of the entries that
\* refer to it.
EntriesAreWritten ==
    \A j \in Jobs : \A s \in DOMAIN entries[j] :
        /\ entries[j][s] = EntryFor(j, s)
        /\ entries[j][s] = InFile =>
              \E t \in DOMAIN entries[j] :
                  CredentialFor(j, t) \in PrivateKeys /\ id_key[j] = CredentialFor(j, t)

LEMMA FleetStep == TypeOK /\ [Next]_vars => FleetOK'
<1> SUFFICES ASSUME TypeOK, [Next]_vars PROVE FleetOK'
  OBVIOUS
<1> USE NoneIsNothing, MaxEditsIsANumber DEF TypeOK, FleetOK, GoTo, fleet, modes, jobs
<1>1. ASSUME NEW j \in Jobs, NEW asked \in Form, SubmitRun(j, asked) PROVE FleetOK'
  BY <1>1 DEF SubmitRun
<1>2. ASSUME NEW j \in Jobs, NEW s \in Servers, SubmitTest(j, s) PROVE FleetOK'
  BY <1>2 DEF SubmitTest
<1>3. ASSUME NEW j \in Jobs, NEW s \in Servers, WriteEntry(j, s) PROVE FleetOK'
  BY <1>3 DEF WriteEntry
<1>4. ASSUME NEW j \in Jobs, SaveRow(j) PROVE FleetOK'
  BY <1>4 DEF SaveRow
<1>5. ASSUME NEW j \in Jobs, AttachServers(j) PROVE FleetOK'
  BY <1>5 DEF AttachServers, Attach
<1>6. ASSUME NEW j \in Jobs, RecordAndPublish(j) PROVE FleetOK'
  BY <1>6 DEF RecordAndPublish
<1>7. ASSUME NEW j \in Jobs, Fetch(j) PROVE FleetOK'
  BY <1>7 DEF Fetch, FetchAs
<1>8. ASSUME NEW j \in Jobs, ReadServers(j) PROVE FleetOK'
  BY <1>8 DEF ReadServers
<1>9. ASSUME NEW j \in Jobs, StartRun(j) PROVE FleetOK'
  BY <1>9 DEF StartRun
<1>10. ASSUME NEW j \in Jobs, BuildFails(j) PROVE FleetOK'
  BY <1>10 DEF BuildFails
<1>11. ASSUME NEW j \in Jobs, Execute(j) PROVE FleetOK'
  BY <1>11 DEF Execute
<1>12. ASSUME NEW e \in Environments, NEW as \in Environment, EditEnvironment(e, as)
      PROVE  FleetOK'
  <2>1. environments' = [environments EXCEPT ![e] = as] /\ UNCHANGED <<servers, credentials>>
    BY <1>12 DEF EditEnvironment
  <2>2. edits' \in 0 .. MaxEdits
    BY <1>12 DEF EditEnvironment, Edit
  <2>3. environments' \in [Environments -> Environment]
    BY <2>1
  <2>. QED
    BY <2>1, <2>2, <2>3
<1>13. ASSUME NEW s \in Servers, NEW as \in Server, EditServer(s, as) PROVE FleetOK'
  <2>1. as.credential \in credentials \cup {None} /\ UNCHANGED credentials
    BY <1>13 DEF EditServer
  <2>2. servers' = [t \in DOMAIN servers \cup {s} |-> IF t = s THEN as ELSE servers[t]]
    BY <1>13 DEF EditServer
  <2>3. UNCHANGED environments /\ edits' \in 0 .. MaxEdits
    BY <1>13 DEF EditServer, Edit
  <2>4. DOMAIN servers' = DOMAIN servers \cup {s} /\ DOMAIN servers' \subseteq Servers
    BY <2>2
  <2>5. \A t \in DOMAIN servers' :
            servers'[t] \in Server /\ servers'[t].credential \in credentials' \cup {None}
    BY <2>1, <2>2
  <2>. QED
    BY <2>1, <2>3, <2>4, <2>5
<1>14. ASSUME NEW s \in Servers, RemoveServer(s) PROVE FleetOK'
  BY <1>14 DEF RemoveServer, Edit
<1>15. ASSUME NEW c \in Credentials, DeleteCredential(c) PROVE FleetOK'
  <2>1. credentials' = credentials \ {c} /\ UNCHANGED environments
    BY <1>15 DEF DeleteCredential, DeleteAnd
  <2>2. servers' = [s \in DOMAIN servers |->
                       [servers[s] EXCEPT !.credential = IF @ = c THEN None ELSE @]]
    BY <1>15 DEF DeleteCredential, DeleteAnd
  <2>3. edits' \in 0 .. MaxEdits
    BY <1>15 DEF DeleteCredential, DeleteAnd, Edit
  <2>4. ASSUME NEW s \in DOMAIN servers
        PROVE  /\ servers'[s] \in Server
               /\ servers'[s].credential \in credentials' \cup {None}
    <3>1. servers[s] \in Server /\ servers[s].credential \in credentials \cup {None}
      OBVIOUS
    <3>2. servers'[s] = [servers[s] EXCEPT !.credential = IF @ = c THEN None ELSE @]
      BY <2>2
    <3>3. servers'[s].credential = IF servers[s].credential = c THEN None
                                   ELSE servers[s].credential
      BY <3>1, <3>2 DEF Server
    <3>4. servers'[s] \in Server
      BY <3>1, <3>2, <3>3 DEF Server
    <3>. QED
      BY <2>1, <3>1, <3>3, <3>4
  <2>5. DOMAIN servers' = DOMAIN servers
    BY <2>2
  <2>. QED
    BY <2>1, <2>3, <2>4, <2>5
<1>16. CASE UNCHANGED vars
  BY <1>16 DEF vars
<1>17. ASSUME NEW j \in Jobs, AttachRefused(j) PROVE FleetOK'
  BY <1>17 DEF AttachRefused
<1>. QED
  BY <1>1, <1>2, <1>3, <1>4, <1>5, <1>6, <1>7, <1>8,
     <1>9, <1>10, <1>11, <1>12, <1>13, <1>14, <1>15, <1>16, <1>17
     DEF Next, Step

LEMMA RowStep == TypeOK /\ [Next]_vars => RowsOK'
<1> SUFFICES ASSUME TypeOK, [Next]_vars PROVE RowsOK'
  OBVIOUS
<1> USE NoneIsNothing DEF TypeOK, RowsOK, GoTo, fleet, modes, jobs, Phases
<1>1. ASSUME NEW j \in Jobs, NEW asked \in Form, SubmitRun(j, asked) PROVE RowsOK'
  BY <1>1 DEF SubmitRun, Form
<1>2. ASSUME NEW j \in Jobs, NEW s \in Servers, SubmitTest(j, s) PROVE RowsOK'
  <2>1. [test |-> s, environment |-> servers[s].environment,
         credential |-> servers[s].credential, dry |-> FALSE] \in Form
    BY <1>2 DEF SubmitTest, Form, Server
  <2>. QED
    BY <1>2, <2>1 DEF SubmitTest
<1>3. ASSUME NEW j \in Jobs, NEW s \in Servers, WriteEntry(j, s) PROVE RowsOK'
  BY <1>3 DEF WriteEntry
<1>4. ASSUME NEW j \in Jobs, SaveRow(j) PROVE RowsOK'
  <2>1. CASE form[j].credential \in credentials \cup {None}
    <3>1. check_mode' = [check_mode EXCEPT ![j] = form[j].dry] /\ form[j].dry \in BOOLEAN
      BY <1>4, <2>1 DEF SaveRow, Form
    <3>2. check_mode' \in [Jobs -> BOOLEAN]
      BY <3>1
    <3>. QED
      BY <1>4, <2>1, <3>2 DEF SaveRow
  <2>2. CASE form[j].credential \notin credentials \cup {None}
    BY <1>4, <2>2 DEF SaveRow
  <2>. QED
    BY <2>1, <2>2
<1>5. ASSUME NEW j \in Jobs, AttachServers(j) PROVE RowsOK'
  <2>1. Selected(form[j].environment) \subseteq Servers
    BY DEF Selected
  <2>2. PICK S \in SUBSET Servers : attached' = [attached EXCEPT ![j] = S]
    BY <1>5, <2>1 DEF AttachServers, Attach
  <2>. QED
    BY <1>5, <2>2 DEF AttachServers, Attach
<1>6. ASSUME NEW j \in Jobs, RecordAndPublish(j) PROVE RowsOK'
  BY <1>6 DEF RecordAndPublish, ActionOf
<1>7. ASSUME NEW j \in Jobs, Fetch(j) PROVE RowsOK'
  BY <1>7 DEF Fetch, FetchAs
<1>8. ASSUME NEW j \in Jobs, ReadServers(j) PROVE RowsOK'
  BY <1>8 DEF ReadServers
<1>9. ASSUME NEW j \in Jobs, StartRun(j) PROVE RowsOK'
  BY <1>9 DEF StartRun
<1>10. ASSUME NEW j \in Jobs, BuildFails(j) PROVE RowsOK'
  BY <1>10 DEF BuildFails
<1>11. ASSUME NEW j \in Jobs, Execute(j) PROVE RowsOK'
  BY <1>11 DEF Execute
<1>12. ASSUME NEW e \in Environments, NEW as \in Environment, EditEnvironment(e, as)
      PROVE  RowsOK'
  BY <1>12 DEF EditEnvironment, Edit
<1>13. ASSUME NEW s \in Servers, NEW as \in Server, EditServer(s, as) PROVE RowsOK'
  BY <1>13 DEF EditServer, Edit
<1>14. ASSUME NEW s \in Servers, RemoveServer(s) PROVE RowsOK'
  BY <1>14 DEF RemoveServer, Edit
<1>15. ASSUME NEW c \in Credentials, DeleteCredential(c) PROVE RowsOK'
  BY <1>15 DEF DeleteCredential, DeleteAnd, Edit
<1>16. CASE UNCHANGED vars
  BY <1>16 DEF vars
<1>17. ASSUME NEW j \in Jobs, AttachRefused(j) PROVE RowsOK'
  BY <1>17 DEF AttachRefused
<1>. QED
  BY <1>1, <1>2, <1>3, <1>4, <1>5, <1>6, <1>7, <1>8,
     <1>9, <1>10, <1>11, <1>12, <1>13, <1>14, <1>15, <1>16, <1>17
     DEF Next, Step

LEMMA RunStep == TypeOK /\ Shape /\ [Next]_vars => RunsOK'
<1> SUFFICES ASSUME TypeOK, Shape, [Next]_vars PROVE RunsOK'
  OBVIOUS
<1> USE NoneIsNothing DEF TypeOK, RunsOK, GoTo, fleet, modes, jobs, Shape
<1>1. ASSUME NEW j \in Jobs, NEW asked \in Form, SubmitRun(j, asked) PROVE RunsOK'
  BY <1>1 DEF SubmitRun
<1>2. ASSUME NEW j \in Jobs, NEW s \in Servers, SubmitTest(j, s) PROVE RunsOK'
  BY <1>2 DEF SubmitTest
<1>3. ASSUME NEW j \in Jobs, NEW s \in Servers, WriteEntry(j, s) PROVE RunsOK'
  <2>1. /\ phase[j] = "building" /\ s \in DOMAIN read[j]
       /\ UNCHANGED <<phase, attached, held, passed, cmdline, read>>
    BY <1>3 DEF WriteEntry
  <2>2. entries'[j] = [t \in DOMAIN entries[j] \cup {s} |->
                          IF t = s THEN EntryFor(j, s) ELSE entries[j][t]]
    BY <1>3 DEF WriteEntry
  <2>3. \A i \in Jobs \ {j} : entries'[i] = entries[i] /\ id_key'[i] = id_key[i]
    BY <1>3 DEF WriteEntry
  <2>4. id_key'[j] = IF EntryFor(j, s) = InFile THEN CredentialFor(j, s) ELSE id_key[j]
    BY <1>3 DEF WriteEntry
  <2>5. CredentialFor(j, s) \in Credentials \cup {None}
    BY <2>1 DEF CredentialFor
  <2>6. /\ EntryFor(j, s) \in Credentials \cup {None, InFile}
        /\ EntryFor(j, s) = InFile => CredentialFor(j, s) \in PrivateKeys
    BY <2>5, TheFileIsNoSecret DEF EntryFor, InFile
  <2>7. id_key' \in [Jobs -> PrivateKeys \cup {None}]
    <3>1. id_key' = [id_key EXCEPT ![j] =
                        IF EntryFor(j, s) = InFile THEN CredentialFor(j, s) ELSE @]
      BY <1>3 DEF WriteEntry
    <3>. QED
      BY <2>6, <3>1
  <2>8. ASSUME NEW i \in Jobs
        PROVE  /\ DOMAIN entries'[i] \subseteq DOMAIN read'[i]
               /\ \A t \in DOMAIN entries'[i] :
                     entries'[i][t] \in Credentials \cup {None, InFile}
    <3>1. CASE i = j
      BY <2>1, <2>2, <2>6, <3>1
    <3>2. CASE i # j
      BY <2>1, <2>3, <3>2
    <3>. QED
      BY <3>1, <3>2
  <2>. QED
    BY <2>1, <2>7, <2>8
<1>4. ASSUME NEW j \in Jobs, SaveRow(j) PROVE RunsOK'
  BY <1>4 DEF SaveRow
<1>5. ASSUME NEW j \in Jobs, AttachServers(j) PROVE RunsOK'
  BY <1>5 DEF AttachServers, Attach
<1>6. ASSUME NEW j \in Jobs, RecordAndPublish(j) PROVE RunsOK'
  BY <1>6 DEF RecordAndPublish
<1>7. ASSUME NEW j \in Jobs, Fetch(j) PROVE RunsOK'
  BY <1>7 DEF Fetch, FetchAs
<1>8. ASSUME NEW j \in Jobs, ReadServers(j) PROVE RunsOK'
  BY <1>8 DEF ReadServers
<1>9. ASSUME NEW j \in Jobs, StartRun(j) PROVE RunsOK'
  BY <1>9 DEF StartRun
<1>10. ASSUME NEW j \in Jobs, BuildFails(j) PROVE RunsOK'
  BY <1>10 DEF BuildFails
<1>11. ASSUME NEW j \in Jobs, Execute(j) PROVE RunsOK'
  BY <1>11 DEF Execute
<1>12. ASSUME NEW e \in Environments, NEW as \in Environment, EditEnvironment(e, as)
      PROVE  RunsOK'
  BY <1>12 DEF EditEnvironment, Edit
<1>13. ASSUME NEW s \in Servers, NEW as \in Server, EditServer(s, as) PROVE RunsOK'
  BY <1>13 DEF EditServer, Edit
<1>14. ASSUME NEW s \in Servers, RemoveServer(s) PROVE RunsOK'
  BY <1>14 DEF RemoveServer, Edit
<1>15. ASSUME NEW c \in Credentials, DeleteCredential(c) PROVE RunsOK'
  BY <1>15 DEF DeleteCredential, DeleteAnd, Edit
<1>16. CASE UNCHANGED vars
  BY <1>16 DEF vars
<1>17. ASSUME NEW j \in Jobs, AttachRefused(j) PROVE RunsOK'
  BY <1>17 DEF AttachRefused
<1>. QED
  BY <1>1, <1>2, <1>3, <1>4, <1>5, <1>6, <1>7, <1>8,
     <1>9, <1>10, <1>11, <1>12, <1>13, <1>14, <1>15, <1>16, <1>17
     DEF Next, Step

LEMMA ShapeStep == TypeOK /\ Shape /\ [Next]_vars => Shape'
<1> SUFFICES ASSUME TypeOK, Shape, [Next]_vars PROVE Shape'
  OBVIOUS
<1> USE DEF TypeOK, GoTo, fleet, modes, jobs, Shape
<1>1. ASSUME NEW j \in Jobs, NEW asked \in Form, SubmitRun(j, asked) PROVE Shape'
  BY <1>1 DEF SubmitRun
<1>2. ASSUME NEW j \in Jobs, NEW s \in Servers, SubmitTest(j, s) PROVE Shape'
  BY <1>2 DEF SubmitTest
<1>3. ASSUME NEW j \in Jobs, NEW s \in Servers, WriteEntry(j, s) PROVE Shape'
  BY <1>3 DEF WriteEntry
<1>4. ASSUME NEW j \in Jobs, SaveRow(j) PROVE Shape'
  BY <1>4 DEF SaveRow
<1>5. ASSUME NEW j \in Jobs, AttachServers(j) PROVE Shape'
  BY <1>5 DEF AttachServers, Attach
<1>6. ASSUME NEW j \in Jobs, RecordAndPublish(j) PROVE Shape'
  BY <1>6 DEF RecordAndPublish
<1>7. ASSUME NEW j \in Jobs, Fetch(j) PROVE Shape'
  BY <1>7 DEF Fetch, FetchAs
<1>8. ASSUME NEW j \in Jobs, ReadServers(j) PROVE Shape'
  BY <1>8 DEF ReadServers
<1>9. ASSUME NEW j \in Jobs, StartRun(j) PROVE Shape'
  BY <1>9 DEF StartRun
<1>10. ASSUME NEW j \in Jobs, BuildFails(j) PROVE Shape'
  BY <1>10 DEF BuildFails
<1>11. ASSUME NEW j \in Jobs, Execute(j) PROVE Shape'
  BY <1>11 DEF Execute
<1>12. ASSUME NEW e \in Environments, NEW as \in Environment, EditEnvironment(e, as)
      PROVE  Shape'
  BY <1>12 DEF EditEnvironment, Edit
<1>13. ASSUME NEW s \in Servers, NEW as \in Server, EditServer(s, as) PROVE Shape'
  BY <1>13 DEF EditServer, Edit
<1>14. ASSUME NEW s \in Servers, RemoveServer(s) PROVE Shape'
  BY <1>14 DEF RemoveServer, Edit
<1>15. ASSUME NEW c \in Credentials, DeleteCredential(c) PROVE Shape'
  BY <1>15 DEF DeleteCredential, DeleteAnd, Edit
<1>16. CASE UNCHANGED vars
  BY <1>16 DEF vars
<1>17. ASSUME NEW j \in Jobs, AttachRefused(j) PROVE Shape'
  BY <1>17 DEF AttachRefused
<1>. QED
  BY <1>1, <1>2, <1>3, <1>4, <1>5, <1>6, <1>7, <1>8,
     <1>9, <1>10, <1>11, <1>12, <1>13, <1>14, <1>15, <1>16, <1>17
     DEF Next, Step

LEMMA EventStep == TypeOK /\ LaunchesOnRecord /\ [Next]_vars => LaunchesOnRecord'
<1> SUFFICES ASSUME TypeOK, LaunchesOnRecord, [Next]_vars PROVE LaunchesOnRecord'
  OBVIOUS
<1> USE DEF TypeOK, GoTo, fleet, modes, jobs, LaunchesOnRecord, Launched, ActionOf
<1>1. ASSUME NEW j \in Jobs, NEW asked \in Form, SubmitRun(j, asked)
      PROVE  LaunchesOnRecord'
  BY <1>1 DEF SubmitRun
<1>2. ASSUME NEW j \in Jobs, NEW s \in Servers, SubmitTest(j, s) PROVE LaunchesOnRecord'
  BY <1>2 DEF SubmitTest
<1>3. ASSUME NEW j \in Jobs, NEW s \in Servers, WriteEntry(j, s) PROVE LaunchesOnRecord'
  BY <1>3 DEF WriteEntry
<1>4. ASSUME NEW j \in Jobs, SaveRow(j) PROVE LaunchesOnRecord'
  BY <1>4 DEF SaveRow
<1>5. ASSUME NEW j \in Jobs, AttachServers(j) PROVE LaunchesOnRecord'
  BY <1>5 DEF AttachServers, Attach
<1>6. ASSUME NEW j \in Jobs, RecordAndPublish(j) PROVE LaunchesOnRecord'
  BY <1>6 DEF RecordAndPublish
<1>7. ASSUME NEW j \in Jobs, Fetch(j) PROVE LaunchesOnRecord'
  BY <1>7 DEF Fetch, FetchAs
<1>8. ASSUME NEW j \in Jobs, ReadServers(j) PROVE LaunchesOnRecord'
  BY <1>8 DEF ReadServers
<1>9. ASSUME NEW j \in Jobs, StartRun(j) PROVE LaunchesOnRecord'
  BY <1>9 DEF StartRun
<1>10. ASSUME NEW j \in Jobs, BuildFails(j) PROVE LaunchesOnRecord'
  BY <1>10 DEF BuildFails
<1>11. ASSUME NEW j \in Jobs, Execute(j) PROVE LaunchesOnRecord'
  BY <1>11 DEF Execute
<1>12. ASSUME NEW e \in Environments, NEW as \in Environment, EditEnvironment(e, as)
      PROVE  LaunchesOnRecord'
  BY <1>12 DEF EditEnvironment, Edit
<1>13. ASSUME NEW s \in Servers, NEW as \in Server, EditServer(s, as)
      PROVE  LaunchesOnRecord'
  BY <1>13 DEF EditServer, Edit
<1>14. ASSUME NEW s \in Servers, RemoveServer(s) PROVE LaunchesOnRecord'
  BY <1>14 DEF RemoveServer, Edit
<1>15. ASSUME NEW c \in Credentials, DeleteCredential(c) PROVE LaunchesOnRecord'
  BY <1>15 DEF DeleteCredential, DeleteAnd, Edit
<1>16. CASE UNCHANGED vars
  BY <1>16 DEF vars
<1>17. ASSUME NEW j \in Jobs, AttachRefused(j) PROVE LaunchesOnRecord'
  BY <1>17 DEF AttachRefused
<1>. QED
  BY <1>1, <1>2, <1>3, <1>4, <1>5, <1>6, <1>7, <1>8,
     <1>9, <1>10, <1>11, <1>12, <1>13, <1>14, <1>15, <1>16, <1>17
     DEF Next, Step

LEMMA DryStep == TypeOK /\ DryRunsAreCarried /\ [Next]_vars => DryRunsAreCarried'
<1> SUFFICES ASSUME TypeOK, DryRunsAreCarried, [Next]_vars PROVE DryRunsAreCarried'
  OBVIOUS
<1> USE DEF TypeOK, GoTo, fleet, modes, jobs, DryRunsAreCarried, Saved, Launched, Fetched, Form
<1>1. ASSUME NEW j \in Jobs, NEW asked \in Form, SubmitRun(j, asked)
      PROVE  DryRunsAreCarried'
  BY <1>1 DEF SubmitRun
<1>2. ASSUME NEW j \in Jobs, NEW s \in Servers, SubmitTest(j, s) PROVE DryRunsAreCarried'
  BY <1>2 DEF SubmitTest
<1>3. ASSUME NEW j \in Jobs, NEW s \in Servers, WriteEntry(j, s) PROVE DryRunsAreCarried'
  BY <1>3 DEF WriteEntry
<1>4. ASSUME NEW j \in Jobs, SaveRow(j) PROVE DryRunsAreCarried'
  BY <1>4 DEF SaveRow
<1>5. ASSUME NEW j \in Jobs, AttachServers(j) PROVE DryRunsAreCarried'
  BY <1>5 DEF AttachServers, Attach
<1>6. ASSUME NEW j \in Jobs, RecordAndPublish(j) PROVE DryRunsAreCarried'
  BY <1>6 DEF RecordAndPublish
<1>7. ASSUME NEW j \in Jobs, Fetch(j) PROVE DryRunsAreCarried'
  BY <1>7 DEF Fetch, FetchAs
<1>8. ASSUME NEW j \in Jobs, ReadServers(j) PROVE DryRunsAreCarried'
  BY <1>8 DEF ReadServers
<1>9. ASSUME NEW j \in Jobs, StartRun(j) PROVE DryRunsAreCarried'
  BY <1>9 DEF StartRun
<1>10. ASSUME NEW j \in Jobs, BuildFails(j) PROVE DryRunsAreCarried'
  BY <1>10 DEF BuildFails
<1>11. ASSUME NEW j \in Jobs, Execute(j) PROVE DryRunsAreCarried'
  BY <1>11 DEF Execute
<1>12. ASSUME NEW e \in Environments, NEW as \in Environment, EditEnvironment(e, as)
      PROVE  DryRunsAreCarried'
  BY <1>12 DEF EditEnvironment, Edit
<1>13. ASSUME NEW s \in Servers, NEW as \in Server, EditServer(s, as)
      PROVE  DryRunsAreCarried'
  BY <1>13 DEF EditServer, Edit
<1>14. ASSUME NEW s \in Servers, RemoveServer(s) PROVE DryRunsAreCarried'
  BY <1>14 DEF RemoveServer, Edit
<1>15. ASSUME NEW c \in Credentials, DeleteCredential(c) PROVE DryRunsAreCarried'
  BY <1>15 DEF DeleteCredential, DeleteAnd, Edit
<1>16. CASE UNCHANGED vars
  BY <1>16 DEF vars
<1>17. ASSUME NEW j \in Jobs, AttachRefused(j) PROVE DryRunsAreCarried'
  BY <1>17 DEF AttachRefused
<1>. QED
  BY <1>1, <1>2, <1>3, <1>4, <1>5, <1>6, <1>7, <1>8,
     <1>9, <1>10, <1>11, <1>12, <1>13, <1>14, <1>15, <1>16, <1>17
     DEF Next, Step

LEMMA TargetStep == TypeOK /\ AttachedWereAsked /\ [Next]_vars => AttachedWereAsked'
<1> SUFFICES ASSUME TypeOK, AttachedWereAsked, [Next]_vars PROVE AttachedWereAsked'
  OBVIOUS
<1> USE DEF TypeOK, GoTo, fleet, modes, jobs, AttachedWereAsked, Selected, IsPlaybook, Server, Phases
<1>1. ASSUME NEW j \in Jobs, NEW asked \in Form, SubmitRun(j, asked)
      PROVE  AttachedWereAsked'
  BY <1>1 DEF SubmitRun
<1>2. ASSUME NEW j \in Jobs, NEW s \in Servers, SubmitTest(j, s)
      PROVE  AttachedWereAsked'
  BY <1>2 DEF SubmitTest
<1>3. ASSUME NEW j \in Jobs, NEW s \in Servers, WriteEntry(j, s)
      PROVE  AttachedWereAsked'
  BY <1>3 DEF WriteEntry
<1>4. ASSUME NEW j \in Jobs, SaveRow(j) PROVE AttachedWereAsked'
  <2>1. UNCHANGED <<servers, form, attached, edited>> /\ phase[j] = "valid"
    BY <1>4 DEF SaveRow
  <2>2. phase'[j] \in {"saved", "over"} /\ \A i \in Jobs \ {j} : phase'[i] = phase[i]
    BY <1>4 DEF SaveRow
  <2>3. attached[j] = {}
    BY <2>1
  <2>. QED
    BY <2>1, <2>2, <2>3
<1>5. ASSUME NEW j \in Jobs, AttachServers(j) PROVE AttachedWereAsked'
  BY <1>5 DEF AttachServers, Attach
<1>6. ASSUME NEW j \in Jobs, RecordAndPublish(j) PROVE AttachedWereAsked'
  BY <1>6 DEF RecordAndPublish
<1>7. ASSUME NEW j \in Jobs, Fetch(j) PROVE AttachedWereAsked'
  BY <1>7 DEF Fetch, FetchAs
<1>8. ASSUME NEW j \in Jobs, ReadServers(j) PROVE AttachedWereAsked'
  BY <1>8 DEF ReadServers
<1>9. ASSUME NEW j \in Jobs, StartRun(j) PROVE AttachedWereAsked'
  BY <1>9 DEF StartRun
<1>10. ASSUME NEW j \in Jobs, BuildFails(j) PROVE AttachedWereAsked'
  BY <1>10 DEF BuildFails
<1>11. ASSUME NEW j \in Jobs, Execute(j) PROVE AttachedWereAsked'
  BY <1>11 DEF Execute
<1>12. ASSUME NEW e \in Environments, NEW as \in Environment, EditEnvironment(e, as)
      PROVE  AttachedWereAsked'
  BY <1>12 DEF EditEnvironment, Edit
<1>13. ASSUME NEW s \in Servers, NEW as \in Server, EditServer(s, as)
      PROVE  AttachedWereAsked'
  BY <1>13 DEF EditServer, Edit
<1>14. ASSUME NEW s \in Servers, RemoveServer(s) PROVE AttachedWereAsked'
  BY <1>14 DEF RemoveServer, Edit
<1>15. ASSUME NEW c \in Credentials, DeleteCredential(c) PROVE AttachedWereAsked'
  BY <1>15 DEF DeleteCredential, DeleteAnd, Edit
<1>16. CASE UNCHANGED vars
  BY <1>16 DEF vars
<1>17. ASSUME NEW j \in Jobs, AttachRefused(j) PROVE AttachedWereAsked'
  BY <1>17 DEF AttachRefused
<1>. QED
  BY <1>1, <1>2, <1>3, <1>4, <1>5, <1>6, <1>7, <1>8,
     <1>9, <1>10, <1>11, <1>12, <1>13, <1>14, <1>15, <1>16, <1>17
     DEF Next, Step

LEMMA ChoiceStep == TypeOK /\ ChoiceIsKept /\ [Next]_vars => ChoiceIsKept'
<1> SUFFICES ASSUME TypeOK, ChoiceIsKept, [Next]_vars PROVE ChoiceIsKept'
  OBVIOUS
<1> USE DEF TypeOK, GoTo, fleet, modes, jobs, ChoiceIsKept, Phases
<1>1. ASSUME NEW j \in Jobs, NEW asked \in Form, SubmitRun(j, asked) PROVE ChoiceIsKept'
  BY <1>1 DEF SubmitRun
<1>2. ASSUME NEW j \in Jobs, NEW s \in Servers, SubmitTest(j, s) PROVE ChoiceIsKept'
  BY <1>2 DEF SubmitTest
<1>3. ASSUME NEW j \in Jobs, NEW s \in Servers, WriteEntry(j, s) PROVE ChoiceIsKept'
  BY <1>3 DEF WriteEntry
<1>4. ASSUME NEW j \in Jobs, SaveRow(j) PROVE ChoiceIsKept'
  BY <1>4 DEF SaveRow
<1>5. ASSUME NEW j \in Jobs, AttachServers(j) PROVE ChoiceIsKept'
  BY <1>5 DEF AttachServers, Attach
<1>6. ASSUME NEW j \in Jobs, RecordAndPublish(j) PROVE ChoiceIsKept'
  BY <1>6 DEF RecordAndPublish
<1>7. ASSUME NEW j \in Jobs, Fetch(j) PROVE ChoiceIsKept'
  BY <1>7 DEF Fetch, FetchAs
<1>8. ASSUME NEW j \in Jobs, ReadServers(j) PROVE ChoiceIsKept'
  BY <1>8 DEF ReadServers
<1>9. ASSUME NEW j \in Jobs, StartRun(j) PROVE ChoiceIsKept'
  BY <1>9 DEF StartRun
<1>10. ASSUME NEW j \in Jobs, BuildFails(j) PROVE ChoiceIsKept'
  BY <1>10 DEF BuildFails
<1>11. ASSUME NEW j \in Jobs, Execute(j) PROVE ChoiceIsKept'
  BY <1>11 DEF Execute
<1>12. ASSUME NEW e \in Environments, NEW as \in Environment, EditEnvironment(e, as)
      PROVE  ChoiceIsKept'
  BY <1>12 DEF EditEnvironment, Edit
<1>13. ASSUME NEW s \in Servers, NEW as \in Server, EditServer(s, as)
      PROVE  ChoiceIsKept'
  BY <1>13 DEF EditServer, Edit
<1>14. ASSUME NEW s \in Servers, RemoveServer(s) PROVE ChoiceIsKept'
  BY <1>14 DEF RemoveServer, Edit
<1>15. ASSUME NEW c \in Credentials, DeleteCredential(c) PROVE ChoiceIsKept'
  BY <1>15 DEF DeleteCredential, DeleteAnd, Edit
<1>16. CASE UNCHANGED vars
  BY <1>16 DEF vars
<1>17. ASSUME NEW j \in Jobs, AttachRefused(j) PROVE ChoiceIsKept'
  BY <1>17 DEF AttachRefused
<1>. QED
  BY <1>1, <1>2, <1>3, <1>4, <1>5, <1>6, <1>7, <1>8,
     <1>9, <1>10, <1>11, <1>12, <1>13, <1>14, <1>15, <1>16, <1>17
     DEF Next, Step

LEMMA EntryStep == TypeOK /\ Shape /\ EntriesAreWritten /\ [Next]_vars => EntriesAreWritten'
<1> SUFFICES ASSUME TypeOK, Shape, EntriesAreWritten, [Next]_vars PROVE EntriesAreWritten'
  OBVIOUS
<1> USE DEF TypeOK, GoTo, fleet, modes, jobs, Shape, EntriesAreWritten, EntryFor, CredentialFor
<1>1. ASSUME NEW j \in Jobs, NEW asked \in Form, SubmitRun(j, asked)
      PROVE  EntriesAreWritten'
  BY <1>1 DEF SubmitRun
<1>2. ASSUME NEW j \in Jobs, NEW s \in Servers, SubmitTest(j, s)
      PROVE  EntriesAreWritten'
  BY <1>2 DEF SubmitTest
<1>3. ASSUME NEW j \in Jobs, NEW s \in Servers, WriteEntry(j, s)
      PROVE  EntriesAreWritten'
  <2>1. /\ phase[j] = "building" /\ s \in DOMAIN read[j]
       /\ UNCHANGED <<phase, attached, held, read>>
    BY <1>3 DEF WriteEntry
  <2>2. entries'[j] = [t \in DOMAIN entries[j] \cup {s} |->
                          IF t = s THEN EntryFor(j, s) ELSE entries[j][t]]
    BY <1>3 DEF WriteEntry
  <2>3. \A i \in Jobs \ {j} : entries'[i] = entries[i] /\ id_key'[i] = id_key[i]
    BY <1>3 DEF WriteEntry
  <2>4. id_key'[j] = IF EntryFor(j, s) = InFile THEN CredentialFor(j, s) ELSE id_key[j]
    BY <1>3 DEF WriteEntry
  <2>5. /\ \A i \in Jobs : \A t : EntryFor(i, t)' = EntryFor(i, t)
        /\ \A i \in Jobs : \A t : CredentialFor(i, t)' = CredentialFor(i, t)
    BY <2>1 DEF EntryFor, CredentialFor
  <2>6. CredentialFor(j, s) \in Credentials \cup {None} /\ DOMAIN entries[j] \subseteq DOMAIN read[j]
    BY <2>1 DEF TypeOK, CredentialFor
  <2>7. EntryFor(j, s) = InFile => CredentialFor(j, s) \in PrivateKeys
    BY <2>6, TheFileIsNoSecret DEF EntryFor, InFile
  <2>8. ASSUME NEW i \in Jobs, NEW t \in DOMAIN entries'[i]
        PROVE  /\ entries'[i][t] = EntryFor(i, t)
               /\ entries'[i][t] = InFile =>
                     \E u \in DOMAIN entries'[i] :
                         CredentialFor(i, u) \in PrivateKeys /\ id_key'[i] = CredentialFor(i, u)
    <3>1. CASE i # j
      BY <2>3, <3>1 DEF EntriesAreWritten
    <3>2. CASE i = j /\ EntryFor(j, s) = InFile
      <4>1. s \in DOMAIN entries'[j] /\ id_key'[j] = CredentialFor(j, s)
        BY <2>2, <2>4, <3>2
      <4>2. entries'[j][t] = EntryFor(j, t)
        BY <2>2, <3>2 DEF EntriesAreWritten
      <4>. QED
        BY <2>7, <3>2, <4>1, <4>2
    <3>3. CASE i = j /\ EntryFor(j, s) # InFile
      <4>1. id_key'[j] = id_key[j] /\ DOMAIN entries[j] \subseteq DOMAIN entries'[j]
        BY <2>2, <2>4, <3>3
      <4>2. CASE t = s
        BY <2>2, <3>3, <4>2
      <4>3. CASE t # s
        <5>1. t \in DOMAIN entries[j] /\ entries'[j][t] = entries[j][t]
          BY <2>2, <3>3, <4>3
        <5>. QED
          BY <3>3, <4>1, <5>1 DEF EntriesAreWritten
      <4>. QED
        BY <4>2, <4>3
    <3>. QED
      BY <3>1, <3>2, <3>3
  <2>. HIDE DEF EntryFor, CredentialFor, TypeOK, Shape
  <2>. QED
    BY <2>5, <2>8 DEF EntriesAreWritten
<1>4. ASSUME NEW j \in Jobs, SaveRow(j) PROVE EntriesAreWritten'
  BY <1>4 DEF SaveRow
<1>5. ASSUME NEW j \in Jobs, AttachServers(j) PROVE EntriesAreWritten'
  BY <1>5 DEF AttachServers, Attach
<1>6. ASSUME NEW j \in Jobs, RecordAndPublish(j) PROVE EntriesAreWritten'
  BY <1>6 DEF RecordAndPublish
<1>7. ASSUME NEW j \in Jobs, Fetch(j) PROVE EntriesAreWritten'
  BY <1>7 DEF Fetch, FetchAs
<1>8. ASSUME NEW j \in Jobs, ReadServers(j) PROVE EntriesAreWritten'
  BY <1>8 DEF ReadServers
<1>9. ASSUME NEW j \in Jobs, StartRun(j) PROVE EntriesAreWritten'
  BY <1>9 DEF StartRun
<1>10. ASSUME NEW j \in Jobs, BuildFails(j) PROVE EntriesAreWritten'
  BY <1>10 DEF BuildFails
<1>11. ASSUME NEW j \in Jobs, Execute(j) PROVE EntriesAreWritten'
  BY <1>11 DEF Execute
<1>12. ASSUME NEW e \in Environments, NEW as \in Environment, EditEnvironment(e, as)
      PROVE  EntriesAreWritten'
  BY <1>12 DEF EditEnvironment, Edit
<1>13. ASSUME NEW s \in Servers, NEW as \in Server, EditServer(s, as)
      PROVE  EntriesAreWritten'
  BY <1>13 DEF EditServer, Edit
<1>14. ASSUME NEW s \in Servers, RemoveServer(s) PROVE EntriesAreWritten'
  BY <1>14 DEF RemoveServer, Edit
<1>15. ASSUME NEW c \in Credentials, DeleteCredential(c) PROVE EntriesAreWritten'
  BY <1>15 DEF DeleteCredential, DeleteAnd, Edit
<1>16. CASE UNCHANGED vars
  BY <1>16 DEF vars
<1>17. ASSUME NEW j \in Jobs, AttachRefused(j) PROVE EntriesAreWritten'
  BY <1>17 DEF AttachRefused
<1>. QED
  BY <1>1, <1>2, <1>3, <1>4, <1>5, <1>6, <1>7, <1>8,
     <1>9, <1>10, <1>11, <1>12, <1>13, <1>14, <1>15, <1>16, <1>17
     DEF Next, Step

LEMMA TypeStep == TypeOK /\ Shape /\ [Next]_vars => TypeOK' /\ Shape'
<1>1. TypeOK = (FleetOK /\ RowsOK /\ RunsOK)
  BY DEF TypeOK, FleetOK, RowsOK, RunsOK
<1>2. TypeOK' = (FleetOK' /\ RowsOK' /\ RunsOK')
  BY DEF TypeOK, FleetOK, RowsOK, RunsOK
<1>. QED
  BY <1>2, FleetStep, RowStep, RunStep, ShapeStep

LEMMA InitHolds ==
    Init => /\ TypeOK /\ Shape /\ LaunchesOnRecord /\ DryRunsAreCarried
            /\ AttachedWereAsked /\ ChoiceIsKept /\ EntriesAreWritten
<1> SUFFICES ASSUME Init
             PROVE  /\ TypeOK /\ Shape /\ LaunchesOnRecord /\ DryRunsAreCarried
                    /\ AttachedWereAsked /\ ChoiceIsKept /\ EntriesAreWritten
  OBVIOUS
<1>1. FleetOK
  BY NoneIsNothing, MaxEditsIsANumber DEF Init, FleetOK, Server
<1>2. RowsOK
  BY NoneIsNothing DEF Init, RowsOK, Phases, Form, Blank
<1>3. RunsOK /\ Shape /\ EntriesAreWritten
  BY DEF Init, RunsOK, Shape, EntriesAreWritten
<1>4. LaunchesOnRecord /\ AttachedWereAsked /\ ChoiceIsKept
  BY DEF Init, LaunchesOnRecord, Launched, AttachedWereAsked, ChoiceIsKept
<1>6. DryRunsAreCarried
  BY DEF Init, DryRunsAreCarried, Saved, Launched, Fetched, Blank
<1>5. TypeOK
  BY <1>1, <1>2, <1>3 DEF TypeOK, FleetOK, RowsOK, RunsOK
<1>. QED
  BY <1>3, <1>4, <1>5, <1>6

LEMMA WellFormed == Spec => [](TypeOK /\ Shape)
<1>1. Init => TypeOK /\ Shape
  BY InitHolds
<1>2. (TypeOK /\ Shape) /\ [Next]_vars => (TypeOK /\ Shape)'
  BY TypeStep
<1>. QED
  BY <1>1, <1>2, PTL DEF Spec

\* Every variable keeps its type, and no row of a server or of a job has a credential
\* that has been deleted.
THEOREM TypesAreCorrect == Spec => []TypeOK
  BY WellFormed, PTL

\* What was asked to be a dry run is run as one and nothing else is, whatever is edited or
\* deleted on the way; and which it is was on record before a worker heard of it.
THEOREM DryRunsArriveAsAsked == Spec => []DryRunsStayDry
<1>1. Init => LaunchesOnRecord /\ DryRunsAreCarried
  BY InitHolds
<1>2. TypeOK /\ LaunchesOnRecord /\ [Next]_vars => LaunchesOnRecord'
  BY EventStep
<1>3. TypeOK /\ DryRunsAreCarried /\ [Next]_vars => DryRunsAreCarried'
  BY DryStep
<1>4. LaunchesOnRecord /\ DryRunsAreCarried => DryRunsStayDry
  <2> SUFFICES ASSUME LaunchesOnRecord, DryRunsAreCarried, NEW j \in Jobs, Run(j)
               PROVE  /\ cmdline[j] <=> form[j].dry
                      /\ event[j] = (IF cmdline[j] \/ ~IsPlaybook(j) THEN "check"
                                     ELSE "execute")
    BY DEF DryRunsStayDry
  <2>1. event[j] = ActionOf(j)
    BY DEF LaunchesOnRecord, Launched, Run
  <2>2. cmdline[j] = form[j].dry
    BY DEF DryRunsAreCarried, Run
  <2>. QED
    BY <2>1, <2>2 DEF ActionOf, IsPlaybook
<1>. QED
  BY <1>1, <1>2, <1>3, <1>4, WellFormed, PTL DEF Spec

\* Every server that is contacted was asked for, or edited since.
THEOREM TargetsAreAsked == Spec => []TargetsWereAsked
<1>1. Init => AttachedWereAsked
  BY InitHolds
<1>2. TypeOK /\ AttachedWereAsked /\ [Next]_vars => AttachedWereAsked'
  BY TargetStep
<1>3. TypeOK /\ AttachedWereAsked => TargetsWereAsked
  BY DEF TypeOK, AttachedWereAsked, TargetsWereAsked
<1>. QED
  BY <1>1, <1>2, <1>3, WellFormed, PTL DEF Spec

\* No server is contacted with anything but the credential that was chosen, while it
\* exists.
THEOREM TheChoiceIsUsed == Spec => []ChosenCredentialIsUsed
<1>1. Init => ChoiceIsKept /\ EntriesAreWritten
  BY InitHolds
<1>2. TypeOK /\ ChoiceIsKept /\ [Next]_vars => ChoiceIsKept'
  BY ChoiceStep
<1>3. TypeOK /\ Shape /\ EntriesAreWritten /\ [Next]_vars => EntriesAreWritten'
  BY EntryStep
<1>4. ChoiceIsKept /\ EntriesAreWritten => ChosenCredentialIsUsed
  <2> SUFFICES ASSUME ChoiceIsKept, EntriesAreWritten, NEW j \in Jobs, Run(j),
                      NEW s \in DOMAIN entries[j],
                      form[j].credential # None, form[j].credential \in credentials
               PROVE  SecretFor(j, s) = form[j].credential
    BY DEF ChosenCredentialIsUsed
  <2>1. held[j] = form[j].credential
    BY DEF ChoiceIsKept, Run
  <2>2. \A t : CredentialFor(j, t) = form[j].credential
    BY <2>1 DEF CredentialFor
  <2>3. CASE entries[j][s] = InFile
    BY <2>2, <2>3 DEF EntriesAreWritten, SecretFor
  <2>4. CASE entries[j][s] # InFile
    BY <2>2, <2>4 DEF EntriesAreWritten, SecretFor, EntryFor
  <2>. QED
    BY <2>3, <2>4
<1>. QED
  BY <1>1, <1>2, <1>3, <1>4, WellFormed, PTL DEF Spec

\* No server is sent the secret of another while one private key is enough for all.
THEOREM SecretsAreNotMixedUp == Spec => []SecretsGoToTheirServers
<1>1. Init => EntriesAreWritten
  BY InitHolds
<1>2. TypeOK /\ Shape /\ EntriesAreWritten /\ [Next]_vars => EntriesAreWritten'
  BY EntryStep
<1>3. TypeOK /\ EntriesAreWritten => SecretsGoToTheirServers
  <2> SUFFICES ASSUME TypeOK, EntriesAreWritten, NEW j \in Jobs,
                      \A k, l \in KeysOf(j) : k = l, NEW s \in DOMAIN entries[j]
               PROVE  SecretFor(j, s) = CredentialFor(j, s)
    BY DEF SecretsGoToTheirServers
  <2>1. DOMAIN entries[j] \subseteq DOMAIN read[j]
    BY DEF TypeOK
  <2>2. \A t \in DOMAIN read[j] : CredentialFor(j, t) \in Credentials \cup {None}
    BY DEF TypeOK, CredentialFor
  <2>3. CASE entries[j][s] = InFile
    <3>1. CredentialFor(j, s) \in PrivateKeys
      BY <2>1, <2>2, <2>3, TheFileIsNoSecret DEF EntriesAreWritten, EntryFor, InFile
    <3>2. PICK t \in DOMAIN entries[j] :
             CredentialFor(j, t) \in PrivateKeys /\ id_key[j] = CredentialFor(j, t)
      BY <2>3 DEF EntriesAreWritten
    <3>3. CredentialFor(j, s) \in KeysOf(j) /\ CredentialFor(j, t) \in KeysOf(j)
      BY <2>1, <3>1, <3>2 DEF KeysOf
    <3>. QED
      BY <2>3, <3>2, <3>3 DEF SecretFor
  <2>4. CASE entries[j][s] # InFile
    BY <2>4 DEF EntriesAreWritten, SecretFor, EntryFor
  <2>. QED
    BY <2>3, <2>4
<1>. QED
  BY <1>1, <1>2, <1>3, WellFormed, PTL DEF Spec
=============================================================================
