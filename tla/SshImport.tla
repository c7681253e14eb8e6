------------------------------- MODULE SshImport -------------------------------
(***************************************************************************)
(* import_ssh_config: servers, clients, environments and groups made of    *)
(* what SshConfig reads from a file.                                       *)
(*                                                                         *)
(* An import is one transaction over all the hosts, and PostgreSQL's READ  *)
(* COMMITTED lets each of its statements see what others have committed by *)
(* then.  People and other imports go on meanwhile.  What an import has    *)
(* written is its own until it commits; who would write to the same row,   *)
(* or take the same name, waits for it.                                    *)
(*                                                                         *)
(* Of a server is kept what the import fills in when it is blank, and its  *)
(* status, which stands for all the columns the import has no business     *)
(* with.  Each run of the command is one element of Imports.               *)
(***************************************************************************)
EXTENDS SshConfig

CONSTANTS
    Environments, Groups,
    Status, Unknown,    \* of a server, and of one that was never tested
    Files,              \* files there may be to import
    Choices,            \* options there may be to import them with
    Imports,
    MaxEdits            \* bound on what people do meanwhile

Clients == Titles       \* a section's title is the name of a client
Records == Clients \cup Environments \cup Groups
Blank   == Unset

ASSUME RecordsAreApart ==
    /\ Clients \cap Environments = {} /\ Groups \cap (Clients \cup Environments) = {}
    /\ Blank \notin Records /\ Unknown \in Status
ASSUME FilesAreLines == Files \subseteq Seq(Line)
ASSUME MaxEditsIsANumber == MaxEdits \in Nat
ASSUME NothingIsNoImport == Unset \notin Imports

Row == [client : Clients \cup {Blank}, environment : Environments \cup {Blank},
        groups : SUBSET Groups, status : Status]

\* --client, --environment, --group, --no-section-clients, --update-existing, --dry-run
Options == [client : Clients \cup {Blank}, environment : Environments \cup {Blank},
            groups : SUBSET Groups, sections : BOOLEAN, update : BOOLEAN, dry : BOOLEAN]

ASSUME ChoicesAreOptions == Choices \subseteq Options

VARIABLES
    rows,      \* rows[h]    the committed row of server h, for those that exist
    records,   \* the committed clients, environments and groups
    pc,        \* pc[i]      where import i is
    file,      \* file[i]    the file it reads
    options,   \* options[i] its options
    todo,      \* todo[i]    the hosts it has yet to register
    loaded,    \* loaded[i]  the row of the first of them, as it was found
    own,       \* own[i]     rows it has inserted or updated, and not committed
    joins,     \* joins[i]   pairs of a server and a group it has added
    made,      \* made[i]    clients, environments and groups it has created
    stale,     \* history, stale[i]: servers others changed since the import began
    calm,      \* history: imports since whose beginning nothing else was committed
    last,      \* history: file and options of the last import, if it was calm and
               \* nothing has changed since
    repeats,   \* history: imports that began when last said the same as they do
    edits      \* what people did so far

vars == <<rows, records, pc, file, options, todo, loaded, own, joins, made, stale, calm,
          last, repeats, edits>>
importVars == <<pc, file, options, todo, loaded, own, joins, made>>

NoRows  == [h \in {} |-> 0]
Nothing == <<Unset>>
NoOptions == [client |-> Blank, environment |-> Blank, groups |-> {}, sections |-> TRUE,
              update |-> FALSE, dry |-> FALSE]
BlankRow == [client |-> Blank, environment |-> Blank, groups |-> {}, status |-> Unknown]

Has(table, h)  == h \in DOMAIN table
With(table, h, row) == [g \in DOMAIN table \cup {h} |-> IF g = h THEN row ELSE table[g]]
Refs(row) == ({row.client, row.environment} \ {Blank}) \cup row.groups

Init ==
    /\ rows    = NoRows
    /\ records = {}
    /\ pc      = [i \in Imports |-> "new"]
    /\ file    = [i \in Imports |-> <<>>]
    /\ options = [i \in Imports |-> NoOptions]
    /\ todo    = [i \in Imports |-> <<>>]
    /\ loaded  = [i \in Imports |-> BlankRow]
    /\ own     = [i \in Imports |-> NoRows]
    /\ joins   = [i \in Imports |-> {}]
    /\ made    = [i \in Imports |-> {}]
    /\ stale   = [i \in Imports |-> {}]
    /\ calm    = {}
    /\ last    = Nothing
    /\ repeats = {}
    /\ edits   = 0

----------------------------------------------------------------------------
(* An import *)

GoTo(i, step) == pc' = [pc EXCEPT ![i] = step]

Host(i) == Head(todo[i]).name

\* What import i sees: its own writes over what is committed.
Sees(i, h) == Has(own[i], h) \/ Has(rows, h)
Joined(i, h) ==
    (IF Has(rows, h) THEN rows[h].groups ELSE {}) \cup {g \in Groups : <<h, g>> \in joins[i]}
Seen(i, h) ==
    [(IF Has(own[i], h) THEN own[i][h] ELSE rows[h]) EXCEPT !.groups = Joined(i, h)]

\* groups.set or groups.add: the groups of the options the server is not in.
JoinGroups(i) ==
    joins' = [joins EXCEPT ![i] = @ \cup
                 {<<Host(i), g>> : g \in options[i].groups \ Joined(i, Host(i))}]

\* get_or_create: another import that is creating the same is waited for.
Makes(i, names) ==
    /\ \A j \in Imports \ {i} : made[j] \cap names = {}
    /\ made' = [made EXCEPT ![i] = @ \cup (names \ records)]

Start(i, f, opts) ==
    /\ pc[i] = "new" /\ Importable(Parse(f)) # <<>>
    /\ file'    = [file EXCEPT ![i] = f]
    /\ options' = [options EXCEPT ![i] = opts]
    /\ todo'    = [todo EXCEPT ![i] = Importable(Parse(f))]
    /\ Makes(i, Refs([opts EXCEPT !.client = Blank]))
    /\ calm'    = calm \cup {i}
    /\ repeats' = IF last = <<f, opts>> THEN repeats \cup {i} ELSE repeats
    /\ GoTo(i, "next")
    /\ UNCHANGED <<rows, records, loaded, own, joins, stale, last, edits>>

\* The client of a host: one for all, or the title of its section, or none.
ClientOf(opts, section) ==
    IF opts.client # Blank THEN opts.client
    ELSE IF opts.sections THEN section ELSE Blank

ClientFor(i) == ClientOf(options[i], Head(todo[i]).section)

\* Server.objects.filter(name=...).first()
LookUp(i) ==
    /\ pc[i] = "next" /\ todo[i] # <<>>
    /\ IF Sees(i, Host(i))
       THEN IF options[i].update
            THEN /\ loaded' = [loaded EXCEPT ![i] = Seen(i, Host(i))]
                 /\ GoTo(i, "fill")
                 /\ UNCHANGED todo
            ELSE /\ todo' = [todo EXCEPT ![i] = Tail(@)]
                 /\ UNCHANGED <<pc, loaded>>
       ELSE GoTo(i, "create") /\ UNCHANGED <<todo, loaded>>
    /\ UNCHANGED <<rows, records, file, options, own, joins, made, stale, calm,
                   last, repeats, edits>>

NextHost(i) ==
    /\ todo'   = [todo EXCEPT ![i] = Tail(@)]
    /\ loaded' = [loaded EXCEPT ![i] = BlankRow]
    /\ GoTo(i, "next")

\* The row is inserted, which waits for who is inserting the same name, and fails
\* when the name has been taken.
CreateAs(i, row) ==
    /\ pc[i] = "create"
    /\ ~Has(rows, Host(i)) /\ \A j \in Imports \ {i} : ~Has(own[j], Host(i))
    /\ Makes(i, {ClientFor(i)} \ {Blank})
    /\ own'   = [own EXCEPT ![i] = With(@, Host(i), row)]
    /\ JoinGroups(i)
    /\ NextHost(i)
    /\ UNCHANGED <<rows, records, file, options, stale, calm, last, repeats, edits>>

\* Mutant: the environment of the options is forgotten for new servers.
CreateBare(i) == CreateAs(i, [BlankRow EXCEPT !.client = ClientFor(i)])

Create(i) ==
    CreateAs(i, [BlankRow EXCEPT !.client = ClientFor(i), !.environment = options[i].environment])

\* Mutant: what the options say goes over what is there.
Overwritten(i) ==
    [loaded[i] EXCEPT !.client = IF ClientFor(i) # Blank THEN ClientFor(i) ELSE @,
                      !.environment = IF options[i].environment # Blank
                                      THEN options[i].environment ELSE @]

Filled(i) ==
    [loaded[i] EXCEPT !.client = IF @ = Blank THEN ClientFor(i) ELSE @,
                      !.environment = IF @ = Blank THEN options[i].environment ELSE @]

\* _backfill: the whole row is saved when something was filled in, and inserted when
\* it is gone; then the groups that are missing are added.
Fill(i) ==
    /\ pc[i] = "fill"
    /\ IF Filled(i) # loaded[i]
       THEN /\ \A j \in Imports \ {i} : ~Has(own[j], Host(i))
            /\ Makes(i, IF loaded[i].client = Blank THEN {ClientFor(i)} \ {Blank} ELSE {})
            /\ own' = [own EXCEPT ![i] = With(@, Host(i), Filled(i))]
       ELSE UNCHANGED <<own, made>>
    /\ JoinGroups(i)
    /\ NextHost(i)
    /\ UNCHANGED <<rows, records, file, options, stale, calm, last, repeats, edits>>

\* Mutant: what was written stays.
EndDirty(i) ==
    /\ GoTo(i, "over")
    /\ file'    = [file EXCEPT ![i] = <<>>]
    /\ options' = [options EXCEPT ![i] = NoOptions]
    /\ todo'    = [todo EXCEPT ![i] = <<>>]
    /\ loaded'  = [loaded EXCEPT ![i] = BlankRow]
    /\ UNCHANGED <<own, joins, made>>

End(i) ==
    /\ GoTo(i, "over")
    /\ file'    = [file EXCEPT ![i] = <<>>]
    /\ options' = [options EXCEPT ![i] = NoOptions]
    /\ todo'    = [todo EXCEPT ![i] = <<>>]
    /\ loaded'  = [loaded EXCEPT ![i] = BlankRow]
    /\ own'     = [own EXCEPT ![i] = NoRows]
    /\ joins'   = [joins EXCEPT ![i] = {}]
    /\ made'    = [made EXCEPT ![i] = {}]

\* The tables with what import i has written.
Merged(i) ==
    [h \in DOMAIN rows \cup DOMAIN own[i] |-> Seen(i, h)]

\* Mutant: nothing is checked.
KeysUnchecked(i) == pc[i] = "next"

\* Foreign keys are checked at the end, those of the rows of groups included.
KeysResolve(i) ==
    /\ \A p \in joins[i] : Has(Merged(i), p[1]) /\ p[2] \in records \cup made[i]
    /\ \A h \in DOMAIN own[i] : Refs(own[i][h]) \ Groups \subseteq records \cup made[i]

\* The others that are under way find servers changed.
Outdates(i, changed) ==
    stale' = [j \in Imports |->
                 IF j = i THEN {}
                 ELSE IF pc[j] \in {"new", "over"} THEN stale[j] ELSE stale[j] \cup changed]

Commit(i) ==
    /\ pc[i] = "next" /\ todo[i] = <<>> /\ ~options[i].dry
    /\ KeysResolve(i)
    /\ rows'    = Merged(i)
    /\ records' = records \cup made[i]
    /\ last'    = IF i \in calm THEN <<file[i], options[i]>> ELSE Nothing
    /\ calm'    = {}
    /\ repeats' = {}
    /\ Outdates(i, DOMAIN own[i] \cup {p[1] : p \in joins[i]})
    /\ End(i)
    /\ UNCHANGED edits

\* --dry-run, or an error: a server or a client registered since under the same name,
\* two clients with the same slug, something deleted that the import refers to.
Rollback(i) ==
    /\ pc[i] \notin {"new", "over"}
    /\ stale'   = [stale EXCEPT ![i] = {}]
    /\ calm'    = calm \ {i}
    /\ repeats' = repeats \ {i}
    /\ End(i)
    /\ UNCHANGED <<rows, records, last, edits>>

----------------------------------------------------------------------------
(* What people and tasks do meanwhile *)

Free(h)  == \A i \in Imports : ~Has(own[i], h)

Meanwhile(changed) ==
    /\ edits < MaxEdits
    /\ edits'   = edits + 1
    /\ last'    = Nothing
    /\ calm'    = {}
    /\ repeats' = {}
    /\ Outdates(Unset, changed)
    /\ UNCHANGED importVars

\* A server is registered, edited or tested.
Put(h, row) ==
    /\ Free(h)
    /\ Refs(row) \subseteq records
    /\ rows' = With(rows, h, row)
    /\ Meanwhile({h})
    /\ UNCHANGED records

RemoveServer(h) ==
    /\ Has(rows, h) /\ Free(h)
    /\ rows' = [g \in DOMAIN rows \ {h} |-> rows[g]]
    /\ Meanwhile({h})
    /\ UNCHANGED records

AddRecord(x) ==
    /\ x \notin records /\ \A i \in Imports : x \notin made[i]
    /\ records' = records \cup {x}
    /\ Meanwhile({})
    /\ UNCHANGED rows

\* PROTECT for clients and environments; a group leaves the servers that are in it.
RemoveRecord(x) ==
    /\ x \in records
    /\ x \notin Groups => \A h \in DOMAIN rows : x \notin Refs(rows[h])
    /\ records' = records \ {x}
    /\ rows'    = [h \in DOMAIN rows |-> [rows[h] EXCEPT !.groups = @ \ {x}]]
    /\ Meanwhile({h \in DOMAIN rows : x \in Refs(rows[h])})

----------------------------------------------------------------------------

Importing(i) ==
    \/ \E f \in Files, opts \in Choices : Start(i, f, opts)
    \/ LookUp(i) \/ Create(i) \/ Fill(i)
    \/ Commit(i) \/ Rollback(i)

Next ==
    \/ \E i \in Imports : Importing(i)
    \/ \E h \in Hosts, row \in Row : Put(h, row)
    \/ \E h \in Hosts : RemoveServer(h)
    \/ \E x \in Records : AddRecord(x) \/ RemoveRecord(x)

Spec == Init /\ [][Next]_vars

----------------------------------------------------------------------------
(* Properties *)

\* Types; and an import has a row in hand while it fills it, and something written,
\* or hosts to register, only while it is under way.
TypeOK ==
    /\ DOMAIN rows \subseteq Hosts /\ \A h \in DOMAIN rows : rows[h] \in Row
    /\ records \subseteq Records
    /\ pc      \in [Imports -> {"new", "next", "create", "fill", "over"}]
    /\ options \in [Imports -> Options]
    /\ loaded  \in [Imports -> Row]
    /\ joins   \in [Imports -> SUBSET (Hosts \X Groups)]
    /\ made    \in [Imports -> SUBSET Records]
    /\ stale   \in [Imports -> SUBSET Hosts]
    /\ repeats \subseteq calm /\ calm \subseteq Imports
    /\ edits   \in 0 .. MaxEdits
    /\ \A i \in Imports :
          /\ file[i] \in Files \cup {<<>>}
          /\ DOMAIN own[i] \subseteq Hosts /\ \A h \in DOMAIN own[i] : own[i][h] \in Row
          /\ pc[i] \in {"create", "fill"} => todo[i] # <<>>
          /\ pc[i] # "fill" => loaded[i] = BlankRow
          /\ pc[i] \in {"new", "over"} =>
                /\ todo[i] = <<>> /\ own[i] = NoRows
                /\ joins[i] = {} /\ made[i] = {}

\* Whatever is deleted while an import is about to refer to it, no server refers to a
\* client, an environment or a group that is not there.
ReferencesResolve == \A h \in DOMAIN rows : Refs(rows[h]) \subseteq records

\* _backfill: "Only ever fills a blank".  An import leaves what is set on a server, and
\* every column it has no business with, as it was, unless the server was changed
\* after the import began.
FillsOnlyBlanks ==
    [][\A i \in Imports : Commit(i) =>
          \A h \in DOMAIN rows \ stale[i] :
              /\ Has(rows', h)
              /\ rows'[h].status = rows[h].status
              /\ Refs(rows[h]) \subseteq Refs(rows'[h])]_vars

FileBlocks(i)  == Importable(Parse(file[i]))
BlocksOf(i, h) == {n \in DOMAIN FileBlocks(i) : FileBlocks(i)[n].name = h}

\* The client that some blocks about a server, those numbered N, give it: that of the
\* first, or with --update-existing of the first that has one.
ClientGiven(opts, blocks, N) ==
    LET Given(n) == ClientOf(opts, blocks[n].section)
        telling  == IF opts.update THEN {n \in N : Given(n) # Blank} ELSE N
    IN  IF telling = {} THEN Blank ELSE Given(FirstOf(telling))

\* What they and the options make of its row.
Assigned(row, opts, blocks, N) ==
    [row EXCEPT !.client      = IF @ = Blank THEN ClientGiven(opts, blocks, N) ELSE @,
                !.environment = IF @ = Blank THEN opts.environment ELSE @,
                !.groups      = @ \cup opts.groups]

Expected(i, h, N) ==
    LET known == Has(rows, h)
        was   == IF known THEN rows[h] ELSE BlankRow
    IN  IF N = {} \/ (known /\ ~options[i].update) THEN was
        ELSE Assigned(was, options[i], FileBlocks(i), N)

\* Of the servers nobody else changed since the import began: after it those of the file
\* are there besides those that were, and each is as it was, but that a new one, or with
\* --update-existing any one of the file, has the client and the environment it is
\* assigned, where it had none, and the groups.
HostsAreRegistered ==
    [][\A i \in Imports : Commit(i) =>
          \A h \in Hosts \ stale[i] :
              /\ Has(rows', h) <=> Has(rows, h) \/ BlocksOf(i, h) # {}
              /\ Has(rows', h) => rows'[h] = Expected(i, h, BlocksOf(i, h))]_vars

\* "Idempotent": what was just imported is imported again without a change.
RepeatChangesNothing ==
    [][\A i \in repeats : Commit(i) => UNCHANGED <<rows, records>>]_vars
=============================================================================
