------------------------------- MODULE Workspace -------------------------------
(***************************************************************************)
(* The Ansible workspace under the file explorer: a tree on disk, and the  *)
(* requests that edit, create, rename and delete in it.                    *)
(*                                                                         *)
(* Every request does the same: resolve its path, which makes the folders  *)
(* every workspace has; look at the tree and refuse, or go on; make the    *)
(* parents the path implies; change the tree; record the event.  Nothing   *)
(* locks the tree, so other requests act between any two of these steps,   *)
(* and a request may end at any of them: the process dies, the disk        *)
(* refuses the call, or the database the event.                            *)
(*                                                                         *)
(* A request that refuses changes nothing more and is no step.  A request  *)
(* resolves several paths, several times: of resolutions with nothing but  *)
(* looks in between only the last is a step of its own, since any other    *)
(* request, one that only lists a folder too, does what the others do.     *)
(* The contents of a file are what the editor's checks tell apart; the     *)
(* normal form of line ends the editor writes does not change that.  What  *)
(* is open stays open when it is renamed or deleted.                       *)
(***************************************************************************)
EXTENDS SequencesExt

CONSTANTS
    Paths,       \* bound: the paths there may be, as sequences of names
    Layout,      \* LAYOUT, the folders a workspace always has
    Playbooks,   \* PLAYBOOK_DIR
    YamlNames,   \* names that end in .yml or .yaml
    TextNames,   \* names whose suffix is in EDITABLE_SUFFIXES
    Contents,    \* what may be in a file
    Parses,      \* contents that are YAML
    Plays,       \* contents that are a list of plays
    Empty,       \* nothing
    Requests,    \* requests, each served once by some web process
    NoPath

ASSUME PathsHaveParents ==
    \A p \in Paths : p # <<>> /\ \A n \in 1 .. Len(p) : SubSeq(p, 1, n) \in Paths
ASSUME PathsAreNames    == Paths \subseteq Seq(UNION {Range(p) : p \in Paths})
ASSUME LayoutIsFolders  ==
    /\ Playbooks \in Layout /\ Layout \subseteq Paths /\ NoPath \notin Paths
    /\ \A p \in Layout : Len(p) = 1 /\ Last(p) \notin TextNames
ASSUME ContentsAreKinds == Plays \subseteq Parses /\ Parses \subseteq Contents
ASSUME EmptyIsContent   == Empty \in Contents \ Plays /\ "dir" \notin Contents

VARIABLES
    tree,      \* tree[p]    what is at p: "dir" or the contents of a file
    pc,        \* pc[r]      where request r is
    op,        \* op[r]      what it does
    target,    \* target[r]  the path it is about
    dest,      \* dest[r]    the path it renames to
    body,      \* body[r]    the contents it writes, or what it found where it deletes
    fd,        \* fd[r]      where the file or folder it has open is by now
    crossed,   \* crossed[r] another request changed the tree since r looked
    did,       \* history, did[r]: what came of the request
    excused,   \* history: paths of files that got there past the check of their contents
    raced      \* history: folders of the layout that were gone when a rename looked, which
               \* had just seen to it that they are there

vars == <<tree, pc, op, target, dest, body, fd, crossed, did, excused, raced>>

----------------------------------------------------------------------------
(* Paths and what is at them *)

There     == DOMAIN tree
IsDir(p)  == p \in There /\ tree[p] = "dir"
IsFile(p) == p \in There /\ tree[p] # "dir"

Above(p)     == {q \in Paths : IsStrictPrefix(q, p)}
Within(p, q) == IsPrefix(p, q)
Moved(p, q, x) == q \o SubSeq(x, Len(p) + 1, Len(x))
InDir(p)     == Above(p) \subseteq {q \in There : tree[q] = "dir"}
HasChild(p)  == \E q \in There : p \in Above(q)

IsYaml(p)     == Last(p) \in YamlNames
IsEditable(p) == Last(p) \in TextNames
IsPlaybook(p) == IsYaml(p) /\ Within(Playbooks, p)

\* The ways to write one path: resolve takes off spaces, and realpath a final "/.".
Spellings == {"plain", "odd start", "odd end"}

\* FileForm.clean_content: validate, validate_yaml, or nothing at all.  It tells a
\* playbook by how the path begins and ends in the request.
Accepts(p, spelling, content) ==
    /\ IsYaml(p) /\ spelling # "odd end" => content \in Parses
    /\ IsPlaybook(p) /\ spelling = "plain" => content \in Plays

\* ensure_layout: the folders that are missing are made, and a file in the place of one
\* is an error.
LayoutHolds == \A p \in Layout : ~IsFile(p)
RestoredNever == tree   \* mutant: the layout is made once, when the platform is set up
Restored    == [p \in There \cup Layout |-> IF p \in There THEN tree[p] ELSE "dir"]

\* The tree as earlier requests, Git or a shell left it: any tree there may be.
Trees ==
    UNION {{t \in [There0 -> Contents \cup {"dir"}] :
                \A p \in There0 : \A q \in Above(p) : q \in There0 /\ t[q] = "dir"} :
           There0 \in SUBSET Paths}

Init ==
    /\ tree \in {t \in Trees : \A p \in Layout : p \in DOMAIN t /\ t[p] = "dir"}
    /\ excused = {p \in There : IsPlaybook(p) /\ IsFile(p) /\ tree[p] \notin Plays}
    /\ pc      = [r \in Requests |-> "new"]
    /\ op      = [r \in Requests |-> "edit"]
    /\ target  = [r \in Requests |-> NoPath]
    /\ dest    = [r \in Requests |-> NoPath]
    /\ body    = [r \in Requests |-> Empty]
    /\ fd      = [r \in Requests |-> NoPath]
    /\ did     = [r \in Requests |-> {}]
    /\ crossed = [r \in Requests |-> FALSE]
    /\ raced   = {}

GoTo(r, step) == pc' = [pc EXCEPT ![r] = step]
Did(r, what)  == did' = [did EXCEPT ![r] = @ \cup what]

\* The others that are under way find the tree changed under them.
Crosses(r) ==
    crossed' = [q \in Requests |-> (q # r /\ pc[q] \notin {"new", "over"}) \/ crossed[q]]

\* Where the request is about to put something.
Place(r) == IF op[r] = "rename" THEN dest[r] ELSE target[r]

\* The response, or the error page.
Done(r) ==
    /\ pc'     = [pc EXCEPT ![r] = "over"]
    /\ op'     = [op EXCEPT ![r] = "edit"]
    /\ target' = [target EXCEPT ![r] = NoPath]
    /\ dest'   = [dest EXCEPT ![r] = NoPath]
    /\ body'   = [body EXCEPT ![r] = Empty]
    /\ fd'     = [fd EXCEPT ![r] = NoPath]

----------------------------------------------------------------------------
(* Looking: the form, and what the view finds at the path *)

\* resolve: before the request looks, and in write_file and create_dir once more.
Resolve(r) ==
    /\ pc[r] \in {"new", "found"}
    /\ LayoutHolds
    /\ tree' = Restored
    /\ IF Layout \subseteq There THEN UNCHANGED crossed ELSE Crosses(r)
    /\ GoTo(r, IF pc[r] = "new" THEN "resolved" ELSE "looked")
    /\ UNCHANGED <<op, target, dest, body, fd, did, excused, raced>>

Look(r, operation, p, q, content) ==
    /\ pc[r] = "resolved"
    /\ op'      = [op EXCEPT ![r] = operation]
    /\ target'  = [target EXCEPT ![r] = p]
    /\ dest'    = [dest EXCEPT ![r] = q]
    /\ body'    = [body EXCEPT ![r] = content]
    /\ crossed' = [crossed EXCEPT ![r] = FALSE]
    /\ raced'   = IF crossed[r] THEN raced \cup (Layout \cap {q}) ELSE raced
    /\ UNCHANGED <<tree, excused>>

\* The check of the contents is of the path as the request spells it.
LookAt(r, operation, p, spelling, content) ==
    /\ Look(r, operation, p, NoPath, content)
    /\ Did(r, IF spelling = "plain" \/ Accepts(p, "plain", content) THEN {} ELSE {"odd"})
    /\ GoTo(r, "found") /\ UNCHANGED fd

Edit(r, p, spelling, content) ==
    /\ IsFile(p) /\ IsEditable(p)
    /\ Accepts(p, spelling, content)
    /\ LookAt(r, "edit", p, spelling, content)

\* Mutant: any content is taken for a new file.
CreateUnchecked(r, p, spelling, content) ==
    /\ p \notin There /\ IsEditable(p)
    /\ LookAt(r, "create", p, spelling, content)

Create(r, p, spelling, content) ==
    CreateUnchecked(r, p, spelling, content) /\ Accepts(p, spelling, content)

CreateFolder(r, p) ==
    /\ p \notin There
    /\ Look(r, "folder", p, NoPath, Empty)
    /\ GoTo(r, "found") /\ UNCHANGED <<fd, did>>

\* Mutant: rename does not look at what is in the way.
RenameOver(r, p, q) ==
    /\ p \in There /\ p # q
    /\ Look(r, "rename", p, q, Empty)
    /\ GoTo(r, "looked") /\ UNCHANGED <<fd, did>>

Rename(r, p, q) == RenameOver(r, p, q) /\ q \notin There

\* The view counts what it is about to delete; the form is only a confirmation.
Delete(r, p) ==
    /\ p \in There
    /\ Look(r, "delete", p, NoPath, tree[p])
    /\ fd' = [fd EXCEPT ![r] = IF IsDir(p) THEN p ELSE NoPath]
    /\ GoTo(r, "removing") /\ UNCHANGED did

----------------------------------------------------------------------------
(* Changing the tree *)

\* What write_file and create_dir look at once more.
InTheWay(r) ==
    \/ op[r] \in {"edit", "create"} /\ IsDir(target[r])
    \/ op[r] = "folder" /\ target[r] \in There

\* parent.mkdir(parents=True, exist_ok=True)
MakeParents(r) ==
    /\ pc[r] = "looked" /\ ~InTheWay(r)
    /\ \A p \in Above(Place(r)) : ~IsFile(p)
    /\ IF Above(Place(r)) \subseteq There
       THEN UNCHANGED <<tree, did, crossed>>
       ELSE /\ tree' = [p \in There \cup Above(Place(r)) |->
                            IF p \in There THEN tree[p] ELSE "dir"]
            /\ Did(r, {"wrote"})
            /\ Crosses(r)
    /\ GoTo(r, "ready")
    /\ UNCHANGED <<op, target, dest, body, fd, excused, raced>>

\* write_text: the file is opened, which empties it,
Open(r) ==
    /\ pc[r] = "ready" /\ op[r] \in {"edit", "create"}
    /\ InDir(target[r]) /\ ~IsDir(target[r])
    /\ tree' = [p \in There \cup {target[r]} |-> IF p = target[r] THEN Empty ELSE tree[p]]
    /\ fd'   = [fd EXCEPT ![r] = target[r]]
    /\ Did(r, {"wrote"} \cup IF op[r] = "create" /\ IsFile(target[r]) THEN {"replaced"} ELSE {})
    /\ Crosses(r)
    /\ GoTo(r, "opened")
    /\ UNCHANGED <<op, target, dest, body, excused, raced>>

\* and what it holds is written from its beginning.  What another request has put
\* there since shows behind the end of what is shorter: anything may come of it.
Write(r, content) ==
    /\ pc[r] = "opened"
    /\ IF fd[r] = NoPath
       THEN UNCHANGED <<tree, excused, crossed>>
       ELSE /\ tree[fd[r]] = Empty => content = body[r]
            /\ tree' = [tree EXCEPT ![fd[r]] = content]
            /\ excused' = IF tree[fd[r]] # Empty \/ "odd" \in did[r] THEN excused \cup {fd[r]}
                          ELSE IF fd[r] = target[r] THEN excused \ {fd[r]} ELSE excused
            /\ Crosses(r)
    /\ GoTo(r, "changed")
    /\ UNCHANGED <<op, target, dest, body, fd, did, raced>>

\* mkdir: whatever is there by now is an error.
MakeFolder(r) ==
    /\ pc[r] = "ready" /\ op[r] = "folder"
    /\ InDir(target[r]) /\ target[r] \notin There
    /\ tree' = [p \in There \cup {target[r]} |-> IF p = target[r] THEN "dir" ELSE tree[p]]
    /\ Did(r, {"wrote"})
    /\ Crosses(r)
    /\ GoTo(r, "changed")
    /\ UNCHANGED <<op, target, dest, body, fd, excused, raced>>

\* What rename(2) replaces: a file by a file, an empty folder by a folder.
Gives(p, q) ==
    q \in There => /\ IsDir(p) <=> IsDir(q)
                   /\ ~HasChild(q)

\* Everything within p is found within q, and what is open stays open.
Move(r) ==
    LET p == target[r]
        q == dest[r]
        Kept == {x \in There : ~Within(p, x) /\ ~Within(q, x)}
        Arrived == {x \in Paths : Within(q, x) /\ Moved(q, p, x) \in There}
        From(x) == IF x \in Arrived THEN Moved(q, p, x) ELSE x
    IN  /\ pc[r] = "ready" /\ op[r] = "rename"
        /\ p \in There /\ InDir(q) /\ ~Within(p, q) /\ Gives(p, q)
        /\ \A x \in There : Within(p, x) => Moved(p, q, x) \in Paths
        /\ tree'    = [x \in Kept \cup Arrived |-> tree[From(x)]]
        /\ fd'      = [s \in Requests |->
                          IF fd[s] = NoPath THEN NoPath
                          ELSE IF Within(p, fd[s]) THEN Moved(p, q, fd[s])
                          ELSE IF fd[s] = q THEN NoPath ELSE fd[s]]
        /\ excused' = {x \in Kept \cup Arrived :
                          From(x) \in excused \/ (IsPlaybook(x) /\ ~IsPlaybook(From(x)))}
        /\ Did(r, {"wrote"} \cup IF IsFile(q) THEN {"replaced"} ELSE {})
        /\ Crosses(r)
        /\ GoTo(r, "changed")
        /\ UNCHANGED <<op, target, dest, body, raced>>

\* Nothing is left in the folder, wherever it is by now.
Emptied(r) == fd[r] = NoPath \/ ~HasChild(fd[r])

\* unlink, or a step of rmtree: what is in the folder goes one by one, wherever the
\* folder is by now; what is at the path itself goes last.
UnlinkAny(r, p) ==
    /\ pc[r] = "removing" /\ p \in There
    /\ \/ fd[r] # NoPath /\ fd[r] \in Above(p)
       \/ p = target[r] /\ Emptied(r) /\ (IsDir(p) <=> body[r] = "dir")
    /\ tree' = [x \in There \ {p} |-> tree[x]]
    /\ fd'   = [s \in Requests |-> IF fd[s] = p THEN NoPath ELSE fd[s]]
    /\ Did(r, {"wrote"})
    /\ Crosses(r)
    /\ GoTo(r, IF p = target[r] THEN "changed" ELSE "removing")
    /\ UNCHANGED <<op, target, dest, body, excused, raced>>

Unlink(r, p) == UnlinkAny(r, p) /\ ~HasChild(p)

----------------------------------------------------------------------------

RecordThis(r, event) ==
    /\ pc[r] = "changed"
    /\ Did(r, event)
    /\ Done(r)
    /\ UNCHANGED <<tree, crossed, excused, raced>>

\* Mutant: a folder is no file, and its removal is not recorded.
RecordFiles(r) == RecordThis(r, IF body[r] = "dir" THEN {} ELSE {"recorded"})

\* _audit comes last.
Record(r) == RecordThis(r, {"recorded"})

\* The path is longer than resource_id, or the client's X-Request-ID than request_id:
\* the insert raises.  Any path can be written that long, with more slashes.
RecordRefused(r) == RecordThis(r, {"refused"})

\* What the next call may find that it cannot do.  A removal may also meet what came
\* into the folder, or miss what left it, after it was listed.
Fails(r) ==
    LET p == Place(r) IN
    CASE pc[r] = "found"    -> ~LayoutHolds
      [] pc[r] = "looked"   -> InTheWay(r) \/ \E q \in Above(p) : IsFile(q)
      [] pc[r] = "ready"    ->
            \/ ~InDir(p)
            \/ op[r] \in {"edit", "create"} /\ IsDir(p)
            \/ op[r] = "folder" /\ p \in There
            \/ op[r] = "rename" /\ \/ target[r] \notin There
                                   \/ Within(target[r], p)
                                   \/ ~Gives(target[r], p)
      [] pc[r] = "removing" -> crossed[r]
      [] OTHER              -> FALSE

\* The exception is not caught: what was done stays done, and nothing is recorded.
Raises(r) ==
    /\ Fails(r)
    /\ Did(r, IF op[r] = "rename" /\ Within(target[r], dest[r]) THEN {"inside"} ELSE {})
    /\ Done(r)
    /\ UNCHANGED <<tree, crossed, excused, raced>>

\* What was being written is left empty.
Dies(r) ==
    /\ pc[r] \notin {"new", "over"}
    /\ Did(r, {"died"})
    /\ excused' = IF pc[r] = "opened" THEN excused \cup ({fd[r]} \ {NoPath}) ELSE excused
    /\ Done(r)
    /\ UNCHANGED <<tree, crossed, raced>>

Looking(r) ==
    \/ Resolve(r)
    \/ \E p \in Paths, spelling \in Spellings, content \in Contents :
           Edit(r, p, spelling, content) \/ Create(r, p, spelling, content)
    \/ \E p \in Paths : CreateFolder(r, p) \/ Delete(r, p)
    \/ \E p, q \in Paths : Rename(r, p, q)

Changing(r) ==
    \/ MakeParents(r) \/ Open(r) \/ MakeFolder(r) \/ Move(r)
    \/ \E content \in Contents : Write(r, content)
    \/ \E p \in Paths : Unlink(r, p)

Ending(r) == Record(r) \/ RecordRefused(r) \/ Raises(r) \/ Dies(r)

Next == \E r \in Requests : Looking(r) \/ Changing(r) \/ Ending(r)

Spec == Init /\ [][Next]_vars

----------------------------------------------------------------------------
(* Properties *)

Step == {"new", "resolved", "found", "looked", "ready", "opened", "removing", "changed", "over"}
Outcome == {"odd", "wrote", "recorded", "refused", "replaced", "inside", "died"}

Types ==
    /\ There \subseteq Paths
    /\ tree \in [There -> Contents \cup {"dir"}]
    /\ pc      \in [Requests -> Step]
    /\ op      \in [Requests -> {"edit", "create", "folder", "rename", "delete"}]
    /\ target  \in [Requests -> Paths \cup {NoPath}]
    /\ dest    \in [Requests -> Paths \cup {NoPath}]
    /\ body    \in [Requests -> Contents \cup {"dir"}]
    /\ fd      \in [Requests -> Paths \cup {NoPath}]
    /\ did     \in [Requests -> SUBSET Outcome]
    /\ crossed \in [Requests -> BOOLEAN]
    /\ excused \subseteq Paths /\ raced \subseteq Layout

\* The types, and what a file system promises: whatever is there is in a folder.
TypeOK == Types /\ \A p \in There : InDir(p)

BeingWritten(p) == \E r \in Requests : pc[r] = "opened" /\ fd[r] = p

\* edit: "YAML is validated before anything is written."  Every file a run can pick
\* as a playbook is a list of plays, unless it was renamed from where less is asked
\* of a file, its save was cut short, two saves of it overlapped, or the request that
\* saved it wrote its path with something before or behind that resolve takes off,
\* so that the form did not take it for a playbook.
PlaybooksAreValid ==
    \A p \in There : IsPlaybook(p) /\ IsFile(p) =>
        tree[p] \in Plays \/ p \in excused \/ BeingWritten(p)

\* clean_name and rename refuse a path that exists: creating and renaming replace a
\* file only when another request changed the tree after they looked.
NothingIsReplaced == \A r \in Requests : "replaced" \in did[r] => crossed[r]

\* "Anything that changes disk is recorded in the audit trail", once its request is
\* over, but for a request that died, one whose event the database refused, one that
\* another got in the way of, and a rename into the folder itself, which fails after
\* making the parents.
ChangesAreRecorded ==
    \A r \in Requests : pc[r] = "over" /\ "wrote" \in did[r] =>
        did[r] \cap {"recorded", "refused", "died", "inside"} # {} \/ crossed[r]

\* ensure_layout: "safe to call on every request".  A folder of the layout may be renamed
\* or deleted, but no file takes its place, which would make every later request fail,
\* unless another request took the folder away between the resolve of a rename to its
\* path, which made it, and the look.
LayoutStays == \A p \in Layout : IsFile(p) => p \in raced
=============================================================================
