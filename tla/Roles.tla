--------------------------------- MODULE Roles ---------------------------------
(***************************************************************************)
(* Roles, their assignment to users, and the two flags of a user that are  *)
(* derived from them: is_staff opens Django Admin, and is_superuser is     *)
(* trusted before any backend is asked for a permission.                   *)
(*                                                                         *)
(* An operator grants, moves and revokes roles in Django Admin, and        *)
(* seed_users grants them when a deployment is set up.  Each is one        *)
(* transaction: the assignment changes, and a signal reads the roles of    *)
(* the user the assignment names by then, twice, and writes the flags when *)
(* they differ from those of the user it has loaded.                       *)
(* PostgreSQL's READ COMMITTED lets every statement see what others have   *)
(* committed by then, and nothing they have not.  Roles are edited without *)
(* any of this.                                                            *)
(***************************************************************************)
EXTENDS Naturals, FiniteSets

CONSTANTS
    Users, AllRoles,
    SystemGrants,   \* SYSTEM_ROLES: what each role with is_system grants
    Transactions,   \* changes of assignments and users, each made once
    MaxEdits,       \* bound on changes of roles and flags by hand
    Nobody

Flags == {"admin", "superuser"}     \* is_staff and is_superuser; what a role may grant of them

SystemRoles == DOMAIN SystemGrants

ASSUME NobodyIsNoUser == Nobody \notin Users \cup Transactions
ASSUME SystemRolesAreRoles ==
    SystemRoles \subseteq AllRoles /\ \A x \in SystemRoles : SystemGrants[x] \subseteq Flags
ASSUME MaxEditsIsANumber == MaxEdits \in Nat

VARIABLES
    roles,      \* the roles that exist
    grants,     \* grants[x]   the flags role x grants
    assigned,   \* UserRole, pairs of a user and a role
    flags,      \* flags[u]    is_staff and is_superuser
    pc,         \* pc[t]       where transaction t is
    op,         \* op[t]       "grant", "move", "revoke", "drop" or "password"
    pairs,      \* pairs[t]    the assignments it makes
    gone,       \* gone[t]     the rows it has in hand to remove or rewrite, as they are by now
    dropped,    \* dropped[t]  the roles it deletes
    todo,       \* todo[t]     users whose flags it has yet to derive
    user,       \* user[t]     the user it has loaded
    seen,       \* seen[t]     that user's flags when it was loaded
    found,      \* found[t]    what it has found the user's roles to grant
    written,    \* written[t]  flags it has written and not committed, by user
    overtaken,  \* history, overtaken[t]: others committed since it loaded or read, or
                \*             have changed a row it has in hand
    drifted,    \* history: users whose flags were left behind
    edits       \* how often roles and flags were changed by hand

tableVars == <<roles, grants, assigned, flags>>
localVars == <<pc, op, pairs, gone, dropped, todo, user, seen, found, written>>
vars == <<tableVars, localVars, overtaken, drifted, edits>>

None == [u \in {} |-> {}]

\* roles_for, and what those roles grant together.
RolesOf(u, table)  == {x \in AllRoles : <<u, x>> \in table}
Granted(u, table, g) == UNION {g[x] : x \in RolesOf(u, table)}
Derived(u)         == Granted(u, assigned, grants)

Init ==
    /\ roles = AllRoles
    /\ grants \in {g \in [AllRoles -> SUBSET Flags] :
                      \A x \in SystemRoles : g[x] = SystemGrants[x]}
    /\ assigned \in SUBSET (Users \X AllRoles)
    /\ flags     = [u \in Users |-> Derived(u)]
    /\ pc        = [t \in Transactions |-> "new"]
    /\ op        = [t \in Transactions |-> "grant"]
    /\ pairs     = [t \in Transactions |-> {}]
    /\ gone      = [t \in Transactions |-> {}]
    /\ dropped   = [t \in Transactions |-> {}]
    /\ todo      = [t \in Transactions |-> {}]
    /\ user      = [t \in Transactions |-> Nobody]
    /\ seen      = [t \in Transactions |-> {}]
    /\ found     = [t \in Transactions |-> {}]
    /\ written   = [t \in Transactions |-> None]
    /\ overtaken = [t \in Transactions |-> FALSE]
    /\ drifted   = {}
    /\ edits     = 0

----------------------------------------------------------------------------
(* One transaction *)

GoTo(t, step) == pc' = [pc EXCEPT ![t] = step]

\* What it had in hand is forgotten, and what others have in hand is what it left.
End(t, hands) ==
    /\ GoTo(t, "over")
    /\ op'      = [op EXCEPT ![t] = "grant"]
    /\ pairs'   = [pairs EXCEPT ![t] = {}]
    /\ gone'    = [hands EXCEPT ![t] = {}]
    /\ dropped' = [dropped EXCEPT ![t] = {}]
    /\ todo'    = [todo EXCEPT ![t] = {}]
    /\ user'    = [user EXCEPT ![t] = Nobody]
    /\ seen'    = [seen EXCEPT ![t] = {}]
    /\ found'   = [found EXCEPT ![t] = {}]
    /\ written' = [written EXCEPT ![t] = None]

Begin(t, operation, made, rows, lost, users) ==
    /\ pc[t] = "new"
    /\ op'      = [op EXCEPT ![t] = operation]
    /\ pairs'   = [pairs EXCEPT ![t] = made]
    /\ gone'    = [gone EXCEPT ![t] = rows]
    /\ dropped' = [dropped EXCEPT ![t] = lost]
    /\ todo'    = [todo EXCEPT ![t] = users]
    /\ GoTo(t, "begun")
    /\ UNCHANGED <<tableVars, user, seen, found, written, overtaken, drifted, edits>>

\* UserRoleAdmin, and seed_users: get_or_create gives a role that is not there.
Grant(t, u, x) ==
    /\ <<u, x>> \notin assigned /\ x \in roles
    /\ Begin(t, "grant", {<<u, x>>}, {}, {}, {u})

\* UserRoleAdmin of an assignment there is: its user and its role may be changed, and
\* on_role_assigned derives the flags of the user it names now.
Move(t, p, u, x) ==
    /\ p \in assigned /\ <<u, x>> \notin assigned \ {p} /\ x \in roles
    /\ Begin(t, "move", {<<u, x>>}, {p}, {}, {u})

Revoke(t, u, x) ==
    /\ <<u, x>> \in assigned
    /\ Begin(t, "revoke", {}, {<<u, x>>}, {}, {u})

\* RoleAdmin.has_delete_permission; the collector cascades to the assignments.
Drop(t, x) ==
    /\ x \in roles \ SystemRoles
    /\ Begin(t, "drop", {}, {p \in assigned : p[2] = x}, {x}, {u \in Users : <<u, x>> \in assigned})

\* seed_users --force-password, and the form that edits a user.
SetPassword(t, u) == Begin(t, "password", {}, {}, {}, {u})

\* A grant and a move have the user from their form; a revocation may have shown the
\* user's name before it removes the assignment; a cascade loads each user when its
\* signal comes.
Load(t, u) ==
    /\ user[t] = Nobody /\ u \in todo[t]
    /\ \/ pc[t] = "begun" /\ op[t] # "drop"
       \/ pc[t] = "changed" /\ op[t] \notin {"grant", "move"}
    /\ user' = [user EXCEPT ![t] = u]
    /\ seen' = [seen EXCEPT ![t] = flags[u]]
    /\ UNCHANGED <<tableVars, pc, op, pairs, gone, dropped, todo, found, written, overtaken,
                   drifted, edits>>

\* The rows another transaction has changed and not committed: one waits for them.
PairsLocked(t) ==
    \E s \in Transactions \ {t} :
        /\ pc[s] \notin {"new", "begun", "over"}
        /\ (pairs[s] \cup gone[s]) \cap (pairs[t] \cup gone[t]) # {}
UserLocked(t) ==
    \E s \in Transactions \ {t} : pc[s] # "over" /\ user[t] \in DOMAIN written[s]

Writes(t, value) ==
    /\ ~UserLocked(t)
    /\ written' = [written EXCEPT ![t] =
                      [u \in DOMAIN @ \cup {user[t]} |-> IF u = user[t] THEN value ELSE @[u]]]

\* user.save() writes every column, the flags as they were loaded.
SaveUser(t) ==
    /\ pc[t] = "begun" /\ op[t] \in {"password", "grant"} /\ user[t] # Nobody
    /\ Writes(t, seen[t])
    /\ GoTo(t, IF op[t] = "password" THEN "synced" ELSE "begun")
    /\ UNCHANGED <<tableVars, op, pairs, gone, dropped, todo, user, seen, found, overtaken, drifted,
                   edits>>

\* The assignment itself: unique_user_role_assignment; a row that is gone is not deleted
\* again, and one that was to be rewritten is inserted.
Change(t) ==
    /\ pc[t] = "begun" /\ op[t] # "password"
    /\ op[t] \in {"grant", "move"} => user[t] # Nobody /\ pairs[t] \cap (assigned \ gone[t]) = {}
    /\ ~PairsLocked(t)
    /\ GoTo(t, "changed")
    /\ UNCHANGED <<tableVars, op, pairs, gone, dropped, todo, user, seen, found, written, overtaken,
                   drifted, edits>>

\* What the transaction sees of the assignments: its own, and what is committed.
Visible(t) == (assigned \ gone[t]) \cup pairs[t]

Finds(t, flag) ==
    found' = [found EXCEPT ![t] =
                 (@ \ {flag}) \cup ({flag} \cap Granted(user[t], Visible(t), grants))]

\* sync_flags: two queries,
FindAdmin(t) ==
    /\ pc[t] = "changed" /\ user[t] # Nobody
    /\ Finds(t, "admin")
    /\ GoTo(t, "admin_found")
    /\ UNCHANGED <<tableVars, op, pairs, gone, dropped, todo, user, seen, written, overtaken, drifted,
                   edits>>

FindSuperuser(t) ==
    /\ pc[t] = "admin_found"
    /\ Finds(t, "superuser")
    /\ GoTo(t, "found")
    /\ UNCHANGED <<tableVars, op, pairs, gone, dropped, todo, user, seen, written, overtaken, drifted,
                   edits>>

\* and a write, of both flags, when they are not what the instance has.
SaveFlagsIf(t, changed) ==
    /\ pc[t] = "found"
    /\ seen'  = [seen EXCEPT ![t] = {}]
    /\ found' = [found EXCEPT ![t] = {}]
    /\ IF changed THEN Writes(t, found[t]) ELSE UNCHANGED written
    /\ todo' = [todo EXCEPT ![t] = @ \ {user[t]}]
    /\ user' = [user EXCEPT ![t] = Nobody]
    /\ GoTo(t, IF todo[t] = {user[t]} THEN "synced" ELSE "changed")
    /\ UNCHANGED <<tableVars, op, pairs, gone, dropped, overtaken, drifted, edits>>

\* Mutant: only is_staff is compared.
SaveFlagsOfAdmin(t) == SaveFlagsIf(t, "admin" \in found[t] <=> "admin" \notin seen[t])

SaveFlags(t) == SaveFlagsIf(t, found[t] # seen[t])

\* Everything that was read by a transaction that is under way may be out of date.
Overtakes(t, rows) ==
    overtaken' = [s \in Transactions |->
                     s # t /\ \/ overtaken[s]
                              \/ user[s] # Nobody \/ pc[s] \notin {"new", "begun", "over"}
                              \/ gone[s] \cap rows # {}]

\* Rows are found again by their keys: one that was deleted is not there, and one that
\* was moved is what it was made.
Followed(t) ==
    [s \in Transactions |->
        (gone[s] \ gone[t]) \cup (IF gone[s] \cap gone[t] # {} THEN pairs[t] ELSE {})]

\* Foreign keys are checked at the end.
KeysResolve(t) ==
    /\ \A p \in pairs[t] : p[2] \in roles
    /\ \A p \in assigned \ gone[t] : p[2] \notin dropped[t]

Holders(rows) == {p[1] : p \in rows}

\* The signals derive the flags of those a role is given to or taken from, but not of
\* those it is moved away from.
Synced(t) == IF op[t] = "move" THEN Holders(pairs[t]) ELSE Holders(pairs[t] \cup gone[t])

Commit(t) ==
    /\ pc[t] = "synced" \/ (pc[t] = "changed" /\ todo[t] = {})
    /\ KeysResolve(t)
    /\ roles'    = roles \ dropped[t]
    /\ assigned' = Visible(t)
    /\ flags'    = [u \in Users |-> IF u \in DOMAIN written[t] THEN written[t][u] ELSE flags[u]]
    /\ drifted'  = LET Touched == Holders(pairs[t] \cup gone[t])
                   IN  IF overtaken[t] THEN drifted \cup Touched \cup DOMAIN written[t]
                       ELSE (drifted \cup Touched) \ Synced(t)
    /\ Overtakes(t, gone[t])
    /\ End(t, Followed(t))
    /\ UNCHANGED <<grants, edits>>

\* An error, a lost connection, two transactions waiting for each other.
Rollback(t) ==
    /\ pc[t] \notin {"new", "over"}
    /\ overtaken' = [overtaken EXCEPT ![t] = FALSE]
    /\ End(t, gone)
    /\ UNCHANGED <<tableVars, drifted, edits>>

----------------------------------------------------------------------------
(* What changes the tables without deriving flags *)

\* Their holders' flags stay as they were.
Regrant(new) ==
    /\ grants'  = new
    /\ drifted' = drifted \cup
                     {u \in Users : \E x \in RolesOf(u, assigned) : new[x] # grants[x]}
    /\ Overtakes(Nobody, {})
    /\ UNCHANGED <<roles, assigned, flags, localVars>>

\* RoleAdmin
EditRole(x, rights) ==
    /\ x \in roles /\ edits < MaxEdits
    /\ edits' = edits + 1
    /\ Regrant([grants EXCEPT ![x] = rights])

\* seed_roles: the system roles are given what they are meant to grant.
SeedRoles ==
    /\ Regrant([x \in AllRoles |-> IF x \in SystemRoles THEN SystemGrants[x] ELSE grants[x]])
    /\ UNCHANGED edits

\* ADR 0011: "The derived flags can be edited directly".
EditFlags(u, by_hand) ==
    /\ edits < MaxEdits
    /\ edits' = edits + 1
    /\ flags'   = [flags EXCEPT ![u] = by_hand]
    /\ drifted' = drifted \cup {u}
    /\ Overtakes(Nobody, {})
    /\ UNCHANGED <<roles, grants, assigned, localVars>>

----------------------------------------------------------------------------

Assigning(t) ==
    \/ \E u \in Users, x \in AllRoles : Grant(t, u, x) \/ Revoke(t, u, x)
    \/ \E p \in assigned, u \in Users, x \in AllRoles : Move(t, p, u, x)
    \/ \E x \in AllRoles : Drop(t, x)
    \/ \E u \in Users : SetPassword(t, u) \/ Load(t, u)
    \/ SaveUser(t) \/ Change(t)
    \/ FindAdmin(t) \/ FindSuperuser(t) \/ SaveFlags(t)
    \/ Commit(t) \/ Rollback(t)

Next ==
    \/ \E t \in Transactions : Assigning(t)
    \/ \E x \in AllRoles, rights \in SUBSET Flags : EditRole(x, rights)
    \/ SeedRoles
    \/ \E u \in Users, by_hand \in SUBSET Flags : EditFlags(u, by_hand)

Spec == Init /\ [][Next]_vars

----------------------------------------------------------------------------
(* Properties *)

Step == {"new", "begun", "changed", "admin_found", "found", "synced", "over"}

TypeOK ==
    /\ roles \subseteq AllRoles
    /\ grants   \in [AllRoles -> SUBSET Flags]
    /\ assigned \subseteq Users \X AllRoles
    /\ flags    \in [Users -> SUBSET Flags]
    /\ pc       \in [Transactions -> Step]
    /\ op       \in [Transactions -> {"grant", "move", "revoke", "drop", "password"}]
    /\ pairs    \in [Transactions -> SUBSET (Users \X AllRoles)]
    /\ gone     \in [Transactions -> SUBSET (Users \X AllRoles)]
    /\ dropped  \in [Transactions -> SUBSET AllRoles]
    /\ todo     \in [Transactions -> SUBSET Users]
    /\ user     \in [Transactions -> Users \cup {Nobody}]
    /\ seen     \in [Transactions -> SUBSET Flags]
    /\ found    \in [Transactions -> SUBSET Flags]
    /\ \A t \in Transactions : /\ DOMAIN written[t] \subseteq Users
                               /\ \A u \in DOMAIN written[t] : written[t][u] \subseteq Flags
    /\ overtaken \in [Transactions -> BOOLEAN]
    /\ drifted  \subseteq Users
    /\ edits    \in 0 .. MaxEdits

\* ADR 0011: granting and revoking "cannot leave the flags inconsistent".  They are
\* what the roles say, of everybody but those (drifted) a role was moved away from, who
\* keep the flags it gave them; those whose role was edited, or whose flags were; and
\* those whose assignments changed in a transaction that another overtook.  The next
\* change of their assignments that is not overtaken puts them right again.
FlagsFollowRoles == \A u \in Users \ drifted : flags[u] = Derived(u)

\* No role that is gone is still assigned, whatever is granted while it is dropped.
AssignedRolesExist == \A p \in assigned : p[2] \in roles
=============================================================================
