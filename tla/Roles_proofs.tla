------------------------------ MODULE Roles_proofs ------------------------------
(***************************************************************************)
(* What holds of Roles for every set of users, roles and transactions.     *)
(***************************************************************************)
EXTENDS Roles, TLAPS

----------------------------------------------------------------------------
(* Types *)

TablesOK ==
    /\ roles \subseteq AllRoles
    /\ grants   \in [AllRoles -> SUBSET Flags]
    /\ assigned \subseteq Users \X AllRoles
    /\ flags    \in [Users -> SUBSET Flags]
    /\ drifted  \subseteq Users
    /\ edits    \in 0 .. MaxEdits

WrittenFlags == UNION {[D -> SUBSET Flags] : D \in SUBSET Users}

TransactionsOK ==
    /\ pc       \in [Transactions -> Step]
    /\ op       \in [Transactions -> {"grant", "move", "revoke", "drop", "password"}]
    /\ pairs    \in [Transactions -> SUBSET (Users \X AllRoles)]
    /\ gone     \in [Transactions -> SUBSET (Users \X AllRoles)]
    /\ dropped  \in [Transactions -> SUBSET AllRoles]
    /\ todo     \in [Transactions -> SUBSET Users]
    /\ user     \in [Transactions -> Users \cup {Nobody}]
    /\ seen     \in [Transactions -> SUBSET Flags]
    /\ found    \in [Transactions -> SUBSET Flags]
    /\ written  \in [Transactions -> WrittenFlags]
    /\ overtaken \in [Transactions -> BOOLEAN]

LEMMA TypesAre == TablesOK /\ TransactionsOK => TypeOK
BY DEF TablesOK, TransactionsOK, TypeOK, WrittenFlags

LEMMA NoneWritten == None \in WrittenFlags /\ DOMAIN None = {}
<1>1. None \in [{} -> SUBSET Flags]
  BY DEF None
<1>. QED
  BY <1>1 DEF WrittenFlags

\* What a write adds to what was written.
LEMMA WrittenGrows ==
  ASSUME NEW w \in WrittenFlags, NEW u \in Users, NEW value \in SUBSET Flags
  PROVE  [x \in DOMAIN w \cup {u} |-> IF x = u THEN value ELSE w[x]] \in WrittenFlags
<1>1. PICK D \in SUBSET Users : w \in [D -> SUBSET Flags]
  BY DEF WrittenFlags
<1>2. [x \in DOMAIN w \cup {u} |-> IF x = u THEN value ELSE w[x]] \in [D \cup {u} -> SUBSET Flags]
  BY <1>1
<1>3. D \cup {u} \in SUBSET Users
  OBVIOUS
<1>. QED
  BY <1>2, <1>3 DEF WrittenFlags

----------------------------------------------------------------------------
(* What a transaction has in hand *)

Shape(t) ==
    /\ pc[t] \in {"new", "over"} =>
          /\ op[t] = "grant" /\ pairs[t] = {} /\ gone[t] = {} /\ dropped[t] = {} /\ todo[t] = {}
          /\ user[t] = Nobody /\ seen[t] = {} /\ found[t] = {} /\ written[t] = None
    /\ op[t] # "drop" => dropped[t] = {}
    /\ op[t] \in {"revoke", "drop"} => pairs[t] = {}
    /\ op[t] = "password" =>
          pairs[t] = {} /\ gone[t] = {} /\ pc[t] \in {"begun", "synced"}
    /\ user[t] \in todo[t] \cup {Nobody}
    /\ pc[t] = "begun" /\ user[t] = Nobody => written[t] = None
    /\ pc[t] = "synced" /\ op[t] # "password" => todo[t] = {}
    /\ pc[t] \in {"admin_found", "found"} => user[t] # Nobody

Shaped == \A t \in Transactions : Shape(t)

\* A step of another transaction, which may change or remove rows this one has in hand.
Alike(s) ==
    /\ pc'[s] = pc[s] /\ op'[s] = op[s] /\ pairs'[s] = pairs[s] /\ dropped'[s] = dropped[s]
    /\ todo'[s] = todo[s] /\ user'[s] = user[s] /\ seen'[s] = seen[s]
    /\ found'[s] = found[s] /\ written'[s] = written[s]

Same(s) == Alike(s) /\ gone'[s] = gone[s]

LEMMA SameShape ==
  ASSUME NEW s \in Transactions, Shape(s), Alike(s), gone[s] = {} => gone'[s] = {}
  PROVE  Shape(s)'
BY DEF Shape, Alike

\* What a commit leaves the others.
LEMMA CommitLeaves ==
  ASSUME TransactionsOK, NEW t \in Transactions, Commit(t), NEW s \in Transactions \ {t}
  PROVE  /\ Alike(s)
         /\ gone[s] = {} => gone'[s] = {}
         /\ gone[s] \cap gone[t] = {} => Same(s)
<1>1. Alike(s)
  BY DEF Commit, End, GoTo, Alike, TransactionsOK
<1>2. gone'[s] = (gone[s] \ gone[t]) \cup (IF gone[s] \cap gone[t] # {} THEN pairs[t] ELSE {})
  BY DEF Commit, End, Followed, TransactionsOK
<1>. QED
  BY <1>1, <1>2 DEF Same

LEMMA TablesStep == TablesOK /\ TransactionsOK /\ [Next]_vars => TablesOK'
<1> SUFFICES ASSUME TablesOK, TransactionsOK, [Next]_vars PROVE TablesOK'
  OBVIOUS
<1> USE DEF TablesOK, tableVars
<1>1. ASSUME NEW t \in Transactions, NEW u \in Users, NEW x \in AllRoles,
         Grant(t, u, x) PROVE TablesOK'
  BY <1>1 DEF Grant, Begin, GoTo
<1>2. ASSUME NEW t \in Transactions, NEW u \in Users, NEW x \in AllRoles,
         Revoke(t, u, x) PROVE TablesOK'
  BY <1>2 DEF Revoke, Begin, GoTo
<1>3. ASSUME NEW t \in Transactions, NEW x \in AllRoles, Drop(t, x) PROVE TablesOK'
  BY <1>3 DEF Drop, Begin, GoTo
<1>4. ASSUME NEW t \in Transactions, NEW u \in Users, SetPassword(t, u) PROVE TablesOK'
  BY <1>4 DEF SetPassword, Begin, GoTo
<1>5. ASSUME NEW t \in Transactions, NEW u \in Users, Load(t, u) PROVE TablesOK'
  BY <1>5 DEF Load
<1>6. ASSUME NEW t \in Transactions, SaveUser(t) PROVE TablesOK'
  BY <1>6 DEF SaveUser, Writes, GoTo
<1>7. ASSUME NEW t \in Transactions, Change(t) PROVE TablesOK'
  BY <1>7 DEF Change, GoTo
<1>8. ASSUME NEW t \in Transactions, FindAdmin(t) PROVE TablesOK'
  BY <1>8 DEF FindAdmin, Finds, GoTo
<1>9. ASSUME NEW t \in Transactions, FindSuperuser(t) PROVE TablesOK'
  BY <1>9 DEF FindSuperuser, Finds, GoTo
<1>10. ASSUME NEW t \in Transactions, SaveFlags(t) PROVE TablesOK'
  BY <1>10 DEF SaveFlags, SaveFlagsIf, Writes, GoTo
<1>11. ASSUME NEW t \in Transactions, Commit(t) PROVE TablesOK'
  <2>1. roles' \subseteq AllRoles /\ UNCHANGED <<grants, edits>>
    BY <1>11 DEF Commit
  <2>2. assigned' \subseteq Users \X AllRoles
    BY <1>11 DEF Commit, Visible, TransactionsOK
  <2>3. flags' \in [Users -> SUBSET Flags]
    <3>1. flags' = [u \in Users |-> IF u \in DOMAIN written[t] THEN written[t][u] ELSE flags[u]]
      BY <1>11 DEF Commit
    <3>2. \A u \in DOMAIN written[t] : written[t][u] \subseteq Flags
      BY DEF TransactionsOK, WrittenFlags
    <3>. QED
      BY <3>1, <3>2
  <2>4. drifted' \subseteq Users
    <3>1. Holders(pairs[t] \cup gone[t]) \subseteq Users
      BY DEF TransactionsOK, Holders
    <3>2. DOMAIN written[t] \subseteq Users
      BY DEF TransactionsOK, WrittenFlags
    <3>. QED
      BY <1>11, <3>1, <3>2 DEF Commit
  <2>. QED
    BY <2>1, <2>2, <2>3, <2>4
<1>12. ASSUME NEW t \in Transactions, Rollback(t) PROVE TablesOK'
  BY <1>12 DEF Rollback, End, GoTo
<1>13. ASSUME NEW x \in AllRoles, NEW rights \in SUBSET Flags,
         EditRole(x, rights) PROVE TablesOK'
  <2>1. grants' = [grants EXCEPT ![x] = rights]
    BY <1>13 DEF EditRole, Regrant
  <2>2. drifted' \subseteq Users /\ UNCHANGED <<roles, assigned, flags>>
    BY <1>13 DEF EditRole, Regrant
  <2>3. edits' \in 0 .. MaxEdits
    BY <1>13, MaxEditsIsANumber DEF EditRole
  <2>. QED
    BY <2>1, <2>2, <2>3
<1>14. ASSUME SeedRoles PROVE TablesOK'
  <2>1. grants' \in [AllRoles -> SUBSET Flags]
    BY <1>14, SystemRolesAreRoles DEF SeedRoles, Regrant
  <2>2. drifted' \subseteq Users /\ UNCHANGED <<roles, assigned, flags, edits>>
    BY <1>14 DEF SeedRoles, Regrant
  <2>. QED
    BY <2>1, <2>2
<1>15. ASSUME NEW u \in Users, NEW by_hand \in SUBSET Flags,
         EditFlags(u, by_hand) PROVE TablesOK'
  <2>1. edits' \in 0 .. MaxEdits
    BY <1>15, MaxEditsIsANumber DEF EditFlags
  <2>. QED
    BY <1>15, <2>1 DEF EditFlags
<1>16. ASSUME NEW t \in Transactions, NEW p \in assigned, NEW u \in Users,
         NEW x \in AllRoles, Move(t, p, u, x) PROVE TablesOK'
  BY <1>16 DEF Move, Begin, GoTo
<1>17. CASE UNCHANGED vars
  BY <1>17 DEF vars
<1>. QED
  BY <1>1, <1>2, <1>3, <1>4, <1>5, <1>6, <1>7, <1>8, <1>9,
     <1>10, <1>11, <1>12, <1>13, <1>14, <1>15, <1>16, <1>17
     DEF Next, Assigning

LEMMA TransactionsStep == 
  TablesOK /\ TransactionsOK /\ Shaped /\ [Next]_vars => TransactionsOK'
<1> SUFFICES ASSUME TablesOK, TransactionsOK, Shaped, [Next]_vars PROVE TransactionsOK'
  OBVIOUS
<1> USE DEF TransactionsOK, TablesOK, Step, Shaped, localVars
<1>1. ASSUME NEW t \in Transactions, NEW u \in Users, NEW x \in AllRoles,
         Grant(t, u, x) PROVE TransactionsOK'
  BY <1>1 DEF Grant, Begin, GoTo
<1>2. ASSUME NEW t \in Transactions, NEW u \in Users, NEW x \in AllRoles,
         Revoke(t, u, x) PROVE TransactionsOK'
  BY <1>2 DEF Revoke, Begin, GoTo
<1>3. ASSUME NEW t \in Transactions, NEW x \in AllRoles,
         Drop(t, x) PROVE TransactionsOK'
  BY <1>3 DEF Drop, Begin, GoTo
<1>4. ASSUME NEW t \in Transactions, NEW u \in Users,
         SetPassword(t, u) PROVE TransactionsOK'
  BY <1>4 DEF SetPassword, Begin, GoTo
<1>5. ASSUME NEW t \in Transactions, NEW u \in Users, Load(t, u) PROVE TransactionsOK'
  BY <1>5 DEF Load
<1>6. ASSUME NEW t \in Transactions, SaveUser(t) PROVE TransactionsOK'
  <2>1. user[t] \in Users /\ written[t] \in WrittenFlags /\ seen[t] \in SUBSET Flags
    BY <1>6 DEF SaveUser
  <2>2. written' \in [Transactions -> WrittenFlags]
    BY <1>6, <2>1, WrittenGrows DEF SaveUser, Writes
  <2>. QED
    BY <1>6, <2>2 DEF SaveUser, GoTo
<1>7. ASSUME NEW t \in Transactions, Change(t) PROVE TransactionsOK'
  BY <1>7 DEF Change, GoTo
<1>8. ASSUME NEW t \in Transactions, FindAdmin(t) PROVE TransactionsOK'
  <2>1. found' \in [Transactions -> SUBSET Flags]
    BY <1>8 DEF FindAdmin, Finds, Flags
  <2>. QED
    BY <1>8, <2>1 DEF FindAdmin, GoTo
<1>9. ASSUME NEW t \in Transactions, FindSuperuser(t) PROVE TransactionsOK'
  <2>1. found' \in [Transactions -> SUBSET Flags]
    BY <1>9 DEF FindSuperuser, Finds, Flags
  <2>. QED
    BY <1>9, <2>1 DEF FindSuperuser, GoTo
<1>10. ASSUME NEW t \in Transactions, SaveFlags(t) PROVE TransactionsOK'
  <2>1. user[t] \in Users
    BY <1>10 DEF SaveFlags, SaveFlagsIf, Shape
  <2>2. written' \in [Transactions -> WrittenFlags]
    <3>1. CASE found[t] = seen[t]
      BY <1>10, <3>1 DEF SaveFlags, SaveFlagsIf
    <3>2. CASE found[t] # seen[t]
      <4>1. /\ written[t] \in WrittenFlags /\ found[t] \in SUBSET Flags
            /\ Writes(t, found[t])
        BY <1>10, <3>2 DEF SaveFlags, SaveFlagsIf
      <4>2. [x \in DOMAIN written[t] \cup {user[t]} |->
                IF x = user[t] THEN found[t] ELSE written[t][x]] \in WrittenFlags
        BY <2>1, <4>1, WrittenGrows
      <4>. QED
        BY <4>1, <4>2 DEF Writes
    <3>. QED
      BY <3>1, <3>2
  <2>. QED
    BY <1>10, <2>2 DEF SaveFlags, SaveFlagsIf, GoTo
<1>11. ASSUME NEW t \in Transactions, Commit(t) PROVE TransactionsOK'
  <2>1. gone' \in [Transactions -> SUBSET (Users \X AllRoles)]
    <3>1. Followed(t) \in [Transactions -> SUBSET (Users \X AllRoles)]
      BY DEF Followed
    <3>. QED
      BY <1>11, <3>1 DEF Commit, End
  <2>. QED
    BY <1>11, <2>1, NoneWritten DEF Commit, End, GoTo, Overtakes
<1>12. ASSUME NEW t \in Transactions, Rollback(t) PROVE TransactionsOK'
  BY <1>12, NoneWritten DEF Rollback, End, GoTo
<1>13. ASSUME NEW x \in AllRoles, NEW rights \in SUBSET Flags,
         EditRole(x, rights) PROVE TransactionsOK'
  BY <1>13 DEF EditRole, Regrant, Overtakes
<1>14. ASSUME SeedRoles PROVE TransactionsOK'
  BY <1>14 DEF SeedRoles, Regrant, Overtakes
<1>15. ASSUME NEW u \in Users, NEW by_hand \in SUBSET Flags,
         EditFlags(u, by_hand) PROVE TransactionsOK'
  BY <1>15 DEF EditFlags, Overtakes
<1>16. ASSUME NEW t \in Transactions, NEW p \in assigned, NEW u \in Users,
         NEW x \in AllRoles, Move(t, p, u, x) PROVE TransactionsOK'
  BY <1>16 DEF Move, Begin, GoTo
<1>17. CASE UNCHANGED vars
  BY <1>17 DEF vars
<1>. QED
  BY <1>1, <1>2, <1>3, <1>4, <1>5, <1>6, <1>7, <1>8, <1>9,
     <1>10, <1>11, <1>12, <1>13, <1>14, <1>15, <1>16, <1>17
     DEF Next, Assigning

LEMMA ShapedStep == TablesOK /\ TransactionsOK /\ Shaped /\ [Next]_vars => Shaped'
<1> SUFFICES ASSUME TablesOK, TransactionsOK, Shaped, [Next]_vars PROVE Shaped'
  OBVIOUS
<1>0. \A s \in Transactions : Same(s) => Shape(s)'
  BY SameShape DEF Shaped, Same
<1> USE DEF TransactionsOK
<1>1. ASSUME NEW t \in Transactions, NEW u \in Users, NEW x \in AllRoles,
         Grant(t, u, x) PROVE Shaped'
  <2>1. \A s \in Transactions \ {t} : Same(s)
    BY <1>1 DEF Grant, Begin, GoTo, Alike, Same, localVars
  <2>2. Shape(t)'
    BY <1>1, NoneWritten, NobodyIsNoUser DEF Grant, Begin, GoTo, Shape, Shaped, localVars
  <2>. QED
    BY <1>0, <2>1, <2>2 DEF Shaped
<1>2. ASSUME NEW t \in Transactions, NEW u \in Users, NEW x \in AllRoles,
         Revoke(t, u, x) PROVE Shaped'
  <2>1. \A s \in Transactions \ {t} : Same(s)
    BY <1>2 DEF Revoke, Begin, GoTo, Alike, Same, localVars
  <2>2. Shape(t)'
    BY <1>2, NoneWritten, NobodyIsNoUser DEF Revoke, Begin, GoTo, Shape, Shaped, localVars
  <2>. QED
    BY <1>0, <2>1, <2>2 DEF Shaped
<1>3. ASSUME NEW t \in Transactions, NEW x \in AllRoles, Drop(t, x) PROVE Shaped'
  <2>1. \A s \in Transactions \ {t} : Same(s)
    BY <1>3 DEF Drop, Begin, GoTo, Alike, Same, localVars
  <2>2. Shape(t)'
    BY <1>3, NoneWritten, NobodyIsNoUser DEF Drop, Begin, GoTo, Shape, Shaped, localVars
  <2>. QED
    BY <1>0, <2>1, <2>2 DEF Shaped
<1>4. ASSUME NEW t \in Transactions, NEW u \in Users, SetPassword(t, u) PROVE Shaped'
  <2>1. \A s \in Transactions \ {t} : Same(s)
    BY <1>4 DEF SetPassword, Begin, GoTo, Alike, Same, localVars
  <2>2. Shape(t)'
    BY <1>4, NoneWritten, NobodyIsNoUser DEF SetPassword, Begin, GoTo, Shape, Shaped, localVars
  <2>. QED
    BY <1>0, <2>1, <2>2 DEF Shaped
<1>5. ASSUME NEW t \in Transactions, NEW u \in Users, Load(t, u) PROVE Shaped'
  <2>1. \A s \in Transactions \ {t} : Same(s)
    BY <1>5 DEF Load, Alike, Same, localVars
  <2>2. Shape(t)'
    BY <1>5, NoneWritten, NobodyIsNoUser DEF Load, Shape, Shaped, localVars
  <2>. QED
    BY <1>0, <2>1, <2>2 DEF Shaped
<1>6. ASSUME NEW t \in Transactions, SaveUser(t) PROVE Shaped'
  <2>1. \A s \in Transactions \ {t} : Same(s)
    BY <1>6 DEF SaveUser, Writes, GoTo, Alike, Same, localVars
  <2>2. Shape(t)'
    BY <1>6, NoneWritten, NobodyIsNoUser DEF SaveUser, Writes, GoTo, Shape, Shaped, localVars
  <2>. QED
    BY <1>0, <2>1, <2>2 DEF Shaped
<1>7. ASSUME NEW t \in Transactions, Change(t) PROVE Shaped'
  <2>1. \A s \in Transactions \ {t} : Same(s)
    BY <1>7 DEF Change, GoTo, Alike, Same, localVars
  <2>2. Shape(t)'
    BY <1>7, NoneWritten, NobodyIsNoUser DEF Change, GoTo, Shape, Shaped, localVars
  <2>. QED
    BY <1>0, <2>1, <2>2 DEF Shaped
<1>8. ASSUME NEW t \in Transactions, FindAdmin(t) PROVE Shaped'
  <2>1. \A s \in Transactions \ {t} : Same(s)
    BY <1>8 DEF FindAdmin, Finds, GoTo, Alike, Same, localVars
  <2>2. Shape(t)'
    BY <1>8, NoneWritten, NobodyIsNoUser DEF FindAdmin, Finds, GoTo, Shape, Shaped, localVars
  <2>. QED
    BY <1>0, <2>1, <2>2 DEF Shaped
<1>9. ASSUME NEW t \in Transactions, FindSuperuser(t) PROVE Shaped'
  <2>1. \A s \in Transactions \ {t} : Same(s)
    BY <1>9 DEF FindSuperuser, Finds, GoTo, Alike, Same, localVars
  <2>2. Shape(t)'
    BY <1>9, NoneWritten, NobodyIsNoUser DEF FindSuperuser, Finds, GoTo, Shape, Shaped, localVars
  <2>. QED
    BY <1>0, <2>1, <2>2 DEF Shaped
<1>10. ASSUME NEW t \in Transactions, SaveFlags(t) PROVE Shaped'
  <2>1. \A s \in Transactions \ {t} : Same(s)
    BY <1>10 DEF SaveFlags, SaveFlagsIf, Writes, GoTo, Alike, Same, localVars
  <2>2. Shape(t)'
    BY <1>10, NoneWritten, NobodyIsNoUser DEF SaveFlags, SaveFlagsIf, Writes, GoTo, Shape, Shaped, localVars
  <2>. QED
    BY <1>0, <2>1, <2>2 DEF Shaped
<1>11. ASSUME NEW t \in Transactions, Commit(t) PROVE Shaped'
  <2>1. ASSUME NEW s \in Transactions \ {t} PROVE Shape(s)'
    <3>1. Alike(s) /\ (gone[s] = {} => gone'[s] = {})
      BY <1>11, CommitLeaves
    <3>. QED
      BY <3>1, SameShape DEF Shaped
  <2>2. Shape(t)'
    BY <1>11, NoneWritten, NobodyIsNoUser DEF Commit, End, GoTo, Followed, Shape, localVars
  <2>. QED
    BY <2>1, <2>2 DEF Shaped
<1>12. ASSUME NEW t \in Transactions, Rollback(t) PROVE Shaped'
  <2>1. \A s \in Transactions \ {t} : Same(s)
    BY <1>12 DEF Rollback, End, GoTo, Alike, Same, localVars
  <2>2. Shape(t)'
    BY <1>12, NoneWritten, NobodyIsNoUser DEF Rollback, End, GoTo, Shape, localVars
  <2>. QED
    BY <1>0, <2>1, <2>2 DEF Shaped
<1>13. ASSUME NEW x \in AllRoles, NEW rights \in SUBSET Flags,
         EditRole(x, rights) PROVE Shaped'
  <2>1. \A s \in Transactions : Same(s)
    BY <1>13 DEF EditRole, Regrant, Alike, Same, localVars
  <2>. QED
    BY <2>1, <1>0 DEF Shaped
<1>14. ASSUME SeedRoles PROVE Shaped'
  <2>1. \A s \in Transactions : Same(s)
    BY <1>14 DEF SeedRoles, Regrant, Alike, Same, localVars
  <2>. QED
    BY <2>1, <1>0 DEF Shaped
<1>15. ASSUME NEW u \in Users, NEW by_hand \in SUBSET Flags,
         EditFlags(u, by_hand) PROVE Shaped'
  <2>1. \A s \in Transactions : Same(s)
    BY <1>15 DEF EditFlags, Alike, Same, localVars
  <2>. QED
    BY <2>1, <1>0 DEF Shaped
<1>16. ASSUME NEW t \in Transactions, NEW p \in assigned, NEW u \in Users,
         NEW x \in AllRoles, Move(t, p, u, x) PROVE Shaped'
  <2>1. \A s \in Transactions \ {t} : Same(s)
    BY <1>16 DEF Move, Begin, GoTo, Alike, Same, localVars
  <2>2. Shape(t)'
    BY <1>16, NoneWritten, NobodyIsNoUser DEF Move, Begin, GoTo, Shape, Shaped, localVars
  <2>. QED
    BY <1>0, <2>1, <2>2 DEF Shaped
<1>17. CASE UNCHANGED vars
  BY <1>0, <1>17 DEF vars, localVars, Alike, Same, Shaped
<1>. QED
  BY <1>1, <1>2, <1>3, <1>4, <1>5, <1>6, <1>7, <1>8, <1>9,
     <1>10, <1>11, <1>12, <1>13, <1>14, <1>15, <1>16, <1>17
     DEF Next, Assigning

----------------------------------------------------------------------------
(* What a transaction has in hand is what the tables say, unless it is overtaken *)

Rights0(t, u) == Granted(u, Visible(t), grants)
Effective(t, u) == IF u \in DOMAIN written[t] THEN written[t][u] ELSE flags[u]

Current(t) ==
    /\ op[t] # "password" => todo[t] \subseteq Synced(t)
    /\ pc[t] = "begun" => Synced(t) \subseteq todo[t]
    /\ DOMAIN written[t] \subseteq Synced(t) \cup todo[t]
    /\ user[t] # Nobody => seen[t] = flags[user[t]]
    /\ \A u \in todo[t] : Effective(t, u) = flags[u]
    /\ \A u \in Synced(t) \ todo[t] : Effective(t, u) = Rights0(t, u) \cap Flags
    /\ pc[t] = "admin_found" =>
          found[t] \cap {"admin"} = Rights0(t, user[t]) \cap {"admin"}
    /\ pc[t] = "found" => found[t] = Rights0(t, user[t]) \cap Flags

UpToDate == \A t \in Transactions : overtaken[t] \/ Current(t)

LEMMA SameView ==
  ASSUME NEW t \in Transactions, op'[t] = op[t], pairs'[t] = pairs[t], gone'[t] = gone[t],
         UNCHANGED <<assigned, grants>>
  PROVE  Synced(t)' = Synced(t) /\ \A u : Rights0(t, u)' = Rights0(t, u)
<1>1. Synced(t)' = Synced(t) /\ Visible(t)' = Visible(t)
  BY DEF Synced, Holders, Visible
<1>. QED
  BY <1>1 DEF Rights0, Granted, RolesOf

LEMMA SameIsCurrent ==
  ASSUME NEW s \in Transactions, overtaken[s] \/ Current(s), Same(s),
         UNCHANGED <<assigned, grants, flags>>, overtaken'[s] = overtaken[s]
  PROVE  overtaken'[s] \/ Current(s)'
<1>1. Synced(s)' = Synced(s) /\ Visible(s)' = Visible(s)
  BY DEF Alike, Same, Synced, Holders, Visible
<1>2. \A u : Rights0(s, u)' = Rights0(s, u) /\ Effective(s, u)' = Effective(s, u)
  BY <1>1 DEF Alike, Same, Rights0, Effective, Granted, RolesOf
<1>. QED
  BY <1>1, <1>2 DEF Alike, Same, Current

\* When the tables change, whoever had begun to read them is overtaken.
LEMMA OthersOvertaken ==
  ASSUME TransactionsOK, Shaped, UpToDate, NEW s \in Transactions, NEW t, NEW rows, s # t,
         Overtakes(t, rows), gone[s] \cap rows = {} => Same(s)
  PROVE  overtaken'[s] \/ Current(s)'
<1>1. overtaken'[s] = \/ overtaken[s]
                      \/ user[s] # Nobody \/ pc[s] \notin {"new", "begun", "over"}
                      \/ gone[s] \cap rows # {}
  BY DEF Overtakes
<1> SUFFICES ASSUME ~overtaken'[s] PROVE Current(s)'
  OBVIOUS
<1>2. /\ user[s] = Nobody /\ pc[s] \in {"new", "begun", "over"} /\ ~overtaken[s] /\ Same(s)
  BY <1>1
<1>3. written[s] = None
  BY <1>2 DEF Shaped, Shape
<1>4. Current(s) /\ Synced(s)' = Synced(s)
  BY <1>2 DEF UpToDate, Alike, Same, Synced, Holders
<1>5. Synced(s) \subseteq todo[s]
  <2>1. CASE pc[s] = "begun"
    BY <1>4, <2>1 DEF Current
  <2>2. CASE pc[s] # "begun"
    BY <1>2, <2>2 DEF Shaped, Shape, Synced, Holders
  <2>. QED
    BY <2>1, <2>2
<1>6. /\ user'[s] = Nobody /\ pc'[s] \in {"new", "begun", "over"} /\ Synced(s)' \subseteq todo'[s]
      /\ op'[s] = op[s] /\ todo'[s] = todo[s]
  BY <1>2, <1>4, <1>5 DEF Alike, Same
<1>7. DOMAIN written'[s] = {}
  BY <1>2, <1>3, NoneWritten DEF Alike, Same
<1>. QED
  BY <1>4, <1>6, <1>7 DEF Current, Effective

LEMMA CurrentFrom ==
  ASSUME NEW t \in Transactions, UpToDate, \A s \in Transactions \ {t} : Same(s),
         \A s \in Transactions \ {t} : overtaken'[s] = overtaken[s],
         UNCHANGED <<assigned, grants, flags>>,
         overtaken'[t] \/ Current(t)'
  PROVE  UpToDate'
BY SameIsCurrent DEF UpToDate

LEMMA UpToDateStep == 
  TablesOK /\ TransactionsOK /\ Shaped /\ Shaped' /\ UpToDate /\ [Next]_vars => UpToDate'
<1> SUFFICES ASSUME TablesOK, TransactionsOK, Shaped, Shaped', UpToDate,
         [Next]_vars PROVE UpToDate'
  OBVIOUS
<1> USE DEF TransactionsOK, TablesOK
<1>1. ASSUME NEW t \in Transactions, NEW u \in Users, NEW x \in AllRoles,
         Grant(t, u, x) PROVE UpToDate'
  <2>1. /\ \A s \in Transactions \ {t} : Same(s)
        /\ \A s \in Transactions \ {t} : overtaken'[s] = overtaken[s]
        /\ UNCHANGED <<assigned, grants, flags>>
    BY <1>1 DEF Grant, Begin, GoTo, Alike, Same, localVars, tableVars
  <2>2. Current(t)'
    <3>1. user[t] = Nobody /\ written[t] = None
      BY <1>1 DEF Grant, Begin, GoTo, Shaped, Shape
    <3>2. user'[t] = Nobody /\ DOMAIN written'[t] = {} /\ pc'[t] = "begun"
      BY <1>1, <3>1, NoneWritten DEF Grant, Begin, GoTo
    <3>3. Synced(t)' = todo'[t]
      BY <1>1, <3>2 DEF Synced, Holders, Grant, Begin
    <3>. QED
      BY <3>2, <3>3 DEF Current, Effective
  <2>. QED
    BY <2>1, <2>2, CurrentFrom
<1>2. ASSUME NEW t \in Transactions, NEW u \in Users, NEW x \in AllRoles,
         Revoke(t, u, x) PROVE UpToDate'
  <2>1. /\ \A s \in Transactions \ {t} : Same(s)
        /\ \A s \in Transactions \ {t} : overtaken'[s] = overtaken[s]
        /\ UNCHANGED <<assigned, grants, flags>>
    BY <1>2 DEF Revoke, Begin, GoTo, Alike, Same, localVars, tableVars
  <2>2. Current(t)'
    <3>1. user[t] = Nobody /\ written[t] = None
      BY <1>2 DEF Revoke, Begin, GoTo, Shaped, Shape
    <3>2. user'[t] = Nobody /\ DOMAIN written'[t] = {} /\ pc'[t] = "begun"
      BY <1>2, <3>1, NoneWritten DEF Revoke, Begin, GoTo
    <3>3. Synced(t)' = todo'[t]
      BY <1>2, <3>2 DEF Synced, Holders, Revoke, Begin
    <3>. QED
      BY <3>2, <3>3 DEF Current, Effective
  <2>. QED
    BY <2>1, <2>2, CurrentFrom
<1>3. ASSUME NEW t \in Transactions, NEW x \in AllRoles, Drop(t, x) PROVE UpToDate'
  <2>1. /\ \A s \in Transactions \ {t} : Same(s)
        /\ \A s \in Transactions \ {t} : overtaken'[s] = overtaken[s]
        /\ UNCHANGED <<assigned, grants, flags>>
    BY <1>3 DEF Drop, Begin, GoTo, Alike, Same, localVars, tableVars
  <2>2. Current(t)'
    <3>1. user[t] = Nobody /\ written[t] = None
      BY <1>3 DEF Drop, Begin, GoTo, Shaped, Shape
    <3>2. user'[t] = Nobody /\ DOMAIN written'[t] = {} /\ pc'[t] = "begun"
      BY <1>3, <3>1, NoneWritten DEF Drop, Begin, GoTo
    <3>3. Synced(t)' = todo'[t]
      <4>1. /\ op'[t] = "drop" /\ pairs'[t] = {} /\ gone'[t] = {p \in assigned : p[2] = x}
            /\ todo'[t] = {u \in Users : <<u, x>> \in assigned}
        BY <1>3 DEF Drop, Begin
      <4>2. Synced(t)' = {p[1] : p \in gone'[t]}
        BY <4>1 DEF Synced, Holders
      <4>3. ASSUME NEW u \in todo'[t] PROVE u \in {p[1] : p \in gone'[t]}
        <5>1. <<u, x>> \in gone'[t]
          BY <4>1
        <5>. QED
          BY <5>1
      <4>4. ASSUME NEW p \in gone'[t] PROVE p[1] \in todo'[t]
        <5>1. p = <<p[1], x>> /\ p[1] \in Users
          BY <4>1
        <5>. QED
          BY <4>1, <5>1
      <4>. QED
        BY <4>2, <4>3, <4>4
    <3>. QED
      BY <3>2, <3>3 DEF Current, Effective
  <2>. QED
    BY <2>1, <2>2, CurrentFrom
<1>4. ASSUME NEW t \in Transactions, NEW u \in Users, SetPassword(t, u) PROVE UpToDate'
  <2>1. /\ \A s \in Transactions \ {t} : Same(s)
        /\ \A s \in Transactions \ {t} : overtaken'[s] = overtaken[s]
        /\ UNCHANGED <<assigned, grants, flags>>
    BY <1>4 DEF SetPassword, Begin, GoTo, Alike, Same, localVars, tableVars
  <2>2. Current(t)'
    <3>1. user[t] = Nobody /\ written[t] = None
      BY <1>4 DEF SetPassword, Begin, GoTo, Shaped, Shape
    <3>2. user'[t] = Nobody /\ DOMAIN written'[t] = {} /\ pc'[t] = "begun"
      BY <1>4, <3>1, NoneWritten DEF SetPassword, Begin, GoTo
    <3>3. Synced(t)' = {} /\ op'[t] = "password"
      BY <1>4 DEF Synced, Holders, SetPassword, Begin
    <3>. QED
      BY <3>2, <3>3 DEF Current, Effective
  <2>. QED
    BY <2>1, <2>2, CurrentFrom
<1>5. ASSUME NEW t \in Transactions, NEW u \in Users, Load(t, u) PROVE UpToDate'
  <2>1. /\ \A s \in Transactions \ {t} : Same(s)
        /\ \A s \in Transactions \ {t} : overtaken'[s] = overtaken[s]
        /\ UNCHANGED <<assigned, grants, flags>>
    BY <1>5 DEF Load, Alike, Same, localVars, tableVars
  <2>2. ASSUME ~overtaken'[t] PROVE Current(t)'
    <3>1. Current(t)
      BY <1>5, <2>2 DEF Load, UpToDate
    <3>2. /\ op'[t] = op[t] /\ pairs'[t] = pairs[t] /\ gone'[t] = gone[t] /\ UNCHANGED <<assigned, grants, flags>>
          /\ UNCHANGED <<written, pc, todo>> /\ user'[t] = u /\ seen'[t] = flags[u]
          /\ pc[t] \in {"begun", "changed"}
      BY <1>5 DEF Load, tableVars
    <3>3. Synced(t)' = Synced(t) /\ \A w : Rights0(t, w)' = Rights0(t, w)
      BY <3>2, SameView
    <3>4. \A w : Effective(t, w)' = Effective(t, w)
      BY <3>2 DEF Effective
    <3>. QED
      BY <3>1, <3>2, <3>3, <3>4 DEF Current
  <2>. QED
    BY <2>1, <2>2, CurrentFrom
<1>6. ASSUME NEW t \in Transactions, SaveUser(t) PROVE UpToDate'
  <2>1. /\ \A s \in Transactions \ {t} : Same(s)
        /\ \A s \in Transactions \ {t} : overtaken'[s] = overtaken[s]
        /\ UNCHANGED <<assigned, grants, flags>>
    BY <1>6 DEF SaveUser, GoTo, Writes, Alike, Same, localVars, tableVars
  <2>2. ASSUME ~overtaken'[t] PROVE Current(t)'
    <3>1. Current(t)
      BY <1>6, <2>2 DEF SaveUser, GoTo, UpToDate
    <3>2. /\ op'[t] = op[t] /\ pairs'[t] = pairs[t] /\ gone'[t] = gone[t] /\ UNCHANGED <<assigned, grants, flags>>
          /\ UNCHANGED <<todo, user, seen>> /\ pc'[t] \in {"begun", "synced"}
          /\ user[t] # Nobody
      BY <1>6 DEF SaveUser, GoTo, tableVars
    <3>3. Synced(t)' = Synced(t) /\ \A w : Rights0(t, w)' = Rights0(t, w)
      BY <3>2, SameView
    <3>4. user[t] \in todo[t] /\ seen[t] = flags[user[t]]
      BY <3>1, <3>2 DEF Current, Shaped, Shape
    <3>5. \A u \in Users : Effective(t, u)' = IF u = user[t] THEN seen[t] ELSE Effective(t, u)
      BY <1>6, <3>2 DEF SaveUser, Writes, Effective
    <3>6. todo[t] \subseteq Users /\ Synced(t) \subseteq Users
      BY <3>1 DEF Current, Synced, Holders
    <3>7. DOMAIN written'[t] = DOMAIN written[t] \cup {user[t]}
      BY <1>6 DEF SaveUser, Writes
    <3>8. /\ op'[t] # "password" => todo'[t] \subseteq Synced(t)'
          /\ pc'[t] = "begun" => Synced(t)' \subseteq todo'[t]
          /\ DOMAIN written'[t] \subseteq Synced(t)' \cup todo'[t]
      BY <1>6, <3>1, <3>2, <3>3, <3>4, <3>7 DEF Current, SaveUser
    <3>. QED
      BY <3>1, <3>2, <3>3, <3>4, <3>5, <3>6, <3>8 DEF Current
  <2>. QED
    BY <2>1, <2>2, CurrentFrom
<1>7. ASSUME NEW t \in Transactions, Change(t) PROVE UpToDate'
  <2>1. /\ \A s \in Transactions \ {t} : Same(s)
        /\ \A s \in Transactions \ {t} : overtaken'[s] = overtaken[s]
        /\ UNCHANGED <<assigned, grants, flags>>
    BY <1>7 DEF Change, GoTo, Alike, Same, localVars, tableVars
  <2>2. ASSUME ~overtaken'[t] PROVE Current(t)'
    <3>1. Current(t)
      BY <1>7, <2>2 DEF Change, GoTo, UpToDate
    <3>2. /\ op'[t] = op[t] /\ pairs'[t] = pairs[t] /\ gone'[t] = gone[t] /\ UNCHANGED <<assigned, grants, flags>>
          /\ UNCHANGED <<written, todo, user, seen>> /\ pc'[t] = "changed"
      BY <1>7 DEF Change, GoTo, tableVars
    <3>3. Synced(t)' = Synced(t) /\ \A w : Rights0(t, w)' = Rights0(t, w)
      BY <3>2, SameView
    <3>4. \A w : Effective(t, w)' = Effective(t, w)
      BY <3>2 DEF Effective
    <3>. QED
      BY <3>1, <3>2, <3>3, <3>4 DEF Current
  <2>. QED
    BY <2>1, <2>2, CurrentFrom
<1>8. ASSUME NEW t \in Transactions, FindAdmin(t) PROVE UpToDate'
  <2>1. /\ \A s \in Transactions \ {t} : Same(s)
        /\ \A s \in Transactions \ {t} : overtaken'[s] = overtaken[s]
        /\ UNCHANGED <<assigned, grants, flags>>
    BY <1>8 DEF FindAdmin, GoTo, Finds, Alike, Same, localVars, tableVars
  <2>2. ASSUME ~overtaken'[t] PROVE Current(t)'
    <3>1. Current(t)
      BY <1>8, <2>2 DEF FindAdmin, GoTo, UpToDate
    <3>2. /\ op'[t] = op[t] /\ pairs'[t] = pairs[t] /\ gone'[t] = gone[t] /\ UNCHANGED <<assigned, grants, flags>>
          /\ UNCHANGED <<written, todo, user, seen>> /\ pc'[t] = "admin_found"
      BY <1>8 DEF FindAdmin, GoTo, tableVars
    <3>3. Synced(t)' = Synced(t) /\ \A w : Rights0(t, w)' = Rights0(t, w)
      BY <3>2, SameView
    <3>4. \A w : Effective(t, w)' = Effective(t, w)
      BY <3>2 DEF Effective
    <3>5. found'[t] \cap {"admin"} = Rights0(t, user[t]) \cap {"admin"}
      BY <1>8 DEF FindAdmin, Finds, Rights0
    <3>. QED
      BY <3>1, <3>2, <3>3, <3>4, <3>5 DEF Current
  <2>. QED
    BY <2>1, <2>2, CurrentFrom
<1>9. ASSUME NEW t \in Transactions, FindSuperuser(t) PROVE UpToDate'
  <2>1. /\ \A s \in Transactions \ {t} : Same(s)
        /\ \A s \in Transactions \ {t} : overtaken'[s] = overtaken[s]
        /\ UNCHANGED <<assigned, grants, flags>>
    BY <1>9 DEF FindSuperuser, GoTo, Finds, Alike, Same, localVars, tableVars
  <2>2. ASSUME ~overtaken'[t] PROVE Current(t)'
    <3>1. Current(t)
      BY <1>9, <2>2 DEF FindSuperuser, GoTo, UpToDate
    <3>2. /\ op'[t] = op[t] /\ pairs'[t] = pairs[t] /\ gone'[t] = gone[t] /\ UNCHANGED <<assigned, grants, flags>>
          /\ UNCHANGED <<written, todo, user, seen>>
          /\ pc[t] = "admin_found" /\ pc'[t] = "found"
      BY <1>9 DEF FindSuperuser, GoTo, tableVars
    <3>3. Synced(t)' = Synced(t) /\ \A w : Rights0(t, w)' = Rights0(t, w)
      BY <3>2, SameView
    <3>4. \A w : Effective(t, w)' = Effective(t, w)
      BY <3>2 DEF Effective
    <3>5. found'[t] = Rights0(t, user[t]) \cap Flags
      <4>1. found'[t] = (found[t] \ {"superuser"}) \cup ({"superuser"} \cap Rights0(t, user[t]))
        BY <1>9 DEF FindSuperuser, Finds, Rights0
      <4>2. found[t] \cap {"admin"} = Rights0(t, user[t]) \cap {"admin"} /\ found[t] \subseteq Flags
        BY <3>1, <3>2 DEF Current
      <4>. QED
        BY <4>1, <4>2 DEF Flags
    <3>. QED
      BY <3>1, <3>2, <3>3, <3>4, <3>5 DEF Current
  <2>. QED
    BY <2>1, <2>2, CurrentFrom
<1>10. ASSUME NEW t \in Transactions, SaveFlags(t) PROVE UpToDate'
  <2>1. /\ \A s \in Transactions \ {t} : Same(s)
        /\ \A s \in Transactions \ {t} : overtaken'[s] = overtaken[s]
        /\ UNCHANGED <<assigned, grants, flags>>
    BY <1>10 DEF SaveFlags, SaveFlagsIf, GoTo, Writes, Alike, Same, localVars, tableVars
  <2>2. ASSUME ~overtaken'[t] PROVE Current(t)'
    <3>1. Current(t)
      BY <1>10, <2>2 DEF SaveFlags, SaveFlagsIf, GoTo, UpToDate
    <3>2. /\ op'[t] = op[t] /\ pairs'[t] = pairs[t] /\ gone'[t] = gone[t] /\ UNCHANGED <<assigned, grants, flags>>
          /\ pc[t] = "found" /\ pc'[t] \in {"synced", "changed"}
          /\ todo'[t] = todo[t] \ {user[t]} /\ user'[t] = Nobody
      BY <1>10 DEF SaveFlags, SaveFlagsIf, GoTo, tableVars
    <3>3. Synced(t)' = Synced(t) /\ \A w : Rights0(t, w)' = Rights0(t, w)
      BY <3>2, SameView
    <3>4. /\ user[t] \in todo[t] /\ user[t] # Nobody /\ seen[t] = flags[user[t]]
          /\ found[t] = Rights0(t, user[t]) \cap Flags /\ Effective(t, user[t]) = flags[user[t]]
      BY <3>1, <3>2 DEF Current, Shaped, Shape
    <3>5. \A u \in Users : Effective(t, u)' = IF u = user[t] THEN found[t] ELSE Effective(t, u)
      <4>1. CASE found[t] = seen[t]
        <5>1. UNCHANGED written
          BY <1>10, <4>1 DEF SaveFlags, SaveFlagsIf
        <5>. QED
          BY <3>2, <3>4, <4>1, <5>1 DEF Effective
      <4>2. CASE found[t] # seen[t]
        <5>1. Writes(t, found[t])
          BY <1>10, <4>2 DEF SaveFlags, SaveFlagsIf
        <5>. QED
          BY <3>2, <5>1 DEF Writes, Effective
      <4>. QED
        BY <4>1, <4>2
    <3>6. todo[t] \subseteq Users /\ Synced(t) \subseteq Users
      BY <3>1 DEF Current, Synced, Holders
    <3>7. DOMAIN written'[t] \subseteq DOMAIN written[t] \cup {user[t]}
      BY <1>10 DEF SaveFlags, SaveFlagsIf, Writes
    <3>8. op[t] # "password" /\ user[t] \in Synced(t)
      BY <3>1, <3>2, <3>4 DEF Current, Shaped, Shape
    <3>. QED
      BY <3>1, <3>2, <3>3, <3>4, <3>5, <3>6, <3>7, <3>8 DEF Current
  <2>. QED
    BY <2>1, <2>2, CurrentFrom
<1>11. ASSUME NEW t \in Transactions, Commit(t) PROVE UpToDate'
  <2>1. Overtakes(t, gone[t])
    BY <1>11 DEF Commit
  <2>2. Current(t)'
    <3>1. Shape(t)' /\ pc'[t] = "over"
      BY <1>11 DEF Commit, End, GoTo, Shaped
    <3>2. /\ pairs'[t] = {} /\ gone'[t] = {} /\ todo'[t] = {} /\ user'[t] = Nobody
          /\ DOMAIN written'[t] = {}
      BY <3>1, NoneWritten DEF Shape
    <3>. QED
      BY <3>1, <3>2 DEF Current, Synced, Holders
  <2>. QED
    BY <1>11, <2>1, <2>2, CommitLeaves, OthersOvertaken DEF UpToDate
<1>12. ASSUME NEW t \in Transactions, Rollback(t) PROVE UpToDate'
  <2>1. /\ \A s \in Transactions \ {t} : Same(s)
        /\ \A s \in Transactions \ {t} : overtaken'[s] = overtaken[s]
        /\ UNCHANGED <<assigned, grants, flags>>
    BY <1>12 DEF Rollback, End, GoTo, Alike, Same, localVars, tableVars
  <2>2. Current(t)'
    BY <1>12, NoneWritten DEF Rollback, End, GoTo, Current, Effective, Synced, Holders
  <2>. QED
    BY <2>1, <2>2, CurrentFrom
<1>13. ASSUME NEW x \in AllRoles, NEW rights \in SUBSET Flags,
         EditRole(x, rights) PROVE UpToDate'
  <2>1. Overtakes(Nobody, {}) /\ \A s \in Transactions : Same(s)
    BY <1>13 DEF EditRole, Regrant, Alike, Same, localVars
  <2>. QED
    BY <2>1, OthersOvertaken, NobodyIsNoUser DEF UpToDate
<1>14. ASSUME SeedRoles PROVE UpToDate'
  <2>1. Overtakes(Nobody, {}) /\ \A s \in Transactions : Same(s)
    BY <1>14 DEF SeedRoles, Regrant, Alike, Same, localVars
  <2>. QED
    BY <2>1, OthersOvertaken, NobodyIsNoUser DEF UpToDate
<1>15. ASSUME NEW u \in Users, NEW by_hand \in SUBSET Flags,
         EditFlags(u, by_hand) PROVE UpToDate'
  <2>1. Overtakes(Nobody, {}) /\ \A s \in Transactions : Same(s)
    BY <1>15 DEF EditFlags, Alike, Same, localVars
  <2>. QED
    BY <2>1, OthersOvertaken, NobodyIsNoUser DEF UpToDate
<1>16. ASSUME NEW t \in Transactions, NEW p \in assigned, NEW u \in Users,
         NEW x \in AllRoles, Move(t, p, u, x) PROVE UpToDate'
  <2>1. /\ \A s \in Transactions \ {t} : Same(s)
        /\ \A s \in Transactions \ {t} : overtaken'[s] = overtaken[s]
        /\ UNCHANGED <<assigned, grants, flags>>
    BY <1>16 DEF Move, Begin, GoTo, Alike, Same, localVars, tableVars
  <2>2. Current(t)'
    <3>1. user[t] = Nobody /\ written[t] = None
      BY <1>16 DEF Move, Begin, GoTo, Shaped, Shape
    <3>2. user'[t] = Nobody /\ DOMAIN written'[t] = {} /\ pc'[t] = "begun"
      BY <1>16, <3>1, NoneWritten DEF Move, Begin, GoTo
    <3>3. Synced(t)' = todo'[t]
      BY <1>16, <3>2 DEF Synced, Holders, Move, Begin
    <3>. QED
      BY <3>2, <3>3 DEF Current, Effective
  <2>. QED
    BY <2>1, <2>2, CurrentFrom
<1>17. CASE UNCHANGED vars
  BY <1>17, SameIsCurrent DEF vars, localVars, tableVars, Alike, Same, UpToDate
<1>. QED
  BY <1>1, <1>2, <1>3, <1>4, <1>5, <1>6, <1>7, <1>8, <1>9,
     <1>10, <1>11, <1>12, <1>13, <1>14, <1>15, <1>16, <1>17
     DEF Next, Assigning

----------------------------------------------------------------------------
(* Flags and assignments *)

LEMMA FlagsStep == 
  TablesOK /\ TransactionsOK /\ Shaped /\ UpToDate /\ FlagsFollowRoles /\ [Next]_vars => FlagsFollowRoles'
<1> SUFFICES ASSUME TablesOK, TransactionsOK, Shaped, UpToDate, FlagsFollowRoles,
         [Next]_vars PROVE FlagsFollowRoles'
  OBVIOUS
<1>1. ASSUME NEW t \in Transactions, NEW u \in Users, NEW x \in AllRoles,
         Grant(t, u, x) PROVE FlagsFollowRoles'
  <2>1. UNCHANGED <<assigned, grants, flags, drifted>>
    BY <1>1 DEF Grant, Begin, GoTo, tableVars
  <2>. QED
    BY <2>1 DEF FlagsFollowRoles, Derived
<1>2. ASSUME NEW t \in Transactions, NEW u \in Users, NEW x \in AllRoles,
         Revoke(t, u, x) PROVE FlagsFollowRoles'
  <2>1. UNCHANGED <<assigned, grants, flags, drifted>>
    BY <1>2 DEF Revoke, Begin, GoTo, tableVars
  <2>. QED
    BY <2>1 DEF FlagsFollowRoles, Derived
<1>3. ASSUME NEW t \in Transactions, NEW x \in AllRoles,
         Drop(t, x) PROVE FlagsFollowRoles'
  <2>1. UNCHANGED <<assigned, grants, flags, drifted>>
    BY <1>3 DEF Drop, Begin, GoTo, tableVars
  <2>. QED
    BY <2>1 DEF FlagsFollowRoles, Derived
<1>4. ASSUME NEW t \in Transactions, NEW u \in Users,
         SetPassword(t, u) PROVE FlagsFollowRoles'
  <2>1. UNCHANGED <<assigned, grants, flags, drifted>>
    BY <1>4 DEF SetPassword, Begin, GoTo, tableVars
  <2>. QED
    BY <2>1 DEF FlagsFollowRoles, Derived
<1>5. ASSUME NEW t \in Transactions, NEW u \in Users, Load(t, u) PROVE FlagsFollowRoles'
  <2>1. UNCHANGED <<assigned, grants, flags, drifted>>
    BY <1>5 DEF Load, tableVars
  <2>. QED
    BY <2>1 DEF FlagsFollowRoles, Derived
<1>6. ASSUME NEW t \in Transactions, SaveUser(t) PROVE FlagsFollowRoles'
  <2>1. UNCHANGED <<assigned, grants, flags, drifted>>
    BY <1>6 DEF SaveUser, Writes, GoTo, tableVars
  <2>. QED
    BY <2>1 DEF FlagsFollowRoles, Derived
<1>7. ASSUME NEW t \in Transactions, Change(t) PROVE FlagsFollowRoles'
  <2>1. UNCHANGED <<assigned, grants, flags, drifted>>
    BY <1>7 DEF Change, GoTo, tableVars
  <2>. QED
    BY <2>1 DEF FlagsFollowRoles, Derived
<1>8. ASSUME NEW t \in Transactions, FindAdmin(t) PROVE FlagsFollowRoles'
  <2>1. UNCHANGED <<assigned, grants, flags, drifted>>
    BY <1>8 DEF FindAdmin, Finds, GoTo, tableVars
  <2>. QED
    BY <2>1 DEF FlagsFollowRoles, Derived
<1>9. ASSUME NEW t \in Transactions, FindSuperuser(t) PROVE FlagsFollowRoles'
  <2>1. UNCHANGED <<assigned, grants, flags, drifted>>
    BY <1>9 DEF FindSuperuser, Finds, GoTo, tableVars
  <2>. QED
    BY <2>1 DEF FlagsFollowRoles, Derived
<1>10. ASSUME NEW t \in Transactions, SaveFlags(t) PROVE FlagsFollowRoles'
  <2>1. UNCHANGED <<assigned, grants, flags, drifted>>
    BY <1>10 DEF SaveFlags, SaveFlagsIf, Writes, GoTo, tableVars
  <2>. QED
    BY <2>1 DEF FlagsFollowRoles, Derived
<1>11. ASSUME NEW t \in Transactions, Commit(t) PROVE FlagsFollowRoles'
  <2> DEFINE Touched == Holders(pairs[t] \cup gone[t])
  <2>1. /\ flags' = [u \in Users |-> IF u \in DOMAIN written[t] THEN written[t][u] ELSE flags[u]]
        /\ assigned' = Visible(t) /\ UNCHANGED grants
        /\ pc[t] = "synced" \/ (pc[t] = "changed" /\ todo[t] = {})
        /\ drifted' = IF overtaken[t] THEN (drifted \cup Touched) \cup DOMAIN written[t]
                      ELSE (drifted \cup Touched) \ Synced(t)
    BY <1>11 DEF Commit
  <2>2. Shape(t)
    BY DEF Shaped
  <2>3. \A u \in Users : flags'[u] = Effective(t, u)
    BY <2>1 DEF Effective
  <2>4. \A u \in Users : Derived(u)' = Rights0(t, u) \cap Flags
    <3>1. \A u \in Users : Derived(u)' = Rights0(t, u)
      BY <2>1 DEF Derived, Rights0, Granted, RolesOf
    <3>2. \A u \in Users : Rights0(t, u) \subseteq Flags
      BY DEF Rights0, Granted, RolesOf, TablesOK
    <3>. QED
      BY <3>1, <3>2
  <2>5. ASSUME NEW u \in Users, u \notin Touched PROVE Derived(u)' = Derived(u)
    <3>1. \A x \in AllRoles : <<u, x>> \notin pairs[t] \cup gone[t]
      <4>1. \A x \in AllRoles : <<u, x>> \in pairs[t] \cup gone[t] => <<u, x>>[1] \in Touched
        BY DEF Holders
      <4>. QED
        BY <2>5, <4>1
    <3>2. RolesOf(u, assigned') = RolesOf(u, assigned)
      BY <2>1, <3>1 DEF RolesOf, Visible
    <3>. QED
      BY <2>1, <3>2 DEF Derived, Granted
  <2> HIDE DEF Touched
  <2>6. ASSUME NEW u \in Users \ drifted' PROVE flags'[u] = Derived(u)'
    <3>1. CASE overtaken[t]
      <4>1. u \notin drifted /\ u \notin Touched /\ u \notin DOMAIN written[t]
        BY <2>1, <3>1
      <4>. QED
        BY <2>1, <2>5, <4>1 DEF FlagsFollowRoles
    <3>2. CASE ~overtaken[t] /\ u \in Synced(t)
      <4>1. Current(t)
        BY <3>2 DEF UpToDate
      <4>2. u \notin todo[t]
        BY <2>1, <2>2, <3>2 DEF Shape, Synced, Holders
      <4>3. Effective(t, u) = Rights0(t, u) \cap Flags
        BY <3>2, <4>1, <4>2 DEF Current
      <4>. QED
        BY <2>3, <2>4, <4>3
    <3>3. CASE ~overtaken[t] /\ u \notin Synced(t)
      <4>1. Current(t) /\ u \notin drifted /\ u \notin Touched
        BY <2>1, <3>3 DEF UpToDate
      <4>2. u \in DOMAIN written[t] => u \in todo[t]
        BY <3>3, <4>1 DEF Current
      <4>3. Effective(t, u) = flags[u]
        BY <4>1, <4>2 DEF Current, Effective
      <4>. QED
        BY <2>3, <2>5, <3>3, <4>1, <4>3 DEF FlagsFollowRoles
    <3>. QED
      BY <3>1, <3>2, <3>3
  <2>. QED
    BY <2>6 DEF FlagsFollowRoles
<1>12. ASSUME NEW t \in Transactions, Rollback(t) PROVE FlagsFollowRoles'
  <2>1. UNCHANGED <<assigned, grants, flags, drifted>>
    BY <1>12 DEF Rollback, End, GoTo, tableVars
  <2>. QED
    BY <2>1 DEF FlagsFollowRoles, Derived
<1>13. ASSUME NEW x \in AllRoles, NEW rights \in SUBSET Flags,
         EditRole(x, rights) PROVE FlagsFollowRoles'
  <2>1. PICK new : /\ grants' = new /\ UNCHANGED <<assigned, flags>>
                   /\ drifted' = drifted \cup
                         {z \in Users : \E y \in RolesOf(z, assigned) :
                                          new[y] # grants[y]}
    BY <1>13 DEF EditRole, Regrant
  <2>2. ASSUME NEW z \in Users \ drifted' PROVE Derived(z)' = Derived(z)
    <3>1. \A y \in RolesOf(z, assigned) : grants'[y] = grants[y]
      BY <2>1, <2>2
    <3>2. RolesOf(z, assigned') = RolesOf(z, assigned)
      BY <2>1
    <3>. QED
      BY <3>1, <3>2 DEF Derived, Granted
  <2>. QED
    BY <2>1, <2>2 DEF FlagsFollowRoles
<1>14. ASSUME SeedRoles PROVE FlagsFollowRoles'
  <2>1. PICK new : /\ grants' = new /\ UNCHANGED <<assigned, flags>>
                   /\ drifted' = drifted \cup
                         {z \in Users : \E y \in RolesOf(z, assigned) :
                                          new[y] # grants[y]}
    BY <1>14 DEF SeedRoles, Regrant
  <2>2. ASSUME NEW z \in Users \ drifted' PROVE Derived(z)' = Derived(z)
    <3>1. \A y \in RolesOf(z, assigned) : grants'[y] = grants[y]
      BY <2>1, <2>2
    <3>2. RolesOf(z, assigned') = RolesOf(z, assigned)
      BY <2>1
    <3>. QED
      BY <3>1, <3>2 DEF Derived, Granted
  <2>. QED
    BY <2>1, <2>2 DEF FlagsFollowRoles
<1>15. ASSUME NEW u \in Users, NEW by_hand \in SUBSET Flags,
         EditFlags(u, by_hand) PROVE FlagsFollowRoles'
  <2>1. /\ flags' = [flags EXCEPT ![u] = by_hand] /\ drifted' = drifted \cup {u}
        /\ UNCHANGED <<assigned, grants>>
    BY <1>15 DEF EditFlags
  <2>2. \A z \in Users : Derived(z)' = Derived(z)
    BY <2>1 DEF Derived, Granted, RolesOf
  <2>. QED
    BY <2>1, <2>2 DEF FlagsFollowRoles, TablesOK
<1>16. ASSUME NEW t \in Transactions, NEW p \in assigned, NEW u \in Users,
         NEW x \in AllRoles, Move(t, p, u, x) PROVE FlagsFollowRoles'
  <2>1. UNCHANGED <<assigned, grants, flags, drifted>>
    BY <1>16 DEF Move, Begin, GoTo, tableVars
  <2>. QED
    BY <2>1 DEF FlagsFollowRoles, Derived
<1>17. CASE UNCHANGED vars
  BY <1>17 DEF vars, tableVars, FlagsFollowRoles, Derived
<1>. QED
  BY <1>1, <1>2, <1>3, <1>4, <1>5, <1>6, <1>7, <1>8, <1>9,
     <1>10, <1>11, <1>12, <1>13, <1>14, <1>15, <1>16, <1>17
     DEF Next, Assigning

LEMMA AssignedStep == Shaped /\ AssignedRolesExist /\ [Next]_vars => AssignedRolesExist'
<1> SUFFICES ASSUME Shaped, AssignedRolesExist, [Next]_vars PROVE AssignedRolesExist'
  OBVIOUS
<1> USE DEF AssignedRolesExist, tableVars
<1>1. ASSUME NEW t \in Transactions, NEW u \in Users, NEW x \in AllRoles,
         Grant(t, u, x) PROVE AssignedRolesExist'
  BY <1>1 DEF Grant, Begin, GoTo
<1>2. ASSUME NEW t \in Transactions, NEW u \in Users, NEW x \in AllRoles,
         Revoke(t, u, x) PROVE AssignedRolesExist'
  BY <1>2 DEF Revoke, Begin, GoTo
<1>3. ASSUME NEW t \in Transactions, NEW x \in AllRoles,
         Drop(t, x) PROVE AssignedRolesExist'
  BY <1>3 DEF Drop, Begin, GoTo
<1>4. ASSUME NEW t \in Transactions, NEW u \in Users,
         SetPassword(t, u) PROVE AssignedRolesExist'
  BY <1>4 DEF SetPassword, Begin, GoTo
<1>5. ASSUME NEW t \in Transactions, NEW u \in Users,
         Load(t, u) PROVE AssignedRolesExist'
  BY <1>5 DEF Load
<1>6. ASSUME NEW t \in Transactions, SaveUser(t) PROVE AssignedRolesExist'
  BY <1>6 DEF SaveUser, Writes, GoTo
<1>7. ASSUME NEW t \in Transactions, Change(t) PROVE AssignedRolesExist'
  BY <1>7 DEF Change, GoTo
<1>8. ASSUME NEW t \in Transactions, FindAdmin(t) PROVE AssignedRolesExist'
  BY <1>8 DEF FindAdmin, Finds, GoTo
<1>9. ASSUME NEW t \in Transactions, FindSuperuser(t) PROVE AssignedRolesExist'
  BY <1>9 DEF FindSuperuser, Finds, GoTo
<1>10. ASSUME NEW t \in Transactions, SaveFlags(t) PROVE AssignedRolesExist'
  BY <1>10 DEF SaveFlags, SaveFlagsIf, Writes, GoTo
<1>11. ASSUME NEW t \in Transactions, Commit(t) PROVE AssignedRolesExist'
  <2>1. /\ roles' = roles \ dropped[t] /\ assigned' = Visible(t)
        /\ \A p \in pairs[t] : p[2] \in roles
        /\ \A p \in assigned \ gone[t] : p[2] \notin dropped[t]
    BY <1>11 DEF Commit, KeysResolve
  <2>2. pairs[t] # {} => dropped[t] = {}
    BY DEF Shaped, Shape
  <2>. QED
    BY <2>1, <2>2 DEF AssignedRolesExist, Visible
<1>12. ASSUME NEW t \in Transactions, Rollback(t) PROVE AssignedRolesExist'
  BY <1>12 DEF Rollback, End, GoTo
<1>13. ASSUME NEW x \in AllRoles, NEW rights \in SUBSET Flags,
         EditRole(x, rights) PROVE AssignedRolesExist'
  BY <1>13 DEF EditRole, Regrant
<1>14. ASSUME SeedRoles PROVE AssignedRolesExist'
  BY <1>14 DEF SeedRoles, Regrant
<1>15. ASSUME NEW u \in Users, NEW by_hand \in SUBSET Flags,
         EditFlags(u, by_hand) PROVE AssignedRolesExist'
  BY <1>15 DEF EditFlags
<1>16. ASSUME NEW t \in Transactions, NEW p \in assigned, NEW u \in Users,
         NEW x \in AllRoles, Move(t, p, u, x) PROVE AssignedRolesExist'
  BY <1>16 DEF Move, Begin, GoTo
<1>17. CASE UNCHANGED vars
  BY <1>17 DEF vars
<1>. QED
  BY <1>1, <1>2, <1>3, <1>4, <1>5, <1>6, <1>7, <1>8, <1>9,
     <1>10, <1>11, <1>12, <1>13, <1>14, <1>15, <1>16, <1>17
     DEF Next, Assigning

----------------------------------------------------------------------------
(* Theorems *)

Inv == TablesOK /\ TransactionsOK /\ Shaped

LEMMA InitHolds ==
  Init => Inv /\ UpToDate /\ FlagsFollowRoles /\ AssignedRolesExist
<1> SUFFICES ASSUME Init
             PROVE  Inv /\ UpToDate /\ FlagsFollowRoles /\ AssignedRolesExist
  OBVIOUS
<1>1. flags = [u \in Users |-> Derived(u)] /\ drifted = {}
  BY DEF Init
<1>2. TablesOK
  <2>1. grants \in [AllRoles -> SUBSET Flags]
    BY DEF Init
  <2>2. \A u \in Users : Derived(u) \subseteq Flags
    BY <2>1 DEF Derived, Granted, RolesOf
  <2>. QED
    BY <1>1, <2>1, <2>2, MaxEditsIsANumber DEF Init, TablesOK
<1>3. TransactionsOK
  BY NoneWritten DEF Init, TransactionsOK, Step
<1>5. Shaped
  BY NoneWritten DEF Init, Shaped, Shape
<1>6. UpToDate
  BY NoneWritten DEF Init, UpToDate, Current, Synced, Holders
<1>7. FlagsFollowRoles
  BY <1>1 DEF FlagsFollowRoles
<1>8. AssignedRolesExist
  BY DEF Init, AssignedRolesExist
<1>. QED
  BY <1>2, <1>3, <1>5, <1>6, <1>7, <1>8 DEF Inv

LEMMA InvHolds == Spec => []Inv
<1>1. Inv /\ [Next]_vars => Inv'
  BY TablesStep, TransactionsStep, ShapedStep DEF Inv
<1>. QED
  BY <1>1, InitHolds, PTL DEF Spec

\* Types, whoever commits when.
THEOREM TypesAreCorrect == Spec => []TypeOK
<1>1. Inv => TypeOK
  BY TypesAre DEF Inv
<1>. QED
  BY <1>1, InvHolds, PTL

\* The derived flags are what the roles grant, however changes of assignments overlap; but
\* for the users a role was moved away from, whose role or flags were edited by hand, or
\* whose assignments changed in a transaction that was overtaken by another.
THEOREM FlagsAreDerived == Spec => []FlagsFollowRoles
<1>1. Inv /\ Inv' /\ UpToDate /\ FlagsFollowRoles /\ [Next]_vars => (UpToDate /\ FlagsFollowRoles)'
  BY UpToDateStep, FlagsStep DEF Inv
<1>. QED
  BY <1>1, InitHolds, InvHolds, PTL DEF Spec

\* No role that is gone is still assigned.
THEOREM NoRoleIsGone == Spec => []AssignedRolesExist
<1>1. Inv /\ AssignedRolesExist /\ [Next]_vars => AssignedRolesExist'
  BY AssignedStep DEF Inv
<1>. QED
  BY <1>1, InitHolds, InvHolds, PTL DEF Spec
================================================================================
