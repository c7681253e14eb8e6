--------------------------- MODULE Registry_proofs ---------------------------
(***************************************************************************)
(* What holds of Registry for every set of rows and of requests.           *)
(***************************************************************************)
EXTENDS Registry, TLAPS

\* What is followed keeps its type; once rows are mixed only the use of identities is.
LEMMA FollowFacts ==
  ASSUME NEW lasts \in [Ids -> Status \cup {"none", "deleted"}],
         NEW wants \in [Servers -> SUBSET Records],
         Follow(lasts, wants)
  PROVE  /\ last' \in [Ids -> Status \cup {"none", "deleted"}]
         /\ wanted' \in [Servers -> SUBSET Records]
         /\ \A x \in Ids : last'[x] = "none" <=> lasts[x] = "none"
         /\ ~mixed' => last' = lasts /\ wanted' = wants
  BY DEF Follow

LEMMA TypeStep == TypeOK /\ [Next]_vars => TypeOK'
<1> SUFFICES ASSUME TypeOK, [Next]_vars PROVE TypeOK'
  OBVIOUS
<1> USE UnknownIsAStatus, NoRowIsNoId
        DEF TypeOK, Step, Ids, rowVars, requestVars, histVars, GoTo, Did, Fails
<1>1. ASSUME NEW r \in Requests, NEW x \in Ids, New(r, x) PROVE TypeOK'
  BY <1>1 DEF New, Begin
<1>2. ASSUME NEW r \in Requests, NEW x \in Ids, NEW operation \in {"edit", "delete"},
             Load(r, operation, x)
      PROVE  TypeOK'
  BY <1>2 DEF Load, Begin
<1>3. ASSUME NEW r \in Requests, NEW fields \in SUBSET Fields, NEW selection \in SUBSET Records,
             Validate(r, fields, selection)
      PROVE  TypeOK'
  <2>1. UNION fields \subseteq Records
    BY DEF Fields, Records, Protecting
  <2>2. /\ given' = [given EXCEPT ![r] = UNION fields]
        /\ asked' = [asked EXCEPT ![r] = selection \cup (@ \ UNION fields)]
        /\ pc' = [pc EXCEPT ![r] = "valid"] /\ pc[r] = "loaded"
        /\ UNCHANGED <<rows, refs, status, op, target, loaded, did, last, wanted, mixed>>
    BY <1>3 DEF Validate
  <2>3. given' \in [Requests -> SUBSET Records] /\ asked' \in [Requests -> SUBSET Records]
    BY <2>1, <2>2
  <2>. QED
    BY <2>2, <2>3
<1>4. ASSUME NEW r \in Requests, Reject(r) PROVE TypeOK'
  BY <1>4 DEF Reject, Done
<1>5. ASSUME NEW r \in Requests, Save(r) PROVE TypeOK'
  <2> DEFINE lasts == IF op[r] = "create" THEN [last EXCEPT ![target[r]] = Unknown] ELSE last
  <2>1. Follow(lasts, WantedAfter(r))
    BY <1>5 DEF Save, SaveWith
  <2>2. /\ lasts \in [Ids -> Status \cup {"none", "deleted"}]
        /\ WantedAfter(r) \in [Servers -> SUBSET Records]
    BY DEF WantedAfter
  <2>3. /\ last' \in [Ids -> Status \cup {"none", "deleted"}]
        /\ wanted' \in [Servers -> SUBSET Records]
    BY <2>1, <2>2, FollowFacts
  <2>. QED
    BY <1>5, <2>3 DEF Save, SaveWith
<1>6. ASSUME NEW r \in Requests, SaveRefused(r) PROVE TypeOK'
  BY <1>6 DEF SaveRefused, Done
<1>7. ASSUME NEW r \in Requests, SaveGroups(r) PROVE TypeOK'
  <2>1. refs' \in [Servers -> SUBSET Records] /\ mixed' \in BOOLEAN
    <3>1. CASE GroupsGiven(r)
      <4>1. refs' = [refs EXCEPT ![target[r]] = (@ \ Groups) \cup (asked[r] \cap Groups)]
        BY <1>7, <3>1 DEF SaveGroups
      <4>2. mixed' = (mixed \/ wanted[target[r]] \cap Groups # asked[r] \cap Groups)
        BY <1>7, <3>1 DEF SaveGroups
      <4>3. refs' \in [Servers -> SUBSET Records]
        BY <4>1
      <4>. QED
        BY <4>2, <4>3
    <3>2. CASE ~GroupsGiven(r)
      BY <1>7, <3>2 DEF SaveGroups
    <3>. QED
      BY <3>1, <3>2
  <2>2. /\ pc' = [pc EXCEPT ![r] = "written"] /\ pc[r] = "saved"
        /\ given' = [given EXCEPT ![r] = {}] /\ asked' = [asked EXCEPT ![r] = {}]
        /\ UNCHANGED <<rows, status, op, target, loaded, did>>
    BY <1>7 DEF SaveGroups
  <2>3. /\ last' \in [Ids -> Status \cup {"none", "deleted"}]
        /\ wanted' \in [Servers -> SUBSET Records]
    BY <1>7, FollowFacts DEF SaveGroups
  <2>. QED
    BY <2>1, <2>2, <2>3
<1>8. ASSUME NEW r \in Requests, GroupsRefused(r) PROVE TypeOK'
  <2>1. /\ last' \in [Ids -> Status \cup {"none", "deleted"}]
        /\ wanted' \in [Servers -> SUBSET Records]
    BY <1>8, FollowFacts DEF GroupsRefused
  <2>. QED
    BY <1>8, <2>1 DEF GroupsRefused, Done
<1>9. ASSUME NEW r \in Requests, Collect(r) PROVE TypeOK'
  BY <1>9 DEF Collect
<1>10. ASSUME NEW r \in Requests, Protected(r) PROVE TypeOK'
  BY <1>10 DEF Protected, Done
<1>11. ASSUME NEW r \in Requests, Delete(r) PROVE TypeOK'
  <2> DEFINE lasts == [last EXCEPT ![target[r]] = "deleted"]
  <2>1. Follow(lasts, Without(target[r], wanted))
    BY <1>11 DEF Delete, DeleteIf
  <2>2. /\ lasts \in [Ids -> Status \cup {"none", "deleted"}]
        /\ Without(target[r], wanted) \in [Servers -> SUBSET Records]
        /\ Without(target[r], refs) \in [Servers -> SUBSET Records]
    BY DEF Without
  <2>3. /\ last' \in [Ids -> Status \cup {"none", "deleted"}]
        /\ wanted' \in [Servers -> SUBSET Records]
    BY <2>1, <2>2, FollowFacts
  <2>. QED
    BY <1>11, <2>2, <2>3 DEF Delete, DeleteIf
<1>12. ASSUME NEW r \in Requests, DeleteRefused(r) PROVE TypeOK'
  BY <1>12 DEF DeleteRefused, Done
<1>13. ASSUME NEW r \in Requests, Record(r) PROVE TypeOK'
  BY <1>13 DEF Record, RecordThis, Done
<1>17. ASSUME NEW r \in Requests, RecordRefused(r) PROVE TypeOK'
  BY <1>17 DEF RecordRefused, Done
<1>14. ASSUME NEW r \in Requests, Dies(r) PROVE TypeOK'
  <2>1. /\ last' \in [Ids -> Status \cup {"none", "deleted"}]
        /\ wanted' \in [Servers -> SUBSET Records]
    BY <1>14, FollowFacts DEF Dies
  <2>. QED
    BY <1>14, <2>1 DEF Dies, Done
<1>15. ASSUME NEW s \in Servers, NEW observed \in Status, Observe(s, observed)
      PROVE  TypeOK'
  <2> DEFINE lasts == [last EXCEPT ![s] = observed]
  <2>1. Follow(lasts, wanted) /\ lasts \in [Ids -> Status \cup {"none", "deleted"}]
    BY <1>15 DEF Observe
  <2>2. /\ last' \in [Ids -> Status \cup {"none", "deleted"}]
        /\ wanted' \in [Servers -> SUBSET Records]
    BY <2>1, FollowFacts
  <2>. QED
    BY <1>15, <2>2 DEF Observe
<1>16. CASE UNCHANGED vars
  BY <1>16 DEF vars
<1>. QED
  BY <1>1, <1>2, <1>3, <1>4, <1>5, <1>6, <1>7, <1>8,
     <1>9, <1>10, <1>11, <1>12, <1>13, <1>14, <1>15, <1>16, <1>17
     DEF Next, Saving, Deleting

\* Every variable keeps its type.
THEOREM TypesAreCorrect == Spec => []TypeOK
<1>1. Init => TypeOK
  <2> SUFFICES ASSUME Init PROVE TypeOK
    OBVIOUS
  <2>1. rows \subseteq Ids /\ mixed \in BOOLEAN
    BY DEF Init
  <2>2. \A r \in Requests : pc[r] = "idle" <=> target[r] = NoRow
    BY DEF Init
  <2>3. /\ status \in [Servers -> Status] /\ loaded \in [Requests -> Status]
        /\ pc \in [Requests -> Step] /\ op \in [Requests -> {"create", "edit", "delete"}]
        /\ target \in [Requests -> Ids \cup {NoRow}]
        /\ last \in [Ids -> Status \cup {"none", "deleted"}]
    BY UnknownIsAStatus DEF Init, Step
  <2>4. /\ refs \in [Servers -> SUBSET Records] /\ wanted \in [Servers -> SUBSET Records]
        /\ asked \in [Requests -> SUBSET Records]
        /\ given \in [Requests -> SUBSET Records]
        /\ did \in [Requests -> {"nothing", "wrote"}]
    BY DEF Init
  <2>. QED
    BY <2>1, <2>2, <2>3, <2>4 DEF TypeOK
<1>. QED
  BY <1>1, TypeStep, PTL DEF Spec

----------------------------------------------------------------------------
(* References.  A form is validated long before it is saved; what keeps its  *)
(* references from dangling is that each write looks again.                  *)

LEMMA ReferencesStep == TypeOK /\ ReferencesResolve /\ [Next]_vars => ReferencesResolve'
<1> SUFFICES ASSUME TypeOK, ReferencesResolve, [Next]_vars PROVE ReferencesResolve'
  OBVIOUS
<1> USE DEF TypeOK, ReferencesResolve, InUse, rowVars, requestVars, histVars, GoTo
<1>1. ASSUME NEW r \in Requests, NEW x \in Ids, New(r, x) PROVE ReferencesResolve'
  BY <1>1 DEF New, Begin
<1>2. ASSUME NEW r \in Requests, NEW x \in Ids, NEW operation \in {"edit", "delete"},
             Load(r, operation, x)
      PROVE  ReferencesResolve'
  BY <1>2 DEF Load, Begin
<1>3. ASSUME NEW r \in Requests, NEW fields \in SUBSET Fields, NEW selection \in SUBSET Records,
             Validate(r, fields, selection)
      PROVE  ReferencesResolve'
  BY <1>3 DEF Validate
<1>4. ASSUME NEW r \in Requests, Reject(r) PROVE ReferencesResolve'
  BY <1>4 DEF Reject, Done
<1>5. ASSUME NEW r \in Requests, Save(r) PROVE ReferencesResolve'
  <2>1. rows' = rows \cup {target[r]} /\ KeysResolve(r)
    BY <1>5 DEF Save, SaveWith
  <2>2. CASE target[r] \in Servers
    <3>1. refs' = [refs EXCEPT ![target[r]] = (@ \cap Groups) \cup (asked[r] \ Groups)]
      BY <1>5, <2>2 DEF Save, SaveWith
    <3>. QED
      BY <2>1, <2>2, <3>1 DEF KeysResolve
  <2>3. CASE target[r] \notin Servers
    <3>1. refs' = refs
      BY <1>5, <2>3 DEF Save, SaveWith
    <3>. QED
      BY <2>1, <3>1
  <2>. QED
    BY <2>2, <2>3
<1>6. ASSUME NEW r \in Requests, SaveRefused(r) PROVE ReferencesResolve'
  BY <1>6 DEF SaveRefused, Done
<1>7. ASSUME NEW r \in Requests, SaveGroups(r) PROVE ReferencesResolve'
  <2>1. rows' = rows /\ GroupsResolve(r)
    BY <1>7 DEF SaveGroups
  <2>2. CASE GroupsGiven(r)
    <3>1. /\ refs' = [refs EXCEPT ![target[r]] = (@ \ Groups) \cup (asked[r] \cap Groups)]
          /\ target[r] \in Servers
      BY <1>7, <2>2 DEF SaveGroups, GroupsGiven
    <3>. QED
      BY <2>1, <3>1 DEF GroupsResolve
  <2>3. CASE ~GroupsGiven(r)
    <3>1. refs' = refs
      BY <1>7, <2>3 DEF SaveGroups
    <3>. QED
      BY <2>1, <3>1
  <2>. QED
    BY <2>2, <2>3
<1>8. ASSUME NEW r \in Requests, GroupsRefused(r) PROVE ReferencesResolve'
  BY <1>8 DEF GroupsRefused, Done
<1>9. ASSUME NEW r \in Requests, Collect(r) PROVE ReferencesResolve'
  BY <1>9 DEF Collect
<1>10. ASSUME NEW r \in Requests, Protected(r) PROVE ReferencesResolve'
  BY <1>10 DEF Protected, Done
<1>11. ASSUME NEW r \in Requests, Delete(r) PROVE ReferencesResolve'
  <2>1. rows' = rows \ {target[r]}
    BY <1>11 DEF Delete, DeleteIf
  <2>2. CASE target[r] \in Protecting
    <3>1. refs' = refs /\ ~InUse(target[r]) /\ target[r] \notin Servers
      BY <1>11, <2>2, ServersAreNoRecords DEF Delete, DeleteIf, Without, Records
    <3>. QED
      BY <2>1, <3>1
  <2>3. CASE target[r] \notin Protecting
    <3>1. refs' = [s \in Servers |-> IF s = target[r] THEN {} ELSE refs[s] \ {target[r]}]
      BY <1>11, <2>3 DEF Delete, DeleteIf, Without
    <3>. QED
      BY <2>1, <3>1
  <2>. QED
    BY <2>2, <2>3
<1>12. ASSUME NEW r \in Requests, DeleteRefused(r) PROVE ReferencesResolve'
  BY <1>12 DEF DeleteRefused, Done
<1>13. ASSUME NEW r \in Requests, Record(r) PROVE ReferencesResolve'
  BY <1>13 DEF Record, RecordThis, Done
<1>17. ASSUME NEW r \in Requests, RecordRefused(r) PROVE ReferencesResolve'
  BY <1>17 DEF RecordRefused, Done
<1>14. ASSUME NEW r \in Requests, Dies(r) PROVE ReferencesResolve'
  BY <1>14 DEF Dies, Done
<1>15. ASSUME NEW s \in Servers, NEW observed \in Status, Observe(s, observed)
      PROVE  ReferencesResolve'
  BY <1>15 DEF Observe
<1>16. CASE UNCHANGED vars
  BY <1>16 DEF vars
<1>. QED
  BY <1>1, <1>2, <1>3, <1>4, <1>5, <1>6, <1>7, <1>8,
     <1>9, <1>10, <1>11, <1>12, <1>13, <1>14, <1>15, <1>16, <1>17
     DEF Next, Saving, Deleting

\* No server refers to a row that is not there, whatever overlaps.
THEOREM ReferencesAlwaysResolve == Spec => []ReferencesResolve
<1>1. Init => ReferencesResolve
  BY DEF Init, ReferencesResolve
<1>. QED
  BY <1>1, ReferencesStep, TypesAreCorrect, PTL DEF Spec

----------------------------------------------------------------------------
(* The audit trail.  Before its first write a request has nothing to record. *)

WriteInv ==
    /\ EveryWriteIsRecorded
    /\ \A r \in Requests : pc[r] \in {"loaded", "valid", "collected"} => did[r] # "wrote"

LEMMA WriteStep == TypeOK /\ WriteInv /\ [Next]_vars => WriteInv'
<1> SUFFICES ASSUME TypeOK, WriteInv, [Next]_vars PROVE WriteInv'
  OBVIOUS
<1> USE DEF TypeOK, WriteInv, EveryWriteIsRecorded, rowVars, requestVars, histVars,
        GoTo, Did, Fails
<1>1. ASSUME NEW r \in Requests, NEW x \in Ids, New(r, x) PROVE WriteInv'
  BY <1>1 DEF New, Begin
<1>2. ASSUME NEW r \in Requests, NEW x \in Ids, NEW operation \in {"edit", "delete"},
             Load(r, operation, x)
      PROVE  WriteInv'
  BY <1>2 DEF Load, Begin
<1>3. ASSUME NEW r \in Requests, NEW fields \in SUBSET Fields, NEW selection \in SUBSET Records,
             Validate(r, fields, selection)
      PROVE  WriteInv'
  BY <1>3 DEF Validate
<1>4. ASSUME NEW r \in Requests, Reject(r) PROVE WriteInv'
  BY <1>4 DEF Reject, Done
<1>5. ASSUME NEW r \in Requests, Save(r) PROVE WriteInv'
  BY <1>5 DEF Save, SaveWith
<1>6. ASSUME NEW r \in Requests, SaveRefused(r) PROVE WriteInv'
  BY <1>6 DEF SaveRefused, Done
<1>7. ASSUME NEW r \in Requests, SaveGroups(r) PROVE WriteInv'
  BY <1>7 DEF SaveGroups
<1>8. ASSUME NEW r \in Requests, GroupsRefused(r) PROVE WriteInv'
  BY <1>8 DEF GroupsRefused, Done
<1>9. ASSUME NEW r \in Requests, Collect(r) PROVE WriteInv'
  BY <1>9 DEF Collect
<1>10. ASSUME NEW r \in Requests, Protected(r) PROVE WriteInv'
  BY <1>10 DEF Protected, Done
<1>11. ASSUME NEW r \in Requests, Delete(r) PROVE WriteInv'
  BY <1>11 DEF Delete, DeleteIf, Without
<1>12. ASSUME NEW r \in Requests, DeleteRefused(r) PROVE WriteInv'
  BY <1>12 DEF DeleteRefused, Done
<1>13. ASSUME NEW r \in Requests, Record(r) PROVE WriteInv'
  BY <1>13 DEF Record, RecordThis, Done
<1>17. ASSUME NEW r \in Requests, RecordRefused(r) PROVE WriteInv'
  BY <1>17 DEF RecordRefused, Done
<1>14. ASSUME NEW r \in Requests, Dies(r) PROVE WriteInv'
  BY <1>14 DEF Dies, Done
<1>15. ASSUME NEW s \in Servers, NEW observed \in Status, Observe(s, observed)
      PROVE  WriteInv'
  BY <1>15 DEF Observe
<1>16. CASE UNCHANGED vars
  BY <1>16 DEF vars
<1>. QED
  BY <1>1, <1>2, <1>3, <1>4, <1>5, <1>6, <1>7, <1>8,
     <1>9, <1>10, <1>11, <1>12, <1>13, <1>14, <1>15, <1>16, <1>17
     DEF Next, Saving, Deleting

\* A write without a record is that of a request that died, or failed because the
\* groups of the row it had saved, or its event, were refused.
THEOREM WritesAreRecorded == Spec => []EveryWriteIsRecorded
<1>1. Init => WriteInv
  BY DEF Init, WriteInv, EveryWriteIsRecorded
<1>2. WriteInv => EveryWriteIsRecorded
  BY DEF WriteInv
<1>. QED
  BY <1>1, <1>2, WriteStep, TypesAreCorrect, PTL DEF Spec

----------------------------------------------------------------------------
(* Forms.  The groups are sent or they are not, and a row that is being      *)
(* created has no reference but those that were sent.                        *)

FormFits(r) ==
    /\ Groups \subseteq given[r] \/ given[r] \cap Groups = {}
    /\ pc[r] = "loaded" /\ op[r] = "create" => asked[r] = {}
    /\ pc[r] = "valid" /\ op[r] = "create" => asked[r] \subseteq given[r]

FormsFit == \A r \in Requests : FormFits(r)

LEMMA FormsStep == TypeOK /\ FormsFit /\ [Next]_vars => FormsFit'
<1> SUFFICES ASSUME TypeOK, FormsFit, [Next]_vars PROVE FormsFit'
  OBVIOUS
<1> USE DEF TypeOK, FormsFit, FormFits, rowVars, requestVars, histVars, GoTo
<1>1. ASSUME NEW r \in Requests, NEW x \in Ids, New(r, x) PROVE FormsFit'
  BY <1>1 DEF New, Begin
<1>2. ASSUME NEW r \in Requests, NEW x \in Ids, NEW operation \in {"edit", "delete"},
             Load(r, operation, x)
      PROVE  FormsFit'
  BY <1>2 DEF Load, Begin
<1>3. ASSUME NEW r \in Requests, NEW fields \in SUBSET Fields, NEW selection \in SUBSET Records,
             Validate(r, fields, selection)
      PROVE  FormsFit'
  <2>1. Groups \subseteq UNION fields \/ (UNION fields) \cap Groups = {}
    <3>1. CASE Groups \in fields
      BY <3>1
    <3>2. CASE Groups \notin fields
      <4>1. \A F \in fields : F \cap Groups = {}
        BY <3>2, GroupsAreNotForeignKeys DEF Fields, Protecting
      <4>. QED
        BY <4>1
    <3>. QED
      BY <3>1, <3>2
  <2>2. /\ given' = [given EXCEPT ![r] = UNION fields]
        /\ asked' = [asked EXCEPT ![r] = selection \cup (@ \ UNION fields)]
        /\ pc' = [pc EXCEPT ![r] = "valid"] /\ pc[r] = "loaded" /\ op' = op
        /\ selection \subseteq UNION fields
    BY <1>3 DEF Validate
  <2>3. FormFits(r)'
    <3>1. given'[r] = UNION fields /\ asked'[r] = selection \cup (asked[r] \ UNION fields)
      BY <2>2
    <3>2. op[r] = "create" => asked[r] = {}
      BY <2>2
    <3>. QED
      BY <2>1, <2>2, <3>1, <3>2
  <2>4. \A q \in Requests : q # r => FormFits(q)'
    BY <2>2
  <2>. QED
    BY <2>3, <2>4
<1>4. ASSUME NEW r \in Requests, Save(r) PROVE FormsFit'
  BY <1>4 DEF Save, SaveWith
<1>5. ASSUME NEW r \in Requests, SaveGroups(r) PROVE FormsFit'
  <2>1. /\ pc' = [pc EXCEPT ![r] = "written"]
        /\ given' = [given EXCEPT ![r] = {}] /\ asked' = [asked EXCEPT ![r] = {}]
        /\ op' = op
    BY <1>5 DEF SaveGroups
  <2>. QED
    BY <2>1
<1>6. ASSUME NEW r \in Requests, Done(r) PROVE FormsFit'
  BY <1>6 DEF Done
<1>7. ASSUME NEW r \in Requests, Reject(r) \/ SaveRefused(r) \/ GroupsRefused(r) \/ Protected(r)
                               \/ DeleteRefused(r) \/ Record(r) \/ RecordRefused(r) \/ Dies(r)
      PROVE  FormsFit'
  BY <1>6, <1>7 DEF Reject, SaveRefused, GroupsRefused, Protected, DeleteRefused, Record,
                    RecordRefused, RecordThis, Dies
<1>8. ASSUME NEW r \in Requests, Collect(r) \/ Delete(r) PROVE FormsFit'
  BY <1>8 DEF Collect, Delete, DeleteIf
<1>9. ASSUME NEW s \in Servers, NEW observed \in Status, Observe(s, observed) PROVE FormsFit'
  BY <1>9 DEF Observe
<1>10. CASE UNCHANGED vars
  BY <1>10 DEF vars
<1>. QED
  BY <1>1, <1>2, <1>3, <1>4, <1>5, <1>7, <1>8, <1>9, <1>10 DEF Next, Saving, Deleting

LEMMA FormsAlwaysFit == Spec => []FormsFit
<1>1. Init => FormsFit
  BY DEF Init, FormsFit, FormFits
<1>. QED
  BY <1>1, FormsStep, TypesAreCorrect, PTL DEF Spec

----------------------------------------------------------------------------
(* Decisions.  What makes the instance a request works on good to save whole *)
(* is that nothing else can have touched a row that is being created, and    *)
(* that an instance that was overtaken counts as mixed.                      *)

InstancesFit ==
    /\ \A x \in rows : last[x] # "none"
    /\ \A r \in Requests : pc[r] # "idle" =>
          IF op[r] = "create" /\ pc[r] \in {"loaded", "valid"}
          THEN /\ last[target[r]] = "none"
               /\ loaded[r] = Unknown
               /\ \A q \in Requests \ {r} : target[q] # target[r]
          ELSE last[target[r]] # "none"
    /\ \A r \in Requests : pc[r] \in {"valid", "saved"} => op[r] # "delete"

\* What is to hold of a server as long as nothing is mixed.
Decided(s) ==
    IF s \in rows
    THEN /\ status[s] = last[s]
         /\ refs[s] \ Groups = wanted[s] \ Groups
         /\ \/ refs[s] \cap Groups = wanted[s] \cap Groups
            \/ \E r \in Requests : pc[r] = "saved" /\ target[r] = s /\ GroupsGiven(r)
    ELSE refs[s] = {} /\ wanted[s] = {}

RowsAreThere == rows = {x \in Ids : last[x] \notin {"none", "deleted"}}

DecisionInv ==
    /\ InstancesFit
    /\ ~mixed => RowsAreThere /\ \A s \in Servers : Decided(s)

LEMMA DecisionStep == TypeOK /\ FormsFit /\ DecisionInv /\ [Next]_vars => DecisionInv'
<1> SUFFICES ASSUME TypeOK, FormsFit, DecisionInv, [Next]_vars PROVE DecisionInv'
  OBVIOUS
<1> USE UnknownIsAStatus, NoRowIsNoId DEF TypeOK, Step, Ids
\* A step that leaves the rows alone, and no server with its groups on the way.
<1>0. ASSUME UNCHANGED <<rows, refs, status, last, wanted>>, mixed => mixed',
             ~mixed' => \A q \in Requests : pc[q] = "saved" =>
                 pc'[q] = "saved" /\ target'[q] = target[q] /\ given'[q] = given[q],
             InstancesFit'
      PROVE  DecisionInv'
  <2> SUFFICES ASSUME ~mixed' PROVE RowsAreThere' /\ \A s \in Servers : Decided(s)'
    BY <1>0 DEF DecisionInv
  <2>1. ~mixed /\ RowsAreThere /\ \A s \in Servers : Decided(s)
    BY <1>0 DEF DecisionInv
  <2>2. RowsAreThere'
    BY <1>0, <2>1 DEF RowsAreThere
  <2>3. ASSUME NEW q \in Requests, pc[q] = "saved", GroupsGiven(q)
        PROVE  pc'[q] = "saved" /\ target'[q] = target[q] /\ GroupsGiven(q)'
    BY <1>0, <2>3 DEF GroupsGiven
  <2>. QED
    BY <1>0, <2>1, <2>2, <2>3 DEF Decided
<1> USE DEF rowVars, requestVars, histVars, GoTo, Did, Fails
<1>1. ASSUME NEW r \in Requests, NEW x \in Ids, New(r, x) PROVE DecisionInv'
  <2>1. InstancesFit'
    BY <1>1 DEF New, Begin, DecisionInv, InstancesFit
  <2>. QED
    BY <1>0, <1>1, <2>1 DEF New, Begin
<1>2. ASSUME NEW r \in Requests, NEW x \in Ids, NEW operation \in {"edit", "delete"},
             Load(r, operation, x)
      PROVE  DecisionInv'
  <2>1. InstancesFit'
    BY <1>2 DEF Load, Begin, DecisionInv, InstancesFit
  <2>. QED
    BY <1>0, <1>2, <2>1 DEF Load, Begin
<1>3. ASSUME NEW r \in Requests, NEW fields \in SUBSET Fields, NEW selection \in SUBSET Records,
             Validate(r, fields, selection)
      PROVE  DecisionInv'
  <2>1. InstancesFit'
    BY <1>3 DEF Validate, DecisionInv, InstancesFit
  <2>. QED
    BY <1>0, <1>3, <2>1 DEF Validate
\* A request that is over, and was not about to save groups.
<1>4. ASSUME NEW r \in Requests, Done(r), UNCHANGED <<rows, refs, status>>, mixed => mixed',
             \A x \in Ids : last'[x] = "none" <=> last[x] = "none",
             ~mixed' => last' = last /\ wanted' = wanted /\ pc[r] # "saved"
      PROVE  DecisionInv'
  <2>1. InstancesFit'
    BY <1>4 DEF Done, DecisionInv, InstancesFit
  <2>2. CASE mixed'
    BY <2>1, <2>2 DEF DecisionInv
  <2>3. CASE ~mixed'
    BY <1>0, <1>4, <2>1, <2>3 DEF Done
  <2>. QED
    BY <2>2, <2>3
<1>5. ASSUME NEW r \in Requests, Save(r) PROVE DecisionInv'
  <2>1. pc' = [pc EXCEPT ![r] = "saved"] /\ rows' = rows \cup {target[r]}
    BY <1>5 DEF Save, SaveWith
  <2> DEFINE lasts == IF op[r] = "create" THEN [last EXCEPT ![target[r]] = Unknown] ELSE last
  <2>0. /\ \A x \in Ids : last'[x] = "none" <=> lasts[x] = "none"
        /\ ~mixed' => last' = lasts /\ wanted' = WantedAfter(r)
    <3>1. /\ lasts \in [Ids -> Status \cup {"none", "deleted"}]
          /\ WantedAfter(r) \in [Servers -> SUBSET Records]
      BY DEF WantedAfter
    <3>2. Follow(lasts, WantedAfter(r))
      BY <1>5 DEF Save, SaveWith
    <3>. HIDE DEF lasts
    <3>. QED
      BY <3>1, <3>2, FollowFacts, Zenon
  <2>3. /\ UNCHANGED <<op, target>> /\ pc[r] = "valid" /\ op[r] # "delete"
        /\ loaded' = [loaded EXCEPT ![r] = Unknown]
        /\ given' = [given EXCEPT ![r] = @ \cap Groups]
        /\ mixed' = (mixed \/ Overtaken(r))
    BY <1>5 DEF Save, SaveWith, DecisionInv, InstancesFit
  <2>4. target[r] \in Ids /\ pc[r] # "idle"
    BY <2>3
  <2>5. InstancesFit'
    BY <2>0, <2>1, <2>3, <2>4 DEF DecisionInv, InstancesFit
  <2> SUFFICES ASSUME ~mixed' PROVE RowsAreThere' /\ \A s \in Servers : Decided(s)'
    BY <2>5 DEF DecisionInv
  <2>2. last' = lasts /\ wanted' = WantedAfter(r)
    BY <2>0
  <2>6. ~mixed /\ ~Overtaken(r)
    BY <2>3
  <2>7. RowsAreThere /\ \A s \in Servers : Decided(s)
    BY <2>6 DEF DecisionInv
  <2>8. op[r] = "create" => loaded[r] = Unknown /\ last[target[r]] = "none"
    BY <2>3 DEF DecisionInv, InstancesFit
  <2>9. op[r] # "create" => op[r] = "edit" /\ target[r] \in rows
    BY <2>3, <2>6 DEF Overtaken
  <2>10. RowsAreThere'
    BY <2>1, <2>2, <2>4, <2>7, <2>8, <2>9 DEF RowsAreThere
  <2>11. ASSUME NEW s \in Servers, s # target[r] PROVE Decided(s)'
    <3>1. /\ refs'[s] = refs[s] /\ status'[s] = status[s] /\ wanted'[s] = wanted[s]
          /\ last'[s] = last[s] /\ (s \in rows' <=> s \in rows)
      <4>1. CASE target[r] \in Servers
        BY <1>5, <2>1, <2>2, <2>11, <4>1 DEF Save, SaveWith, WantedAfter
      <4>2. CASE target[r] \notin Servers
        BY <1>5, <2>1, <2>2, <2>11, <4>2 DEF Save, SaveWith, WantedAfter
      <4>. QED
        BY <4>1, <4>2
    <3>2. ASSUME NEW q \in Requests, pc[q] = "saved", GroupsGiven(q)
          PROVE  pc'[q] = "saved" /\ target'[q] = target[q] /\ GroupsGiven(q)'
      BY <2>1, <2>3, <3>2 DEF GroupsGiven
    <3>. QED
      BY <2>7, <3>1, <3>2 DEF Decided
  <2>12. ASSUME NEW t \in Servers, t = target[r] PROVE Decided(t)'
    <3>1. /\ refs' = [refs EXCEPT ![t] = (@ \cap Groups) \cup (asked[r] \ Groups)]
          /\ status' = [status EXCEPT ![t] = loaded[r]]
          /\ wanted' = [wanted EXCEPT ![t] = (@ \ given[r]) \cup (asked[r] \cap given[r] \cap rows)]
          /\ asked[r] \ Groups \subseteq rows
      BY <1>5, <2>2, <2>12 DEF Save, SaveWith, KeysResolve, WantedAfter
    <3>2. /\ refs'[t] = (refs[t] \cap Groups) \cup (asked[r] \ Groups)
          /\ status'[t] = loaded[r]
          /\ wanted'[t] = (wanted[t] \ given[r]) \cup (asked[r] \cap given[r] \cap rows)
      BY <2>12, <3>1
    <3>3. op[r] = "create" => refs[t] = {} /\ wanted[t] = {} /\ asked[r] \subseteq given[r]
      <4>1. op[r] = "create" => t \notin rows
        BY <2>8, <2>12 DEF DecisionInv, InstancesFit
      <4>2. FormFits(r)
        BY DEF FormsFit
      <4>. QED
        BY <2>3, <2>7, <2>12, <4>1, <4>2 DEF Decided, FormFits
    <3>4. op[r] # "create" => /\ loaded[r] = last[t]
                              /\ (refs[t] \ Groups) \ given[r] = (asked[r] \ Groups) \ given[r]
                              /\ refs[t] \ Groups = wanted[t] \ Groups
      BY <2>6, <2>7, <2>9, <2>12 DEF Overtaken, Decided
    <3>5. status'[t] = last'[t]
      BY <2>2, <2>4, <2>8, <2>12, <3>2, <3>4
    <3>6. refs'[t] \ Groups = wanted'[t] \ Groups
      <4>1. CASE op[r] = "create"
        BY <3>1, <3>2, <3>3, <4>1
      <4>2. CASE op[r] # "create"
        BY <3>1, <3>2, <3>4, <4>2
      <4>. QED
        BY <4>1, <4>2
    <3>7. CASE Groups \subseteq given[r]
      <4>1. pc'[r] = "saved" /\ target'[r] = t /\ GroupsGiven(r)'
        BY <2>1, <2>3, <2>12, <3>7 DEF GroupsGiven
      <4>. QED
        BY <2>1, <2>12, <3>5, <3>6, <4>1 DEF Decided
    <3>8. CASE ~(Groups \subseteq given[r])
      <4>1. given[r] \cap Groups = {}
        BY <3>8 DEF FormsFit, FormFits
      <4>2. refs'[t] \cap Groups = refs[t] \cap Groups /\ wanted'[t] \cap Groups = wanted[t] \cap Groups
        BY <3>2, <4>1
      <4>3. ASSUME NEW q \in Requests, pc[q] = "saved", GroupsGiven(q)
            PROVE  pc'[q] = "saved" /\ target'[q] = target[q] /\ GroupsGiven(q)'
        BY <2>1, <2>3, <4>3 DEF GroupsGiven
      <4>4. \/ refs[t] \cap Groups = wanted[t] \cap Groups
            \/ \E q \in Requests : pc[q] = "saved" /\ target[q] = t /\ GroupsGiven(q)
        BY <2>7, <2>12 DEF Decided
      <4>5. \/ refs'[t] \cap Groups = wanted'[t] \cap Groups
            \/ \E q \in Requests : pc'[q] = "saved" /\ target'[q] = t /\ GroupsGiven(q)'
        BY <4>2, <4>3, <4>4
      <4>. QED
        BY <2>1, <2>3, <2>12, <3>5, <3>6, <4>5 DEF Decided
    <3>. QED
      BY <3>7, <3>8
  <2>. QED
    BY <2>10, <2>11, <2>12
<1>6. ASSUME NEW r \in Requests, SaveGroups(r) PROVE DecisionInv'
  <2>1. /\ pc' = [pc EXCEPT ![r] = "written"] /\ pc[r] = "saved"
        /\ given' = [given EXCEPT ![r] = {}]
        /\ UNCHANGED <<rows, status, op, target, loaded>>
        /\ GroupsResolve(r)
    BY <1>6 DEF SaveGroups
  <2>0. /\ \A x \in Ids : last'[x] = "none" <=> last[x] = "none"
        /\ ~mixed' => last' = last /\ wanted' = wanted
    BY <1>6, FollowFacts DEF SaveGroups
  <2>2. InstancesFit'
    BY <2>0, <2>1 DEF DecisionInv, InstancesFit
  <2> SUFFICES ASSUME ~mixed' PROVE RowsAreThere' /\ \A s \in Servers : Decided(s)'
    BY <2>2 DEF DecisionInv
  <2>3. ~mixed /\ wanted' = wanted /\ last' = last
    BY <1>6, <2>0 DEF SaveGroups
  <2>4. RowsAreThere /\ \A s \in Servers : Decided(s)
    BY <2>3 DEF DecisionInv
  <2>5. RowsAreThere'
    BY <2>1, <2>3, <2>4 DEF RowsAreThere
  <2>6. ASSUME NEW q \in Requests \ {r}, pc[q] = "saved", GroupsGiven(q)
        PROVE  pc'[q] = "saved" /\ target'[q] = target[q] /\ GroupsGiven(q)'
    BY <2>1, <2>6 DEF GroupsGiven
  <2>7. CASE GroupsGiven(r)
    <3>1. /\ refs' = [refs EXCEPT ![target[r]] = (@ \ Groups) \cup (asked[r] \cap Groups)]
          /\ wanted[target[r]] \cap Groups = asked[r] \cap Groups
          /\ target[r] \in Servers
      BY <1>6, <2>7 DEF SaveGroups, GroupsGiven
    <3>2. ASSUME NEW s \in Servers, s # target[r] PROVE Decided(s)'
      <4>1. refs'[s] = refs[s]
        BY <3>1, <3>2
      <4>. QED
        BY <2>1, <2>3, <2>4, <2>6, <3>2, <4>1 DEF Decided
    <3>3. ASSUME NEW s \in Servers, s = target[r] PROVE Decided(s)'
      <4>1. refs'[target[r]] = (refs[target[r]] \ Groups) \cup (asked[r] \cap Groups)
        BY <3>1
      <4>2. refs'[target[r]] \cap Groups = wanted[target[r]] \cap Groups
        BY <3>1, <4>1
      <4>3. refs'[target[r]] \ Groups = refs[target[r]] \ Groups
        BY <4>1
      <4>4. target[r] \notin rows => asked[r] \cap Groups = {}
        BY <2>1 DEF GroupsResolve
      <4>. QED
        BY <2>1, <2>3, <2>4, <3>1, <3>3, <4>1, <4>2, <4>3, <4>4 DEF Decided
    <3>. QED
      BY <2>5, <3>2, <3>3, Zenon
  <2>8. CASE ~GroupsGiven(r)
    <3>1. refs' = refs
      BY <1>6, <2>8 DEF SaveGroups
    <3>2. ASSUME NEW q \in Requests, pc[q] = "saved", GroupsGiven(q)
          PROVE  pc'[q] = "saved" /\ target'[q] = target[q] /\ GroupsGiven(q)'
      BY <2>6, <2>8, <3>2
    <3>. QED
      BY <2>1, <2>3, <2>4, <2>5, <3>1, <3>2 DEF Decided
  <2>. QED
    BY <2>7, <2>8
<1>7. ASSUME NEW r \in Requests, GroupsRefused(r) PROVE DecisionInv'
  <2>1. /\ Done(r) /\ UNCHANGED <<rows, refs, status>> /\ mixed'
        /\ Follow(last, wanted)
    BY <1>7 DEF GroupsRefused
  <2>. QED
    BY <1>4, <2>1, FollowFacts
<1>8. ASSUME NEW r \in Requests, Dies(r) PROVE DecisionInv'
  <2>1. ~mixed' => pc[r] # "saved"
    BY <1>8, Zenon DEF Dies
  <2>2. /\ Done(r) /\ UNCHANGED <<rows, refs, status>> /\ (mixed => mixed')
        /\ Follow(last, wanted)
    BY <1>8 DEF Dies
  <2>. QED
    BY <1>4, <2>1, <2>2, FollowFacts
<1>9. ASSUME NEW r \in Requests, Collect(r) PROVE DecisionInv'
  <2>1. InstancesFit'
    BY <1>9 DEF Collect, DecisionInv, InstancesFit
  <2>. QED
    BY <1>0, <1>9, <2>1 DEF Collect
<1>10. ASSUME NEW r \in Requests,
              Reject(r) \/ SaveRefused(r) \/ Protected(r) \/ DeleteRefused(r)
                 \/ Record(r) \/ RecordRefused(r)
       PROVE  DecisionInv'
  <2>1. /\ Done(r) /\ UNCHANGED <<rows, refs, status, last, wanted, mixed>>
        /\ pc[r] # "saved"
    BY <1>10 DEF Reject, SaveRefused, Protected, DeleteRefused, Record, RecordRefused, RecordThis
  <2>. QED
    BY <1>4, <2>1
<1>11. ASSUME NEW r \in Requests, Delete(r) PROVE DecisionInv'
  <2>1. /\ pc' = [pc EXCEPT ![r] = "written"] /\ pc[r] = "collected"
        /\ rows' = rows \ {target[r]}
        /\ UNCHANGED <<status, op, target, loaded, given, asked, mixed>>
    BY <1>11 DEF Delete, DeleteIf
  <2> DEFINE lasts == [last EXCEPT ![target[r]] = "deleted"]
  <2>0. /\ \A x \in Ids : last'[x] = "none" <=> lasts[x] = "none"
        /\ ~mixed' => last' = lasts /\ wanted' = Without(target[r], wanted)
    <3>1. /\ lasts \in [Ids -> Status \cup {"none", "deleted"}]
          /\ Without(target[r], wanted) \in [Servers -> SUBSET Records]
      BY DEF Without
    <3>2. Follow(lasts, Without(target[r], wanted))
      BY <1>11 DEF Delete, DeleteIf
    <3>. HIDE DEF lasts
    <3>. QED
      BY <3>1, <3>2, FollowFacts, Zenon
  <2>2. target[r] \in Ids /\ last[target[r]] # "none"
    BY <2>1 DEF DecisionInv, InstancesFit
  <2>3. InstancesFit'
    BY <2>0, <2>1, <2>2 DEF DecisionInv, InstancesFit
  <2> SUFFICES ASSUME ~mixed' PROVE RowsAreThere' /\ \A s \in Servers : Decided(s)'
    BY <2>3 DEF DecisionInv
  <2>8. last' = lasts /\ wanted' = Without(target[r], wanted)
    BY <2>0
  <2>4. RowsAreThere /\ \A s \in Servers : Decided(s)
    BY <2>1 DEF DecisionInv
  <2>5. RowsAreThere'
    BY <2>1, <2>2, <2>4, <2>8 DEF RowsAreThere
  <2>6. ASSUME NEW q \in Requests, pc[q] = "saved", GroupsGiven(q)
        PROVE  pc'[q] = "saved" /\ target'[q] = target[q] /\ GroupsGiven(q)'
    BY <2>1, <2>6 DEF GroupsGiven
  <2>7. ASSUME NEW s \in Servers PROVE Decided(s)'
    <3>1. CASE target[r] \in Protecting
      <4>1. refs' = refs /\ wanted' = wanted /\ target[r] \notin Servers
        BY <1>11, <2>8, <3>1, ServersAreNoRecords DEF Delete, DeleteIf, Without, Records
      <4>2. (s \in rows' <=> s \in rows) /\ last'[s] = last[s]
        BY <2>1, <2>8, <4>1
      <4>. QED
        BY <2>1, <2>4, <2>6, <4>1, <4>2 DEF Decided
    <3>2. CASE target[r] \notin Protecting
      <4>1. /\ refs' = [u \in Servers |-> IF u = target[r] THEN {} ELSE refs[u] \ {target[r]}]
            /\ wanted' = [u \in Servers |-> IF u = target[r] THEN {} ELSE wanted[u] \ {target[r]}]
        BY <1>11, <2>8, <3>2 DEF Delete, DeleteIf, Without
      <4>2. CASE s = target[r]
        BY <2>1, <4>1, <4>2 DEF Decided
      <4>3. CASE s # target[r]
        <5>1. /\ refs'[s] = refs[s] \ {target[r]} /\ wanted'[s] = wanted[s] \ {target[r]}
              /\ (s \in rows' <=> s \in rows) /\ last'[s] = last[s]
          BY <2>1, <2>8, <4>1, <4>3
        <5>2. refs[s] \cap Groups = wanted[s] \cap Groups => refs'[s] \cap Groups = wanted'[s] \cap Groups
          BY <5>1
        <5>3. refs[s] \ Groups = wanted[s] \ Groups => refs'[s] \ Groups = wanted'[s] \ Groups
          BY <5>1
        <5>. QED
          BY <2>1, <2>4, <2>6, <5>1, <5>2, <5>3 DEF Decided
      <4>. QED
        BY <4>2, <4>3
    <3>. QED
      BY <3>1, <3>2
  <2>. QED
    BY <2>5, <2>7
<1>12. ASSUME NEW s \in Servers, NEW observed \in Status, Observe(s, observed)
       PROVE  DecisionInv'
  <2>1. /\ status' = [status EXCEPT ![s] = observed] /\ s \in rows
        /\ UNCHANGED <<rows, refs, pc, op, target, loaded, given, asked, mixed>>
    BY <1>12 DEF Observe
  <2> DEFINE lasts == [last EXCEPT ![s] = observed]
  <2>0. /\ \A x \in Ids : last'[x] = "none" <=> lasts[x] = "none"
        /\ ~mixed' => last' = lasts /\ wanted' = wanted
    <3>1. Follow(lasts, wanted) /\ lasts \in [Ids -> Status \cup {"none", "deleted"}]
      BY <1>12 DEF Observe
    <3>. QED
      BY <3>1, FollowFacts
  <2>2. InstancesFit'
    BY <2>0, <2>1 DEF DecisionInv, InstancesFit
  <2> SUFFICES ASSUME ~mixed' PROVE RowsAreThere' /\ \A u \in Servers : Decided(u)'
    BY <2>2 DEF DecisionInv
  <2>3. RowsAreThere /\ \A u \in Servers : Decided(u)
    BY <2>1 DEF DecisionInv
  <2>4. RowsAreThere'
    BY <2>0, <2>1, <2>3 DEF RowsAreThere
  <2>. QED
    BY <2>0, <2>1, <2>3, <2>4 DEF Decided, GroupsGiven
<1>13. CASE UNCHANGED vars
  <2>1. InstancesFit'
    BY <1>13 DEF vars, DecisionInv, InstancesFit
  <2>. QED
    BY <1>0, <1>13, <2>1 DEF vars
<1>. QED
  BY <1>1, <1>2, <1>3, <1>5, <1>6, <1>7, <1>8, <1>9, <1>10, <1>11, <1>12, <1>13
     DEF Next, Saving, Deleting

\* Rows are what people and tests made them unless edits of one overlap or an edit
\* outlives what it loaded.
THEOREM RowsFollowDecisions == Spec => []RowsAreAsDecided
<1>1. Init => DecisionInv
  BY DEF Init, DecisionInv, InstancesFit, RowsAreThere, Decided
<1>2. DecisionInv => RowsAreAsDecided
  BY DEF DecisionInv, RowsAreAsDecided, RowsAreThere, Decided
<1>. QED
  BY <1>1, <1>2, DecisionStep, FormsAlwaysFit, TypesAreCorrect, PTL DEF Spec
=============================================================================
