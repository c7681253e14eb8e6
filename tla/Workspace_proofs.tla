--------------------------- MODULE Workspace_proofs ---------------------------
(***************************************************************************)
(* What holds of Workspace for every set of paths and of requests.         *)
(***************************************************************************)
EXTENDS Workspace, SequenceTheorems, TLAPS

----------------------------------------------------------------------------
(* Prefixes, and what is moved from one to another *)

LEMMA PrefixIs ==
  ASSUME NEW N, NEW s \in Seq(N), NEW t \in Seq(N)
  PROVE  Within(s, t) <=> Len(s) <= Len(t) /\ \A i \in 1 .. Len(s) : s[i] = t[i]
<1>1. CASE Len(s) <= Len(t)
  <2>1. SubSeq(s, 1, Len(s)) = s
    OBVIOUS
  <2>2. /\ SubSeq(t, 1, Len(s)) \in Seq(N) /\ Len(SubSeq(t, 1, Len(s))) = Len(s)
        /\ \A i \in 1 .. Len(s) : SubSeq(t, 1, Len(s))[i] = t[i]
    BY <1>1
  <2>3. s = SubSeq(t, 1, Len(s)) <=> \A i \in 1 .. Len(s) : s[i] = SubSeq(t, 1, Len(s))[i]
    BY <2>2
  <2>. QED
    BY <1>1, <2>1, <2>2, <2>3 DEF Within, IsPrefix
<1>2. CASE ~(Len(s) <= Len(t))
  BY <1>2 DEF Within, IsPrefix
<1>. QED
  BY <1>1, <1>2

LEMMA PrefixOrder ==
  ASSUME NEW N, NEW a \in Seq(N), NEW b \in Seq(N), NEW c \in Seq(N)
  PROVE  /\ Within(a, a)
         /\ Within(a, b) /\ Within(b, c) => Within(a, c)
         /\ Within(a, c) /\ Within(b, c) => Within(a, b) \/ Within(b, a)
         /\ Within(a, b) /\ Within(b, a) => a = b
<1>1. Len(a) \in Nat /\ Len(b) \in Nat /\ Len(c) \in Nat
  OBVIOUS
<1>2. Within(a, a)
  BY PrefixIs, <1>1
<1>3. Within(a, b) /\ Within(b, c) => Within(a, c)
  BY PrefixIs, <1>1
<1>4. Within(a, c) /\ Within(b, c) => Within(a, b) \/ Within(b, a)
  BY PrefixIs, <1>1
<1>5. Within(a, b) /\ Within(b, a) => a = b
  <2> SUFFICES ASSUME Within(a, b), Within(b, a) PROVE a = b
    OBVIOUS
  <2>1. Len(a) = Len(b) /\ \A i \in 1 .. Len(a) : a[i] = b[i]
    BY PrefixIs, <1>1
  <2>. QED
    BY <2>1
<1>. QED
  BY <1>2, <1>3, <1>4, <1>5

\* y is x with the prefix p replaced by q.
IsMoved(p, q, x, y) ==
    /\ Len(y) = Len(q) + Len(x) - Len(p)
    /\ \A i \in 1 .. Len(q) : y[i] = q[i]
    /\ \A i \in Len(q) + 1 .. Len(q) + Len(x) - Len(p) : y[i] = x[i - Len(q) + Len(p)]

LEMMA MovedIs ==
  ASSUME NEW N, NEW p \in Seq(N), NEW q \in Seq(N), NEW x \in Seq(N), Within(p, x)
  PROVE  Moved(p, q, x) \in Seq(N) /\ IsMoved(p, q, x, Moved(p, q, x))
<1>1. Len(p) \in Nat /\ Len(q) \in Nat /\ Len(x) \in Nat /\ Len(p) <= Len(x)
  BY PrefixIs
<1>. DEFINE z == SubSeq(x, Len(p) + 1, Len(x))
<1>2. /\ z \in Seq(N) /\ Len(z) = Len(x) - Len(p)
      /\ \A i \in 1 .. Len(x) - Len(p) : z[i] = x[Len(p) + i]
  BY <1>1
<1>3. Moved(p, q, x) = q \o z
  BY DEF Moved
<1>. HIDE DEF z
<1>4. /\ q \o z \in Seq(N) /\ Len(q \o z) = Len(q) + Len(z)
      /\ \A i \in 1 .. Len(q) + Len(z) : (q \o z)[i] = IF i <= Len(q) THEN q[i] ELSE z[i - Len(q)]
  BY <1>2, ConcatProperties
<1>5. \A i \in 1 .. Len(q) : (q \o z)[i] = q[i]
  BY <1>1, <1>2, <1>4
<1>6. ASSUME NEW i \in Len(q) + 1 .. Len(q) + Len(x) - Len(p)
      PROVE  (q \o z)[i] = x[i - Len(q) + Len(p)]
  <2>1. i - Len(q) \in 1 .. Len(x) - Len(p) /\ i \in 1 .. Len(q) + Len(z) /\ ~(i <= Len(q))
    BY <1>1, <1>2
  <2>2. (q \o z)[i] = z[i - Len(q)] /\ z[i - Len(q)] = x[Len(p) + (i - Len(q))]
    BY <1>2, <1>4, <2>1
  <2>3. Len(p) + (i - Len(q)) = i - Len(q) + Len(p)
    BY <1>1
  <2>. QED
    BY <2>2, <2>3
<1>. QED
  BY <1>1, <1>2, <1>3, <1>4, <1>5, <1>6 DEF IsMoved

\* What is moved is within its new place, and would come back as it was.
LEMMA MovedBack ==
  ASSUME NEW N, NEW p \in Seq(N), NEW q \in Seq(N), NEW x \in Seq(N), Within(p, x)
  PROVE  Within(q, Moved(p, q, x)) /\ Moved(q, p, Moved(p, q, x)) = x
<1>. DEFINE y == Moved(p, q, x)
<1>1. Len(p) \in Nat /\ Len(q) \in Nat /\ Len(x) \in Nat /\ Len(p) <= Len(x)
  BY PrefixIs
<1>2. y \in Seq(N) /\ IsMoved(p, q, x, y)
  BY MovedIs
<1>. HIDE DEF y
<1>3. Within(q, y)
  BY <1>1, <1>2, PrefixIs DEF IsMoved
<1>4. Moved(q, p, y) \in Seq(N) /\ IsMoved(q, p, y, Moved(q, p, y))
  BY <1>2, <1>3, MovedIs
<1>. USE DEF IsMoved
<1>5. Len(Moved(q, p, y)) = Len(x)
  BY <1>1, <1>2, <1>4
<1>6. ASSUME NEW i \in 1 .. Len(x) PROVE Moved(q, p, y)[i] = x[i]
  <2>1. CASE i <= Len(p)
    <3>1. i \in 1 .. Len(p)
      BY <1>1, <2>1
    <3>2. p[i] = x[i]
      BY <3>1, PrefixIs
    <3>. QED
      BY <1>4, <3>1, <3>2
  <2>2. CASE i > Len(p)
    <3>1. i \in Len(p) + 1 .. Len(p) + Len(y) - Len(q)
      BY <1>1, <1>2, <2>2
    <3>2. i - Len(p) + Len(q) \in Len(q) + 1 .. Len(q) + Len(x) - Len(p)
      BY <1>1, <2>2
    <3>3. (i - Len(p) + Len(q)) - Len(q) + Len(p) = i
      BY <1>1
    <3>4. Moved(q, p, y)[i] = y[i - Len(p) + Len(q)]
      BY <1>4, <3>1
    <3>5. y[i - Len(p) + Len(q)] = x[(i - Len(p) + Len(q)) - Len(q) + Len(p)]
      BY <1>2, <3>2
    <3>. QED
      BY <3>3, <3>4, <3>5
  <2>. QED
    BY <1>1, <2>1, <2>2
<1>7. Moved(q, p, y) = x
  BY <1>4, <1>5, <1>6, SeqEqual
<1>. QED
  BY <1>3, <1>7 DEF y

\* Folders keep what is in them.
LEMMA MovedTogether ==
  ASSUME NEW N, NEW p \in Seq(N), NEW q \in Seq(N), NEW x \in Seq(N), NEW y \in Seq(N),
         Within(p, y), Within(y, x), y # x
  PROVE  Within(Moved(p, q, y), Moved(p, q, x)) /\ Moved(p, q, y) # Moved(p, q, x)
<1>1. Within(p, x)
  BY PrefixOrder
<1>2. Len(p) \in Nat /\ Len(q) \in Nat /\ Len(x) \in Nat /\ Len(y) \in Nat
  OBVIOUS
<1>3. Len(p) <= Len(y) /\ Len(y) <= Len(x) /\ \A i \in 1 .. Len(y) : y[i] = x[i]
  BY PrefixIs
<1>4. Len(y) < Len(x)
  <2>1. Len(y) # Len(x)
    BY <1>3, SeqEqual
  <2>. QED
    BY <1>2, <1>3, <2>1
<1>. DEFINE a == Moved(p, q, y)
            b == Moved(p, q, x)
<1>5. a \in Seq(N) /\ IsMoved(p, q, y, a)
  BY MovedIs
<1>6. b \in Seq(N) /\ IsMoved(p, q, x, b)
  BY <1>1, MovedIs
<1>. HIDE DEF a, b
<1>. USE DEF IsMoved
<1>7. Len(a) < Len(b)
  BY <1>2, <1>4, <1>5, <1>6
<1>8. ASSUME NEW i \in 1 .. Len(a) PROVE a[i] = b[i]
  <2>1. CASE i <= Len(q)
    BY <1>2, <1>5, <1>6, <2>1
  <2>2. CASE i > Len(q)
    <3>1. i \in Len(q) + 1 .. Len(q) + Len(y) - Len(p)
      BY <1>2, <1>5, <2>2
    <3>2. i \in Len(q) + 1 .. Len(q) + Len(x) - Len(p)
      BY <1>2, <1>4, <3>1
    <3>3. i - Len(q) + Len(p) \in 1 .. Len(y)
      BY <1>2, <3>1
    <3>4. a[i] = y[i - Len(q) + Len(p)] /\ b[i] = x[i - Len(q) + Len(p)]
      BY <1>5, <1>6, <3>1, <3>2
    <3>. QED
      BY <1>3, <3>3, <3>4
  <2>. QED
    BY <1>2, <2>1, <2>2
<1>9. Within(a, b)
  <2>1. Len(a) <= Len(b)
    BY <1>2, <1>5, <1>6, <1>7
  <2>. QED
    BY <1>5, <1>6, <1>8, <2>1, PrefixIs
<1>. QED
  BY <1>7, <1>9 DEF a, b

\* A prefix of a path is a path.
LEMMA PathsAbove ==
  ASSUME NEW N, Paths \subseteq Seq(N), NEW x \in Paths, NEW y \in Seq(N), y # <<>>,
         Within(y, x)
  PROVE  y \in Paths
<1>1. Len(y) \in 1 .. Len(x)
  BY PrefixIs, EmptySeq
<1>2. SubSeq(y, 1, Len(y)) = y
  BY SubSeqFull
<1>3. y = SubSeq(x, 1, Len(y))
  BY <1>2 DEF Within, IsPrefix
<1>. QED
  BY <1>1, <1>3, PathsHaveParents


----------------------------------------------------------------------------
(* Paths, and trees of them *)

PathNames == UNION {Range(p) : p \in Paths}

LEMMA PathOrder ==
  ASSUME NEW a \in Paths, NEW b \in Paths, NEW c \in Paths
  PROVE  /\ Within(a, a)
         /\ Within(a, b) /\ Within(b, c) => Within(a, c)
         /\ Within(a, c) /\ Within(b, c) => Within(a, b) \/ Within(b, a)
         /\ Within(a, b) /\ Within(b, a) => a = b
<1>1. a \in Seq(PathNames) /\ b \in Seq(PathNames) /\ c \in Seq(PathNames)
  BY PathsAreNames DEF PathNames
<1>. QED
  BY <1>1, PrefixOrder

LEMMA AboveIs ==
  ASSUME NEW x \in Paths, NEW y \in Paths
  PROVE  y \in Above(x) <=> Within(y, x) /\ y # x
BY DEF Above, Within, IsStrictPrefix

LEMMA AboveAbove ==
  ASSUME NEW x \in Paths, NEW y \in Above(x)
  PROVE  y \in Paths /\ Above(y) \subseteq Above(x) /\ x \notin Above(y) /\ y \notin Above(y)
<1>1. y \in Paths /\ Within(y, x) /\ y # x
  BY AboveIs DEF Above
<1>2. ASSUME NEW z \in Above(y) PROVE z \in Above(x)
  <2>1. z \in Paths /\ Within(z, y) /\ z # y
    BY <1>1, <1>2, AboveIs DEF Above
  <2>2. Within(z, x)
    BY <1>1, <2>1, PathOrder
  <2>3. z # x
    BY <1>1, <2>1, PathOrder
  <2>. QED
    BY <2>1, <2>2, <2>3, AboveIs
<1>3. x \notin Above(y)
  BY <1>1, PathOrder, AboveIs
<1>. QED
  BY <1>1, <1>2, <1>3, AboveIs

LEMMA NothingAboveTheLayout ==
  ASSUME NEW p \in Layout
  PROVE  p \in Paths /\ Above(p) = {}
<1>1. p \in Paths /\ Len(p) = 1
  BY LayoutIsFolders
<1>2. ASSUME NEW q \in Above(p) PROVE FALSE
  <2>1. q \in Paths /\ Within(q, p) /\ q # p
    BY <1>1, AboveIs DEF Above
  <2>2. p \in Seq(PathNames) /\ q \in Seq(PathNames) /\ q # <<>>
    BY <1>1, <2>1, PathsAreNames, PathsHaveParents DEF PathNames
  <2>3. Len(q) <= 1 /\ \A i \in 1 .. Len(q) : q[i] = p[i]
    BY <1>1, <2>1, <2>2, PrefixIs
  <2>4. Len(q) = 1
    <3>1. Len(q) \in Nat /\ Len(q) # 0
      BY <2>2, EmptySeq
    <3>2. \A n \in Nat : n # 0 /\ n <= 1 => n = 1
      OBVIOUS
    <3>. QED
      BY <2>3, <3>1, <3>2
  <2>5. q = p
    BY <1>1, <2>2, <2>3, <2>4, SeqEqual
  <2>. QED
    BY <2>1, <2>5
<1>. QED
  BY <1>1, <1>2

\* What is moved between two paths, with what it was in.
LEMMA MovedPath ==
  ASSUME NEW p \in Paths, NEW q \in Paths, NEW x \in Paths, Within(p, x)
  PROVE  /\ Within(q, Moved(p, q, x)) /\ Moved(q, p, Moved(p, q, x)) = x
         /\ \A y \in Paths :
               Within(p, y) /\ y \in Above(x) /\ Moved(p, q, x) \in Paths =>
                   Moved(p, q, y) \in Above(Moved(p, q, x))
<1>1. p \in Seq(PathNames) /\ q \in Seq(PathNames) /\ x \in Seq(PathNames)
  BY PathsAreNames DEF PathNames
<1>2. Within(q, Moved(p, q, x)) /\ Moved(q, p, Moved(p, q, x)) = x
  BY <1>1, MovedBack
<1>3. ASSUME NEW y \in Paths, Within(p, y), y \in Above(x), Moved(p, q, x) \in Paths
      PROVE  Moved(p, q, y) \in Above(Moved(p, q, x))
  <2>1. y \in Seq(PathNames) /\ Within(y, x) /\ y # x
    BY <1>3, AboveIs, PathsAreNames DEF PathNames
  <2>2. Within(Moved(p, q, y), Moved(p, q, x)) /\ Moved(p, q, y) # Moved(p, q, x)
    BY <1>1, <1>3, <2>1, MovedTogether
  <2>3. Moved(p, q, y) \in Seq(PathNames) /\ Moved(p, q, x) \in Seq(PathNames)
    BY <1>1, <1>3, <2>1, MovedIs
  <2>4. Moved(p, q, y) # <<>>
    <3>1. Within(q, Moved(p, q, y))
      BY <1>1, <1>3, <2>1, MovedBack
    <3>2. Len(q) <= Len(Moved(p, q, y)) /\ Len(q) \in Nat \ {0}
      BY <1>1, <2>3, <3>1, PrefixIs, PathsHaveParents, EmptySeq
    <3>. QED
      BY <3>2, EmptySeq
  <2>5. Paths \subseteq Seq(PathNames)
    BY PathsAreNames DEF PathNames
  <2>6. Moved(p, q, y) \in Paths
    BY <1>3, <2>2, <2>3, <2>4, <2>5, PathsAbove
  <2>. QED
    BY <1>3, <2>2, <2>6, AboveIs
<1>. QED
  BY <1>2, <1>3

----------------------------------------------------------------------------
(* Types *)

Kinds == Contents \cup {"dir"}

\* The tree, what is open in it, and what requests are about.
TreeOK == There \subseteq Paths /\ tree \in [There -> Kinds] /\ \A p \in There : InDir(p)

OpenFiles == fd \in [Requests -> There \cup {NoPath}]

RequestsOK ==
    /\ pc      \in [Requests -> Step]
    /\ op      \in [Requests -> {"edit", "create", "folder", "rename", "delete"}]
    /\ target  \in [Requests -> Paths \cup {NoPath}]
    /\ dest    \in [Requests -> Paths \cup {NoPath}]
    /\ body    \in [Requests -> Kinds]
    /\ did     \in [Requests -> SUBSET Outcome]
    /\ crossed \in [Requests -> BOOLEAN]
    /\ \A r \in Requests : pc[r] \notin {"new", "resolved", "over"} =>
          target[r] \in Paths /\ (op[r] = "rename" => dest[r] \in Paths)
    /\ \A r \in Requests : pc[r] = "found" => op[r] # "rename"

ExcusedOK == excused \subseteq Paths /\ raced \subseteq Layout

LEMMA TypesAre == TreeOK /\ OpenFiles /\ RequestsOK /\ ExcusedOK => TypeOK
BY DEF TreeOK, OpenFiles, RequestsOK, ExcusedOK, TypeOK, Types, Kinds, There

LEMMA RestoredTree ==
  ASSUME TreeOK, tree' = Restored
  PROVE  /\ TreeOK' /\ There' = There \cup Layout
         /\ \A p \in There : tree'[p] = tree[p]
         /\ \A p \in Layout \ There : tree'[p] = "dir"
<1>1. There' = There \cup Layout
  BY DEF There, Restored
<1>2. \A p \in There : tree'[p] = tree[p]
  BY DEF There, Restored
<1>3. \A p \in Layout \ There : tree'[p] = "dir"
  BY DEF There, Restored
<1>4. There' \subseteq Paths
  BY <1>1, LayoutIsFolders DEF TreeOK
<1>5. tree' \in [There' -> Kinds]
  <2>1. \A p \in There' : tree'[p] \in Kinds
    BY <1>1, <1>2, <1>3 DEF TreeOK, Kinds
  <2>2. tree' = [p \in There' |-> tree'[p]]
    BY DEF There, Restored
  <2>. QED
    BY <2>1, <2>2
<1>6. ASSUME NEW p \in There' PROVE InDir(p)'
  <2>1. CASE p \in There
    BY <1>1, <1>2, <2>1 DEF TreeOK, InDir
  <2>2. CASE p \in Layout
    BY <2>2, NothingAboveTheLayout DEF InDir, Above
  <2>. QED
    BY <1>1, <2>1, <2>2
<1>. QED
  BY <1>1, <1>2, <1>3, <1>4, <1>5, <1>6 DEF TreeOK

\* What is open for writing is a file, and no file gets into the place of a folder of the
\* layout: no request writes one there, nor renames something, but after such a race.
WritesFiles ==
    \A r \in Requests : pc[r] = "opened" /\ fd[r] # NoPath =>
        ~IsDir(fd[r]) /\ (fd[r] \in Layout => fd[r] \in raced)

Away ==
    \A r \in Requests : pc[r] \in {"found", "looked", "ready"} =>
        /\ op[r] \in {"edit", "create"} => target[r] \notin Layout
        /\ op[r] = "rename" /\ dest[r] \in Layout => dest[r] \in raced

\* The layout is complete from the resolve to the look, unless another got in the way.
Settled == \A r \in Requests : pc[r] = "resolved" /\ ~crossed[r] => Layout \subseteq There

\* A request that looks, whatever at.
Looks(r) ==
    /\ pc[r] = "resolved" /\ UNCHANGED <<tree, excused>>
    /\ pc'      = [pc EXCEPT ![r] = pc'[r]]
    /\ op'      = [op EXCEPT ![r] = op'[r]]
    /\ target'  = [target EXCEPT ![r] = target'[r]]
    /\ dest'    = [dest EXCEPT ![r] = dest'[r]]
    /\ body'    = [body EXCEPT ![r] = body'[r]]
    /\ fd'      = [fd EXCEPT ![r] = fd'[r]]
    /\ did'     = [did EXCEPT ![r] = did'[r]]
    /\ crossed' = [crossed EXCEPT ![r] = FALSE]
    /\ target'[r] \in Paths /\ dest'[r] \in Paths \cup {NoPath} /\ body'[r] \in Kinds
    /\ fd'[r] \in {fd[r], NoPath} \cup There
    /\ did'[r] \in {did[r], did[r] \cup {"odd"}}
    /\ raced \subseteq raced' /\ raced' \subseteq raced \cup Layout
    /\ \/ pc'[r] = "removing" /\ op'[r] = "delete"
       \/ pc'[r] = "found" /\ op'[r] \in {"edit", "create", "folder"}
       \/ pc'[r] = "looked" /\ op'[r] = "rename"

\* What it makes sure of.
Sees(r) ==
    /\ op'[r] = "edit" => IsFile(target'[r])
    /\ op'[r] = "create" => target'[r] \notin There
    /\ op'[r] \in {"edit", "create"} =>
          /\ target'[r] \notin Layout
          /\ IsPlaybook(target'[r]) => body'[r] \in Plays \/ "odd" \in did'[r]
    /\ op'[r] = "rename" =>
          /\ dest'[r] \in Paths /\ target'[r] \in There /\ dest'[r] \notin There
          /\ dest'[r] \in Layout /\ crossed[r] => dest'[r] \in raced'

LEMMA LookingIs ==
  ASSUME TreeOK, OpenFiles, RequestsOK, NEW r \in Requests, Looking(r), ~Resolve(r)
  PROVE  Looks(r) /\ Sees(r)
<1> USE DEF Look, LookAt, GoTo, Did, RequestsOK, OpenFiles, Outcome, Step
<1>1. ASSUME NEW n \in Paths, NEW spelling \in Spellings, NEW content \in Contents,
             Edit(r, n, spelling, content)
      PROVE  Looks(r) /\ Sees(r)
  <2>1. n \notin Layout
    BY <1>1, LayoutIsFolders DEF Edit, IsEditable
  <2>2. IsPlaybook(n) => content \in Plays \/ "odd" \in did'[r]
    BY <1>1 DEF Edit, Accepts, IsPlaybook
  <2>3. Looks(r)
    BY <1>1, LayoutIsFolders DEF Edit, Looks, Kinds
  <2>4. target'[r] = n /\ op'[r] = "edit" /\ body'[r] = content
    BY <1>1 DEF Edit
  <2>. QED
    BY <1>1, <2>1, <2>2, <2>3, <2>4 DEF Edit, Sees
<1>2. ASSUME NEW n \in Paths, NEW spelling \in Spellings, NEW content \in Contents,
             Create(r, n, spelling, content)
      PROVE  Looks(r) /\ Sees(r)
  <2>1. n \notin Layout
    BY <1>2, LayoutIsFolders DEF Create, CreateUnchecked, IsEditable
  <2>2. IsPlaybook(n) => content \in Plays \/ "odd" \in did'[r]
    BY <1>2 DEF Create, CreateUnchecked, Accepts, IsPlaybook
  <2>3. Looks(r)
    BY <1>2, LayoutIsFolders DEF Create, CreateUnchecked, Looks, Kinds
  <2>4. target'[r] = n /\ op'[r] = "create" /\ body'[r] = content
    BY <1>2 DEF Create, CreateUnchecked
  <2>. QED
    BY <1>2, <2>1, <2>2, <2>3, <2>4 DEF Create, CreateUnchecked, Sees
<1>3. ASSUME NEW n \in Paths, CreateFolder(r, n) PROVE Looks(r) /\ Sees(r)
  <2>1. Looks(r)
    BY <1>3, LayoutIsFolders, EmptyIsContent DEF CreateFolder, Looks, Kinds
  <2>. QED
    BY <1>3, <2>1 DEF CreateFolder, Sees
<1>4. ASSUME NEW n \in Paths, NEW q \in Paths, Rename(r, n, q) PROVE Looks(r) /\ Sees(r)
  <2>1. Looks(r)
    BY <1>4, LayoutIsFolders, EmptyIsContent DEF Rename, RenameOver, Looks, Kinds
  <2>2. op'[r] = "rename" /\ target'[r] = n /\ dest'[r] = q
    BY <1>4 DEF Rename, RenameOver
  <2>3. q \in Layout /\ crossed[r] => q \in raced'
    BY <1>4 DEF Rename, RenameOver
  <2>. QED
    BY <1>4, <2>1, <2>2, <2>3 DEF Rename, RenameOver, Sees
<1>5. ASSUME NEW n \in Paths, Delete(r, n) PROVE Looks(r) /\ Sees(r)
  <2>1. tree[n] \in Kinds /\ n \in There
    BY <1>5 DEF Delete, TreeOK
  <2>2. Looks(r)
    BY <1>5, <2>1, LayoutIsFolders DEF Delete, Looks, Kinds
  <2>. QED
    BY <1>5, <2>2 DEF Delete, Sees
<1>. QED
  BY <1>1, <1>2, <1>3, <1>4, <1>5 DEF Looking

\* What Move does to the tree: what is within p is found within q, the rest stays.
LEMMA MovedTree ==
  ASSUME TreeOK, RequestsOK, NEW r \in Requests, Move(r)
  PROVE  /\ TreeOK'
         /\ \A x \in There : ~Within(target[r], x) /\ x # dest[r] =>
               x \in There' /\ tree'[x] = tree[x]
         /\ \A x \in There : Within(target[r], x) =>
               /\ Moved(target[r], dest[r], x) \in There'
               /\ tree'[Moved(target[r], dest[r], x)] = tree[x]
         /\ \A x \in There' : \/ x \in There /\ tree'[x] = tree[x]
                              \/ Within(dest[r], x)
<1>. DEFINE p == target[r]
            q == dest[r]
            Kept == {x \in There : ~Within(p, x) /\ ~Within(q, x)}
            Arrived == {x \in Paths : Within(q, x) /\ Moved(q, p, x) \in There}
            From(x) == IF x \in Arrived THEN Moved(q, p, x) ELSE x
<1>1. /\ p \in There /\ InDir(q) /\ ~Within(p, q) /\ Gives(p, q)
      /\ \A x \in There : Within(p, x) => Moved(p, q, x) \in Paths
      /\ tree' = [x \in Kept \cup Arrived |-> tree[From(x)]]
  BY DEF Move
<1>2. p \in Paths /\ q \in Paths /\ There \subseteq Paths
  BY <1>1 DEF Move, TreeOK, RequestsOK
<1>. HIDE DEF p, q
<1>3. There' = Kept \cup Arrived /\ \A x \in There' : tree'[x] = tree[From(x)]
  BY <1>1 DEF There
<1>4. Kept \cap Arrived = {} /\ Kept \subseteq There /\ There' \subseteq Paths
  BY <1>2, <1>3
<1>5. \A x \in Kept : tree'[x] = tree[x]
  BY <1>3, <1>4
<1>6. \A x \in Arrived : tree'[x] = tree[Moved(q, p, x)] /\ Moved(q, p, x) \in There
  BY <1>3
<1>7. tree' \in [There' -> Kinds]
  <2>1. \A x \in There' : tree'[x] \in Kinds
    BY <1>3, <1>4, <1>5, <1>6 DEF TreeOK
  <2>. QED
    BY <1>1, <1>3, <2>1
<1>8. \A x \in There : ~HasChild(x) => x \notin UNION {Above(y) : y \in There}
  BY DEF HasChild
<1>9. \A x \in There : Within(q, x) => x = q
  <2> SUFFICES ASSUME NEW x \in There, Within(q, x), x # q PROVE FALSE
    OBVIOUS
  <2>1. q \in Above(x)
    BY <1>2, AboveIs
  <2>2. q \in There
    BY <2>1 DEF TreeOK, InDir
  <2>3. ~HasChild(q)
    BY <1>1, <2>2 DEF Gives
  <2>. QED
    BY <2>1, <2>3 DEF HasChild
<1>10. \A x \in There : ~Within(p, x) /\ x # q => x \in Kept
  BY <1>9
<1>11. ASSUME NEW x \in There, Within(p, x)
       PROVE  Moved(p, q, x) \in Arrived /\ Moved(q, p, Moved(p, q, x)) = x
  BY <1>1, <1>2, <1>11, MovedPath
<1>12. ASSUME NEW x \in Kept, NEW y \in Above(x)
       PROVE  y \in Kept /\ tree'[y] = "dir"
  <2>1. y \in There /\ tree[y] = "dir" /\ y \in Paths /\ x \in Paths /\ Within(y, x)
    BY <1>2, <1>4, <1>12, AboveIs DEF TreeOK, InDir, Above
  <2>2. ~Within(p, y) /\ ~Within(q, y)
    BY <1>2, <1>12, <2>1, PathOrder
  <2>. QED
    BY <1>5, <2>1, <2>2
<1>13. ASSUME NEW x \in Arrived, NEW y \in Above(x)
       PROVE  y \in There' /\ tree'[y] = "dir"
  <2>1. x \in Paths /\ y \in Paths /\ Within(y, x) /\ Within(q, x) /\ y # x
    BY <1>13, AboveIs DEF Above
  <2>2. CASE Within(q, y)
    <3>1. Moved(q, p, y) \in Above(Moved(q, p, x))
      BY <1>2, <1>6, <1>13, <2>1, <2>2, MovedPath
    <3>2. Moved(q, p, y) \in There /\ tree[Moved(q, p, y)] = "dir"
      BY <1>6, <1>13, <3>1 DEF TreeOK, InDir
    <3>3. y \in Arrived
      BY <2>1, <2>2, <3>2
    <3>. QED
      BY <1>3, <1>6, <3>2, <3>3
  <2>3. CASE ~Within(q, y)
    <3>1. Within(y, q) /\ y # q
      BY <1>2, <2>1, <2>3, PathOrder
    <3>2. y \in There /\ tree[y] = "dir"
      BY <1>1, <1>2, <2>1, <3>1, AboveIs DEF InDir
    <3>3. ~Within(p, y)
      BY <1>1, <1>2, <2>1, <3>1, PathOrder
    <3>. QED
      BY <1>3, <1>5, <2>3, <3>2, <3>3
  <2>. QED
    BY <2>2, <2>3
<1>14. \A x \in There' : InDir(x)'
  BY <1>3, <1>12, <1>13 DEF InDir
<1>15. TreeOK'
  BY <1>4, <1>7, <1>14 DEF TreeOK
<1>16. \A x \in There : ~Within(p, x) /\ x # q => x \in There' /\ tree'[x] = tree[x]
  BY <1>3, <1>5, <1>10
<1>17. \A x \in There : Within(p, x) =>
          Moved(p, q, x) \in There' /\ tree'[Moved(p, q, x)] = tree[x]
  BY <1>3, <1>6, <1>11
<1>18. \A x \in There' : (x \in There /\ tree'[x] = tree[x]) \/ Within(q, x)
  BY <1>3, <1>4, <1>5
<1>. QED
  BY <1>15, <1>16, <1>17, <1>18 DEF p, q

LEMMA TreeStep == TreeOK /\ OpenFiles /\ RequestsOK /\ WritesFiles /\ [Next]_vars => TreeOK'
<1> SUFFICES ASSUME TreeOK, OpenFiles, RequestsOK, WritesFiles, [Next]_vars PROVE TreeOK'
  OBVIOUS
<1>1. ASSUME NEW r \in Requests, Resolve(r) PROVE TreeOK'
  BY <1>1, RestoredTree DEF Resolve
<1>2. ASSUME NEW r \in Requests, Looks(r), Sees(r) PROVE TreeOK'
  BY <1>2 DEF Looks, TreeOK, InDir, There
<1>6. ASSUME NEW r \in Requests, MakeParents(r) PROVE TreeOK'
  <2>1. CASE Above(Place(r)) \subseteq There
    <3>1. UNCHANGED tree
      BY <1>6, <2>1 DEF MakeParents
    <3>. QED
      BY <3>1 DEF TreeOK, InDir, There
  <2>2. CASE ~(Above(Place(r)) \subseteq There)
    <3>1. tree' = [p \in There \cup Above(Place(r)) |-> IF p \in There THEN tree[p] ELSE "dir"]
      BY <1>6, <2>2 DEF MakeParents
    <3>2. /\ There' = There \cup Above(Place(r))
          /\ \A p \in There : tree'[p] = tree[p]
          /\ \A p \in Above(Place(r)) \ There : tree'[p] = "dir"
      BY <3>1 DEF There
    <3>3. \A p \in Above(Place(r)) : tree'[p] = "dir"
      BY <1>6, <3>2 DEF MakeParents, IsFile
    <3>4. Place(r) \in Paths /\ Above(Place(r)) \subseteq Paths
      BY <1>6 DEF MakeParents, Place, RequestsOK, Above
    <3>5. ASSUME NEW p \in There' PROVE InDir(p)'
      <4>1. CASE p \in There
        BY <3>2, <4>1 DEF TreeOK, InDir
      <4>2. CASE p \in Above(Place(r))
        BY <3>2, <3>3, <3>4, <4>2, AboveAbove DEF InDir
      <4>. QED
        BY <3>2, <4>1, <4>2
    <3>6. tree' \in [There' -> Kinds]
      BY <3>1, <3>2, <3>3 DEF TreeOK, Kinds
    <3>. QED
      BY <3>2, <3>4, <3>5, <3>6 DEF TreeOK
  <2>. QED
    BY <2>1, <2>2
<1>7. ASSUME NEW r \in Requests, Open(r) PROVE TreeOK'
  <2>1. tree' = [p \in There \cup {target[r]} |-> IF p = target[r] THEN Empty ELSE tree[p]]
    BY <1>7 DEF Open
  <2>2. target[r] \in Paths /\ InDir(target[r]) /\ ~IsDir(target[r])
    BY <1>7 DEF Open, RequestsOK
  <2>3. There' = There \cup {target[r]} /\ \A p \in There' : tree'[p] = IF p = target[r] THEN Empty ELSE tree[p]
    BY <2>1 DEF There
  <2>4. tree' \in [There' -> Kinds]
    BY <2>1, <2>3, EmptyIsContent DEF TreeOK, Kinds
  <2>5. ASSUME NEW p \in There' PROVE InDir(p)'
    <3>1. InDir(p)
      BY <2>2, <2>3 DEF TreeOK
    <3>2. target[r] \notin Above(p)
      BY <2>2, <3>1 DEF InDir, IsDir
    <3>. QED
      BY <2>3, <3>1, <3>2 DEF InDir
  <2>. QED
    BY <2>2, <2>3, <2>4, <2>5 DEF TreeOK
<1>8. ASSUME NEW r \in Requests, NEW content \in Contents, Write(r, content)
      PROVE  TreeOK'
  <2>1. CASE fd[r] = NoPath
    <3>1. UNCHANGED tree
      BY <1>8, <2>1 DEF Write
    <3>. QED
      BY <3>1 DEF TreeOK, InDir, There
  <2>2. CASE fd[r] # NoPath
    <3>1. tree' = [tree EXCEPT ![fd[r]] = content] /\ fd[r] \in There
      BY <1>8, <2>2 DEF Write, OpenFiles
    <3>2. tree[fd[r]] # "dir"
      BY <1>8, <2>2 DEF Write, OpenFiles, WritesFiles, IsDir
    <3>3. There' = There /\ tree' \in [There -> Kinds]
      BY <3>1 DEF TreeOK, There, Kinds
    <3>4. \A p \in There : tree[p] = "dir" => tree'[p] = "dir"
      BY <3>1, <3>2 DEF TreeOK
    <3>. QED
      BY <3>3, <3>4 DEF TreeOK, InDir
  <2>. QED
    BY <2>1, <2>2
<1>9. ASSUME NEW r \in Requests, MakeFolder(r) PROVE TreeOK'
  <2>1. tree' = [p \in There \cup {target[r]} |-> IF p = target[r] THEN "dir" ELSE tree[p]]
    BY <1>9 DEF MakeFolder
  <2>2. target[r] \in Paths /\ InDir(target[r]) /\ target[r] \notin There
    BY <1>9 DEF MakeFolder, RequestsOK
  <2>3. There' = There \cup {target[r]} /\ \A p \in There' : tree'[p] = IF p = target[r] THEN "dir" ELSE tree[p]
    BY <2>1 DEF There
  <2>4. tree' \in [There' -> Kinds]
    BY <2>1, <2>3 DEF TreeOK, Kinds
  <2>5. ASSUME NEW p \in There' PROVE InDir(p)'
    BY <2>2, <2>3 DEF TreeOK, InDir
  <2>. QED
    BY <2>2, <2>3, <2>4, <2>5 DEF TreeOK
<1>10. ASSUME NEW r \in Requests, Move(r) PROVE TreeOK'
  BY <1>10, MovedTree
<1>11. ASSUME NEW r \in Requests, NEW p \in Paths, Unlink(r, p) PROVE TreeOK'
  <2>1. tree' = [x \in There \ {p} |-> tree[x]] /\ ~HasChild(p)
    BY <1>11 DEF Unlink, UnlinkAny
  <2>2. There' = There \ {p} /\ \A x \in There' : tree'[x] = tree[x]
    BY <2>1 DEF There
  <2>3. ASSUME NEW x \in There' PROVE InDir(x)'
    <3>1. InDir(x) /\ p \notin Above(x)
      BY <2>1, <2>2 DEF TreeOK, HasChild
    <3>. QED
      BY <2>2, <3>1 DEF InDir
  <2>4. tree' \in [There' -> Kinds]
    BY <2>1, <2>2 DEF TreeOK
  <2>. QED
    BY <2>2, <2>3, <2>4 DEF TreeOK
<1>12. ASSUME NEW r \in Requests, NEW event \in {{"recorded"}, {"refused"}},
              RecordThis(r, event)
       PROVE  TreeOK'
  <2>1. UNCHANGED tree
    BY <1>12 DEF RecordThis
  <2>. QED
    BY <2>1 DEF TreeOK, InDir, There
<1>13. ASSUME NEW r \in Requests, Raises(r) PROVE TreeOK'
  <2>1. UNCHANGED tree
    BY <1>13 DEF Raises
  <2>. QED
    BY <2>1 DEF TreeOK, InDir, There
<1>14. ASSUME NEW r \in Requests, Dies(r) PROVE TreeOK'
  <2>1. UNCHANGED tree
    BY <1>14 DEF Dies
  <2>. QED
    BY <2>1 DEF TreeOK, InDir, There
<1>15. CASE UNCHANGED vars
  BY <1>15 DEF vars, TreeOK, InDir, There
<1>16. ASSUME NEW r \in Requests, Looking(r) PROVE TreeOK'
  BY <1>1, <1>2, <1>16, LookingIs
<1>. QED
  BY <1>6, <1>7, <1>8, <1>9, <1>10, <1>11, <1>12, <1>13, <1>14, <1>15, <1>16
     DEF Next, Changing, Ending, Record, RecordRefused

LEMMA OpenStep == TreeOK /\ RequestsOK /\ OpenFiles /\ [Next]_vars => OpenFiles'
<1> SUFFICES ASSUME TreeOK, RequestsOK, OpenFiles, [Next]_vars PROVE OpenFiles'
  OBVIOUS
<1>1. ASSUME NEW r \in Requests, Resolve(r) PROVE OpenFiles'
  <2>1. There \subseteq There' /\ UNCHANGED fd
    BY <1>1, RestoredTree DEF Resolve
  <2>. QED
    BY <2>1 DEF OpenFiles
<1>2. ASSUME NEW r \in Requests, Looks(r), Sees(r) PROVE OpenFiles'
  <2>1. There' = There
    BY <1>2 DEF Looks, There
  <2>. QED
    BY <1>2, <2>1 DEF Looks, OpenFiles
<1>6. ASSUME NEW r \in Requests, MakeParents(r) PROVE OpenFiles'
  <2>1. There \subseteq There'
    BY <1>6 DEF MakeParents, There
  <2>2. UNCHANGED fd
    BY <1>6 DEF MakeParents
  <2>. QED
    BY <2>1, <2>2 DEF OpenFiles
<1>7. ASSUME NEW r \in Requests, Open(r) PROVE OpenFiles'
  <2>1. There' = There \cup {target[r]}
    BY <1>7 DEF Open, There
  <2>2. fd' = [fd EXCEPT ![r] = target[r]]
    BY <1>7 DEF Open
  <2>. QED
    BY <2>1, <2>2 DEF OpenFiles
<1>8. ASSUME NEW r \in Requests, NEW content \in Contents, Write(r, content)
      PROVE  OpenFiles'
  <2>1. There' = There
    BY <1>8 DEF Write, There
  <2>2. UNCHANGED fd
    BY <1>8 DEF Write
  <2>. QED
    BY <2>1, <2>2 DEF OpenFiles
<1>9. ASSUME NEW r \in Requests, MakeFolder(r) PROVE OpenFiles'
  <2>1. There' = There \cup {target[r]}
    BY <1>9 DEF MakeFolder, There
  <2>2. UNCHANGED fd
    BY <1>9 DEF MakeFolder
  <2>. QED
    BY <2>1, <2>2 DEF OpenFiles
<1>10. ASSUME NEW r \in Requests, Move(r) PROVE OpenFiles'
  <2>1. fd' = [s \in Requests |->
                   IF fd[s] = NoPath THEN NoPath
                   ELSE IF Within(target[r], fd[s]) THEN Moved(target[r], dest[r], fd[s])
                   ELSE IF fd[s] = dest[r] THEN NoPath ELSE fd[s]]
    BY <1>10 DEF Move
  <2>2. \A s \in Requests : fd'[s] \in There' \cup {NoPath}
    BY <1>10, <2>1, MovedTree DEF OpenFiles
  <2>. QED
    BY <2>1, <2>2 DEF OpenFiles
<1>11. ASSUME NEW r \in Requests, NEW p \in Paths, Unlink(r, p) PROVE OpenFiles'
  <2>1. There' = There \ {p}
    BY <1>11 DEF Unlink, UnlinkAny, There
  <2>2. fd' = [s \in Requests |-> IF fd[s] = p THEN NoPath ELSE fd[s]]
    BY <1>11 DEF Unlink, UnlinkAny
  <2>. QED
    BY <2>1, <2>2 DEF OpenFiles
<1>12. ASSUME NEW r \in Requests, NEW event \in {{"recorded"}, {"refused"}},
              RecordThis(r, event)
       PROVE  OpenFiles'
  <2>1. There' = There /\ fd' = [fd EXCEPT ![r] = NoPath]
    BY <1>12 DEF RecordThis, Done, There
  <2>. QED
    BY <2>1 DEF OpenFiles
<1>13. ASSUME NEW r \in Requests, Raises(r) PROVE OpenFiles'
  <2>1. There' = There /\ fd' = [fd EXCEPT ![r] = NoPath]
    BY <1>13 DEF Raises, Done, There
  <2>. QED
    BY <2>1 DEF OpenFiles
<1>14. ASSUME NEW r \in Requests, Dies(r) PROVE OpenFiles'
  <2>1. There' = There /\ fd' = [fd EXCEPT ![r] = NoPath]
    BY <1>14 DEF Dies, Done, There
  <2>. QED
    BY <2>1 DEF OpenFiles
<1>15. CASE UNCHANGED vars
  BY <1>15 DEF vars, OpenFiles, There
<1>16. ASSUME NEW r \in Requests, Looking(r) PROVE OpenFiles'
  BY <1>1, <1>2, <1>16, LookingIs
<1>. QED
  BY <1>6, <1>7, <1>8, <1>9, <1>10, <1>11, <1>12, <1>13, <1>14, <1>15, <1>16
     DEF Next, Changing, Ending, Record, RecordRefused

LEMMA RequestStep ==
  TreeOK /\ OpenFiles /\ RequestsOK /\ [Next]_vars => RequestsOK'
<1> SUFFICES ASSUME TreeOK, OpenFiles, RequestsOK, [Next]_vars PROVE RequestsOK'
  OBVIOUS
<1> USE LayoutIsFolders, EmptyIsContent DEF RequestsOK, GoTo, Did, Crosses, Kinds, Step, Outcome
<1>1. ASSUME NEW r \in Requests, Resolve(r) PROVE RequestsOK'
  <2>1. crossed' \in [Requests -> BOOLEAN]
    BY <1>1 DEF Resolve
  <2>. QED
    BY <1>1, <2>1 DEF Resolve
<1>2. ASSUME NEW r \in Requests, Looks(r), Sees(r) PROVE RequestsOK'
  <2>1. \A s \in Requests : pc'[s] \in Step /\ op'[s] \in {"edit", "create", "folder", "rename", "delete"}
    BY <1>2 DEF Looks
  <2>2. did'[r] \in SUBSET Outcome
    BY <1>2 DEF Looks, Outcome
  <2>3. \A s \in Requests : pc'[s] \notin {"new", "resolved", "over"} =>
           target'[s] \in Paths /\ (op'[s] = "rename" => dest'[s] \in Paths)
    BY <1>2 DEF Looks, Sees
  <2>4. \A s \in Requests : pc'[s] = "found" => op'[s] # "rename"
    BY <1>2 DEF Looks
  <2>. QED
    BY <1>2, <2>1, <2>2, <2>3, <2>4 DEF Looks
<1>6. ASSUME NEW r \in Requests, MakeParents(r) PROVE RequestsOK'
  <2>1. did' \in [Requests -> SUBSET Outcome]
    BY <1>6 DEF MakeParents
  <2>2. crossed' \in [Requests -> BOOLEAN]
    BY <1>6 DEF MakeParents
  <2>. QED
    BY <1>6, <2>1, <2>2 DEF MakeParents, Step
<1>7. ASSUME NEW r \in Requests, Open(r) PROVE RequestsOK'
  BY <1>7 DEF Open
<1>8. ASSUME NEW r \in Requests, NEW content \in Contents, Write(r, content)
      PROVE  RequestsOK'
  BY <1>8 DEF Write
<1>9. ASSUME NEW r \in Requests, MakeFolder(r) PROVE RequestsOK'
  BY <1>9 DEF MakeFolder
<1>10. ASSUME NEW r \in Requests, Move(r) PROVE RequestsOK'
  BY <1>10 DEF Move
<1>11. ASSUME NEW r \in Requests, NEW p \in Paths, Unlink(r, p) PROVE RequestsOK'
  BY <1>11 DEF Unlink, UnlinkAny
<1>12. ASSUME NEW r \in Requests, NEW event \in {{"recorded"}, {"refused"}},
              RecordThis(r, event)
       PROVE  RequestsOK'
  BY <1>12 DEF RecordThis, Done
<1>13. ASSUME NEW r \in Requests, Raises(r) PROVE RequestsOK'
  BY <1>13 DEF Raises, Done
<1>14. ASSUME NEW r \in Requests, Dies(r) PROVE RequestsOK'
  BY <1>14 DEF Dies, Done
<1>15. CASE UNCHANGED vars
  BY <1>15 DEF vars
<1>16. ASSUME NEW r \in Requests, Looking(r) PROVE RequestsOK'
  BY <1>1, <1>2, <1>16, LookingIs
<1>. QED
  BY <1>6, <1>7, <1>8, <1>9, <1>10, <1>11, <1>12, <1>13, <1>14, <1>15, <1>16
     DEF Next, Changing, Ending, Record, RecordRefused

LEMMA RacedStay ==
  ASSUME TreeOK, OpenFiles, RequestsOK, [Next]_vars
  PROVE  raced \subseteq raced'
<1>1. ASSUME NEW r \in Requests, Looking(r) PROVE raced \subseteq raced'
  <2>1. CASE Resolve(r)
    BY <2>1 DEF Resolve
  <2>2. CASE ~Resolve(r)
    BY <1>1, <2>2, LookingIs DEF Looks
  <2>. QED
    BY <2>1, <2>2
<1>2. ASSUME NEW r \in Requests, Changing(r) PROVE raced \subseteq raced'
  BY <1>2 DEF Changing, MakeParents, Open, MakeFolder, Move, Write, Unlink, UnlinkAny
<1>3. ASSUME NEW r \in Requests, Ending(r) PROVE raced \subseteq raced'
  BY <1>3 DEF Ending, Record, RecordRefused, RecordThis, Raises, Dies
<1>4. CASE UNCHANGED vars
  BY <1>4 DEF vars
<1>. QED
  BY <1>1, <1>2, <1>3, <1>4 DEF Next

LEMMA WritesStep == TreeOK /\ OpenFiles /\ RequestsOK /\ WritesFiles /\ Away /\ [Next]_vars => WritesFiles'
<1> SUFFICES ASSUME TreeOK, OpenFiles, RequestsOK, WritesFiles, Away, [Next]_vars PROVE WritesFiles'
  OBVIOUS
<1>0. raced \subseteq raced'
  BY RacedStay
<1> USE DEF GoTo
<1>1. ASSUME NEW r \in Requests, Resolve(r) PROVE WritesFiles'
  <2>1. There \subseteq There' /\ (\A x \in There : tree'[x] = tree[x]) /\ UNCHANGED <<fd, raced>>
    BY <1>1, RestoredTree DEF Resolve
  <2>2. \A s \in Requests : pc'[s] = "opened" => pc[s] = "opened"
    BY <1>1 DEF Resolve, RequestsOK
  <2>. QED
    BY <1>0, <2>1, <2>2 DEF WritesFiles, OpenFiles, IsDir
<1>2. ASSUME NEW r \in Requests, Looks(r), Sees(r) PROVE WritesFiles'
  <2>1. \A s \in Requests : pc'[s] = "opened" => pc[s] = "opened" /\ fd'[s] = fd[s]
    BY <1>2 DEF Looks, RequestsOK, OpenFiles
  <2>. QED
    BY <1>0, <1>2, <2>1 DEF WritesFiles, Looks, IsDir, There
<1>6. ASSUME NEW r \in Requests, MakeParents(r) PROVE WritesFiles'
  <2>1. There \subseteq There' /\ \A x \in There : tree'[x] = tree[x]
    BY <1>6 DEF MakeParents, There
  <2>2. UNCHANGED fd /\ pc' = [pc EXCEPT ![r] = "ready"]
    BY <1>6 DEF MakeParents
  <2>. QED
    BY <1>0, <2>1, <2>2 DEF WritesFiles, OpenFiles, IsDir, RequestsOK
<1>7. ASSUME NEW r \in Requests, Open(r) PROVE WritesFiles'
  <2>1. There' = There \cup {target[r]} /\ \A x \in There' : tree'[x] = IF x = target[r] THEN Empty ELSE tree[x]
    BY <1>7 DEF Open, There
  <2>2. fd' = [fd EXCEPT ![r] = target[r]] /\ pc' = [pc EXCEPT ![r] = "opened"]
    BY <1>7 DEF Open
  <2>3. target[r] \notin Layout
    BY <1>7 DEF Open, Away
  <2>4. Empty # "dir"
    BY EmptyIsContent
  <2>. QED
    BY <1>0, <2>1, <2>2, <2>3, <2>4 DEF WritesFiles, OpenFiles, IsDir, RequestsOK
<1>8. ASSUME NEW r \in Requests, NEW content \in Contents, Write(r, content)
      PROVE  WritesFiles'
  <2>1. There' = There /\ \A x \in There : tree'[x] \in {tree[x], content}
    BY <1>8 DEF Write, There, TreeOK
  <2>2. UNCHANGED fd /\ pc' = [pc EXCEPT ![r] = "changed"]
    BY <1>8 DEF Write
  <2>3. content # "dir"
    BY EmptyIsContent
  <2>. QED
    BY <1>0, <2>1, <2>2, <2>3 DEF WritesFiles, OpenFiles, IsDir, RequestsOK
<1>9. ASSUME NEW r \in Requests, MakeFolder(r) PROVE WritesFiles'
  <2>1. /\ There' = There \cup {target[r]} /\ target[r] \notin There
        /\ \A x \in There : tree'[x] = tree[x]
    BY <1>9 DEF MakeFolder, There
  <2>2. UNCHANGED fd /\ pc' = [pc EXCEPT ![r] = "changed"]
    BY <1>9 DEF MakeFolder
  <2>. QED
    BY <1>0, <2>1, <2>2 DEF WritesFiles, OpenFiles, IsDir, RequestsOK
<1>10. ASSUME NEW r \in Requests, Move(r) PROVE WritesFiles'
  <2>1. fd' = [s \in Requests |->
                   IF fd[s] = NoPath THEN NoPath
                   ELSE IF Within(target[r], fd[s]) THEN Moved(target[r], dest[r], fd[s])
                   ELSE IF fd[s] = dest[r] THEN NoPath ELSE fd[s]]
    BY <1>10 DEF Move
  <2>2. pc' = [pc EXCEPT ![r] = "changed"] /\ UNCHANGED raced
        /\ dest[r] \in Paths /\ (dest[r] \in Layout => dest[r] \in raced) /\ target[r] \in Paths
    BY <1>10 DEF Move, Away, RequestsOK
  <2>3. ASSUME NEW s \in Requests, pc'[s] = "opened", fd'[s] # NoPath
        PROVE  tree'[fd'[s]] # "dir" /\ (fd'[s] \in Layout => fd'[s] \in raced)
    <3>1. pc[s] = "opened" /\ fd[s] # NoPath /\ fd[s] \in There
      BY <2>1, <2>2, <2>3 DEF OpenFiles, RequestsOK
    <3>2. tree[fd[s]] # "dir" /\ (fd[s] \in Layout => fd[s] \in raced)
      BY <3>1 DEF WritesFiles, IsDir
    <3>3. CASE Within(target[r], fd[s])
      <4>1. fd'[s] = Moved(target[r], dest[r], fd[s]) /\ tree'[fd'[s]] = tree[fd[s]] /\ fd'[s] \in There'
        BY <1>10, <2>1, <3>1, <3>3, MovedTree
      <4>2. Within(dest[r], fd'[s]) /\ fd'[s] \in Paths
        BY <2>2, <3>1, <3>3, <4>1, MovedPath, TreeStep DEF TreeOK
      <4>3. fd'[s] \in Layout => fd'[s] \in raced
        BY <2>2, <4>2, NothingAboveTheLayout, AboveIs
      <4>. QED
        BY <3>2, <4>1, <4>3
    <3>4. CASE ~Within(target[r], fd[s])
      <4>1. fd'[s] = fd[s] /\ fd[s] # dest[r]
        BY <2>1, <2>3, <3>1, <3>4
      <4>2. tree'[fd'[s]] = tree[fd[s]]
        BY <1>10, <3>1, <3>4, <4>1, MovedTree
      <4>. QED
        BY <3>2, <4>1, <4>2
    <3>. QED
      BY <3>3, <3>4
  <2>. QED
    BY <1>0, <2>2, <2>3 DEF WritesFiles, IsDir, There
<1>11. ASSUME NEW r \in Requests, NEW p \in Paths, Unlink(r, p) PROVE WritesFiles'
  <2>1. There' = There \ {p} /\ \A x \in There' : tree'[x] = tree[x]
    BY <1>11 DEF Unlink, UnlinkAny, There
  <2>2. fd' = [s \in Requests |-> IF fd[s] = p THEN NoPath ELSE fd[s]]
    BY <1>11 DEF Unlink, UnlinkAny
  <2>3. \A s \in Requests : pc'[s] = "opened" => pc[s] = "opened"
    BY <1>11 DEF Unlink, UnlinkAny, RequestsOK
  <2>. QED
    BY <1>0, <2>1, <2>2, <2>3 DEF WritesFiles, OpenFiles, IsDir
<1>12. ASSUME NEW r \in Requests, NEW event \in {{"recorded"}, {"refused"}},
              RecordThis(r, event)
       PROVE  WritesFiles'
  <2>1. UNCHANGED <<tree, raced>> /\ fd' = [fd EXCEPT ![r] = NoPath] /\ pc' = [pc EXCEPT ![r] = "over"]
    BY <1>12 DEF RecordThis, Done
  <2>. QED
    BY <1>0, <2>1 DEF WritesFiles, OpenFiles, IsDir, There, RequestsOK
<1>13. ASSUME NEW r \in Requests, Raises(r) PROVE WritesFiles'
  <2>1. UNCHANGED tree /\ fd' = [fd EXCEPT ![r] = NoPath] /\ pc' = [pc EXCEPT ![r] = "over"]
    BY <1>13 DEF Raises, Done
  <2>. QED
    BY <1>0, <2>1 DEF WritesFiles, OpenFiles, IsDir, There, RequestsOK
<1>14. ASSUME NEW r \in Requests, Dies(r) PROVE WritesFiles'
  <2>1. UNCHANGED tree /\ fd' = [fd EXCEPT ![r] = NoPath] /\ pc' = [pc EXCEPT ![r] = "over"]
    BY <1>14 DEF Dies, Done
  <2>. QED
    BY <1>0, <2>1 DEF WritesFiles, OpenFiles, IsDir, There, RequestsOK
<1>15. CASE UNCHANGED vars
  BY <1>15 DEF vars, WritesFiles, IsDir, There
<1>16. ASSUME NEW r \in Requests, Looking(r) PROVE WritesFiles'
  BY <1>1, <1>2, <1>16, LookingIs
<1>. QED
  BY <1>6, <1>7, <1>8, <1>9, <1>10, <1>11, <1>12, <1>13, <1>14, <1>15, <1>16
     DEF Next, Changing, Ending, Record, RecordRefused

LEMMA AwayStep ==
  TreeOK /\ OpenFiles /\ RequestsOK /\ Settled /\ Away /\ [Next]_vars => Away'
<1> SUFFICES ASSUME TreeOK, OpenFiles, RequestsOK, Settled, Away, [Next]_vars PROVE Away'
  OBVIOUS
<1> USE DEF Away, RequestsOK, GoTo
<1>1. ASSUME NEW r \in Requests, Resolve(r) PROVE Away'
  BY <1>1 DEF Resolve
<1>2. ASSUME NEW r \in Requests, Looks(r), Sees(r) PROVE Away'
  <2>1. op'[r] = "rename" /\ dest'[r] \in Layout => dest'[r] \in raced'
    BY <1>2 DEF Looks, Sees, Settled
  <2>2. op'[r] \in {"edit", "create"} => target'[r] \notin Layout
    BY <1>2 DEF Sees
  <2>3. \A s \in Requests \ {r} : pc'[s] = pc[s] /\ op'[s] = op[s] /\ target'[s] = target[s] /\ dest'[s] = dest[s]
    BY <1>2 DEF Looks
  <2>4. raced \subseteq raced'
    BY <1>2 DEF Looks
  <2>. QED
    BY <2>1, <2>2, <2>3, <2>4
<1>6. ASSUME NEW r \in Requests, MakeParents(r) PROVE Away'
  BY <1>6 DEF MakeParents
<1>7. ASSUME NEW r \in Requests, Open(r) PROVE Away'
  BY <1>7 DEF Open
<1>8. ASSUME NEW r \in Requests, NEW content \in Contents, Write(r, content) PROVE Away'
  BY <1>8 DEF Write
<1>9. ASSUME NEW r \in Requests, MakeFolder(r) PROVE Away'
  BY <1>9 DEF MakeFolder
<1>10. ASSUME NEW r \in Requests, Move(r) PROVE Away'
  BY <1>10 DEF Move
<1>11. ASSUME NEW r \in Requests, NEW p \in Paths, Unlink(r, p) PROVE Away'
  BY <1>11 DEF Unlink, UnlinkAny
<1>12. ASSUME NEW r \in Requests, NEW event \in {{"recorded"}, {"refused"}},
              RecordThis(r, event)
       PROVE  Away'
  BY <1>12 DEF RecordThis, Done
<1>13. ASSUME NEW r \in Requests, Raises(r) PROVE Away'
  BY <1>13 DEF Raises, Done
<1>14. ASSUME NEW r \in Requests, Dies(r) PROVE Away'
  BY <1>14 DEF Dies, Done
<1>15. CASE UNCHANGED vars
  BY <1>15 DEF vars
<1>16. ASSUME NEW r \in Requests, Looking(r) PROVE Away'
  BY <1>1, <1>2, <1>16, LookingIs
<1>. QED
  BY <1>6, <1>7, <1>8, <1>9, <1>10, <1>11, <1>12, <1>13, <1>14, <1>15, <1>16
     DEF Next, Changing, Ending, Record, RecordRefused

LEMMA SettledStep ==
  TreeOK /\ OpenFiles /\ RequestsOK /\ Settled /\ [Next]_vars => Settled'
<1> SUFFICES ASSUME TreeOK, OpenFiles, RequestsOK, Settled, [Next]_vars PROVE Settled'
  OBVIOUS
\* A step that leaves what is there, or tells the others that it does not.
<1>0. ASSUME NEW r \in Requests, pc'[r] # "resolved", \A s \in Requests \ {r} : pc'[s] = pc[s],
             \A s \in Requests : crossed[s] /\ pc[s] = "resolved" => crossed'[s] \/ s = r,
             \/ There \subseteq There'
             \/ \A s \in Requests : pc[s] = "resolved" => crossed'[s] \/ s = r
      PROVE  Settled'
  BY <1>0 DEF Settled
<1> USE DEF GoTo, RequestsOK
<1>1. ASSUME NEW r \in Requests, Resolve(r) PROVE Settled'
  BY <1>1, RestoredTree DEF Resolve, Settled
<1>2. ASSUME NEW r \in Requests, Looks(r) PROVE Settled'
  <2>1. pc'[r] # "resolved" /\ (\A s \in Requests \ {r} : pc'[s] = pc[s]) /\ There' = There
    BY <1>2 DEF Looks, There
  <2>2. \A s \in Requests \ {r} : crossed'[s] = crossed[s]
    BY <1>2 DEF Looks
  <2>. QED
    BY <1>0, <2>1, <2>2
<1>6. ASSUME NEW r \in Requests, MakeParents(r) PROVE Settled'
  <2>1. There \subseteq There' /\ pc' = [pc EXCEPT ![r] = "ready"]
    BY <1>6 DEF MakeParents, There
  <2>2. \A s \in Requests : crossed[s] => crossed'[s]
    BY <1>6 DEF MakeParents, Crosses
  <2>. QED
    BY <1>0, <2>1, <2>2
<1>7. ASSUME NEW r \in Requests, Open(r) PROVE Settled'
  <2>1. There \subseteq There' /\ pc' = [pc EXCEPT ![r] = "opened"]
    BY <1>7 DEF Open, There
  <2>2. \A s \in Requests : crossed[s] => crossed'[s]
    BY <1>7 DEF Open, Crosses
  <2>. QED
    BY <1>0, <2>1, <2>2
<1>8. ASSUME NEW r \in Requests, NEW content \in Contents, Write(r, content) PROVE Settled'
  <2>1. There \subseteq There' /\ pc' = [pc EXCEPT ![r] = "changed"]
    BY <1>8 DEF Write, There
  <2>2. \A s \in Requests : crossed[s] => crossed'[s]
    BY <1>8 DEF Write, Crosses
  <2>. QED
    BY <1>0, <2>1, <2>2
<1>9. ASSUME NEW r \in Requests, MakeFolder(r) PROVE Settled'
  <2>1. There \subseteq There' /\ pc' = [pc EXCEPT ![r] = "changed"]
    BY <1>9 DEF MakeFolder, There
  <2>2. \A s \in Requests : crossed[s] => crossed'[s]
    BY <1>9 DEF MakeFolder, Crosses
  <2>. QED
    BY <1>0, <2>1, <2>2
<1>10. ASSUME NEW r \in Requests, Move(r) PROVE Settled'
  <2>1. pc' = [pc EXCEPT ![r] = "changed"]
    BY <1>10 DEF Move
  <2>2. \A s \in Requests \ {r} : pc[s] = "resolved" => crossed'[s]
    BY <1>10 DEF Move, Crosses
  <2>. QED
    BY <1>0, <2>1, <2>2
<1>11. ASSUME NEW r \in Requests, NEW p \in Paths, Unlink(r, p) PROVE Settled'
  <2>1. pc'[r] # "resolved" /\ \A s \in Requests \ {r} : pc'[s] = pc[s]
    BY <1>11 DEF Unlink, UnlinkAny
  <2>2. \A s \in Requests \ {r} : pc[s] = "resolved" => crossed'[s]
    BY <1>11 DEF Unlink, UnlinkAny, Crosses
  <2>. QED
    BY <1>0, <2>1, <2>2
<1>12. ASSUME NEW r \in Requests, Ending(r) PROVE Settled'
  <2>1. UNCHANGED <<tree, crossed>> /\ pc' = [pc EXCEPT ![r] = "over"]
    BY <1>12 DEF Ending, Record, RecordRefused, RecordThis, Raises, Dies, Done
  <2>2. There' = There
    BY <2>1 DEF There
  <2>. QED
    BY <1>0, <2>1, <2>2
<1>15. CASE UNCHANGED vars
  BY <1>15 DEF vars, Settled, There
<1>16. ASSUME NEW r \in Requests, Looking(r) PROVE Settled'
  BY <1>1, <1>2, <1>16, LookingIs
<1>. QED
  BY <1>6, <1>7, <1>8, <1>9, <1>10, <1>11, <1>12, <1>15, <1>16 DEF Next, Changing

LEMMA LayoutStep == TreeOK /\ OpenFiles /\ RequestsOK /\ WritesFiles /\ Away /\ LayoutStays /\ [Next]_vars => LayoutStays'
<1> SUFFICES ASSUME TreeOK, OpenFiles, RequestsOK, WritesFiles, Away, LayoutStays, [Next]_vars PROVE LayoutStays'
  OBVIOUS
<1>0. raced \subseteq raced'
  BY RacedStay
<1>1. ASSUME NEW r \in Requests, Resolve(r) PROVE LayoutStays'
  <2>1. tree' = Restored /\ UNCHANGED raced
    BY <1>1 DEF Resolve
  <2>. QED
    BY <1>0, <2>1, RestoredTree DEF LayoutStays, IsFile
<1>2. ASSUME NEW r \in Requests, Looks(r), Sees(r) PROVE LayoutStays'
  <2>1. UNCHANGED tree /\ raced \subseteq raced'
    BY <1>2 DEF Looks
  <2>. QED
    BY <1>0, <2>1 DEF LayoutStays, IsFile, There
<1>6. ASSUME NEW r \in Requests, MakeParents(r) PROVE LayoutStays'
  <2>1. \A x \in There' : tree'[x] = "dir" \/ (x \in There /\ tree'[x] = tree[x])
    BY <1>6 DEF MakeParents, There
  <2>. QED
    BY <1>0, <2>1 DEF LayoutStays, IsFile
<1>7. ASSUME NEW r \in Requests, Open(r) PROVE LayoutStays'
  <2>1. There' = There \cup {target[r]} /\ \A x \in There' : x # target[r] => tree'[x] = tree[x]
    BY <1>7 DEF Open, There
  <2>2. target[r] \notin Layout
    BY <1>7 DEF Open, Away
  <2>. QED
    BY <1>0, <2>1, <2>2 DEF LayoutStays, IsFile
<1>8. ASSUME NEW r \in Requests, NEW content \in Contents, Write(r, content)
      PROVE  LayoutStays'
  <2>1. There' = There /\ \A x \in There : (x = fd[r] /\ fd[r] # NoPath) \/ tree'[x] = tree[x]
    BY <1>8 DEF Write, There, TreeOK
  <2>2. fd[r] # NoPath => (fd[r] \in Layout => fd[r] \in raced)
    BY <1>8 DEF Write, WritesFiles
  <2>. QED
    BY <1>0, <2>1, <2>2 DEF LayoutStays, IsFile
<1>9. ASSUME NEW r \in Requests, MakeFolder(r) PROVE LayoutStays'
  <2>1. \A x \in There' : tree'[x] = "dir" \/ (x \in There /\ tree'[x] = tree[x])
    BY <1>9 DEF MakeFolder, There
  <2>. QED
    BY <1>0, <2>1 DEF LayoutStays, IsFile
<1>10. ASSUME NEW r \in Requests, Move(r) PROVE LayoutStays'
  <2>1. dest[r] \in Paths /\ (dest[r] \in Layout => dest[r] \in raced) /\ UNCHANGED raced
    BY <1>10 DEF Move, Away, RequestsOK
  <2>2. \A x \in Layout : Within(dest[r], x) => x = dest[r]
    BY <2>1, NothingAboveTheLayout, AboveIs
  <2>. QED
    BY <1>0, <1>10, <2>1, <2>2, MovedTree DEF LayoutStays, IsFile
<1>11. ASSUME NEW r \in Requests, NEW p \in Paths, Unlink(r, p) PROVE LayoutStays'
  <2>1. There' = There \ {p} /\ \A x \in There' : tree'[x] = tree[x]
    BY <1>11 DEF Unlink, UnlinkAny, There
  <2>. QED
    BY <1>0, <2>1 DEF LayoutStays, IsFile
<1>12. ASSUME NEW r \in Requests, NEW event \in {{"recorded"}, {"refused"}},
              RecordThis(r, event)
       PROVE  LayoutStays'
  <2>1. UNCHANGED <<tree, raced>>
    BY <1>12 DEF RecordThis
  <2>. QED
    BY <1>0, <2>1 DEF LayoutStays, IsFile, There
<1>13. ASSUME NEW r \in Requests, Raises(r) PROVE LayoutStays'
  <2>1. UNCHANGED tree
    BY <1>13 DEF Raises
  <2>. QED
    BY <1>0, <2>1 DEF LayoutStays, IsFile, There
<1>14. ASSUME NEW r \in Requests, Dies(r) PROVE LayoutStays'
  <2>1. UNCHANGED tree
    BY <1>14 DEF Dies
  <2>. QED
    BY <1>0, <2>1 DEF LayoutStays, IsFile, There
<1>15. CASE UNCHANGED vars
  BY <1>15 DEF vars, LayoutStays, IsFile, There
<1>16. ASSUME NEW r \in Requests, Looking(r) PROVE LayoutStays'
  BY <1>1, <1>2, <1>16, LookingIs
<1>. QED
  BY <1>6, <1>7, <1>8, <1>9, <1>10, <1>11, <1>12, <1>13, <1>14, <1>15, <1>16
     DEF Next, Changing, Ending, Record, RecordRefused

LEMMA ExcusedStep == TreeOK /\ OpenFiles /\ RequestsOK /\ ExcusedOK /\ [Next]_vars => ExcusedOK'
<1> SUFFICES ASSUME TreeOK, OpenFiles, RequestsOK, ExcusedOK, [Next]_vars PROVE ExcusedOK'
  OBVIOUS
<1> USE DEF ExcusedOK, TreeOK, OpenFiles, RequestsOK
<1>1. ASSUME NEW r \in Requests, Resolve(r) PROVE ExcusedOK'
  BY <1>1 DEF Resolve
<1>2. ASSUME NEW r \in Requests, Looks(r), Sees(r) PROVE ExcusedOK'
  BY <1>2 DEF Looks
<1>6. ASSUME NEW r \in Requests, MakeParents(r) PROVE ExcusedOK'
  BY <1>6 DEF MakeParents
<1>7. ASSUME NEW r \in Requests, Open(r) PROVE ExcusedOK'
  BY <1>7 DEF Open
<1>8. ASSUME NEW r \in Requests, NEW content \in Contents, Write(r, content)
      PROVE  ExcusedOK'
  BY <1>8 DEF Write
<1>9. ASSUME NEW r \in Requests, MakeFolder(r) PROVE ExcusedOK'
  BY <1>9 DEF MakeFolder
<1>10. ASSUME NEW r \in Requests, Move(r) PROVE ExcusedOK'
  <2>1. There' \subseteq Paths
    BY <1>10, MovedTree DEF TreeOK
  <2>2. excused' \subseteq There' /\ UNCHANGED raced
    BY <1>10 DEF Move, There
  <2>. QED
    BY <2>1, <2>2
<1>11. ASSUME NEW r \in Requests, NEW p \in Paths, Unlink(r, p) PROVE ExcusedOK'
  BY <1>11 DEF Unlink, UnlinkAny
<1>12. ASSUME NEW r \in Requests, NEW event \in {{"recorded"}, {"refused"}},
              RecordThis(r, event)
       PROVE  ExcusedOK'
  BY <1>12 DEF RecordThis, Done
<1>13. ASSUME NEW r \in Requests, Raises(r) PROVE ExcusedOK'
  BY <1>13 DEF Raises, Done
<1>14. ASSUME NEW r \in Requests, Dies(r) PROVE ExcusedOK'
  BY <1>14 DEF Dies, Done
<1>15. CASE UNCHANGED vars
  BY <1>15 DEF vars
<1>16. ASSUME NEW r \in Requests, Looking(r) PROVE ExcusedOK'
  BY <1>1, <1>2, <1>16, LookingIs
<1>. QED
  BY <1>6, <1>7, <1>8, <1>9, <1>10, <1>11, <1>12, <1>13, <1>14, <1>15, <1>16
     DEF Next, Changing, Ending, Record, RecordRefused


----------------------------------------------------------------------------
(* What is there *)

Inv ==
    /\ TreeOK /\ OpenFiles /\ RequestsOK /\ ExcusedOK
    /\ WritesFiles /\ Settled /\ Away /\ LayoutStays

LEMMA InitHolds == Init => Inv
<1> SUFFICES ASSUME Init PROVE Inv
  OBVIOUS
<1>1. PICK There0 \in SUBSET Paths :
         /\ tree \in [There0 -> Kinds]
         /\ \A p \in There0 : \A q \in Above(p) : q \in There0 /\ tree[q] = "dir"
         /\ \A p \in Layout : p \in DOMAIN tree /\ tree[p] = "dir"
  BY DEF Init, Trees, Kinds
<1>2. There = There0
  BY <1>1 DEF There
<1>3. TreeOK
  BY <1>1, <1>2 DEF TreeOK, InDir
<1>4. RequestsOK
  BY LayoutIsFolders, EmptyIsContent DEF Init, RequestsOK, Step, Kinds
<1>5. ExcusedOK
  BY <1>1, <1>2 DEF Init, ExcusedOK
<1>6. LayoutStays
  BY <1>1, <1>2 DEF LayoutStays, IsFile
<1>. QED
  BY <1>3, <1>4, <1>5, <1>6 DEF Inv, Init, OpenFiles, WritesFiles, Settled, Away

LEMMA InvStep == Inv /\ [Next]_vars => Inv'
BY TreeStep, OpenStep, RequestStep, ExcusedStep, WritesStep, SettledStep, AwayStep, LayoutStep
   DEF Inv

LEMMA InvHolds == Spec => []Inv
BY InitHolds, InvStep, PTL DEF Spec

\* Types, and whatever is there is in a folder, whatever overlaps.
THEOREM TypesAreCorrect == Spec => []TypeOK
<1>1. Inv => TypeOK
  BY TypesAre DEF Inv
<1>. QED
  BY <1>1, InvHolds, PTL

\* No file takes the place of a folder of the layout, so that resolve and ensure_layout,
\* which every request calls, keep working, but after another request took the folder away
\* between the resolve of a rename to its path and the look.
THEOREM LayoutIsKept == Spec => []LayoutStays
<1>1. Inv => LayoutStays
  BY DEF Inv
<1>. QED
  BY <1>1, InvHolds, PTL

----------------------------------------------------------------------------
(* What was looked at stays, or is found crossed *)

Fresh ==
    \A r \in Requests :
        /\ pc[r] \in {"new", "resolved"} => did[r] = {}
        /\ pc[r] \in {"found", "looked"} => did[r] \subseteq {"odd"}

\* What the look and the parents made sure of.
Stands(r) ==
    /\ pc[r] \in {"found", "looked", "ready"} =>
          /\ op[r] = "create" => target[r] \notin There
          /\ op[r] = "edit" => IsFile(target[r])
          /\ op[r] = "rename" => target[r] \in There /\ dest[r] \notin There
    /\ pc[r] = "ready" =>
          /\ InDir(Place(r))
          /\ op[r] = "folder" => target[r] \notin There

Prepared == \A r \in Requests : ~crossed[r] => Stands(r)

\* A step of another request.
Passes(s) ==
    /\ pc'[s] = pc[s] /\ op'[s] = op[s] /\ target'[s] = target[s] /\ dest'[s] = dest[s]
    /\ crossed[s] => crossed'[s]
    /\ ~crossed'[s] /\ pc[s] \in {"found", "looked", "ready"} => tree' = tree

LEMMA PassedStands ==
  ASSUME NEW s \in Requests, RequestsOK, crossed[s] \/ Stands(s), Passes(s)
  PROVE  ~crossed'[s] => Stands(s)'
<1> SUFFICES ASSUME ~crossed'[s] PROVE Stands(s)'
  OBVIOUS
<1>1. Stands(s) /\ pc'[s] = pc[s] /\ op'[s] = op[s] /\ target'[s] = target[s] /\ dest'[s] = dest[s]
  BY DEF Passes
<1>2. CASE pc[s] \notin {"found", "looked", "ready"}
  BY <1>1, <1>2 DEF Stands
<1>3. CASE pc[s] \in {"found", "looked", "ready"}
  <2>1. tree' = tree /\ Place(s)' = Place(s)
    BY <1>1, <1>3 DEF Passes, Place
  <2>. QED
    BY <1>1, <2>1 DEF Stands, IsFile, InDir, There
<1>. QED
  BY <1>2, <1>3

LEMMA PreparedFrom ==
  ASSUME NEW r \in Requests, RequestsOK, Prepared, \A s \in Requests \ {r} : Passes(s),
         ~crossed'[r] => Stands(r)'
  PROVE  Prepared'
BY PassedStands DEF Prepared

LEMMA FreshStep ==
  TreeOK /\ OpenFiles /\ RequestsOK /\ Fresh /\ [Next]_vars => Fresh'
<1> SUFFICES ASSUME TreeOK, OpenFiles, RequestsOK, Fresh, [Next]_vars PROVE Fresh'
  OBVIOUS
<1> USE DEF Fresh, RequestsOK, GoTo, Did
<1>1. ASSUME NEW r \in Requests, Resolve(r) PROVE Fresh'
  BY <1>1 DEF Resolve
<1>2. ASSUME NEW r \in Requests, Looks(r), Sees(r) PROVE Fresh'
  BY <1>2 DEF Looks
<1>6. ASSUME NEW r \in Requests, MakeParents(r) PROVE Fresh'
  BY <1>6 DEF MakeParents
<1>7. ASSUME NEW r \in Requests, Open(r) PROVE Fresh'
  BY <1>7 DEF Open
<1>8. ASSUME NEW r \in Requests, NEW content \in Contents, Write(r, content)
      PROVE  Fresh'
  BY <1>8 DEF Write
<1>9. ASSUME NEW r \in Requests, MakeFolder(r) PROVE Fresh'
  BY <1>9 DEF MakeFolder
<1>10. ASSUME NEW r \in Requests, Move(r) PROVE Fresh'
  BY <1>10 DEF Move
<1>11. ASSUME NEW r \in Requests, NEW p \in Paths, Unlink(r, p) PROVE Fresh'
  BY <1>11 DEF Unlink, UnlinkAny
<1>12. ASSUME NEW r \in Requests, NEW event \in {{"recorded"}, {"refused"}},
              RecordThis(r, event)
       PROVE  Fresh'
  BY <1>12 DEF RecordThis, Done
<1>13. ASSUME NEW r \in Requests, Raises(r) PROVE Fresh'
  BY <1>13 DEF Raises, Done
<1>14. ASSUME NEW r \in Requests, Dies(r) PROVE Fresh'
  BY <1>14 DEF Dies, Done
<1>15. CASE UNCHANGED vars
  BY <1>15 DEF vars
<1>16. ASSUME NEW r \in Requests, Looking(r) PROVE Fresh'
  BY <1>1, <1>2, <1>16, LookingIs
<1>. QED
  BY <1>6, <1>7, <1>8, <1>9, <1>10, <1>11, <1>12, <1>13, <1>14, <1>15, <1>16
     DEF Next, Changing, Ending, Record, RecordRefused

LEMMA PreparedStep ==
  TreeOK /\ OpenFiles /\ RequestsOK /\ Away /\ Prepared /\ [Next]_vars => Prepared'
<1> SUFFICES ASSUME TreeOK, OpenFiles, RequestsOK, Away, Prepared, [Next]_vars PROVE Prepared'
  OBVIOUS
<1> USE DEF GoTo
<1>1. ASSUME NEW r \in Requests, Resolve(r) PROVE Prepared'
  <2>1. tree' = Restored /\ pc[r] \in {"new", "found"}
    BY <1>1 DEF Resolve
  <2>2. There' = There \cup Layout /\ \A x \in There : tree'[x] = tree[x]
    BY <2>1, RestoredTree
  <2>3. ASSUME NEW s \in Requests \ {r} PROVE Passes(s)
    <3>1. CASE Layout \subseteq There
      <4>1. tree' = tree
        BY <2>1, <3>1 DEF Restored, There, TreeOK
      <4>. QED
        BY <1>1, <3>1, <4>1 DEF Resolve, Passes, RequestsOK
    <3>2. CASE ~(Layout \subseteq There)
      BY <1>1, <3>2 DEF Resolve, Crosses, Passes, RequestsOK
    <3>. QED
      BY <3>1, <3>2
  <2>4. ~crossed'[r] => ~crossed[r]
    BY <1>1 DEF Resolve, Crosses
  <2>5. op' = op /\ target' = target /\ dest' = dest
    BY <1>1 DEF Resolve
  <2>6. ~crossed'[r] => Stands(r)'
    <3>1. CASE pc[r] = "new"
      <4>1. pc'[r] = "resolved"
        BY <1>1, <3>1 DEF Resolve, RequestsOK
      <4>. QED
        BY <4>1 DEF Stands
    <3>2. CASE pc[r] = "found"
      <4>1. pc'[r] = "looked"
        BY <1>1, <3>2 DEF Resolve, RequestsOK
      <4>2. op[r] = "edit" /\ IsFile(target[r]) => target[r] \in There' /\ tree'[target[r]] # "dir"
        BY <2>2 DEF IsFile
      <4>3. op[r] # "rename"
        BY <3>2 DEF RequestsOK
      <4>4. op[r] = "create" => target[r] \notin Layout
        BY <3>2 DEF Away
      <4>. QED
        BY <2>2, <2>4, <2>5, <3>2, <4>1, <4>2, <4>3, <4>4 DEF Prepared, Stands, IsFile
    <3>. QED
      BY <2>1, <3>1, <3>2
  <2>. QED
    BY <2>3, <2>6, PreparedFrom
<1>2. ASSUME NEW r \in Requests, Looks(r), Sees(r) PROVE Prepared'
  <2>1. \A s \in Requests \ {r} : Passes(s)
    BY <1>2 DEF Looks, Passes, RequestsOK
  <2>2. tree' = tree /\ pc'[r] # "ready"
    BY <1>2 DEF Looks
  <2>3. Stands(r)'
    BY <1>2, <2>2 DEF Sees, Stands, IsFile, There
  <2>. QED
    BY <2>1, <2>3, PreparedFrom
<1>6. ASSUME NEW r \in Requests, MakeParents(r) PROVE Prepared'
  <2>1. \A s \in Requests \ {r} : Passes(s)
    <3>1. CASE Above(Place(r)) \subseteq There
      BY <1>6, <3>1 DEF MakeParents, Passes, RequestsOK, There
    <3>2. CASE ~(Above(Place(r)) \subseteq There)
      BY <1>6, <3>2 DEF MakeParents, Crosses, Passes, RequestsOK
    <3>. QED
      BY <3>1, <3>2
  <2>2. /\ There' = There \cup Above(Place(r)) /\ \A x \in There : tree'[x] = tree[x]
        /\ \A x \in Above(Place(r)) : x \in There' /\ tree'[x] = "dir"
    <3>1. \A x \in Above(Place(r)) : x \in There => tree[x] = "dir"
      BY <1>6 DEF MakeParents, IsFile
    <3>2. CASE Above(Place(r)) \subseteq There
      BY <1>6, <3>1, <3>2 DEF MakeParents, There
    <3>3. CASE ~(Above(Place(r)) \subseteq There)
      BY <1>6, <3>1, <3>3 DEF MakeParents, There
    <3>. QED
      BY <3>2, <3>3
  <2>3. ASSUME ~crossed'[r] PROVE Stands(r)'
    <3>1. ~crossed[r]
      <4>1. CASE Above(Place(r)) \subseteq There
        BY <1>6, <2>3, <4>1 DEF MakeParents
      <4>2. CASE ~(Above(Place(r)) \subseteq There)
        BY <1>6, <2>3, <4>2 DEF MakeParents, Crosses
      <4>. QED
        BY <4>1, <4>2
    <3>2. Stands(r)
      BY <3>1 DEF Prepared
    <3>3. /\ pc[r] = "looked" /\ pc'[r] = "ready"
          /\ op' = op /\ target' = target /\ dest' = dest
      BY <1>6 DEF MakeParents, GoTo, RequestsOK
    <3>4. Place(r) \in Paths /\ Place(r) \notin Above(Place(r))
      <4>1. Place(r) \in Paths
        BY <3>3 DEF RequestsOK, Place
      <4>. QED
        BY <4>1, AboveIs
    <3>5. InDir(Place(r))'
      BY <2>2, <3>3 DEF InDir, Place
    <3>6. op[r] \in {"create", "folder"} => target[r] \notin There'
      <4>1. op[r] \in {"create", "folder"} => target[r] \notin There /\ Place(r) = target[r]
        BY <1>6, <3>2, <3>3 DEF MakeParents, InTheWay, Stands, Place
      <4>. QED
        BY <2>2, <3>4, <4>1
    <3>7. op[r] = "edit" => IsFile(target[r])'
      BY <2>2, <3>2, <3>3 DEF Stands, IsFile
    <3>8. op[r] = "rename" => target[r] \in There' /\ dest[r] \notin There'
      <4>1. op[r] = "rename" =>
               target[r] \in There /\ dest[r] \notin There /\ Place(r) = dest[r]
        BY <3>2, <3>3 DEF Stands, Place
      <4>. QED
        BY <2>2, <3>4, <4>1
    <3>. QED
      BY <3>3, <3>5, <3>6, <3>7, <3>8 DEF Stands
  <2>. QED
    BY <2>1, <2>3, PreparedFrom
<1>7. ASSUME NEW r \in Requests, Open(r) PROVE Prepared'
  <2>1. \A s \in Requests \ {r} : Passes(s)
    BY <1>7 DEF Open, Crosses, Passes, RequestsOK, There
  <2>2. ~crossed'[r] => Stands(r)'
    BY <1>7 DEF Open, Crosses, Stands, RequestsOK
  <2>. QED
    BY <2>1, <2>2, PreparedFrom
<1>8. ASSUME NEW r \in Requests, NEW content \in Contents, Write(r, content)
      PROVE  Prepared'
  <2>1. \A s \in Requests \ {r} : Passes(s)
    <3>1. CASE fd[r] = NoPath
      BY <1>8, <3>1 DEF Write, Passes, RequestsOK, There
    <3>2. CASE fd[r] # NoPath
      BY <1>8, <3>2 DEF Write, Crosses, Passes, RequestsOK
    <3>. QED
      BY <3>1, <3>2
  <2>2. ~crossed'[r] => Stands(r)'
    BY <1>8 DEF Write, Stands, RequestsOK
  <2>. QED
    BY <2>1, <2>2, PreparedFrom
<1>9. ASSUME NEW r \in Requests, MakeFolder(r) PROVE Prepared'
  <2>1. \A s \in Requests \ {r} : Passes(s)
    BY <1>9 DEF MakeFolder, Crosses, Passes, RequestsOK, There
  <2>2. ~crossed'[r] => Stands(r)'
    BY <1>9 DEF MakeFolder, Crosses, Stands, RequestsOK
  <2>. QED
    BY <2>1, <2>2, PreparedFrom
<1>10. ASSUME NEW r \in Requests, Move(r) PROVE Prepared'
  <2>1. \A s \in Requests \ {r} : Passes(s)
    BY <1>10 DEF Move, Crosses, Passes, RequestsOK, There
  <2>2. ~crossed'[r] => Stands(r)'
    BY <1>10 DEF Move, Crosses, Stands, RequestsOK
  <2>. QED
    BY <2>1, <2>2, PreparedFrom
<1>11. ASSUME NEW r \in Requests, NEW p \in Paths, Unlink(r, p) PROVE Prepared'
  <2>1. \A s \in Requests \ {r} : Passes(s)
    BY <1>11 DEF Unlink, UnlinkAny, Crosses, Passes, RequestsOK, There
  <2>2. ~crossed'[r] => Stands(r)'
    BY <1>11 DEF Unlink, UnlinkAny, Crosses, Stands, RequestsOK
  <2>. QED
    BY <2>1, <2>2, PreparedFrom
<1>12. ASSUME NEW r \in Requests, NEW event \in {{"recorded"}, {"refused"}},
              RecordThis(r, event)
       PROVE  Prepared'
  <2>1. \A s \in Requests \ {r} : Passes(s)
    BY <1>12 DEF RecordThis, Done, Passes, RequestsOK, There
  <2>2. ~crossed'[r] => Stands(r)'
    BY <1>12 DEF RecordThis, Done, Stands, RequestsOK
  <2>. QED
    BY <2>1, <2>2, PreparedFrom
<1>13. ASSUME NEW r \in Requests, Raises(r) PROVE Prepared'
  <2>1. \A s \in Requests \ {r} : Passes(s)
    BY <1>13 DEF Raises, Done, Passes, RequestsOK, There
  <2>2. ~crossed'[r] => Stands(r)'
    BY <1>13 DEF Raises, Done, Stands, RequestsOK
  <2>. QED
    BY <2>1, <2>2, PreparedFrom
<1>14. ASSUME NEW r \in Requests, Dies(r) PROVE Prepared'
  <2>1. \A s \in Requests \ {r} : Passes(s)
    BY <1>14 DEF Dies, Done, Passes, RequestsOK, There
  <2>2. ~crossed'[r] => Stands(r)'
    BY <1>14 DEF Dies, Done, Stands, RequestsOK
  <2>. QED
    BY <2>1, <2>2, PreparedFrom
<1>15. CASE UNCHANGED vars
  BY <1>15 DEF vars, Prepared, Stands, InDir, IsFile, Place, There
<1>16. ASSUME NEW r \in Requests, Looking(r) PROVE Prepared'
  BY <1>1, <1>2, <1>16, LookingIs
<1>. QED
  BY <1>6, <1>7, <1>8, <1>9, <1>10, <1>11, <1>12, <1>13, <1>14, <1>15, <1>16
     DEF Next, Changing, Ending, Record, RecordRefused

----------------------------------------------------------------------------
(* What came of a request *)

Explained ==
    \A r \in Requests :
        /\ "replaced" \in did[r] => crossed[r]
        /\ pc[r] = "over" /\ "wrote" \in did[r] =>
              did[r] \cap {"recorded", "refused", "died", "inside"} # {} \/ crossed[r]

\* Nothing comes of a step for the others but that they are crossed.
Keeps(s) == did'[s] = did[s] /\ pc'[s] = pc[s] /\ (crossed[s] => crossed'[s])

LEMMA ExplainedFrom ==
  ASSUME NEW r \in Requests, Explained, \A s \in Requests \ {r} : Keeps(s),
         "replaced" \in did'[r] => crossed'[r],
         pc'[r] = "over" /\ "wrote" \in did'[r] =>
            did'[r] \cap {"recorded", "refused", "died", "inside"} # {} \/ crossed'[r]
  PROVE  Explained'
BY DEF Explained, Keeps

LEMMA ExplainedStep ==
  TreeOK /\ OpenFiles /\ RequestsOK /\ Fresh /\ Prepared /\ Explained /\ [Next]_vars => Explained'
<1> SUFFICES ASSUME TreeOK, OpenFiles, RequestsOK, Fresh, Prepared, Explained, [Next]_vars PROVE Explained'
  OBVIOUS
<1> USE DEF GoTo, Did
<1>1. ASSUME NEW r \in Requests, Resolve(r) PROVE Explained'
  <2>1. \A s \in Requests \ {r} : Keeps(s)
    <3>1. \A s \in Requests \ {r} : did'[s] = did[s] /\ pc'[s] = pc[s]
      BY <1>1 DEF Resolve, RequestsOK
    <3>2. \A s \in Requests : crossed[s] => crossed'[s]
      BY <1>1 DEF Resolve, Crosses
    <3>. QED
      BY <3>1, <3>2 DEF Keeps
  <2>2. did'[r] = did[r] /\ pc'[r] # "over" /\ (crossed[r] => crossed'[r])
    BY <1>1 DEF Resolve, Crosses, RequestsOK
  <2>. QED
    BY <2>1, <2>2, ExplainedFrom DEF Explained
<1>2. ASSUME NEW r \in Requests, Looks(r), Sees(r) PROVE Explained'
  <2>1. \A s \in Requests \ {r} : Keeps(s)
    BY <1>2 DEF Looks, Keeps, RequestsOK
  <2>2. did[r] = {} /\ pc'[r] # "over"
    BY <1>2 DEF Looks, Fresh
  <2>3. "replaced" \notin did'[r]
    BY <1>2, <2>2 DEF Looks
  <2>. QED
    BY <2>1, <2>2, <2>3, ExplainedFrom
<1>6. ASSUME NEW r \in Requests, MakeParents(r) PROVE Explained'
  <2>1. \A s \in Requests \ {r} : Keeps(s)
    <3>1. CASE Above(Place(r)) \subseteq There
      BY <1>6, <3>1 DEF MakeParents, Keeps, RequestsOK
    <3>2. CASE ~(Above(Place(r)) \subseteq There)
      BY <1>6, <3>2 DEF MakeParents, Crosses, Keeps, RequestsOK
    <3>. QED
      BY <3>1, <3>2
  <2>2. "replaced" \in did'[r] => crossed'[r]
    <3>1. CASE Above(Place(r)) \subseteq There
      BY <1>6, <3>1 DEF MakeParents, Explained, RequestsOK
    <3>2. CASE ~(Above(Place(r)) \subseteq There)
      BY <1>6, <3>2 DEF MakeParents, Crosses, Explained, RequestsOK
    <3>. QED
      BY <3>1, <3>2
  <2>3. pc'[r] = "over" /\ "wrote" \in did'[r] =>
           did'[r] \cap {"recorded", "refused", "died", "inside"} # {} \/ crossed'[r]
    BY <1>6 DEF MakeParents, RequestsOK
  <2>. QED
    BY <2>1, <2>2, <2>3, ExplainedFrom
<1>7. ASSUME NEW r \in Requests, Open(r) PROVE Explained'
  <2>1. \A s \in Requests \ {r} : Keeps(s)
    BY <1>7 DEF Open, Crosses, Keeps, RequestsOK
  <2>2. "replaced" \in did'[r] => crossed'[r]
    <3>1. crossed'[r] = crossed[r] /\ pc[r] = "ready"
      BY <1>7 DEF Open, Crosses, RequestsOK
    <3>2. op[r] = "create" /\ IsFile(target[r]) => crossed[r]
      BY <3>1 DEF Prepared, Stands, IsFile
    <3>3. "replaced" \in did'[r] => "replaced" \in did[r] \/ (op[r] = "create" /\ IsFile(target[r]))
      BY <1>7 DEF Open, RequestsOK
    <3>. QED
      BY <3>1, <3>2, <3>3 DEF Explained
  <2>3. pc'[r] = "over" /\ "wrote" \in did'[r] =>
           did'[r] \cap {"recorded", "refused", "died", "inside"} # {} \/ crossed'[r]
    BY <1>7 DEF Open, RequestsOK
  <2>. QED
    BY <2>1, <2>2, <2>3, ExplainedFrom
<1>8. ASSUME NEW r \in Requests, NEW content \in Contents, Write(r, content)
      PROVE  Explained'
  <2>1. \A s \in Requests \ {r} : Keeps(s)
    <3>1. CASE fd[r] = NoPath
      BY <1>8, <3>1 DEF Write, Keeps, RequestsOK
    <3>2. CASE fd[r] # NoPath
      BY <1>8, <3>2 DEF Write, Crosses, Keeps, RequestsOK
    <3>. QED
      BY <3>1, <3>2
  <2>2. "replaced" \in did'[r] => crossed'[r]
    <3>1. CASE fd[r] = NoPath
      BY <1>8, <3>1 DEF Write, Explained, RequestsOK
    <3>2. CASE fd[r] # NoPath
      BY <1>8, <3>2 DEF Write, Crosses, Explained, RequestsOK
    <3>. QED
      BY <3>1, <3>2
  <2>3. pc'[r] = "over" /\ "wrote" \in did'[r] =>
           did'[r] \cap {"recorded", "refused", "died", "inside"} # {} \/ crossed'[r]
    BY <1>8 DEF Write, RequestsOK
  <2>. QED
    BY <2>1, <2>2, <2>3, ExplainedFrom
<1>9. ASSUME NEW r \in Requests, MakeFolder(r) PROVE Explained'
  <2>1. \A s \in Requests \ {r} : Keeps(s)
    BY <1>9 DEF MakeFolder, Crosses, Keeps, RequestsOK
  <2>2. "replaced" \in did'[r] => crossed'[r]
    BY <1>9 DEF MakeFolder, Crosses, Explained, RequestsOK
  <2>3. pc'[r] = "over" /\ "wrote" \in did'[r] =>
           did'[r] \cap {"recorded", "refused", "died", "inside"} # {} \/ crossed'[r]
    BY <1>9 DEF MakeFolder, RequestsOK
  <2>. QED
    BY <2>1, <2>2, <2>3, ExplainedFrom
<1>10. ASSUME NEW r \in Requests, Move(r) PROVE Explained'
  <2>1. \A s \in Requests \ {r} : Keeps(s)
    BY <1>10 DEF Move, Crosses, Keeps, RequestsOK
  <2>2. "replaced" \in did'[r] => crossed'[r]
    <3>1. crossed'[r] = crossed[r] /\ pc[r] = "ready" /\ op[r] = "rename"
      BY <1>10 DEF Move, Crosses, RequestsOK
    <3>2. IsFile(dest[r]) => crossed[r]
      BY <3>1 DEF Prepared, Stands, IsFile
    <3>3. "replaced" \in did'[r] => "replaced" \in did[r] \/ IsFile(dest[r])
      BY <1>10 DEF Move, RequestsOK
    <3>. QED
      BY <3>1, <3>2, <3>3 DEF Explained
  <2>3. pc'[r] = "over" /\ "wrote" \in did'[r] =>
           did'[r] \cap {"recorded", "refused", "died", "inside"} # {} \/ crossed'[r]
    BY <1>10 DEF Move, RequestsOK
  <2>. QED
    BY <2>1, <2>2, <2>3, ExplainedFrom
<1>11. ASSUME NEW r \in Requests, NEW p \in Paths, Unlink(r, p) PROVE Explained'
  <2>1. \A s \in Requests \ {r} : Keeps(s)
    BY <1>11 DEF Unlink, UnlinkAny, Crosses, Keeps, RequestsOK
  <2>2. "replaced" \in did'[r] => crossed'[r]
    BY <1>11 DEF Unlink, UnlinkAny, Crosses, Explained, RequestsOK
  <2>3. pc'[r] = "over" /\ "wrote" \in did'[r] =>
           did'[r] \cap {"recorded", "refused", "died", "inside"} # {} \/ crossed'[r]
    BY <1>11 DEF Unlink, UnlinkAny, RequestsOK
  <2>. QED
    BY <2>1, <2>2, <2>3, ExplainedFrom
<1>12. ASSUME NEW r \in Requests, NEW event \in {{"recorded"}, {"refused"}},
              RecordThis(r, event)
       PROVE  Explained'
  <2>1. \A s \in Requests \ {r} : Keeps(s)
    BY <1>12 DEF RecordThis, Done, Keeps, RequestsOK
  <2>2. "replaced" \in did'[r] => crossed'[r]
    BY <1>12 DEF RecordThis, Done, Explained, RequestsOK
  <2>3. pc'[r] = "over" /\ "wrote" \in did'[r] =>
           did'[r] \cap {"recorded", "refused", "died", "inside"} # {} \/ crossed'[r]
    BY <1>12 DEF RecordThis, Done, RequestsOK
  <2>. QED
    BY <2>1, <2>2, <2>3, ExplainedFrom
<1>13. ASSUME NEW r \in Requests, Raises(r) PROVE Explained'
  <2>1. \A s \in Requests \ {r} : Keeps(s)
    BY <1>13 DEF Raises, Done, Keeps, RequestsOK
  <2>2. "replaced" \in did'[r] => crossed'[r]
    BY <1>13 DEF Raises, Done, Explained, RequestsOK
  <2>3. pc'[r] = "over" /\ "wrote" \in did'[r] =>
           did'[r] \cap {"recorded", "refused", "died", "inside"} # {} \/ crossed'[r]
    <3> SUFFICES ASSUME "wrote" \in did'[r], ~crossed[r]
                 PROVE  "inside" \in did'[r]
      BY <1>13 DEF Raises, Done
    <3>1. did'[r] = did[r] \cup
                    (IF op[r] = "rename" /\ Within(target[r], dest[r]) THEN {"inside"} ELSE {})
      BY <1>13 DEF Raises, RequestsOK
    <3>2. "wrote" \in did[r]
      BY <3>1
    <3>3. pc[r] # "looked"
      BY <3>2 DEF Fresh
    <3>8. pc[r] # "found"
      BY <3>2 DEF Fresh
    <3>4. Fails(r)
      BY <1>13 DEF Raises
    <3>5. pc[r] = "ready"
      BY <3>3, <3>4, <3>8 DEF Fails
    <3>6. Stands(r)
      BY DEF Prepared
    <3>7. op[r] = "rename" /\ Within(target[r], dest[r])
      BY <3>4, <3>5, <3>6 DEF Fails, Stands, Place, IsDir, IsFile, Gives
    <3>. QED
      BY <3>1, <3>7
  <2>. QED
    BY <2>1, <2>2, <2>3, ExplainedFrom
<1>14. ASSUME NEW r \in Requests, Dies(r) PROVE Explained'
  <2>1. \A s \in Requests \ {r} : Keeps(s)
    BY <1>14 DEF Dies, Done, Keeps, RequestsOK
  <2>2. "replaced" \in did'[r] => crossed'[r]
    BY <1>14 DEF Dies, Done, Explained, RequestsOK
  <2>3. pc'[r] = "over" /\ "wrote" \in did'[r] =>
           did'[r] \cap {"recorded", "refused", "died", "inside"} # {} \/ crossed'[r]
    BY <1>14 DEF Dies, Done, RequestsOK
  <2>. QED
    BY <2>1, <2>2, <2>3, ExplainedFrom
<1>15. CASE UNCHANGED vars
  BY <1>15 DEF vars, Explained
<1>16. ASSUME NEW r \in Requests, Looking(r) PROVE Explained'
  BY <1>1, <1>2, <1>16, LookingIs
<1>. QED
  BY <1>6, <1>7, <1>8, <1>9, <1>10, <1>11, <1>12, <1>13, <1>14, <1>15, <1>16
     DEF Next, Changing, Ending, Record, RecordRefused

LEMMA HistoryHolds == Spec => [](Fresh /\ Prepared /\ Explained)
<1>1. Init => Fresh /\ Prepared /\ Explained
  BY DEF Init, Fresh, Prepared, Stands, Explained
<1>2. Inv /\ Fresh /\ Prepared /\ Explained /\ [Next]_vars => (Fresh /\ Prepared /\ Explained)'
  BY FreshStep, PreparedStep, ExplainedStep DEF Inv
<1>. QED
  BY <1>1, <1>2, InvHolds, PTL DEF Spec

\* Creating and renaming replace a file only when another request changed the tree
\* after they looked.
THEOREM NothingIsLost == Spec => []NothingIsReplaced
<1>1. Explained => NothingIsReplaced
  BY DEF Explained, NothingIsReplaced
<1>. QED
  BY <1>1, HistoryHolds, PTL

\* What a request changed is recorded once it is over, unless it died, the database refused
\* its event, another request got in its way, or it was a rename into the folder itself.
THEOREM ChangesAreOnRecord == Spec => []ChangesAreRecorded
<1>1. Explained => ChangesAreRecorded
  BY DEF Explained, ChangesAreRecorded
<1>. QED
  BY <1>1, HistoryHolds, PTL

----------------------------------------------------------------------------
(* Playbooks *)

\* A form accepts as a playbook what is one, when its path is written plainly.
Checked ==
    \A r \in Requests : pc[r] \in {"found", "looked", "ready", "opened"} =>
        /\ op[r] \in {"edit", "create"} /\ IsPlaybook(target[r]) =>
              body[r] \in Plays \/ "odd" \in did[r]
        /\ pc[r] = "opened" => op[r] \in {"edit", "create"}

\* A request that has p open as the playbook it was asked for.
Writes(r, p) == pc[r] = "opened" /\ fd[r] = p /\ IsPlaybook(target[r])

Vouched ==
    \A p \in There : IsPlaybook(p) /\ IsFile(p) =>
        tree[p] \in Plays \/ p \in excused \/ \E r \in Requests : Writes(r, p)

\* Who has a playbook open that was none when it was opened will not be the first to
\* write it unnoticed.
Noticed ==
    \A r \in Requests, p \in There :
        pc[r] = "opened" /\ fd[r] = p /\ IsPlaybook(p) /\ ~IsPlaybook(target[r]) =>
            p \in excused \/ tree[p] # Empty \/ \E s \in Requests : Writes(s, p)

Valid == Vouched /\ Noticed

\* A step that writes nothing.
Calm ==
    /\ \A x \in There' : tree'[x] = "dir" \/ (x \in There /\ tree'[x] = tree[x])
    /\ excused \subseteq excused'
    /\ \A s \in Requests : pc'[s] = "opened" <=> pc[s] = "opened"
    /\ \A s \in Requests : pc[s] = "opened" =>
          target'[s] = target[s] /\ (fd'[s] = fd[s] \/ (fd'[s] = NoPath /\ fd[s] \notin There'))

LEMMA CalmIsValid ==
  ASSUME TreeOK, TreeOK', OpenFiles, OpenFiles', Valid, Calm
  PROVE  Valid'
<1>0. NoPath \notin There'
  BY LayoutIsFolders DEF TreeOK
<1>1. \A s \in Requests, p \in There' : Writes(s, p) => Writes(s, p)'
  BY DEF Calm, Writes
<1>2. Vouched'
  BY <1>1 DEF Calm, Valid, Vouched, IsFile
<1>3. ASSUME NEW r \in Requests, NEW x \in There', pc'[r] = "opened", fd'[r] = x,
             IsPlaybook(x), ~IsPlaybook(target'[r])
      PROVE  x \in excused' \/ tree'[x] # Empty \/ \E s \in Requests : Writes(s, x)'
  <2>1. /\ pc[r] = "opened" /\ fd[r] = x /\ target'[r] = target[r] /\ x \in There
    BY <1>0, <1>3 DEF Calm, OpenFiles
  <2>2. x \in excused \/ tree[x] # Empty \/ \E s \in Requests : Writes(s, x)
    BY <1>3, <2>1 DEF Valid, Noticed
  <2>3. CASE \E s \in Requests : Writes(s, x)
    BY <1>1, <2>3
  <2>. QED
    BY <2>1, <2>2, <2>3, EmptyIsContent DEF Calm
<1>4. Noticed'
  BY <1>3 DEF Noticed, Writes
<1>. QED
  BY <1>2, <1>4 DEF Valid

\* What Move brings from where.
Arrivals(r) ==
    {x \in Paths : Within(dest[r], x) /\ Moved(dest[r], target[r], x) \in There}
Old(r, x) == IF x \in Arrivals(r) THEN Moved(dest[r], target[r], x) ELSE x

LEMMA MovedFrom ==
  ASSUME TreeOK, OpenFiles, RequestsOK, NEW r \in Requests, Move(r)
  PROVE  /\ \A x \in There' : Old(r, x) \in There /\ tree'[x] = tree[Old(r, x)]
         /\ excused' = {x \in There' : Old(r, x) \in excused
                                       \/ (IsPlaybook(x) /\ ~IsPlaybook(Old(r, x)))}
         /\ \A s \in Requests, x \in There' : fd[s] = Old(r, x) => fd'[s] = x
         /\ \A s \in Requests : fd'[s] # NoPath =>
               fd[s] # NoPath /\ fd'[s] \in There' /\ Old(r, fd'[s]) = fd[s]
<1>. DEFINE p == target[r]
            q == dest[r]
            Kept == {x \in There : ~Within(p, x) /\ ~Within(q, x)}
<1>1. /\ p \in There /\ Gives(p, q) /\ pc[r] = "ready" /\ op[r] = "rename"
      /\ \A x \in There : Within(p, x) => Moved(p, q, x) \in Paths
      /\ tree' = [x \in Kept \cup Arrivals(r) |-> tree[Old(r, x)]]
      /\ excused' = {x \in Kept \cup Arrivals(r) :
                        Old(r, x) \in excused \/ (IsPlaybook(x) /\ ~IsPlaybook(Old(r, x)))}
      /\ fd' = [s \in Requests |->
                   IF fd[s] = NoPath THEN NoPath
                   ELSE IF Within(p, fd[s]) THEN Moved(p, q, fd[s])
                   ELSE IF fd[s] = q THEN NoPath ELSE fd[s]]
  BY DEF Move, Old, Arrivals
<1>2. p \in Paths /\ q \in Paths /\ There \subseteq Paths
  BY <1>1 DEF TreeOK, RequestsOK
<1>3. There' = Kept \cup Arrivals(r) /\ \A x \in There' : tree'[x] = tree[Old(r, x)]
  BY <1>1 DEF There
<1>4. \A x \in There' : Old(r, x) \in There
  BY <1>3 DEF Old, Arrivals
<1>5. ASSUME NEW s \in Requests, NEW x \in There', fd[s] = Old(r, x) PROVE fd'[s] = x
  <2>1. fd[s] # NoPath
    BY <1>2, <1>4, <1>5, LayoutIsFolders
  <2>2. CASE x \in Arrivals(r)
    <3>1. x \in Paths /\ Within(q, x) /\ fd[s] = Moved(q, p, x)
      BY <1>5, <2>2 DEF Old, Arrivals
    <3>2. Within(p, fd[s]) /\ Moved(p, q, fd[s]) = x
      BY <1>2, <3>1, MovedPath
    <3>. QED
      BY <1>1, <2>1, <3>2
  <2>3. CASE x \notin Arrivals(r)
    <3>1. fd[s] = x /\ ~Within(p, x) /\ ~Within(q, x)
      BY <1>3, <1>5, <2>3 DEF Old
    <3>2. x # q
      BY <1>2, <3>1, PathOrder
    <3>. QED
      BY <1>1, <2>1, <3>1, <3>2
  <2>. QED
    BY <2>2, <2>3
<1>6. ASSUME NEW s \in Requests, fd'[s] # NoPath
      PROVE  fd[s] # NoPath /\ fd'[s] \in There' /\ Old(r, fd'[s]) = fd[s]
  <2>1. fd[s] # NoPath /\ fd[s] \in There
    BY <1>1, <1>6 DEF OpenFiles
  <2>2. CASE Within(p, fd[s])
    <3>1. fd'[s] = Moved(p, q, fd[s]) /\ fd'[s] \in Paths
      BY <1>1, <2>1, <2>2
    <3>2. Within(q, fd'[s]) /\ Moved(q, p, fd'[s]) = fd[s]
      BY <1>2, <2>1, <2>2, <3>1, MovedPath
    <3>3. fd'[s] \in Arrivals(r)
      BY <2>1, <3>1, <3>2 DEF Arrivals
    <3>. QED
      BY <1>3, <2>1, <3>2, <3>3 DEF Old
  <2>3. CASE ~Within(p, fd[s])
    <3>1. fd'[s] = fd[s] /\ fd[s] # q
      BY <1>1, <1>6, <2>1, <2>3
    <3>2. ~Within(q, fd[s])
      <4> SUFFICES ASSUME Within(q, fd[s]) PROVE FALSE
        OBVIOUS
      <4>1. q \in Above(fd[s])
        BY <1>2, <2>1, <3>1, AboveIs
      <4>2. q \in There
        BY <2>1, <4>1 DEF TreeOK, InDir
      <4>3. ~HasChild(q)
        BY <1>1, <4>2 DEF Gives
      <4>. QED
        BY <2>1, <4>1, <4>3 DEF HasChild
    <3>. QED
      BY <1>3, <2>1, <2>3, <3>1, <3>2 DEF Old, Arrivals
  <2>. QED
    BY <2>2, <2>3
<1>7. excused' = {x \in There' : Old(r, x) \in excused
                                 \/ (IsPlaybook(x) /\ ~IsPlaybook(Old(r, x)))}
  BY <1>1, <1>3
<1>. QED
  BY <1>3, <1>4, <1>5, <1>6, <1>7

LEMMA CheckedStep ==
  TreeOK /\ OpenFiles /\ RequestsOK /\ Checked /\ [Next]_vars => Checked'
<1> SUFFICES ASSUME TreeOK, OpenFiles, RequestsOK, Checked, [Next]_vars PROVE Checked'
  OBVIOUS
<1> USE DEF Checked, RequestsOK, GoTo, Did
<1>1. ASSUME NEW r \in Requests, Resolve(r) PROVE Checked'
  BY <1>1 DEF Resolve
<1>2. ASSUME NEW r \in Requests, Looks(r), Sees(r) PROVE Checked'
  <2>1. \A s \in Requests \ {r} :
           pc'[s] = pc[s] /\ op'[s] = op[s] /\ target'[s] = target[s] /\ body'[s] = body[s] /\ did'[s] = did[s]
    BY <1>2 DEF Looks
  <2>2. pc'[r] # "opened"
    BY <1>2 DEF Looks
  <2>. QED
    BY <1>2, <2>1, <2>2 DEF Sees
<1>6. ASSUME NEW r \in Requests, MakeParents(r) PROVE Checked'
  BY <1>6 DEF MakeParents
<1>7. ASSUME NEW r \in Requests, Open(r) PROVE Checked'
  BY <1>7 DEF Open
<1>8. ASSUME NEW r \in Requests, NEW content \in Contents, Write(r, content)
      PROVE  Checked'
  BY <1>8 DEF Write
<1>9. ASSUME NEW r \in Requests, MakeFolder(r) PROVE Checked'
  BY <1>9 DEF MakeFolder
<1>10. ASSUME NEW r \in Requests, Move(r) PROVE Checked'
  BY <1>10 DEF Move
<1>11. ASSUME NEW r \in Requests, NEW p \in Paths, Unlink(r, p) PROVE Checked'
  BY <1>11 DEF Unlink, UnlinkAny
<1>12. ASSUME NEW r \in Requests, NEW event \in {{"recorded"}, {"refused"}},
              RecordThis(r, event)
       PROVE  Checked'
  BY <1>12 DEF RecordThis, Done
<1>13. ASSUME NEW r \in Requests, Raises(r) PROVE Checked'
  BY <1>13 DEF Raises, Done
<1>14. ASSUME NEW r \in Requests, Dies(r) PROVE Checked'
  BY <1>14 DEF Dies, Done
<1>15. CASE UNCHANGED vars
  BY <1>15 DEF vars
<1>16. ASSUME NEW r \in Requests, Looking(r) PROVE Checked'
  BY <1>1, <1>2, <1>16, LookingIs
<1>. QED
  BY <1>6, <1>7, <1>8, <1>9, <1>10, <1>11, <1>12, <1>13, <1>14, <1>15, <1>16
     DEF Next, Changing, Ending, Record, RecordRefused

LEMMA ValidStep == TreeOK /\ OpenFiles /\ OpenFiles' /\ TreeOK' /\ RequestsOK /\ Checked /\ Valid /\ [Next]_vars => Valid'
<1> SUFFICES ASSUME TreeOK, OpenFiles, OpenFiles', TreeOK', RequestsOK, Checked, Valid, [Next]_vars PROVE Valid'
  OBVIOUS
<1> USE DEF GoTo
<1>1. ASSUME NEW r \in Requests, Resolve(r) PROVE Valid'
  <2>1. \A x \in There' : tree'[x] = "dir" \/ (x \in There /\ tree'[x] = tree[x])
    BY <1>1, RestoredTree DEF Resolve
  <2>2. Calm
    BY <1>1, <2>1 DEF Calm, Resolve, RequestsOK
  <2>. QED
    BY <2>2, CalmIsValid
<1>2. ASSUME NEW r \in Requests, Looks(r), Sees(r) PROVE Valid'
  <2>1. \A s \in Requests : pc'[s] = "opened" <=> pc[s] = "opened"
    BY <1>2 DEF Looks, RequestsOK
  <2>2. \A s \in Requests : pc[s] = "opened" => target'[s] = target[s] /\ fd'[s] = fd[s]
    BY <1>2 DEF Looks, RequestsOK, OpenFiles
  <2>3. Calm
    BY <1>2, <2>1, <2>2 DEF Calm, Looks, There
  <2>. QED
    BY <2>3, CalmIsValid
<1>6. ASSUME NEW r \in Requests, MakeParents(r) PROVE Valid'
  <2>1. Calm
    BY <1>6 DEF Calm, MakeParents, RequestsOK, There
  <2>. QED
    BY <2>1, CalmIsValid
<1>7. ASSUME NEW r \in Requests, Open(r) PROVE Valid'
  <2>0. NoPath \notin There'
    BY LayoutIsFolders DEF TreeOK
  <2>. PICK t \in Paths : t = target[r]
    BY <1>7 DEF Open, RequestsOK
  <2>1. /\ There' = There \cup {t}
        /\ \A x \in There' : tree'[x] = IF x = t THEN Empty ELSE tree[x]
    BY <1>7 DEF Open, There
  <2>2. /\ pc[r] = "ready" /\ pc' = [pc EXCEPT ![r] = "opened"] /\ fd' = [fd EXCEPT ![r] = t]
        /\ UNCHANGED <<target, excused>> /\ t \in Paths
    BY <1>7 DEF Open, RequestsOK
  <2>3. \A s \in Requests, x \in Paths : Writes(s, x) => Writes(s, x)'
    BY <2>2 DEF Writes, RequestsOK, OpenFiles
  <2>4. IsPlaybook(t) => Writes(r, t)'
    BY <2>2 DEF Writes, RequestsOK, OpenFiles
  <2>5. There' \subseteq Paths
    BY <2>1, <2>2 DEF TreeOK
  <2>6. Vouched'
    <3> SUFFICES ASSUME NEW x \in There', IsPlaybook(x), IsFile(x)'
                 PROVE  tree'[x] \in Plays \/ x \in excused' \/ \E s \in Requests : Writes(s, x)'
      BY DEF Vouched
    <3>1. CASE x = t
      BY <2>4, <3>1
    <3>2. CASE x # t
      BY <2>1, <2>2, <2>3, <2>5, <3>2 DEF Valid, Vouched, IsFile
    <3>. QED
      BY <3>1, <3>2
  <2>7. ASSUME NEW s \in Requests, NEW x \in There', pc'[s] = "opened", fd'[s] = x,
               IsPlaybook(x), ~IsPlaybook(target'[s])
        PROVE  x \in excused' \/ tree'[x] # Empty \/ \E z \in Requests : Writes(z, x)'
    <3>1. CASE x = t
      BY <2>4, <2>7, <3>1 DEF Writes
    <3>2. CASE x # t
      <4>1. s # r /\ pc[s] = "opened" /\ fd[s] = x /\ x \in There
        BY <2>0, <2>2, <2>7, <3>2 DEF RequestsOK, OpenFiles
      <4>2. x \in excused \/ tree[x] # Empty \/ \E z \in Requests : Writes(z, x)
        BY <2>2, <2>7, <4>1 DEF Valid, Noticed
      <4>3. tree'[x] = tree[x]
        BY <2>1, <3>2
      <4>4. CASE \E z \in Requests : Writes(z, x)
        BY <2>3, <2>5, <4>4
      <4>. QED
        BY <2>2, <4>2, <4>3, <4>4
    <3>. QED
      BY <3>1, <3>2
  <2>8. Noticed'
    BY <2>7 DEF Noticed, Writes
  <2>. QED
    BY <2>6, <2>8 DEF Valid
<1>8. ASSUME NEW r \in Requests, NEW content \in Contents, Write(r, content)
      PROVE  Valid'
  <2>0. NoPath \notin There'
    BY LayoutIsFolders DEF TreeOK
  <2>. PICK f : f = fd[r]
    OBVIOUS
  <2>1. /\ pc[r] = "opened" /\ pc' = [pc EXCEPT ![r] = "changed"] /\ UNCHANGED <<fd, target>>
        /\ f \in There \cup {NoPath}
    BY <1>8 DEF Write, OpenFiles
  <2>2. There' = There /\ There \subseteq Paths /\ NoPath \notin There
    BY <1>8, LayoutIsFolders DEF Write, TreeOK, There
  <2>3. \A s \in Requests, x \in There : Writes(s, x) /\ x # f => Writes(s, x)'
    BY <2>1 DEF Writes, RequestsOK
  <2>4. \A s \in Requests : pc'[s] = "opened" => pc[s] = "opened"
    BY <2>1 DEF RequestsOK
  <2>5. f # NoPath =>
           /\ \A x \in There : x # f => tree'[x] = tree[x] /\ (x \in excused => x \in excused')
           /\ tree'[f] = content
           /\ tree[f] # Empty \/ "odd" \in did[r] => f \in excused'
           /\ tree[f] = Empty => content = body[r]
           /\ tree[f] = Empty /\ "odd" \notin did[r] /\ f # target[r] => excused' = excused
    BY <1>8, <2>1 DEF Write, TreeOK, There
  <2>6. f = NoPath => UNCHANGED <<tree, excused>>
    BY <1>8 DEF Write
  <2>7. \A x \in There : x # f => tree'[x] = tree[x] /\ (x \in excused => x \in excused')
    BY <2>5, <2>6
  <2>8. IsPlaybook(target[r]) => body[r] \in Plays \/ "odd" \in did[r]
    BY <2>1 DEF Checked
  <2>9. ASSUME f # NoPath, IsPlaybook(f)
        PROVE  \/ f \in excused' \/ tree'[f] \in Plays
               \/ \E s \in Requests : Writes(s, f)'
    <3>1. CASE tree[f] # Empty \/ "odd" \in did[r]
      BY <2>5, <2>9, <3>1
    <3>2. CASE tree[f] = Empty /\ "odd" \notin did[r] /\ IsPlaybook(target[r])
      BY <2>5, <2>8, <2>9, <3>2
    <3>3. CASE tree[f] = Empty /\ "odd" \notin did[r] /\ ~IsPlaybook(target[r])
      <4>1. excused' = excused /\ f # target[r]
        BY <2>5, <2>9, <3>3
      <4>2. f \in excused \/ \E s \in Requests : Writes(s, f)
        BY <2>1, <2>9, <3>3 DEF Valid, Noticed
      <4>3. \A s \in Requests : Writes(s, f) => Writes(s, f)'
        <5>1. \A s \in Requests : Writes(s, f) => s # r
          BY <3>3 DEF Writes
        <5>. QED
          BY <2>1, <5>1 DEF Writes, RequestsOK
      <4>. QED
        BY <4>1, <4>2, <4>3
    <3>. QED
      BY <3>1, <3>2, <3>3
  <2>10. Vouched'
    <3> SUFFICES ASSUME NEW x \in There', IsPlaybook(x), IsFile(x)'
                 PROVE  tree'[x] \in Plays \/ x \in excused' \/ \E s \in Requests : Writes(s, x)'
      BY DEF Vouched
    <3>1. CASE x = f
      BY <2>2, <2>9, <3>1
    <3>2. CASE x # f
      BY <2>2, <2>3, <2>7, <3>2 DEF Valid, Vouched, IsFile
    <3>. QED
      BY <3>1, <3>2
  <2>11. ASSUME NEW s \in Requests, NEW x \in There', pc'[s] = "opened", fd'[s] = x,
                IsPlaybook(x), ~IsPlaybook(target'[s])
         PROVE  x \in excused' \/ tree'[x] # Empty \/ \E z \in Requests : Writes(z, x)'
    <3>1. pc[s] = "opened" /\ fd[s] = x /\ target'[s] = target[s] /\ x \in There
      BY <2>1, <2>2, <2>4, <2>11
    <3>2. CASE x = f
      <4>1. f # NoPath /\ IsPlaybook(f)
        BY <2>2, <2>11, <3>1, <3>2
      <4>2. Empty \notin Plays
        BY EmptyIsContent
      <4>3. CASE \E z \in Requests : Writes(z, f)'
        BY <3>2, <4>3
      <4>. QED
        BY <2>9, <3>2, <4>1, <4>2, <4>3
    <3>3. CASE x # f
      <4>1. x \in excused \/ tree[x] # Empty \/ \E z \in Requests : Writes(z, x)
        BY <2>11, <3>1 DEF Valid, Noticed
      <4>2. CASE \E z \in Requests : Writes(z, x)
        BY <2>3, <3>1, <3>3, <4>2
      <4>. QED
        BY <2>7, <3>1, <3>3, <4>1, <4>2
    <3>. QED
      BY <3>2, <3>3
  <2>12. Noticed'
    BY <2>11 DEF Noticed, Writes
  <2>. QED
    BY <2>10, <2>12 DEF Valid
<1>9. ASSUME NEW r \in Requests, MakeFolder(r) PROVE Valid'
  <2>1. Calm
    BY <1>9 DEF Calm, MakeFolder, RequestsOK, There
  <2>. QED
    BY <2>1, CalmIsValid
<1>10. ASSUME NEW r \in Requests, Move(r) PROVE Valid'
  <2>0. NoPath \notin There'
    BY LayoutIsFolders DEF TreeOK
  <2>1. /\ \A x \in There' : Old(r, x) \in There /\ tree'[x] = tree[Old(r, x)]
        /\ excused' = {x \in There' : Old(r, x) \in excused
                                      \/ (IsPlaybook(x) /\ ~IsPlaybook(Old(r, x)))}
        /\ \A s \in Requests, x \in There' : fd[s] = Old(r, x) => fd'[s] = x
        /\ \A s \in Requests : fd'[s] # NoPath =>
              fd[s] # NoPath /\ fd'[s] \in There' /\ Old(r, fd'[s]) = fd[s]
    BY <1>10, MovedFrom
  <2>2. target' = target /\ \A s \in Requests : pc'[s] = "opened" <=> pc[s] = "opened"
    BY <1>10 DEF Move, RequestsOK
  <2>3. \A s \in Requests, x \in There' : Writes(s, Old(r, x)) => Writes(s, x)'
    BY <2>1, <2>2 DEF Writes
  <2>4. Vouched'
    BY <2>1, <2>3 DEF Valid, Vouched, IsFile
  <2>5. ASSUME NEW s \in Requests, NEW x \in There', pc'[s] = "opened", fd'[s] = x,
               IsPlaybook(x), ~IsPlaybook(target'[s])
        PROVE  x \in excused' \/ tree'[x] # Empty \/ \E z \in Requests : Writes(z, x)'
    <3>1. pc[s] = "opened" /\ fd[s] # NoPath /\ Old(r, x) = fd[s] /\ fd[s] \in There
      BY <2>0, <2>1, <2>2, <2>5
    <3>2. CASE ~IsPlaybook(fd[s])
      BY <2>1, <2>5, <3>1, <3>2
    <3>3. CASE IsPlaybook(fd[s])
      <4>1. fd[s] \in excused \/ tree[fd[s]] # Empty \/ \E z \in Requests : Writes(z, fd[s])
        BY <2>2, <2>5, <3>1, <3>3 DEF Valid, Noticed
      <4>2. CASE \E z \in Requests : Writes(z, fd[s])
        BY <2>3, <2>5, <3>1, <4>2
      <4>. QED
        BY <2>1, <2>5, <3>1, <4>1, <4>2
    <3>. QED
      BY <3>2, <3>3
  <2>6. Noticed'
    BY <2>5 DEF Noticed, Writes
  <2>. QED
    BY <2>4, <2>6 DEF Valid
<1>11. ASSUME NEW r \in Requests, NEW p \in Paths, Unlink(r, p) PROVE Valid'
  <2>1. Calm
    BY <1>11 DEF Calm, Unlink, UnlinkAny, RequestsOK, There
  <2>. QED
    BY <2>1, CalmIsValid
<1>12. ASSUME NEW r \in Requests, NEW event \in {{"recorded"}, {"refused"}},
              RecordThis(r, event)
       PROVE  Valid'
  <2>1. Calm
    BY <1>12 DEF Calm, RecordThis, Done, RequestsOK, There
  <2>. QED
    BY <2>1, CalmIsValid
<1>13. ASSUME NEW r \in Requests, Raises(r) PROVE Valid'
  <2>1. Calm
    BY <1>13 DEF Calm, Raises, Fails, Done, RequestsOK, There
  <2>. QED
    BY <2>1, CalmIsValid
<1>14. ASSUME NEW r \in Requests, Dies(r) PROVE Valid'
  <2>0. NoPath \notin There'
    BY LayoutIsFolders DEF TreeOK
  <2>1. /\ UNCHANGED tree /\ pc' = [pc EXCEPT ![r] = "over"]
        /\ target' = [target EXCEPT ![r] = NoPath] /\ fd' = [fd EXCEPT ![r] = NoPath]
    BY <1>14 DEF Dies, Done
  <2>2. There' = There /\ NoPath \notin There
    BY <2>1, LayoutIsFolders DEF There, TreeOK
  <2>3. excused \subseteq excused' /\ (pc[r] = "opened" => \A x \in There : x = fd[r] => x \in excused')
    BY <1>14, <2>2 DEF Dies
  <2>4. \A s \in Requests, x \in There : Writes(s, x) => Writes(s, x)' \/ x \in excused'
    BY <2>1, <2>3 DEF Writes, RequestsOK, OpenFiles
  <2>5. Vouched'
    BY <2>1, <2>2, <2>3, <2>4 DEF Valid, Vouched, IsFile
  <2>6. ASSUME NEW s \in Requests, NEW x \in There', pc'[s] = "opened", fd'[s] = x,
               IsPlaybook(x), ~IsPlaybook(target'[s])
        PROVE  x \in excused' \/ tree'[x] # Empty \/ \E z \in Requests : Writes(z, x)'
    <3>1. pc[s] = "opened" /\ fd[s] = x /\ target'[s] = target[s] /\ x \in There
      BY <2>0, <2>1, <2>2, <2>6 DEF RequestsOK, OpenFiles
    <3>2. x \in excused \/ tree[x] # Empty \/ \E z \in Requests : Writes(z, x)
      BY <2>6, <3>1 DEF Valid, Noticed
    <3>3. CASE \E z \in Requests : Writes(z, x)
      BY <2>4, <3>1, <3>3
    <3>. QED
      BY <2>1, <2>3, <3>1, <3>2, <3>3
  <2>7. Noticed'
    BY <2>6 DEF Noticed, Writes
  <2>. QED
    BY <2>5, <2>7 DEF Valid
<1>15. CASE UNCHANGED vars
  BY <1>15 DEF vars, Valid, Vouched, Noticed, Writes, IsFile, There
<1>16. ASSUME NEW r \in Requests, Looking(r) PROVE Valid'
  BY <1>1, <1>2, <1>16, LookingIs
<1>. QED
  BY <1>6, <1>7, <1>8, <1>9, <1>10, <1>11, <1>12, <1>13, <1>14, <1>15, <1>16
     DEF Next, Changing, Ending, Record, RecordRefused

LEMMA ValidHolds == Spec => [](Checked /\ Valid)
<1>1. Init => Checked /\ Valid
  <2> SUFFICES ASSUME Init PROVE Checked /\ Valid
    OBVIOUS
  <2>1. excused = {p \in There : IsPlaybook(p) /\ IsFile(p) /\ tree[p] \notin Plays}
    BY DEF Init
  <2>2. \A r \in Requests : pc[r] = "new"
    BY DEF Init
  <2>. QED
    BY <2>1, <2>2 DEF Checked, Valid, Vouched, Noticed
<1>2. Inv /\ Inv' /\ Checked /\ Valid /\ [Next]_vars => (Checked /\ Valid)'
  BY CheckedStep, ValidStep DEF Inv
<1>. QED
  BY <1>1, <1>2, InvHolds, PTL DEF Spec

\* Every file a run can pick as a playbook is a list of plays, unless it was renamed from
\* where less is asked of a file, its save was cut short, two saves of it overlapped, or the
\* path it was saved at was written so that the form did not take it for a playbook.
THEOREM PlaybooksStayValid == Spec => []PlaybooksAreValid
<1>1. Valid => PlaybooksAreValid
  BY DEF Valid, Vouched, Writes, PlaybooksAreValid, BeingWritten
<1>. QED
  BY <1>1, ValidHolds, PTL

=============================================================================
