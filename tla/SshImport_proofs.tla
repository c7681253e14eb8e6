---------------------------- MODULE SshImport_proofs ----------------------------
(***************************************************************************)
(* What holds of SshImport for every set of hosts, of files and of         *)
(* imports.                                                                *)
(***************************************************************************)
EXTENDS SshImport, WellFoundedInduction, TLAPS

----------------------------------------------------------------------------
(* Recursion.  A function defined by recursion is a choice among those that  *)
(* satisfy its equation; that there is one has to be proved.                 *)

LEMMA LeastNumber ==
  ASSUME NEW T, T \subseteq Nat, T # {}
  PROVE  \E n \in T : \A m \in T : n <= m
<1> DEFINE R == OpToRel(<, Nat)
<1>1. IsWellFoundedOn(R, Nat)
  BY NatLessThanWellFounded
<1>2. \A x, y \in Nat : y < x => <<y, x>> \in R
  BY DEF OpToRel
<1> HIDE DEF R
<1>3. PICK x \in T : \A y \in T : ~(<<y, x>> \in R)
  BY <1>1, WFMin
<1>4. \A y \in T : x <= y
  <2> TAKE y \in T
  <2>1. ~(y < x)
    BY <1>2, <1>3
  <2>. QED
    BY <2>1
<1>. QED
  BY <1>4

\* Induction up to n, over the set of the numbers for which something holds.
LEMMA UpTo ==
  ASSUME NEW n \in Nat, NEW P, 0 \in P, \A i \in 1 .. n : i - 1 \in P => i \in P
  PROVE  \A i \in 0 .. n : i \in P
<1> DEFINE T == {i \in 0 .. n : i \notin P}
<1>1. T \subseteq Nat
  OBVIOUS
<1>2. ASSUME NEW m \in T, \A k \in T : m <= k PROVE FALSE
  <2>1. m \in 1 .. n /\ m \notin P
    OBVIOUS
  <2>2. m - 1 \notin T
    BY <1>1, <1>2
  <2>. QED
    BY <2>1, <2>2
<1>3. T = {}
  <2>. HIDE DEF T
  <2>. QED
    BY <1>1, <1>2, LeastNumber
<1>. QED
  BY <1>3

\* g is what the recursion that begins with a and goes on with F makes up to n.
Solves(g, n, a, F) == g[0] = a /\ \A i \in 1 .. n : g[i] = F[i][g[i - 1]]

\* A recursion over the numbers up to n that stays in A has a solution.
LEMMA Recursion ==
  ASSUME NEW n \in Nat, NEW A, NEW a \in A, NEW F \in [1 .. n -> [A -> A]]
  PROVE  \E g \in [0 .. n -> A] : Solves(g, n, a, F)
<1> DEFINE Upto(m, g) == Solves(g, m, a, F)
           P == {m \in 0 .. n : \E g \in [0 .. m -> A] : Upto(m, g)}
<1>1. 0 \in P
  <2>1. Upto(0, [i \in 0 .. 0 |-> a]) /\ [i \in 0 .. 0 |-> a] \in [0 .. 0 -> A]
    BY DEF Solves
  <2>2. \E g \in [0 .. 0 -> A] : Upto(0, g)
    BY <2>1
  <2>3. 0 \in 0 .. n
    OBVIOUS
  <2>. QED
    BY <2>2, <2>3
<1>2. ASSUME NEW m \in 1 .. n, m - 1 \in P PROVE m \in P
  <2>1. PICK g \in [0 .. m - 1 -> A] : Upto(m - 1, g)
    BY <1>2
  <2>2. m \in Nat /\ m > 0 /\ g[m - 1] \in A /\ F[m][g[m - 1]] \in A
    OBVIOUS
  <2> DEFINE h == [i \in 0 .. m |-> IF i < m THEN g[i] ELSE F[m][g[m - 1]]]
  <2>3. h \in [0 .. m -> A]
    BY <2>2
  <2>4. h[0] = a /\ h[m] = F[m][g[m - 1]] /\ \A i \in 0 .. m - 1 : h[i] = g[i]
    BY <2>1, <2>2 DEF Solves
  <2>5. \A i \in 1 .. m : h[i] = F[i][h[i - 1]]
    <3>. HIDE DEF h
    <3> TAKE i \in 1 .. m
    <3>1. CASE i < m
      <4>1. i \in 1 .. m - 1 /\ i - 1 \in 0 .. m - 1 /\ i \in 0 .. m - 1
        BY <2>2, <3>1
      <4>. QED
        BY <4>1, <2>1, <2>4 DEF Solves
    <3>2. CASE i = m
      <4>1. h[m - 1] = g[m - 1]
        BY <2>2, <2>4
      <4>. QED
        BY <3>2, <4>1, <2>4
    <3>. QED
      BY <3>1, <3>2, <2>2
  <2>6. Upto(m, h)
    BY <2>4, <2>5 DEF Solves
  <2>7. \E k \in [0 .. m -> A] : Upto(m, k)
    <3>. HIDE DEF h, Upto
    <3>. QED
      BY <2>3, <2>6
  <2>. QED
    BY <2>7, <2>2
<1>3. \A i \in 0 .. n : i \in P
  <2>. HIDE DEF P
  <2>. QED
    BY <1>1, <1>2, UpTo
<1>4. \E g \in [0 .. n -> A] : Upto(n, g)
  BY <1>3
<1>. QED
  BY <1>4

\* What a recursion keeps in A at every step stays in A.
LEMMA StaysIn ==
  ASSUME NEW n \in Nat, NEW A, NEW f, f[0] \in A, \A i \in 1 .. n : f[i - 1] \in A => f[i] \in A
  PROVE  \A i \in 0 .. n : f[i] \in A
<1> DEFINE P == {i \in 0 .. n : f[i] \in A}
<1>1. 0 \in P /\ \A i \in 1 .. n : i - 1 \in P => i \in P
  OBVIOUS
<1>2. \A i \in 0 .. n : i \in P
  <2>. HIDE DEF P
  <2>. QED
    BY <1>1, UpTo
<1>. QED
  BY <1>2

\* What is left of s are elements of s that are in S.
LEMMA OnlyIs ==
  ASSUME NEW X, NEW s \in Seq(X), NEW S
  PROVE  Only(s, S) \in Seq(X \cap S) /\ Only(s, S) \in Seq(X)
<1> DEFINE n == Len(s)
           A == Seq(X \cap S)
           Take(k, i) == IF s[i] \in S THEN Append(k, s[i]) ELSE k
           F == [i \in 1 .. n |-> [k \in A |-> Take(k, i)]]
           Eq(k) == k = [i \in 0 .. n |-> IF i = 0 THEN <<>> ELSE Take(k[i - 1], i)]
           kept == CHOOSE k : Eq(k)
<1>0. n \in Nat /\ <<>> \in A /\ \A i \in 1 .. n : s[i] \in X
  OBVIOUS
<1>1. \A i \in 1 .. n, k \in A : Take(k, i) \in A
  BY <1>0
<1>2. F \in [1 .. n -> [A -> A]] /\ \A i \in 1 .. n : \A k \in A : F[i][k] = Take(k, i)
  <2>. HIDE DEF Take, A, n
  <2>. QED
    BY <1>1
<1>3. PICK g \in [0 .. n -> A] : Solves(g, n, <<>>, F)
  <2>1. PICK e \in A : e = <<>>
    BY <1>0
  <2>2. F \in [1 .. n -> [A -> A]]
    BY <1>2
  <2>3. \E g \in [0 .. n -> A] : Solves(g, n, e, F)
    <3>. HIDE DEF F, A, n
    <3>. QED
      BY <1>0, <2>2, Recursion
  <2>. QED
    BY <2>1, <2>3
<1>4. \A i \in 1 .. n : i - 1 \in 0 .. n /\ g[i] = Take(g[i - 1], i)
  <2>. HIDE DEF F, A, Take, n
  <2> TAKE i \in 1 .. n
  <2>1. i - 1 \in 0 .. n
    BY <1>0
  <2>2. g[i - 1] \in A
    BY <1>3, <2>1
  <2>3. g[i] = F[i][g[i - 1]]
    BY <1>3, Zenon DEF Solves
  <2>4. F[i][g[i - 1]] = Take(g[i - 1], i)
    BY <1>2, <2>2, Zenon
  <2>. QED
    BY <2>1, <2>3, <2>4, Zenon
<1>5. Eq(g)
  <2>1. g = [i \in 0 .. n |-> g[i]]
    OBVIOUS
  <2>2. \A i \in 0 .. n : g[i] = IF i = 0 THEN <<>> ELSE Take(g[i - 1], i)
    <3>. HIDE DEF A, Take
    <3>. QED
      BY <1>0, <1>3, <1>4 DEF Solves
  <2>. QED
    BY <2>1, <2>2
<1>6. Eq(kept)
  BY <1>5
<1>7. Only(s, S) = kept[n]
  BY DEF Only
<1> HIDE DEF kept
<1>8. kept[0] = <<>> /\ \A i \in 1 .. n : i - 1 \in 0 .. n /\ kept[i] = Take(kept[i - 1], i)
  <2>. HIDE DEF Take, n
  <2>. QED
    BY <1>0, <1>6
<1>9. \A i \in 0 .. n : kept[i] \in A
  <2>1. kept[0] \in A
    BY <1>0, <1>8
  <2>2. ASSUME NEW i \in 1 .. n, kept[i - 1] \in A PROVE kept[i] \in A
    <3>. HIDE DEF Take, A, n
    <3>. QED
      BY <2>2, <1>1, <1>8
  <2>. QED
    <3>. HIDE DEF A, n
    <3>. QED
      BY <2>1, <2>2, <1>0, StaysIn
<1>10. Only(s, S) \in Seq(X \cap S)
  BY <1>7, <1>9, <1>0
<1>. QED
  BY <1>10

----------------------------------------------------------------------------
(* Reading a file *)

Reads == [blocks : Seq(HostBlock), section : Titles \cup {Unset}]

LEMMA LineIs ==
  ASSUME NEW line \in Line
  PROVE  /\ line.is = "host" => line.says[1] \in Hosts /\ line.says[2] \in SUBSET Hosts
         /\ line.is = "directive" /\ line.says[1] \in Keywords =>
              line.says[2] \in Values \cup {Unset}
         /\ line.is \in {"comment", "marked"} => line.says \in Titles
<1>1. line.is = "host" => line.says \in Hosts \X SUBSET Hosts
  BY LinesSaySomething DEF Line
<1>2. line.is = "directive" => line.says \in Directives \cup {<<Other, Unset>>}
  BY DEF Line
<1>3. line.is = "directive" /\ line.says[1] \in Keywords =>
        line.says \in Keywords \X (Values \cup {Unset})
  BY <1>2, LinesSaySomething, OtherIsIgnored
<1>4. line.is \in {"comment", "marked"} => line.says \in Titles
  BY DEF Line
<1>. QED
  BY <1>1, <1>3, <1>4

LEMMA ReadLineIs ==
  ASSUME NEW lines \in Seq(Line), NEW i \in 1 .. Len(lines), NEW read \in Reads
  PROVE  ReadLine(read, lines, i) \in Reads
<1> DEFINE line == lines[i]
           top == Len(read.blocks)
<1>1. line \in Line /\ top \in Nat /\ read.blocks \in Seq(HostBlock)
  BY DEF Reads
<1>2. CASE line.is = "host"
  <2>1. Block(line.says, read.section) \in HostBlock
    BY <1>1, <1>2, LineIs DEF Block, HostBlock, Reads
  <2>2. Append(read.blocks, Block(line.says, read.section)) \in Seq(HostBlock)
    BY <1>1, <2>1
  <2>3. ReadLine(read, lines, i) =
          [read EXCEPT !.blocks = Append(@, Block(line.says, read.section))]
    BY <1>2 DEF ReadLine, IsBanner
  <2>. QED
    BY <2>2, <2>3 DEF Reads
<1>3. CASE line.is = "directive" /\ line.says[1] \in Keywords /\ top > 0
  <2>1. top \in 1 .. Len(read.blocks) /\ read.blocks[top] \in HostBlock
    BY <1>1, <1>3
  <2>2. line.says[2] \in Values \cup {Unset}
    BY <1>1, <1>3, LineIs
  <2>3. [read.blocks[top] EXCEPT !.set[line.says[1]] = line.says[2]] \in HostBlock
    BY <2>1, <2>2, <1>3 DEF HostBlock
  <2>4. ReadLine(read, lines, i) =
          [read EXCEPT !.blocks[top].set[line.says[1]] = line.says[2]]
    BY <1>3 DEF ReadLine, IsBanner
  <2>5. ReadLine(read, lines, i) = [read EXCEPT !.blocks = [read.blocks EXCEPT ![top] =
          [read.blocks[top] EXCEPT !.set[line.says[1]] = line.says[2]]]]
    BY <2>4
  <2>6. [read.blocks EXCEPT ![top] =
          [read.blocks[top] EXCEPT !.set[line.says[1]] = line.says[2]]] \in Seq(HostBlock)
    BY <2>1, <2>3, <1>1
  <2>. QED
    BY <2>5, <2>6 DEF Reads
<1>4. CASE ~(line.is = "host") /\ ~(line.is = "directive" /\ line.says[1] \in Keywords /\ top > 0)
  <2>1. ReadLine(read, lines, i) =
          IF IsBanner(lines, i) THEN [read EXCEPT !.section = line.says] ELSE read
    BY <1>4 DEF ReadLine
  <2>2. IsBanner(lines, i) => line.says \in Titles
    BY <1>1, LineIs DEF IsBanner
  <2>. QED
    BY <2>1, <2>2 DEF Reads
<1>. QED
  BY <1>2, <1>3, <1>4

\* The recursion of parse has a solution, and reads one line after the other.
LEMMA ReadingIs ==
  ASSUME NEW lines \in Seq(Line)
  PROVE  /\ Reading(lines)[0] = [blocks |-> <<>>, section |-> Unset]
         /\ \A i \in 1 .. Len(lines) :
               Reading(lines)[i] = ReadLine(Reading(lines)[i - 1], lines, i)
         /\ \A i \in 0 .. Len(lines) : Reading(lines)[i] \in Reads
<1> DEFINE n == Len(lines)
           a == [blocks |-> <<>>, section |-> Unset]
           F == [i \in 1 .. n |-> [r \in Reads |-> ReadLine(r, lines, i)]]
           Eq(r) == r = [i \in 0 .. n |-> IF i = 0 THEN a ELSE ReadLine(r[i - 1], lines, i)]
           read == CHOOSE r : Eq(r)
<1>1. n \in Nat /\ a \in Reads
  BY DEF Reads
<1>2. F \in [1 .. n -> [Reads -> Reads]]
  BY ReadLineIs
<1>3. \A i \in 1 .. n : \A r \in Reads : F[i][r] = ReadLine(r, lines, i)
  OBVIOUS
<1>4. PICK g \in [0 .. n -> Reads] : Solves(g, n, a, F)
  <2>. HIDE DEF F, n, a
  <2>. QED
    BY <1>1, <1>2, Recursion
<1>5. \A i \in 1 .. n : i - 1 \in 0 .. n /\ g[i] = ReadLine(g[i - 1], lines, i)
  <2>. HIDE DEF F, a
  <2>. QED
    BY <1>1, <1>3, <1>4 DEF Solves
<1>6. Eq(g)
  <2>1. g = [i \in 0 .. n |-> g[i]]
    OBVIOUS
  <2>2. \A i \in 0 .. n : g[i] = IF i = 0 THEN a ELSE ReadLine(g[i - 1], lines, i)
    <3>. HIDE DEF a, F
    <3>. QED
      BY <1>1, <1>4, <1>5 DEF Solves
  <2>. QED
    BY <2>1, <2>2
<1>7. Eq(read)
  BY <1>6
<1>8. Reading(lines) = read
  BY DEF Reading
<1> HIDE DEF read
<1>9. read[0] = a /\ \A i \in 1 .. n : read[i] = ReadLine(read[i - 1], lines, i)
  <2>. HIDE DEF n, a
  <2>. QED
    BY <1>1, <1>7
<1>10. \A i \in 0 .. n : read[i] \in Reads
  <2>1. \A i \in 1 .. n : read[i - 1] \in Reads => read[i] \in Reads
    BY <1>9, ReadLineIs
  <2>. QED
    <3>. HIDE DEF n, a
    <3>. QED
      BY <1>1, <1>9, <2>1, StaysIn
<1>. QED
  BY <1>8, <1>9, <1>10

\* Of every file, what is read and what is imported are Host blocks.
LEMMA FilesAreParsed ==
  ASSUME NEW lines \in Seq(Line)
  PROVE  /\ Parse(lines) \in Seq(HostBlock)
         /\ Importable(Parse(lines)) \in Seq(HostBlock)
<1>1. Len(lines) \in 0 .. Len(lines)
  OBVIOUS
<1>2. Parse(lines) \in Seq(HostBlock)
  BY <1>1, ReadingIs DEF Parse, Reads
<1>. QED
  BY <1>2, OnlyIs DEF Importable

----------------------------------------------------------------------------
(* Types *)

Tables == UNION {[D -> Row] : D \in SUBSET Hosts}

RowsOK == rows \in Tables /\ records \subseteq Records

ImportsOK ==
    /\ pc      \in [Imports -> {"new", "next", "create", "fill", "over"}]
    /\ file    \in [Imports -> Files \cup {<<>>}]
    /\ options \in [Imports -> Options]
    /\ todo    \in [Imports -> Seq(HostBlock)]
    /\ loaded  \in [Imports -> Row]
    /\ own     \in [Imports -> Tables]
    /\ joins   \in [Imports -> SUBSET (Hosts \X Groups)]
    /\ made    \in [Imports -> SUBSET Records]

PhasesOK ==
    \A i \in Imports :
        /\ pc[i] \in {"create", "fill"} => todo[i] # <<>>
        /\ pc[i] # "fill" => loaded[i] = BlankRow
        /\ pc[i] \in {"new", "over"} =>
              todo[i] = <<>> /\ own[i] = NoRows /\ joins[i] = {} /\ made[i] = {}
        /\ pc[i] \notin {"new", "over"} => file[i] \in Files

HistoryOK ==
    /\ stale   \in [Imports -> SUBSET Hosts]
    /\ repeats \subseteq calm /\ calm \subseteq Imports
    /\ edits   \in 0 .. MaxEdits

LEMMA TypesAre == RowsOK /\ ImportsOK /\ PhasesOK /\ HistoryOK => TypeOK
BY DEF RowsOK, ImportsOK, PhasesOK, HistoryOK, TypeOK, Tables

LEMMA NoRowsIsATable == NoRows \in Tables /\ DOMAIN NoRows = {}
<1>1. NoRows \in [{} -> Row]
  BY DEF NoRows
<1>. QED
  BY <1>1 DEF Tables

LEMMA BlankRowIsARow == BlankRow \in Row /\ NoOptions \in Options
BY RecordsAreApart DEF BlankRow, Row, NoOptions, Options

LEMMA TableRows ==
  ASSUME NEW T \in Tables
  PROVE  /\ DOMAIN T \subseteq Hosts /\ \A h \in DOMAIN T : T[h] \in Row
         /\ T = [h \in DOMAIN T |-> T[h]]
BY DEF Tables

LEMMA WithRow ==
  ASSUME NEW T \in Tables, NEW h \in Hosts, NEW row \in Row
  PROVE  /\ With(T, h, row) \in Tables /\ DOMAIN With(T, h, row) = DOMAIN T \cup {h}
         /\ With(T, h, row)[h] = row
         /\ \A g \in DOMAIN T \ {h} : With(T, h, row)[g] = T[g]
<1>1. With(T, h, row) \in [DOMAIN T \cup {h} -> Row] /\ DOMAIN T \cup {h} \in SUBSET Hosts
  BY TableRows DEF With
<1>. QED
  BY <1>1 DEF Tables, With

\* The host at hand.
LEMMA HostIs ==
  ASSUME ImportsOK, NEW i \in Imports, todo[i] # <<>>
  PROVE  /\ Head(todo[i]) \in HostBlock /\ Host(i) \in Hosts /\ Tail(todo[i]) \in Seq(HostBlock)
         /\ ClientFor(i) \in Clients \cup {Blank}
<1>1. todo[i] \in Seq(HostBlock) /\ options[i].client \in Clients \cup {Blank}
  BY DEF ImportsOK, Options
<1>2. Head(todo[i]) \in HostBlock /\ Tail(todo[i]) \in Seq(HostBlock)
  BY <1>1
<1>3. Head(todo[i]).section \in Clients \cup {Blank}
  BY <1>2 DEF HostBlock, Clients, Blank
<1>. QED
  BY <1>1, <1>2, <1>3 DEF Host, HostBlock, ClientFor, ClientOf, Blank

Base(i, h) == IF Has(own[i], h) THEN own[i][h] ELSE rows[h]

LEMMA SeenIs ==
  ASSUME RowsOK, ImportsOK, NEW i \in Imports, NEW h \in Hosts, Sees(i, h)
  PROVE  /\ Joined(i, h) \subseteq Groups
         /\ Base(i, h) \in Row /\ Seen(i, h) \in Row
         /\ Seen(i, h).client = Base(i, h).client
         /\ Seen(i, h).environment = Base(i, h).environment
         /\ Seen(i, h).status = Base(i, h).status
         /\ Seen(i, h).groups = Joined(i, h)
<1>1. Joined(i, h) \subseteq Groups
  BY TableRows DEF Joined, RowsOK, Has, Row
<1>2. Base(i, h) \in Row
  BY TableRows DEF Base, RowsOK, ImportsOK, Sees, Has
<1>3. Seen(i, h) = [Base(i, h) EXCEPT !.groups = Joined(i, h)]
  BY DEF Seen, Base
<1>. QED
  BY <1>1, <1>2, <1>3 DEF Row

LEMMA FilledIs ==
  ASSUME ImportsOK, NEW i \in Imports, todo[i] # <<>>
  PROVE  /\ Filled(i) \in Row /\ Filled(i).status = loaded[i].status
         /\ Filled(i).groups = loaded[i].groups
         /\ Filled(i).client = IF loaded[i].client = Blank THEN ClientFor(i) ELSE loaded[i].client
         /\ Filled(i).environment = IF loaded[i].environment = Blank
                                    THEN options[i].environment ELSE loaded[i].environment
<1>1. /\ loaded[i] \in Row /\ ClientFor(i) \in Clients \cup {Blank}
      /\ options[i].environment \in Environments \cup {Blank}
  BY HostIs DEF ImportsOK, Options
<1>. QED
  BY <1>1 DEF Filled, Row

NewRow(i) == [BlankRow EXCEPT !.client = ClientFor(i), !.environment = options[i].environment]

LEMMA NewRowIs ==
  ASSUME ImportsOK, NEW i \in Imports, todo[i] # <<>>
  PROVE  /\ NewRow(i) \in Row /\ NewRow(i).client = ClientFor(i)
         /\ NewRow(i).environment = options[i].environment
<1>1. /\ ClientFor(i) \in Clients \cup {Blank}
      /\ options[i].environment \in Environments \cup {Blank}
  BY HostIs DEF ImportsOK, Options
<1>. QED
  BY <1>1, BlankRowIsARow DEF NewRow, BlankRow, Row

LEMMA MergedIs ==
  ASSUME RowsOK, ImportsOK, NEW i \in Imports
  PROVE  /\ Merged(i) \in Tables
         /\ DOMAIN Merged(i) = DOMAIN rows \cup DOMAIN own[i]
         /\ \A h \in DOMAIN Merged(i) : Merged(i)[h] = Seen(i, h)
<1>1. DOMAIN rows \cup DOMAIN own[i] \in SUBSET Hosts
  BY TableRows DEF RowsOK, ImportsOK
<1>2. \A h \in DOMAIN rows \cup DOMAIN own[i] : Seen(i, h) \in Row
  BY <1>1, SeenIs DEF Sees, Has
<1>3. Merged(i) \in [DOMAIN rows \cup DOMAIN own[i] -> Row]
  BY <1>2 DEF Merged
<1>. QED
  BY <1>1, <1>3 DEF Tables, Merged

LEMMA RowsStep == RowsOK /\ ImportsOK /\ [Next]_vars => RowsOK'
<1> SUFFICES ASSUME RowsOK, ImportsOK, [Next]_vars PROVE RowsOK'
  OBVIOUS
<1>1. ASSUME NEW i \in Imports, NEW f \in Files, NEW opts \in Choices,
         Start(i, f, opts) PROVE RowsOK'
  BY <1>1 DEF Start, RowsOK
<1>2. ASSUME NEW i \in Imports, LookUp(i) PROVE RowsOK'
  BY <1>2 DEF LookUp, RowsOK
<1>3. ASSUME NEW i \in Imports, Create(i) PROVE RowsOK'
  BY <1>3 DEF Create, CreateAs, RowsOK
<1>4. ASSUME NEW i \in Imports, Fill(i) PROVE RowsOK'
  BY <1>4 DEF Fill, RowsOK
<1>5. ASSUME NEW i \in Imports, Commit(i) PROVE RowsOK'
  <2>1. made[i] \subseteq Records
    BY DEF ImportsOK
  <2>. QED
    BY <1>5, <2>1, MergedIs DEF Commit, RowsOK
<1>6. ASSUME NEW i \in Imports, Rollback(i) PROVE RowsOK'
  BY <1>6 DEF Rollback, RowsOK
<1>7. ASSUME NEW h \in Hosts, NEW row \in Row, Put(h, row) PROVE RowsOK'
  BY <1>7, WithRow DEF Put, RowsOK
<1>8. ASSUME NEW h \in Hosts, RemoveServer(h) PROVE RowsOK'
  <2>1. rows' \in [DOMAIN rows \ {h} -> Row] /\ DOMAIN rows \ {h} \in SUBSET Hosts
    BY <1>8, TableRows DEF RemoveServer, RowsOK
  <2>. QED
    BY <1>8, <2>1 DEF RemoveServer, RowsOK, Tables
<1>9. ASSUME NEW x \in Records, AddRecord(x) PROVE RowsOK'
  BY <1>9 DEF AddRecord, RowsOK
<1>10. ASSUME NEW x \in Records, RemoveRecord(x) PROVE RowsOK'
  <2>1. \A h \in DOMAIN rows : [rows[h] EXCEPT !.groups = @ \ {x}] \in Row
    BY TableRows DEF RowsOK, Row
  <2>2. rows' \in [DOMAIN rows -> Row] /\ DOMAIN rows \in SUBSET Hosts
    BY <1>10, <2>1, TableRows DEF RemoveRecord, RowsOK
  <2>. QED
    BY <1>10, <2>2 DEF RemoveRecord, RowsOK, Tables
<1>11. CASE UNCHANGED vars
  BY <1>11 DEF vars, RowsOK
<1>. QED
  BY <1>1, <1>2, <1>3, <1>4, <1>5, <1>6, <1>7, <1>8, <1>9, <1>10, <1>11 DEF Next, Importing

LEMMA ImportsStep == RowsOK /\ ImportsOK /\ PhasesOK /\ [Next]_vars => ImportsOK'
<1> SUFFICES ASSUME RowsOK, ImportsOK, PhasesOK, [Next]_vars PROVE ImportsOK'
  OBVIOUS
<1>1. ASSUME NEW i \in Imports, NEW f \in Files, NEW opts \in Choices,
         Start(i, f, opts) PROVE ImportsOK'
  <2>1. Importable(Parse(f)) \in Seq(HostBlock)
    BY FilesAreLines, FilesAreParsed
  <2>2. opts \in Options
    BY ChoicesAreOptions
  <2>3. Refs([opts EXCEPT !.client = Blank]) \subseteq Records
    BY <2>2 DEF Refs, Options, Records, Blank
  <2>. QED
    BY <1>1, <2>1, <2>2, <2>3 DEF Start, Makes, GoTo, ImportsOK
<1>2. ASSUME NEW i \in Imports, LookUp(i) PROVE ImportsOK'
  <2>1. todo[i] # <<>> /\ UNCHANGED <<file, options, own, joins, made>>
    BY <1>2 DEF LookUp
  <2>2. Sees(i, Host(i)) => Seen(i, Host(i)) \in Row
    BY <2>1, HostIs, SeenIs
  <2>3. todo' \in [Imports -> Seq(HostBlock)]
    BY <1>2, <2>1, HostIs DEF LookUp, ImportsOK
  <2>4. loaded' \in [Imports -> Row]
    BY <1>2, <2>2 DEF LookUp, ImportsOK
  <2>5. pc' \in [Imports -> {"new", "next", "create", "fill", "over"}]
    BY <1>2 DEF LookUp, GoTo, ImportsOK
  <2>. QED
    BY <2>1, <2>3, <2>4, <2>5 DEF ImportsOK
<1>3. ASSUME NEW i \in Imports, Create(i) PROVE ImportsOK'
  <2>1. todo[i] # <<>>
    BY <1>3 DEF Create, CreateAs, PhasesOK
  <2>2. own' = [own EXCEPT ![i] = With(@, Host(i), NewRow(i))]
    BY <1>3 DEF Create, CreateAs, NewRow
  <2>3. own' \in [Imports -> Tables]
    BY <2>1, <2>2, HostIs, NewRowIs, WithRow DEF ImportsOK
  <2>4. joins' \in [Imports -> SUBSET (Hosts \X Groups)]
    <3>1. options[i].groups \subseteq Groups
      BY DEF ImportsOK, Options
    <3>. QED
      BY <1>3, <2>1, <3>1, HostIs DEF Create, CreateAs, JoinGroups, ImportsOK
  <2>5. made' \in [Imports -> SUBSET Records]
    BY <1>3, <2>1, HostIs DEF Create, CreateAs, Makes, ImportsOK, Records
  <2>6. UNCHANGED <<file, options>> /\ NextHost(i)
    BY <1>3 DEF Create, CreateAs
  <2>. QED
    BY <2>1, <2>3, <2>4, <2>5, <2>6, HostIs, BlankRowIsARow DEF ImportsOK, NextHost, GoTo
<1>4. ASSUME NEW i \in Imports, Fill(i) PROVE ImportsOK'
  <2>1. todo[i] # <<>>
    BY <1>4 DEF Fill, PhasesOK
  <2>3. own' \in [Imports -> Tables]
    <3>1. CASE Filled(i) = loaded[i]
      BY <1>4, <3>1 DEF Fill, ImportsOK
    <3>2. CASE Filled(i) # loaded[i]
      <4>1. own' = [own EXCEPT ![i] = With(@, Host(i), Filled(i))] /\ own[i] \in Tables
        BY <1>4, <3>2 DEF Fill, ImportsOK
      <4>. QED
        BY <2>1, <4>1, HostIs, FilledIs, WithRow DEF ImportsOK
    <3>. QED
      BY <3>1, <3>2
  <2>4. joins' \in [Imports -> SUBSET (Hosts \X Groups)]
    <3>1. options[i].groups \subseteq Groups
      BY DEF ImportsOK, Options
    <3>. QED
      BY <1>4, <2>1, <3>1, HostIs DEF Fill, JoinGroups, ImportsOK
  <2>5. made' \in [Imports -> SUBSET Records]
    <3>1. CASE Filled(i) = loaded[i]
      BY <1>4, <3>1 DEF Fill, ImportsOK
    <3>2. CASE Filled(i) # loaded[i]
      <4>1. Makes(i, IF loaded[i].client = Blank THEN {ClientFor(i)} \ {Blank} ELSE {})
        BY <1>4, <3>2 DEF Fill
      <4>2. (IF loaded[i].client = Blank THEN {ClientFor(i)} \ {Blank} ELSE {}) \subseteq Records
        BY <2>1, HostIs DEF Records
      <4>. QED
        BY <4>1, <4>2 DEF Makes, ImportsOK
    <3>. QED
      BY <3>1, <3>2
  <2>6. UNCHANGED <<file, options>> /\ NextHost(i)
    BY <1>4 DEF Fill
  <2>. QED
    BY <2>1, <2>3, <2>4, <2>5, <2>6, HostIs, BlankRowIsARow DEF ImportsOK, NextHost, GoTo
<1>5. ASSUME NEW i \in Imports, Commit(i) PROVE ImportsOK'
  <2>1. End(i)
    BY <1>5 DEF Commit
  <2>. QED
    BY <2>1, NoRowsIsATable, BlankRowIsARow DEF End, GoTo, ImportsOK
<1>6. ASSUME NEW i \in Imports, Rollback(i) PROVE ImportsOK'
  <2>1. End(i)
    BY <1>6 DEF Rollback
  <2>. QED
    BY <2>1, NoRowsIsATable, BlankRowIsARow DEF End, GoTo, ImportsOK
<1>7. ASSUME NEW h \in Hosts, NEW row \in Row, Put(h, row) PROVE ImportsOK'
  BY <1>7 DEF Put, Meanwhile, importVars, ImportsOK
<1>8. ASSUME NEW h \in Hosts, RemoveServer(h) PROVE ImportsOK'
  BY <1>8 DEF RemoveServer, Meanwhile, importVars, ImportsOK
<1>9. ASSUME NEW x \in Records, AddRecord(x) PROVE ImportsOK'
  BY <1>9 DEF AddRecord, Meanwhile, importVars, ImportsOK
<1>10. ASSUME NEW x \in Records, RemoveRecord(x) PROVE ImportsOK'
  BY <1>10 DEF RemoveRecord, Meanwhile, importVars, ImportsOK
<1>11. CASE UNCHANGED vars
  BY <1>11 DEF vars, ImportsOK
<1>. QED
  BY <1>1, <1>2, <1>3, <1>4, <1>5, <1>6, <1>7, <1>8, <1>9, <1>10, <1>11 DEF Next, Importing

LEMMA PhasesStep == ImportsOK /\ PhasesOK /\ [Next]_vars => PhasesOK'
<1> SUFFICES ASSUME ImportsOK, PhasesOK, [Next]_vars PROVE PhasesOK'
  OBVIOUS
<1>1. ASSUME NEW i \in Imports, NEW f \in Files, NEW opts \in Choices,
         Start(i, f, opts) PROVE PhasesOK'
  <2>1. /\ pc' = [pc EXCEPT ![i] = "next"] /\ file' = [file EXCEPT ![i] = f]
        /\ UNCHANGED <<loaded, own, joins>> /\ pc[i] = "new"
        /\ \A j \in Imports \ {i} : made'[j] = made[j] /\ todo'[j] = todo[j]
    BY <1>1 DEF Start, Makes, GoTo, ImportsOK
  <2>. QED
    BY <2>1 DEF PhasesOK, ImportsOK
<1>2. ASSUME NEW i \in Imports, LookUp(i) PROVE PhasesOK'
  <2>1. pc[i] = "next" /\ todo[i] # <<>> /\ UNCHANGED <<file, own, joins, made>>
    BY <1>2 DEF LookUp
  <2>2. \A j \in Imports \ {i} : pc'[j] = pc[j] /\ todo'[j] = todo[j] /\ loaded'[j] = loaded[j]
    BY <1>2 DEF LookUp, GoTo, ImportsOK
  <2>3. /\ pc'[i] \in {"next", "create", "fill"}
        /\ pc'[i] # "next" => todo'[i] = todo[i]
        /\ pc'[i] # "fill" => loaded'[i] = loaded[i]
    BY <1>2 DEF LookUp, GoTo, ImportsOK
  <2>4. loaded[i] = BlankRow /\ file[i] \in Files
    BY <2>1 DEF PhasesOK
  <2>5. ASSUME NEW j \in Imports
        PROVE  /\ pc'[j] \in {"create", "fill"} => todo'[j] # <<>>
               /\ pc'[j] # "fill" => loaded'[j] = BlankRow
               /\ pc'[j] \in {"new", "over"} =>
                     todo'[j] = <<>> /\ own'[j] = NoRows /\ joins'[j] = {} /\ made'[j] = {}
               /\ pc'[j] \notin {"new", "over"} => file'[j] \in Files
    <3>1. CASE j = i
      BY <2>1, <2>3, <2>4, <3>1
    <3>2. CASE j # i
      BY <2>1, <2>2, <3>2 DEF PhasesOK
    <3>. QED
      BY <3>1, <3>2
  <2>. QED
    BY <2>5 DEF PhasesOK
<1>3. ASSUME NEW i \in Imports, Create(i) PROVE PhasesOK'
  <2>1. NextHost(i) /\ pc[i] \notin {"new", "over"} /\ UNCHANGED file
        /\ \A j \in Imports \ {i} : own'[j] = own[j] /\ joins'[j] = joins[j] /\ made'[j] = made[j]
    BY <1>3 DEF Create, CreateAs, Makes, JoinGroups, ImportsOK
  <2>. QED
    BY <2>1 DEF NextHost, GoTo, PhasesOK, ImportsOK
<1>4. ASSUME NEW i \in Imports, Fill(i) PROVE PhasesOK'
  <2>1. NextHost(i) /\ pc[i] \notin {"new", "over"} /\ UNCHANGED file
        /\ \A j \in Imports \ {i} : own'[j] = own[j] /\ joins'[j] = joins[j] /\ made'[j] = made[j]
    BY <1>4 DEF Fill, Makes, JoinGroups, ImportsOK
  <2>. QED
    BY <2>1 DEF NextHost, GoTo, PhasesOK, ImportsOK
<1>5. ASSUME NEW i \in Imports, Commit(i) PROVE PhasesOK'
  BY <1>5 DEF Commit, End, GoTo, PhasesOK, ImportsOK
<1>6. ASSUME NEW i \in Imports, Rollback(i) PROVE PhasesOK'
  BY <1>6 DEF Rollback, End, GoTo, PhasesOK, ImportsOK
<1>7. ASSUME NEW h \in Hosts, NEW row \in Row, Put(h, row) PROVE PhasesOK'
  BY <1>7 DEF Put, Meanwhile, importVars, PhasesOK, ImportsOK
<1>8. ASSUME NEW h \in Hosts, RemoveServer(h) PROVE PhasesOK'
  BY <1>8 DEF RemoveServer, Meanwhile, importVars, PhasesOK, ImportsOK
<1>9. ASSUME NEW x \in Records, AddRecord(x) PROVE PhasesOK'
  BY <1>9 DEF AddRecord, Meanwhile, importVars, PhasesOK, ImportsOK
<1>10. ASSUME NEW x \in Records, RemoveRecord(x) PROVE PhasesOK'
  BY <1>10 DEF RemoveRecord, Meanwhile, importVars, PhasesOK, ImportsOK
<1>11. CASE UNCHANGED vars
  BY <1>11 DEF vars, PhasesOK
<1>. QED
  BY <1>1, <1>2, <1>3, <1>4, <1>5, <1>6, <1>7, <1>8, <1>9, <1>10, <1>11 DEF Next, Importing

LEMMA HistoryStep == RowsOK /\ ImportsOK /\ HistoryOK /\ [Next]_vars => HistoryOK'
<1> SUFFICES ASSUME RowsOK, ImportsOK, HistoryOK, [Next]_vars PROVE HistoryOK'
  OBVIOUS
<1>1. ASSUME NEW i \in Imports, NEW f \in Files, NEW opts \in Choices,
         Start(i, f, opts) PROVE HistoryOK'
  BY <1>1 DEF Start, HistoryOK
<1>2. ASSUME NEW i \in Imports, LookUp(i) PROVE HistoryOK'
  BY <1>2 DEF LookUp, HistoryOK
<1>3. ASSUME NEW i \in Imports, Create(i) PROVE HistoryOK'
  BY <1>3 DEF Create, CreateAs, HistoryOK
<1>4. ASSUME NEW i \in Imports, Fill(i) PROVE HistoryOK'
  BY <1>4 DEF Fill, HistoryOK
<1>5. ASSUME NEW i \in Imports, Commit(i) PROVE HistoryOK'
  <2>1. DOMAIN own[i] \cup {p[1] : p \in joins[i]} \subseteq Hosts
    <3>1. \A p \in joins[i] : p[1] \in Hosts
      BY DEF ImportsOK
    <3>. QED
      BY <3>1, TableRows DEF ImportsOK
  <2>. QED
    BY <1>5, <2>1 DEF Commit, Outdates, HistoryOK
<1>6. ASSUME NEW i \in Imports, Rollback(i) PROVE HistoryOK'
  BY <1>6 DEF Rollback, HistoryOK
<1>7. ASSUME NEW h \in Hosts, NEW row \in Row, Put(h, row) PROVE HistoryOK'
  BY <1>7, MaxEditsIsANumber, TableRows DEF Put, Meanwhile, Outdates, HistoryOK, RowsOK
<1>8. ASSUME NEW h \in Hosts, RemoveServer(h) PROVE HistoryOK'
  BY <1>8, MaxEditsIsANumber, TableRows DEF RemoveServer, Meanwhile, Outdates, HistoryOK, RowsOK
<1>9. ASSUME NEW x \in Records, AddRecord(x) PROVE HistoryOK'
  BY <1>9, MaxEditsIsANumber, TableRows DEF AddRecord, Meanwhile, Outdates, HistoryOK, RowsOK
<1>10. ASSUME NEW x \in Records, RemoveRecord(x) PROVE HistoryOK'
  BY <1>10, MaxEditsIsANumber, TableRows DEF RemoveRecord, Meanwhile, Outdates, HistoryOK, RowsOK
<1>11. CASE UNCHANGED vars
  BY <1>11 DEF vars, HistoryOK
<1>. QED
  BY <1>1, <1>2, <1>3, <1>4, <1>5, <1>6, <1>7, <1>8, <1>9, <1>10, <1>11 DEF Next, Importing

LEMMA InitTypes == Init => RowsOK /\ ImportsOK /\ PhasesOK /\ HistoryOK
BY NoRowsIsATable, BlankRowIsARow, MaxEditsIsANumber
   DEF Init, RowsOK, ImportsOK, PhasesOK, HistoryOK

Types == RowsOK /\ ImportsOK /\ PhasesOK /\ HistoryOK

LEMMA TypesHold == Spec => []Types
<1>1. Types /\ [Next]_vars => Types'
  BY RowsStep, ImportsStep, PhasesStep, HistoryStep DEF Types
<1>. QED
  BY <1>1, InitTypes, PTL DEF Spec, Types

\* Types; and what an import has written, and the row it has in hand, are forgotten when
\* it is over.
THEOREM TypesAreCorrect == Spec => []TypeOK
<1>1. Types => TypeOK
  BY TypesAre DEF Types
<1>. QED
  BY <1>1, TypesHold, PTL

----------------------------------------------------------------------------
(* References *)

LEMMA ReferencesStep == 
  RowsOK /\ ImportsOK /\ ReferencesResolve /\ [Next]_vars => ReferencesResolve'
<1> SUFFICES ASSUME RowsOK, ImportsOK, ReferencesResolve,
         [Next]_vars PROVE ReferencesResolve'
  OBVIOUS
<1>1. ASSUME NEW i \in Imports, NEW f \in Files, NEW opts \in Choices,
         Start(i, f, opts) PROVE ReferencesResolve'
  BY <1>1 DEF Start, ReferencesResolve
<1>2. ASSUME NEW i \in Imports, LookUp(i) PROVE ReferencesResolve'
  BY <1>2 DEF LookUp, ReferencesResolve
<1>3. ASSUME NEW i \in Imports, Create(i) PROVE ReferencesResolve'
  BY <1>3 DEF Create, CreateAs, ReferencesResolve
<1>4. ASSUME NEW i \in Imports, Fill(i) PROVE ReferencesResolve'
  BY <1>4 DEF Fill, ReferencesResolve
<1>5. ASSUME NEW i \in Imports, Commit(i) PROVE ReferencesResolve'
  <2>1. /\ rows' = Merged(i) /\ records' = records \cup made[i]
        /\ \A p \in joins[i] : p[2] \in records'
        /\ \A h \in DOMAIN own[i] : Refs(own[i][h]) \ Groups \subseteq records'
    BY <1>5 DEF Commit, KeysResolve
  <2>2. ASSUME NEW h \in DOMAIN rows' PROVE Refs(rows'[h]) \subseteq records'
    <3>1. h \in Hosts /\ Sees(i, h) /\ rows'[h] = Seen(i, h)
      BY <2>1, MergedIs, TableRows DEF Sees, Has, RowsOK, ImportsOK
    <3>2. Joined(i, h) \subseteq records'
      <4>1. Has(rows, h) => rows[h].groups \subseteq records'
        BY <2>1 DEF ReferencesResolve, Has, Refs
      <4>2. \A g \in Groups : <<h, g>> \in joins[i] => g \in records'
        <5>1. \A g \in Groups : <<h, g>> \in joins[i] => <<h, g>>[2] \in records'
          BY <2>1
        <5>. QED
          BY <5>1
      <4>. QED
        BY <4>1, <4>2 DEF Joined
    <3>3. {Base(i, h).client, Base(i, h).environment} \ {Blank} \subseteq records'
      <4>1. CASE Has(own[i], h)
        <5>1. own[i][h] \in Row /\ Refs(own[i][h]) \ Groups \subseteq records'
          BY <2>1, <4>1, TableRows DEF Has, ImportsOK
        <5>2. own[i][h].client \notin Groups \/ own[i][h].client = Blank
          BY <5>1, RecordsAreApart DEF Row
        <5>3. own[i][h].environment \notin Groups \/ own[i][h].environment = Blank
          BY <5>1, RecordsAreApart DEF Row
        <5>. QED
          BY <4>1, <5>1, <5>2, <5>3 DEF Base, Refs
      <4>2. CASE ~Has(own[i], h)
        BY <2>1, <3>1, <4>2 DEF Base, Refs, Sees, Has, ReferencesResolve
      <4>. QED
        BY <4>1, <4>2
    <3>. QED
      BY <3>1, <3>2, <3>3, SeenIs DEF Refs
  <2>. QED
    BY <2>2 DEF ReferencesResolve
<1>6. ASSUME NEW i \in Imports, Rollback(i) PROVE ReferencesResolve'
  BY <1>6 DEF Rollback, ReferencesResolve
<1>7. ASSUME NEW h \in Hosts, NEW row \in Row, Put(h, row) PROVE ReferencesResolve'
  <2>1. rows' = With(rows, h, row) /\ UNCHANGED records /\ Refs(row) \subseteq records
    BY <1>7 DEF Put
  <2>2. ASSUME NEW g \in DOMAIN rows' PROVE Refs(rows'[g]) \subseteq records'
    <3>1. CASE g = h
      <4>1. rows'[g] = row
        BY <2>1, <3>1, WithRow DEF RowsOK
      <4>. QED
        BY <2>1, <4>1
    <3>2. CASE g # h
      <4>0. /\ DOMAIN With(rows, h, row) = DOMAIN rows \cup {h}
            /\ \A k \in DOMAIN rows \ {h} : With(rows, h, row)[k] = rows[k]
        BY WithRow DEF RowsOK
      <4>1. g \in DOMAIN rows /\ rows'[g] = rows[g]
        BY <2>1, <3>2, <4>0
      <4>. QED
        BY <2>1, <4>1 DEF ReferencesResolve
    <3>. QED
      BY <3>1, <3>2
  <2>. QED
    BY <2>2 DEF ReferencesResolve
<1>8. ASSUME NEW h \in Hosts, RemoveServer(h) PROVE ReferencesResolve'
  BY <1>8 DEF RemoveServer, ReferencesResolve
<1>9. ASSUME NEW x \in Records, AddRecord(x) PROVE ReferencesResolve'
  BY <1>9 DEF AddRecord, ReferencesResolve
<1>10. ASSUME NEW x \in Records, RemoveRecord(x) PROVE ReferencesResolve'
  <2>1. /\ records' = records \ {x} /\ DOMAIN rows' = DOMAIN rows
        /\ \A h \in DOMAIN rows : rows'[h] = [rows[h] EXCEPT !.groups = @ \ {x}]
        /\ x \notin Groups => \A h \in DOMAIN rows : x \notin Refs(rows[h])
    BY <1>10 DEF RemoveRecord
  <2>2. ASSUME NEW h \in DOMAIN rows PROVE Refs(rows'[h]) \subseteq records'
    <3>1. rows[h] \in Row /\ Refs(rows[h]) \subseteq records
      BY TableRows DEF RowsOK, ReferencesResolve
    <3>2. /\ rows'[h].client = rows[h].client /\ rows'[h].environment = rows[h].environment
          /\ rows'[h].groups = rows[h].groups \ {x}
      BY <2>1, <3>1 DEF Row
    <3>3. x \in Groups => x \notin {rows[h].client, rows[h].environment} \ {Blank}
      BY <3>1, RecordsAreApart DEF Row
    <3>4. Refs(rows'[h]) = Refs(rows[h]) \ {x}
      BY <2>1, <3>1, <3>2, <3>3, RecordsAreApart DEF Refs, Records
    <3>. QED
      BY <2>1, <3>1, <3>4
  <2>. QED
    BY <2>1, <2>2 DEF ReferencesResolve
<1>11. CASE UNCHANGED vars
  BY <1>11 DEF vars, ReferencesResolve
<1>. QED
  BY <1>1, <1>2, <1>3, <1>4, <1>5, <1>6, <1>7, <1>8, <1>9, <1>10, <1>11 DEF Next, Importing

\* Whatever is deleted while an import is about to refer to it, no reference dangles.
THEOREM NoReferenceDangles == Spec => []ReferencesResolve
<1>1. Init => ReferencesResolve
  BY DEF Init, ReferencesResolve, NoRows
<1>2. Types /\ ReferencesResolve /\ [Next]_vars => ReferencesResolve'
  BY ReferencesStep DEF Types
<1>. QED
  BY <1>1, <1>2, TypesHold, PTL DEF Spec

----------------------------------------------------------------------------
(* What an import knows *)

Elements(s) == {s[n] : n \in DOMAIN s}

Under(i) == pc[i] \notin {"new", "over"}

\* Rows that differ in their groups at most, which are rows of another table.
SameRow(a, b) == a.client = b.client /\ a.environment = b.environment /\ a.status = b.status

\* How many blocks the import has dealt with, and those of them that are about host h.
Dealt(i)        == Len(FileBlocks(i)) - Len(todo[i])
DealtWith(i, h) == {n \in BlocksOf(i, h) : n <= Dealt(i)}

RestIsTodo(i) ==
    /\ Dealt(i) \in Nat
    /\ \A n \in DOMAIN todo[i] : todo[i][n] = FileBlocks(i)[Dealt(i) + n]
LoadedIsThere(i) ==
    pc[i] = "fill" =>
        /\ options[i].update
        /\ Host(i) \notin stale[i] => Sees(i, Host(i)) /\ SameRow(loaded[i], Base(i, Host(i)))
NewIsNew(i) == pc[i] = "create" => ~Has(own[i], Host(i))

\* What it sees of a host is what it was to make of it so far.
SeenAsAssigned(i, h) ==
    /\ Sees(i, h) <=> Has(rows, h) \/ DealtWith(i, h) # {}
    /\ \A N : N = DealtWith(i, h) /\ Sees(i, h) => Seen(i, h) = Expected(i, h, N)
    /\ ~Sees(i, h) => Joined(i, h) = {}
AllAsAssigned(i) == \A h \in Hosts \ stale[i] : SeenAsAssigned(i, h)

Knows(i) ==
    Under(i) => RestIsTodo(i) /\ LoadedIsThere(i) /\ NewIsNew(i) /\ AllAsAssigned(i)

Coherent == \A i \in Imports : Knows(i)

LEMMA BlocksAre ==
  ASSUME PhasesOK, NEW i \in Imports, Under(i)
  PROVE  /\ FileBlocks(i) \in Seq(HostBlock)
         /\ \A b \in Elements(FileBlocks(i)) : b \in HostBlock /\ b.name \in Hosts
<1>1. FileBlocks(i) \in Seq(HostBlock)
  BY FilesAreLines, FilesAreParsed DEF PhasesOK, Under, FileBlocks
<1>2. \A b \in Elements(FileBlocks(i)) : b \in HostBlock
  BY <1>1 DEF Elements
<1>. QED
  BY <1>1, <1>2 DEF HostBlock

\* The block at hand is the next one, and the rest comes after it.
LEMMA NextBlock ==
  ASSUME ImportsOK, PhasesOK, NEW i \in Imports, Under(i), RestIsTodo(i), todo[i] # <<>>
  PROVE  /\ Dealt(i) \in Nat /\ Dealt(i) + 1 \in DOMAIN FileBlocks(i)
         /\ Head(todo[i]) = FileBlocks(i)[Dealt(i) + 1]
         /\ Len(FileBlocks(i)) - Len(Tail(todo[i])) = Dealt(i) + 1
         /\ \A n \in DOMAIN Tail(todo[i]) :
               Tail(todo[i])[n] = FileBlocks(i)[Dealt(i) + 1 + n]
<1>1. PICK s \in Seq(HostBlock) : s = todo[i] /\ s # <<>>
  BY DEF ImportsOK
<1>2. PICK b \in Seq(HostBlock) : b = FileBlocks(i)
  BY BlocksAre
<1>3. PICK p \in Nat : p = Dealt(i) /\ p = Len(b) - Len(s)
  BY <1>1, <1>2 DEF RestIsTodo, Dealt
<1>4. \A n \in 1 .. Len(s) : s[n] = b[p + n]
  <2>1. \A n \in DOMAIN s : s[n] = FileBlocks(i)[p + n]
    BY <1>1, <1>3 DEF RestIsTodo
  <2>2. DOMAIN s = 1 .. Len(s)
    OBVIOUS
  <2>. QED
    BY <1>2, <2>1, <2>2
<1>5. /\ p + 1 \in 1 .. Len(b) /\ 1 \in 1 .. Len(s) /\ Head(s) = s[1]
      /\ Len(Tail(s)) = Len(s) - 1
      /\ \A n \in 1 .. Len(s) - 1 : Tail(s)[n] = s[n + 1] /\ n + 1 \in 1 .. Len(s)
  BY <1>1, <1>2, <1>3
<1>6. ASSUME NEW n \in 1 .. Len(s) - 1 PROVE Tail(s)[n] = b[p + 1 + n]
  <2>1. Tail(s)[n] = s[n + 1] /\ s[n + 1] = b[p + (n + 1)]
    BY <1>4, <1>5
  <2>2. p + (n + 1) = p + 1 + n
    OBVIOUS
  <2>. QED
    BY <2>1, <2>2
<1>7. DOMAIN Tail(s) = 1 .. Len(s) - 1 /\ DOMAIN b = 1 .. Len(b)
  BY <1>1, <1>2
<1>8. Len(b) - Len(Tail(s)) = p + 1
  <2>1. PICK x \in Nat, y \in Nat : x = Len(b) /\ y = Len(s)
    BY <1>1, <1>2
  <2>2. x - (y - 1) = (x - y) + 1
    OBVIOUS
  <2>3. Len(Tail(s)) = y - 1 /\ p = x - y
    BY <1>3, <1>5, <2>1
  <2>4. Len(b) - Len(Tail(s)) = (x - y) + 1
    BY <2>1, <2>2, <2>3, Zenon
  <2>. QED
    BY <2>3, <2>4, Zenon
<1>9. Head(todo[i]) = FileBlocks(i)[p + 1]
  <2>1. Head(s) = b[p + 1]
    BY <1>4, <1>5
  <2>. QED
    BY <1>1, <1>2, <2>1
<1>10. \A n \in DOMAIN Tail(todo[i]) : Tail(todo[i])[n] = FileBlocks(i)[p + 1 + n]
  BY <1>1, <1>2, <1>6, <1>7
<1>11. p + 1 \in DOMAIN FileBlocks(i)
  BY <1>2, <1>5, <1>7
<1>12. Len(FileBlocks(i)) - Len(Tail(todo[i])) = p + 1
  BY <1>1, <1>2, <1>8
<1>. QED
  BY <1>3, <1>9, <1>10, <1>11, <1>12

----------------------------------------------------------------------------
(* What is assigned by one block more *)

\* Block m comes after those numbered N.
Later(N, m) == N \subseteq Nat /\ m \in Nat /\ \A n \in N : n < m

GivesNext(opts, blocks, N, m) ==
    /\ N = {} => ClientGiven(opts, blocks, N \cup {m}) = ClientOf(opts, blocks[m].section)
    /\ ~opts.update /\ N # {} =>
          ClientGiven(opts, blocks, N \cup {m}) = ClientGiven(opts, blocks, N)
    /\ opts.update =>
          ClientGiven(opts, blocks, N \cup {m}) =
              IF ClientGiven(opts, blocks, N) = Blank
              THEN ClientOf(opts, blocks[m].section) ELSE ClientGiven(opts, blocks, N)

LEMMA GivenNext ==
  ASSUME NEW opts, NEW blocks, NEW N, NEW m, Later(N, m) PROVE GivesNext(opts, blocks, N, m)
<1>0. N \subseteq Nat /\ m \in Nat /\ \A n \in N : n < m
  BY DEF Later
<1>. SUFFICES
        /\ N = {} => ClientGiven(opts, blocks, N \cup {m}) = ClientOf(opts, blocks[m].section)
        /\ ~opts.update /\ N # {} =>
              ClientGiven(opts, blocks, N \cup {m}) = ClientGiven(opts, blocks, N)
        /\ opts.update =>
              ClientGiven(opts, blocks, N \cup {m}) =
                  IF ClientGiven(opts, blocks, N) = Blank
                  THEN ClientOf(opts, blocks[m].section) ELSE ClientGiven(opts, blocks, N)
  BY DEF GivesNext
<1>. DEFINE Given(n) == ClientOf(opts, blocks[n].section)
            Client(M) == ClientGiven(opts, blocks, M)
            Telling(M) == IF opts.update THEN {n \in M : Given(n) # Blank} ELSE M
<1>1. ASSUME NEW M
      PROVE  Client(M) = IF Telling(M) = {} THEN Blank ELSE Given(FirstOf(Telling(M)))
  BY DEF ClientGiven
<1>2. ASSUME NEW T, T \subseteq Nat, T # {}
      PROVE  FirstOf(T) \in T /\ \A k \in T : FirstOf(T) <= k
  BY <1>2, LeastNumber DEF FirstOf
<1>3. Telling(N) \subseteq N
  OBVIOUS
<1>4. /\ opts.update /\ Given(m) = Blank => Telling(N \cup {m}) = Telling(N)
      /\ ~opts.update \/ Given(m) # Blank => Telling(N \cup {m}) = Telling(N) \cup {m}
  OBVIOUS
<1>5. ASSUME NEW T, T \subseteq N, T # {} PROVE FirstOf(T \cup {m}) = FirstOf(T)
  <2>1. FirstOf(T) \in T /\ \A k \in T : FirstOf(T) <= k
    BY <1>0, <1>2, <1>5
  <2>2. FirstOf(T \cup {m}) \in T \cup {m} /\ \A k \in T \cup {m} : FirstOf(T \cup {m}) <= k
    BY <1>0, <1>2, <1>5
  <2>3. PICK a \in Nat, b \in Nat : a = FirstOf(T) /\ b = FirstOf(T \cup {m})
    BY <1>0, <1>5, <2>1, <2>2
  <2>4. b <= a /\ (b \in T => a <= b) /\ a < m /\ (b = m \/ b \in T)
    BY <1>0, <1>5, <2>1, <2>2, <2>3
  <2>. QED
    BY <1>0, <2>3, <2>4
<1>6. FirstOf({m}) = m
  BY <1>0, <1>2
<1>7. Telling(N) # {} => Given(FirstOf(Telling(N))) # Blank \/ ~opts.update
  <2>1. Telling(N) # {} => FirstOf(Telling(N)) \in Telling(N)
    BY <1>0, <1>2, <1>3
  <2>. QED
    BY <2>1
<1>. HIDE DEF Telling
<1>8. CASE Telling(N) = {}
  <2>1. Client(N) = Blank
    BY <1>1, <1>8
  <2>2. Client(N \cup {m}) = Given(m)
    <3>1. CASE opts.update /\ Given(m) = Blank
      BY <1>1, <1>4, <1>8, <3>1
    <3>2. CASE ~opts.update \/ Given(m) # Blank
      <4>1. Telling(N \cup {m}) = {m}
        BY <1>4, <1>8, <3>2
      <4>. QED
        BY <1>1, <1>6, <4>1
    <3>. QED
      BY <3>1, <3>2
  <2>3. ~opts.update => N = {}
    BY <1>8 DEF Telling
  <2>. QED
    BY <1>1, <1>3, <2>1, <2>2, <2>3
<1>9. CASE Telling(N) # {}
  <2>1. Client(N) = Given(FirstOf(Telling(N)))
    BY <1>1, <1>9
  <2>2. Client(N \cup {m}) = Client(N)
    <3>1. CASE opts.update /\ Given(m) = Blank
      BY <1>1, <1>4, <1>9, <2>1, <3>1
    <3>2. CASE ~opts.update \/ Given(m) # Blank
      <4>1. Telling(N \cup {m}) = Telling(N) \cup {m} /\ Telling(N \cup {m}) # {}
        BY <1>4, <3>2
      <4>2. FirstOf(Telling(N) \cup {m}) = FirstOf(Telling(N))
        BY <1>3, <1>5, <1>9
      <4>. QED
        BY <1>1, <2>1, <4>1, <4>2
    <3>. QED
      BY <3>1, <3>2
  <2>3. N # {}
    BY <1>3, <1>9
  <2>. QED
    BY <1>7, <1>9, <2>1, <2>2, <2>3
<1>. QED
  BY <1>8, <1>9

\* Import i does nothing in this step, and servers that are not stale then stay.
Idle(i) ==
    /\ pc'[i] = pc[i] /\ file'[i] = file[i] /\ options'[i] = options[i] /\ todo'[i] = todo[i]
    /\ loaded'[i] = loaded[i] /\ own'[i] = own[i] /\ joins'[i] = joins[i]
Untouched(h) ==
    (Has(rows, h) <=> Has(rows', h)) /\ (Has(rows, h) => rows'[h] = rows[h])
Passes(i) ==
    Idle(i) /\ (Under(i) => /\ stale[i] \subseteq stale'[i]
                            /\ \A h \in Hosts \ stale'[i] : Untouched(h))

\* What an import is to make of a server depends on its file, its options and the server.
LEMMA ExpectedAlike ==
  ASSUME NEW i \in Imports, file'[i] = file[i], options'[i] = options[i],
         NEW h \in Hosts, Untouched(h)
  PROVE  \A N : Expected(i, h, N)' = Expected(i, h, N)
BY DEF Untouched, Expected, FileBlocks, Has

\* Of a server it does not deal with it goes on seeing what it saw.
LEMMA StillAssigned ==
  ASSUME NEW i \in Imports, file'[i] = file[i], options'[i] = options[i],
         NEW h \in Hosts, Untouched(h), SeenAsAssigned(i, h),
         DealtWith(i, h)' = DealtWith(i, h), Sees(i, h)' <=> Sees(i, h),
         Sees(i, h) => Seen(i, h)' = Seen(i, h), Joined(i, h)' = Joined(i, h)
  PROVE  SeenAsAssigned(i, h)'
<1>1. Sees(i, h)' <=> Has(rows', h) \/ DealtWith(i, h)' # {}
  BY DEF SeenAsAssigned, Untouched
<1>2. ASSUME NEW N, N = DealtWith(i, h)', Sees(i, h)' PROVE Seen(i, h)' = Expected(i, h, N)'
  <2>1. Seen(i, h) = Expected(i, h, N)
    BY <1>2 DEF SeenAsAssigned
  <2>2. Expected(i, h, N)' = Expected(i, h, N)
    BY ExpectedAlike
  <2>. QED
    BY <1>2, <2>1, <2>2
<1>3. ~Sees(i, h)' => Joined(i, h)' = {}
  BY DEF SeenAsAssigned
<1>. QED
  BY <1>1, <1>2, <1>3 DEF SeenAsAssigned, Has

LEMMA SeenAlike ==
  ASSUME NEW i \in Imports, Idle(i), NEW h \in Hosts, Untouched(h)
  PROVE  /\ Sees(i, h) <=> Sees(i, h)'
         /\ Sees(i, h) => Base(i, h)' = Base(i, h) /\ Seen(i, h)' = Seen(i, h)
         /\ Joined(i, h)' = Joined(i, h)
<1>1. (Sees(i, h) <=> Sees(i, h)') /\ (Sees(i, h) => Base(i, h)' = Base(i, h))
  BY DEF Idle, Untouched, Sees, Base, Has
<1>2. (IF Has(rows', h) THEN rows'[h].groups ELSE {}) = IF Has(rows, h) THEN rows[h].groups ELSE {}
  BY DEF Untouched
<1>3. Joined(i, h)' = Joined(i, h)
  BY <1>2 DEF Idle, Joined, Has
<1>4. Seen(i, h) = [Base(i, h) EXCEPT !.groups = Joined(i, h)]
  BY DEF Seen, Base
<1>5. Seen(i, h)' = [Base(i, h)' EXCEPT !.groups = Joined(i, h)']
  BY DEF Seen, Base
<1>. QED
  BY <1>1, <1>3, <1>4, <1>5

LEMMA KnowsStill ==
  ASSUME RowsOK, ImportsOK, PhasesOK, NEW i \in Imports, Knows(i), Passes(i)
  PROVE  Knows(i)'
<1>. SUFFICES ASSUME Under(i)'
              PROVE  (RestIsTodo(i) /\ LoadedIsThere(i) /\ NewIsNew(i) /\ AllAsAssigned(i))'
  BY DEF Knows
<1>0. /\ Idle(i) /\ Under(i) /\ stale[i] \subseteq stale'[i]
      /\ \A h \in Hosts \ stale'[i] : Untouched(h)
      /\ RestIsTodo(i) /\ LoadedIsThere(i) /\ NewIsNew(i) /\ AllAsAssigned(i)
  BY DEF Passes, Idle, Under, Knows
<1>1. Host(i)' = Host(i) /\ FileBlocks(i)' = FileBlocks(i) /\ Dealt(i)' = Dealt(i)
  BY <1>0 DEF Idle, Host, FileBlocks, Dealt
<1>2. LoadedIsThere(i)'
  <2>. SUFFICES ASSUME pc'[i] = "fill"
                PROVE  /\ options'[i].update
                       /\ Host(i)' \notin stale'[i] =>
                             Sees(i, Host(i))' /\ SameRow(loaded'[i], Base(i, Host(i))')
    BY DEF LoadedIsThere, SameRow
  <2>0. todo[i] # <<>> /\ pc[i] = "fill" /\ loaded'[i] = loaded[i] /\ options'[i].update
    BY <1>0 DEF Idle, PhasesOK, LoadedIsThere
  <2>1. ASSUME Host(i)' \notin stale'[i]
        PROVE  Sees(i, Host(i))' /\ SameRow(loaded'[i], Base(i, Host(i))')
    <3>1. Host(i) \notin stale'[i]
      BY <1>1, <2>1
    <3>2. PICK h \in Hosts : h = Host(i)
      BY <2>0, HostIs
    <3>3. (Sees(i, h) <=> Sees(i, h)') /\ (Sees(i, h) => Base(i, h)' = Base(i, h))
      BY <1>0, <3>1, <3>2, SeenAlike
    <3>4. Sees(i, h) /\ SameRow(loaded[i], Base(i, h))
      BY <1>0, <2>0, <3>1, <3>2 DEF LoadedIsThere
    <3>5. Sees(i, Host(i))' = Sees(i, h)' /\ Base(i, Host(i))' = Base(i, h)'
      BY <1>1, <3>2 DEF Sees, Base
    <3>. QED
      BY <2>0, <3>3, <3>4, <3>5 DEF SameRow
  <2>. QED
    BY <2>0, <2>1
<1>3. NewIsNew(i)'
  BY <1>0, <1>1 DEF NewIsNew, Idle, Has
<1>4. RestIsTodo(i)'
  BY <1>0, <1>1 DEF RestIsTodo, Idle
<1>5. AllAsAssigned(i)'
  <2>1. ASSUME NEW h \in Hosts \ stale'[i] PROVE SeenAsAssigned(i, h)'
    <3>1. SeenAsAssigned(i, h) /\ Untouched(h)
      BY <1>0 DEF AllAsAssigned
    <3>2. DealtWith(i, h)' = DealtWith(i, h)
      BY <1>1 DEF DealtWith, BlocksOf
    <3>. QED
      BY <1>0, <3>1, <3>2, SeenAlike, StillAssigned DEF Idle
  <2>. QED
    BY <2>1 DEF AllAsAssigned
<1>. QED
  BY <1>2, <1>3, <1>4, <1>5

LEMMA JoinedIs ==
  ASSUME ImportsOK, NEW i \in Imports, NEW o \in Hosts, o = Host(i),
         JoinGroups(i), UNCHANGED <<rows, options>>
  PROVE  /\ \A h \in Hosts : Joined(i, h) \subseteq Joined(i, h)'
         /\ \A h \in Hosts \ {o} : Joined(i, h)' = Joined(i, h)
         /\ Joined(i, o)' = Joined(i, o) \cup options[i].groups
         /\ \A j \in Imports \ {i} : joins'[j] = joins[j]
<1>. DEFINE new == {<<o, g>> : g \in options[i].groups \ Joined(i, o)}
<1>1. joins'[i] = joins[i] \cup new /\ \A j \in Imports \ {i} : joins'[j] = joins[j]
  BY DEF JoinGroups, ImportsOK
<1>2. options[i].groups \subseteq Groups
  BY DEF ImportsOK, Options
<1>3. ASSUME NEW h \in Hosts
      PROVE  /\ Joined(i, h) \subseteq Joined(i, h)'
             /\ h # o => Joined(i, h)' = Joined(i, h)
             /\ h = o => Joined(i, h)' = Joined(i, h) \cup options[i].groups
  <2>1. Joined(i, h)' = (IF Has(rows, h) THEN rows[h].groups ELSE {})
                            \cup {g \in Groups : <<h, g>> \in joins'[i]}
    BY DEF Joined, Has
  <2>2. \A g \in Groups : <<h, g>> \in new <=> h = o /\ g \in options[i].groups \ Joined(i, h)
    OBVIOUS
  <2>3. PICK A : A = IF Has(rows, h) THEN rows[h].groups ELSE {}
    OBVIOUS
  <2>4. Joined(i, h) = A \cup {g \in Groups : <<h, g>> \in joins[i]}
    BY <2>3 DEF Joined
  <2>5. Joined(i, h)' = A \cup {g \in Groups : <<h, g>> \in joins[i] \cup new}
    BY <1>1, <2>1, <2>3
  <2>6. \A g : g \in Joined(i, h)' <=>
            g \in Joined(i, h) \/ (g \in Groups /\ <<h, g>> \in new)
    BY <2>4, <2>5
  <2>7. \A g : g \in Joined(i, h)' <=>
            g \in Joined(i, h) \/ (h = o /\ g \in options[i].groups)
    BY <1>2, <2>2, <2>6
  <2>. QED
    BY <2>7
<1>. QED
  BY <1>1, <1>3

LEMMA WrittenIs ==
  ASSUME ImportsOK, NEW i \in Imports, NEW o \in Hosts, NEW row \in Row,
         own' = [own EXCEPT ![i] = With(@, o, row)], UNCHANGED rows
  PROVE  /\ Sees(i, o)' /\ Base(i, o)' = row /\ Has(own'[i], o)
         /\ \A h \in Hosts \ {o} : /\ Has(own'[i], h) <=> Has(own[i], h)
                                   /\ Has(own[i], h) => own'[i][h] = own[i][h]
                                   /\ Sees(i, h)' <=> Sees(i, h)
                                   /\ Base(i, h)' = Base(i, h)
         /\ \A j \in Imports \ {i} : own'[j] = own[j]
<1>1. own'[i] = With(own[i], o, row) /\ own[i] \in Tables
  BY DEF ImportsOK
<1>7. PICK T \in Tables : T = own[i]
  BY <1>1
<1>8. /\ DOMAIN With(T, o, row) = DOMAIN T \cup {o} /\ With(T, o, row)[o] = row
      /\ \A h \in DOMAIN T \ {o} : With(T, o, row)[h] = T[h]
  BY WithRow
<1>2. DOMAIN own'[i] = DOMAIN own[i] \cup {o} /\ own'[i][o] = row
  BY <1>1, <1>7, <1>8
<1>3. \A h \in DOMAIN own[i] \ {o} : own'[i][h] = own[i][h]
  BY <1>1, <1>7, <1>8
<1>4. Sees(i, o)' /\ Base(i, o)' = row
  BY <1>2 DEF Sees, Base, Has
<1>5. ASSUME NEW h \in Hosts \ {o}
      PROVE  /\ Has(own'[i], h) <=> Has(own[i], h)
             /\ Has(own[i], h) => own'[i][h] = own[i][h]
             /\ Sees(i, h)' <=> Sees(i, h)
             /\ Base(i, h)' = Base(i, h)
  <2>1. /\ Has(own'[i], h) <=> Has(own[i], h)
        /\ Has(own[i], h) => own'[i][h] = own[i][h]
    BY <1>2, <1>3 DEF Has
  <2>2. (Sees(i, h)' <=> Sees(i, h)) /\ Base(i, h)' = Base(i, h)
    BY <2>1 DEF Sees, Base
  <2>. QED
    BY <2>1, <2>2
<1>6. \A j \in Imports \ {i} : own'[j] = own[j]
  BY DEF ImportsOK
<1>. QED
  BY <1>2, <1>4, <1>5, <1>6 DEF Has

\* A commit changes no server but those the import has written to.
LEMMA CommitLeaves ==
  ASSUME RowsOK, ImportsOK, NEW i \in Imports, Commit(i), NEW h \in Hosts,
         ~Has(own[i], h), \A p \in joins[i] : p[1] # h
  PROVE  Untouched(h)
<1>1. Has(rows, h) <=> Has(rows', h)
  BY MergedIs DEF Commit, Has
<1>2. ASSUME Has(rows, h) PROVE rows'[h] = rows[h]
  <2>1. rows[h] \in Row /\ rows'[h] = Seen(i, h)
    BY <1>2, MergedIs, TableRows DEF Commit, RowsOK, Has
  <2>2. \A g \in Groups : <<h, g>> \notin joins[i]
    <3>1. \A g \in Groups : <<h, g>> \in joins[i] => <<h, g>>[1] # h
      OBVIOUS
    <3>. QED
      BY <3>1
  <2>3. Joined(i, h) = rows[h].groups
    BY <1>2, <2>2 DEF Joined
  <2>4. Seen(i, h) = [rows[h] EXCEPT !.groups = rows[h].groups]
    BY <2>3 DEF Seen
  <2>. QED
    BY <2>1, <2>4 DEF Row
<1>. QED
  BY <1>1, <1>2 DEF Untouched

\* When import i has dealt with the block at hand, the blocks about its host are one more,
\* and those about others are the same.
LEMMA DealtNext ==
  ASSUME ImportsOK, PhasesOK, NEW i \in Imports, Under(i), RestIsTodo(i), todo[i] # <<>>,
         file'[i] = file[i], todo'[i] = Tail(todo[i])
  PROVE  /\ RestIsTodo(i)'
         /\ DealtWith(i, Host(i)) \subseteq Nat /\ Dealt(i) + 1 \in Nat
         /\ \A n \in DealtWith(i, Host(i)) : n < Dealt(i) + 1
         /\ \A o : o = Host(i) => DealtWith(i, o)' = DealtWith(i, o) \cup {Dealt(i) + 1}
         /\ \A h : h # Host(i) => DealtWith(i, h)' = DealtWith(i, h)
         /\ ClientFor(i) = ClientOf(options[i], FileBlocks(i)[Dealt(i) + 1].section)
<1>1. /\ Dealt(i) \in Nat /\ Dealt(i) + 1 \in DOMAIN FileBlocks(i)
      /\ Head(todo[i]) = FileBlocks(i)[Dealt(i) + 1]
      /\ Len(FileBlocks(i)) - Len(Tail(todo[i])) = Dealt(i) + 1
      /\ \A n \in DOMAIN Tail(todo[i]) :
            Tail(todo[i])[n] = FileBlocks(i)[Dealt(i) + 1 + n]
  BY NextBlock
<1>2. FileBlocks(i)' = FileBlocks(i) /\ Dealt(i)' = Dealt(i) + 1
  BY <1>1 DEF FileBlocks, Dealt
<1>3. RestIsTodo(i)'
  BY <1>1, <1>2 DEF RestIsTodo
<1>4. DOMAIN FileBlocks(i) \subseteq Nat /\ \A h : BlocksOf(i, h) \subseteq DOMAIN FileBlocks(i)
  BY BlocksAre DEF BlocksOf
<1>5. \A h : BlocksOf(i, h)' = BlocksOf(i, h)
  BY <1>2 DEF BlocksOf
<1>6. PICK p \in Nat : p = Dealt(i)
  BY <1>1
<1>7. \A h : /\ DealtWith(i, h) = {n \in BlocksOf(i, h) : n <= p}
              /\ DealtWith(i, h)' = {n \in BlocksOf(i, h) : n <= p + 1}
  BY <1>2, <1>5, <1>6 DEF DealtWith
<1>8. \A h : p + 1 \in BlocksOf(i, h) <=> h = Host(i)
  BY <1>1, <1>6 DEF BlocksOf, Host
<1>9. \A h : DealtWith(i, h) \subseteq Nat /\ \A n \in DealtWith(i, h) : n < p + 1
  BY <1>4, <1>7
<1>10. \A h : \A n \in BlocksOf(i, h) : n <= p + 1 <=> n <= p \/ n = p + 1
  BY <1>4
<1>11. ASSUME NEW h
       PROVE  /\ h = Host(i) => DealtWith(i, h)' = DealtWith(i, h) \cup {p + 1}
              /\ h # Host(i) => DealtWith(i, h)' = DealtWith(i, h)
  <2>1. PICK B, D, E : /\ B = BlocksOf(i, h) /\ D = DealtWith(i, h) /\ E = DealtWith(i, h)'
    OBVIOUS
  <2>2. D = {n \in B : n <= p} /\ E = {n \in B : n <= p + 1}
    BY <1>7, <2>1
  <2>3. \A n \in B : n <= p + 1 <=> n <= p \/ n = p + 1
    BY <1>10, <2>1
  <2>4. p + 1 \in B <=> h = Host(i)
    BY <1>8, <2>1
  <2>5. \A n : n \in E <=> n \in D \/ (n = p + 1 /\ h = Host(i))
    <3>1. p + 1 <= p + 1
      OBVIOUS
    <3>. QED
      BY <2>2, <2>3, <2>4, <3>1
  <2>6. /\ h = Host(i) => E = D \cup {p + 1}
        /\ h # Host(i) => E = D
    BY <2>5
  <2>. QED
    BY <2>1, <2>6
<1>12. ClientFor(i) = ClientOf(options[i], FileBlocks(i)[Dealt(i) + 1].section)
  BY <1>1 DEF ClientFor
<1>. QED
  BY <1>3, <1>6, <1>9, <1>11, <1>12

\* A row with a client and what the options say, where it is blank, and their groups.
Joining(i, row, client) ==
    [row EXCEPT !.client = IF @ = Blank THEN client ELSE @,
                !.environment = IF @ = Blank THEN options[i].environment ELSE @,
                !.groups = @ \cup options[i].groups]
Written(i, row) == Joining(i, row, ClientFor(i))

\* What there is of host o after the blocks numbered N.
Before(i, o, N) == IF ~Has(rows, o) /\ N = {} THEN BlankRow ELSE Expected(i, o, N)

\* What import i makes of a server by the next block about it: nothing, of one there was,
\* without --update-existing; otherwise it fills in what is blank and adds the groups.
LEMMA ExpectedNext ==
  ASSUME RowsOK, ImportsOK, NEW i \in Imports, NEW o \in Hosts, NEW N, N \subseteq Nat,
         NEW m \in Nat, \A n \in N : n < m
  PROVE  /\ (Has(rows, o) \/ N # {}) /\ ~options[i].update =>
               Expected(i, o, N \cup {m}) = Before(i, o, N)
         /\ (~Has(rows, o) /\ N = {}) \/ options[i].update =>
               Expected(i, o, N \cup {m}) =
                   Joining(i, Before(i, o, N), ClientOf(options[i], FileBlocks(i)[m].section))
<1>0. PICK client : client = ClientOf(options[i], FileBlocks(i)[m].section)
  OBVIOUS
<1>a. PICK row, more, next : /\ row = Before(i, o, N) /\ more = Expected(i, o, N \cup {m})
                             /\ next = Joining(i, row, client)
  OBVIOUS
<1>b. row = IF ~Has(rows, o) /\ N = {} THEN BlankRow ELSE Expected(i, o, N)
  BY <1>a DEF Before
<1>c. next = [row EXCEPT !.client = IF @ = Blank THEN client ELSE @,
                        !.environment = IF @ = Blank THEN options[i].environment ELSE @,
                        !.groups = @ \cup options[i].groups]
  BY <1>a DEF Joining
<1>. SUFFICES /\ (Has(rows, o) \/ N # {}) /\ ~options[i].update => more = row
              /\ (~Has(rows, o) /\ N = {}) \/ options[i].update => more = next
  BY <1>0, <1>a
<1>. DEFINE was == IF Has(rows, o) THEN rows[o] ELSE BlankRow
            Client(M) == ClientGiven(options[i], FileBlocks(i), M)
            Made(M) == [was EXCEPT !.client = IF @ = Blank THEN Client(M) ELSE @,
                            !.environment = IF @ = Blank THEN options[i].environment ELSE @,
                            !.groups = @ \cup options[i].groups]
<1>1. was \in Row
  BY BlankRowIsARow, TableRows DEF RowsOK, Has
<1>2. /\ N = {} => Client(N \cup {m}) = client
      /\ ~options[i].update /\ N # {} => Client(N \cup {m}) = Client(N)
      /\ options[i].update =>
            Client(N \cup {m}) = IF Client(N) = Blank THEN client ELSE Client(N)
  <2>1. PICK opts, blocks : opts = options[i] /\ blocks = FileBlocks(i)
    OBVIOUS
  <2>2. Later(N, m)
    BY DEF Later
  <2>3. GivesNext(opts, blocks, N, m)
    BY <2>2, GivenNext
  <2>. QED
    BY <1>0, <2>1, <2>3 DEF GivesNext
<1>3. Expected(i, o, N) = IF N = {} \/ (Has(rows, o) /\ ~options[i].update) THEN was ELSE Made(N)
  BY DEF Expected, Assigned
<1>4. more = IF Has(rows, o) /\ ~options[i].update THEN was ELSE Made(N \cup {m})
  BY <1>a DEF Expected, Assigned
<1>. HIDE DEF was, Client
<1>5. CASE Has(rows, o) /\ ~options[i].update
  BY <1>b, <1>3, <1>4, <1>5 DEF was
<1>6. CASE ~(Has(rows, o) /\ ~options[i].update) /\ N = {}
  <2>1. row = was
    BY <1>b, <1>3, <1>6 DEF was
  <2>2. more = Made(N \cup {m}) /\ Client(N \cup {m}) = client
    BY <1>2, <1>4, <1>6
  <2>. QED
    BY <1>c, <1>6, <2>1, <2>2
<1>7. CASE ~(Has(rows, o) /\ ~options[i].update) /\ N # {}
  <2>1. row = Made(N) /\ more = Made(N \cup {m})
    BY <1>b, <1>3, <1>4, <1>7
  <2>2. CASE ~options[i].update
    BY <1>2, <1>7, <2>1, <2>2
  <2>3. CASE options[i].update
    <3>1. PICK a, b, c : a = Client(N) /\ b = Client(N \cup {m}) /\ c = client
      OBVIOUS
    <3>2. b = IF a = Blank THEN c ELSE a
      BY <1>2, <2>3, <3>1
    <3>3. /\ row = [was EXCEPT !.client = IF @ = Blank THEN a ELSE @,
                            !.environment = IF @ = Blank THEN options[i].environment ELSE @,
                            !.groups = @ \cup options[i].groups]
          /\ more = [was EXCEPT !.client = IF @ = Blank THEN b ELSE @,
                            !.environment = IF @ = Blank THEN options[i].environment ELSE @,
                            !.groups = @ \cup options[i].groups]
      BY <2>1, <3>1
    <3>4. next = more
      <4>1. PICK e, g : e = options[i].environment /\ g = options[i].groups
        OBVIOUS
      <4>2. PICK w \in Row : w = was
        BY <1>1
      <4>3. /\ row = [w EXCEPT !.client = IF @ = Blank THEN a ELSE @,
                                !.environment = IF @ = Blank THEN e ELSE @,
                                !.groups = @ \cup g]
            /\ more = [w EXCEPT !.client = IF @ = Blank THEN b ELSE @,
                                !.environment = IF @ = Blank THEN e ELSE @,
                                !.groups = @ \cup g]
            /\ next = [row EXCEPT !.client = IF @ = Blank THEN c ELSE @,
                                  !.environment = IF @ = Blank THEN e ELSE @,
                                  !.groups = @ \cup g]
        BY <1>c, <3>1, <3>3, <4>1, <4>2
      <4>4. PICK wc, we, wg, ws :
                w = [client |-> wc, environment |-> we, groups |-> wg, status |-> ws]
        BY DEF Row
      <4>5. row = [client |-> IF wc = Blank THEN a ELSE wc,
                   environment |-> IF we = Blank THEN e ELSE we,
                   groups |-> wg \cup g, status |-> ws]
        BY <4>3, <4>4
      <4>6. more = [client |-> IF wc = Blank THEN b ELSE wc,
                    environment |-> IF we = Blank THEN e ELSE we,
                    groups |-> wg \cup g, status |-> ws]
        BY <4>3, <4>4
      <4>7. PICK rc, re, rg : /\ rc = (IF wc = Blank THEN a ELSE wc)
                              /\ re = (IF we = Blank THEN e ELSE we)
                              /\ rg = wg \cup g
        OBVIOUS
      <4>8. next = [client |-> IF rc = Blank THEN c ELSE rc,
                    environment |-> IF re = Blank THEN e ELSE re,
                    groups |-> rg \cup g, status |-> ws]
        <5>1. PICK x : x = [client |-> rc, environment |-> re, groups |-> rg, status |-> ws]
          OBVIOUS
        <5>2. row = x
          BY <4>5, <4>7, <5>1
        <5>3. next = [x EXCEPT !.client = IF @ = Blank THEN c ELSE @,
                               !.environment = IF @ = Blank THEN e ELSE @,
                               !.groups = @ \cup g]
          BY <4>3, <5>2
        <5>. QED
          BY <5>1, <5>3
      <4>9. /\ (IF rc = Blank THEN c ELSE rc) = (IF wc = Blank THEN b ELSE wc)
            /\ (IF re = Blank THEN e ELSE re) = (IF we = Blank THEN e ELSE we)
            /\ rg \cup g = wg \cup g
        BY <3>2, <4>7
      <4>. QED
        BY <4>6, <4>8, <4>9
    <3>. QED
      BY <2>3, <3>4
  <2>. QED
    BY <2>2, <2>3
<1>. QED
  BY <1>5, <1>6, <1>7

\* What is there of host o before the block at hand is dealt with.
BeforeIs(i, o, row) == row = Before(i, o, DealtWith(i, o))

\* An import that writes what the block at hand fills in goes on as it should.
LEMMA DealtAsAssigned ==
  ASSUME RowsOK, ImportsOK, PhasesOK, NEW i \in Imports, Under(i), RestIsTodo(i),
         AllAsAssigned(i), todo[i] # <<>>, NEW o \in Hosts, o = Host(i),
         UNCHANGED <<rows, file, options, stale>>, todo'[i] = Tail(todo[i]), JoinGroups(i),
         \A h \in Hosts \ {o} : (Sees(i, h)' <=> Sees(i, h)) /\ Base(i, h)' = Base(i, h),
         o \notin stale[i] =>
            /\ Sees(i, o)'
            /\ (~Has(rows, o) /\ DealtWith(i, o) = {}) \/ options[i].update
            /\ \E row : Seen(i, o)' = Written(i, row) /\ BeforeIs(i, o, row)
  PROVE  AllAsAssigned(i)' /\ RestIsTodo(i)'
<1>1. /\ RestIsTodo(i)'
      /\ DealtWith(i, o) \subseteq Nat /\ Dealt(i) + 1 \in Nat
      /\ \A n \in DealtWith(i, o) : n < Dealt(i) + 1
      /\ DealtWith(i, o)' = DealtWith(i, o) \cup {Dealt(i) + 1}
      /\ \A h : h # o => DealtWith(i, h)' = DealtWith(i, h)
      /\ ClientFor(i) = ClientOf(options[i], FileBlocks(i)[Dealt(i) + 1].section)
  BY DealtNext
<1>2. \A h \in Hosts : Untouched(h)
  BY DEF Untouched
<1>3. \A h \in Hosts \ {o} : Joined(i, h)' = Joined(i, h)
  BY JoinedIs
<1>4. ASSUME NEW h \in Hosts \ stale[i], h # o PROVE SeenAsAssigned(i, h)'
  <2>1. /\ Seen(i, h) = [Base(i, h) EXCEPT !.groups = Joined(i, h)]
        /\ Seen(i, h)' = [Base(i, h)' EXCEPT !.groups = Joined(i, h)']
    BY DEF Seen, Base
  <2>2. Seen(i, h)' = Seen(i, h) /\ Joined(i, h)' = Joined(i, h) /\ (Sees(i, h)' <=> Sees(i, h))
    BY <1>3, <1>4, <2>1
  <2>. QED
    BY <1>1, <1>2, <1>4, <2>2, StillAssigned DEF AllAsAssigned
<1>5. ASSUME o \notin stale[i] PROVE SeenAsAssigned(i, o)'
  <2>1. PICK row : Seen(i, o)' = Written(i, row) /\ BeforeIs(i, o, row)
    BY <1>5
  <2>0. PICK N, client : N = DealtWith(i, o) /\ client = ClientFor(i)
    OBVIOUS
  <2>2. PICK m \in Nat : m = Dealt(i) + 1
    BY <1>1
  <2>3. N \subseteq Nat /\ \A n \in N : n < m
    BY <1>1, <2>0, <2>2
  <2>4. client = ClientOf(options[i], FileBlocks(i)[m].section)
    BY <1>1, <2>0, <2>2
  <2>5. row = Before(i, o, N)
    BY <2>0, <2>1 DEF BeforeIs
  <2>6. Seen(i, o)' = Joining(i, row, client)
    BY <2>0, <2>1 DEF Written
  <2>7. (~Has(rows, o) /\ N = {}) \/ options[i].update
    BY <1>5, <2>0
  <2>8. Seen(i, o)' = Expected(i, o, N \cup {m})
    <3>1. Expected(i, o, N \cup {m}) = Joining(i, Before(i, o, N),
              ClientOf(options[i], FileBlocks(i)[m].section))
      BY <2>3, <2>7, ExpectedNext
    <3>. QED
      BY <2>4, <2>5, <2>6, <3>1
  <2>9. ASSUME NEW M, M = N \cup {m} PROVE Seen(i, o)' = Expected(i, o, M)'
    <3>1. Expected(i, o, M)' = Expected(i, o, M)
      BY <1>2, ExpectedAlike
    <3>. QED
      BY <2>8, <2>9, <3>1
  <2>10. DealtWith(i, o)' = N \cup {m} /\ N \cup {m} # {} /\ Sees(i, o)'
    BY <1>1, <1>5, <2>0, <2>2
  <2>. QED
    BY <2>9, <2>10 DEF SeenAsAssigned
<1>6. AllAsAssigned(i)'
  BY <1>4, <1>5 DEF AllAsAssigned
<1>. QED
  BY <1>1, <1>6

LEMMA KnowsStep == 
  RowsOK /\ ImportsOK /\ PhasesOK /\ HistoryOK /\ Coherent /\ [Next]_vars => Coherent'
<1> SUFFICES ASSUME RowsOK, ImportsOK, PhasesOK, HistoryOK, Coherent,
         [Next]_vars PROVE Coherent'
  OBVIOUS
<1>1. ASSUME NEW i \in Imports, NEW f \in Files, NEW opts \in Choices,
         Start(i, f, opts) PROVE Coherent'
  <2>1. \A j \in Imports \ {i} : Idle(j)
    BY <1>1 DEF Start, GoTo, Idle, ImportsOK
  <2>2. UNCHANGED stale /\ \A h \in Hosts : Untouched(h)
    BY <1>1 DEF Start, GoTo, Untouched
  <2>3. \A j \in Imports \ {i} : Passes(j)
    BY <2>1, <2>2 DEF Passes
  <2>4. Knows(i)'
    <3>1. /\ pc'[i] = "next" /\ own'[i] = NoRows /\ joins'[i] = {} /\ UNCHANGED rows
          /\ file'[i] = f /\ todo'[i] = Importable(Parse(f))
      BY <1>1 DEF Start, GoTo, PhasesOK, ImportsOK
    <3>2. FileBlocks(i)' = todo'[i] /\ todo'[i] \in Seq(HostBlock)
      BY <3>1, FilesAreLines, FilesAreParsed DEF FileBlocks
    <3>3. Dealt(i)' = 0 /\ RestIsTodo(i)'
      BY <3>2 DEF Dealt, RestIsTodo
    <3>4. ASSUME NEW h \in Hosts PROVE SeenAsAssigned(i, h)'
      <4>1. DealtWith(i, h)' = {}
        BY <3>2, <3>3 DEF DealtWith, BlocksOf
      <4>2. Sees(i, h)' <=> Has(rows', h)
        BY <3>1, NoRowsIsATable DEF Sees, Has
      <4>3. Sees(i, h)' => Seen(i, h)' = rows'[h]
        <5>1. ASSUME Has(rows, h) PROVE [rows[h] EXCEPT !.groups = rows[h].groups] = rows[h]
          BY <5>1, TableRows DEF RowsOK, Has, Row
        <5>2. Has(rows, h) => Joined(i, h)' = rows[h].groups
          BY <3>1 DEF Joined, Has
        <5>3. Seen(i, h)' = [rows[h] EXCEPT !.groups = Joined(i, h)']
          BY <3>1, NoRowsIsATable DEF Seen, Has
        <5>. QED
          BY <3>1, <4>2, <5>1, <5>2, <5>3
      <4>4. ASSUME NEW N, N = {}, Sees(i, h)' PROVE Expected(i, h, N)' = rows'[h]
        BY <4>2, <4>4 DEF Expected, Has
      <4>5. ~Has(rows, h) => Joined(i, h)' = {}
        BY <3>1 DEF Joined, Has
      <4>6. Has(rows, h) <=> Has(rows', h)
        BY <3>1
      <4>. QED
        BY <4>1, <4>2, <4>3, <4>4, <4>5, <4>6 DEF SeenAsAssigned, Has
    <3>. QED
      BY <3>1, <3>3, <3>4 DEF Knows, LoadedIsThere, NewIsNew, AllAsAssigned
  <2>. QED
    BY <2>3, <2>4, KnowsStill DEF Coherent
<1>2. ASSUME NEW i \in Imports, LookUp(i) PROVE Coherent'
  <2>1. \A j \in Imports \ {i} : Idle(j)
    BY <1>2 DEF LookUp, GoTo, Idle, ImportsOK
  <2>2. UNCHANGED stale /\ \A h \in Hosts : Untouched(h)
    BY <1>2 DEF LookUp, GoTo, Untouched
  <2>3. \A j \in Imports \ {i} : Passes(j)
    BY <2>1, <2>2 DEF Passes
  <2>4. Knows(i)'
    <3>0. /\ pc[i] = "next" /\ todo[i] # <<>>
          /\ UNCHANGED <<rows, file, options, own, joins, stale>>
          /\ RestIsTodo(i) /\ AllAsAssigned(i) /\ Under(i)
      BY <1>2 DEF LookUp, Coherent, Knows, Under
    <3>2. PICK o \in Hosts : o = Host(i)
      BY <3>0, HostIs
    <3>3. \A h : /\ Sees(i, h)' = Sees(i, h) /\ Base(i, h)' = Base(i, h)
                 /\ Seen(i, h)' = Seen(i, h) /\ Joined(i, h)' = Joined(i, h)
      BY <3>0 DEF Sees, Base, Seen, Joined
    <3>4. ASSUME todo'[i] = todo[i] PROVE RestIsTodo(i)' /\ AllAsAssigned(i)'
      <4>1. FileBlocks(i)' = FileBlocks(i) /\ Dealt(i)' = Dealt(i)
        BY <3>0, <3>4 DEF FileBlocks, Dealt
      <4>2. \A h : DealtWith(i, h)' = DealtWith(i, h)
        BY <4>1 DEF DealtWith, BlocksOf
      <4>3. ASSUME NEW h \in Hosts \ stale[i] PROVE SeenAsAssigned(i, h)'
        BY <2>2, <3>0, <3>3, <4>2, StillAssigned DEF AllAsAssigned
      <4>. QED
        BY <3>0, <3>4, <4>1, <4>3 DEF RestIsTodo, AllAsAssigned
    <3>5. CASE Sees(i, Host(i)) /\ options[i].update
      <4>1. /\ pc'[i] = "fill" /\ todo'[i] = todo[i] /\ loaded'[i] = Seen(i, Host(i))
        BY <1>2, <3>5 DEF LookUp, GoTo, ImportsOK
      <4>2. Host(i)' = o
        BY <4>1, <3>2 DEF Host
      <4>3. SameRow(loaded'[i], Base(i, o)) /\ Sees(i, o)
        BY <3>2, <3>5, <4>1, SeenIs DEF SameRow
      <4>4. Sees(i, Host(i))' = Sees(i, o) /\ Base(i, Host(i))' = Base(i, o)
        BY <3>0, <4>2 DEF Sees, Base
      <4>5. LoadedIsThere(i)' /\ NewIsNew(i)'
        BY <3>0, <3>5, <4>1, <4>3, <4>4 DEF LoadedIsThere, NewIsNew, SameRow
      <4>. QED
        BY <3>4, <4>1, <4>5 DEF Knows
    <3>6. CASE Sees(i, Host(i)) /\ ~options[i].update
      <4>1. pc'[i] = "next" /\ todo'[i] = Tail(todo[i]) /\ file'[i] = file[i]
        BY <1>2, <3>0, <3>6 DEF LookUp, ImportsOK
      <4>2. /\ RestIsTodo(i)'
            /\ DealtWith(i, o) \subseteq Nat /\ Dealt(i) + 1 \in Nat
            /\ \A n \in DealtWith(i, o) : n < Dealt(i) + 1
            /\ DealtWith(i, o)' = DealtWith(i, o) \cup {Dealt(i) + 1}
            /\ \A h : h # o => DealtWith(i, h)' = DealtWith(i, h)
        BY <3>0, <3>2, <4>1, DealtNext
      <4>3. ASSUME NEW h \in Hosts \ stale[i], h # o PROVE SeenAsAssigned(i, h)'
        BY <2>2, <3>0, <3>3, <4>2, <4>3, StillAssigned DEF AllAsAssigned
      <4>4. ASSUME o \notin stale[i] PROVE SeenAsAssigned(i, o)'
        <5>0. SeenAsAssigned(i, o)
          BY <3>0, <4>4 DEF AllAsAssigned
        <5>6. PICK m \in Nat : m = Dealt(i) + 1
          BY <4>2
        <5>1. PICK N : N = DealtWith(i, o) /\ m = Dealt(i) + 1
          BY <5>6
        <5>2. Has(rows, o) \/ N # {}
          BY <3>2, <3>6, <5>0, <5>1 DEF SeenAsAssigned
        <5>3. Expected(i, o, N \cup {m}) = Expected(i, o, N)
          <6>1. N \subseteq Nat /\ \A n \in N : n < m
            BY <4>2, <5>1
          <6>2. Expected(i, o, N \cup {m}) = Before(i, o, N)
            BY <3>6, <5>2, <6>1, ExpectedNext
          <6>. QED
            BY <5>2, <6>2 DEF Before
        <5>4. ASSUME NEW M, M = N \cup {m} PROVE Seen(i, o)' = Expected(i, o, M)'
          <6>1. Seen(i, o)' = Expected(i, o, M)
            BY <3>2, <3>3, <3>6, <5>0, <5>1, <5>3, <5>4 DEF SeenAsAssigned
          <6>2. Expected(i, o, M)' = Expected(i, o, M)
            BY <2>2, <3>0, ExpectedAlike
          <6>. QED
            BY <6>1, <6>2
        <5>. QED
          BY <3>2, <3>3, <3>6, <4>2, <5>1, <5>4 DEF SeenAsAssigned
      <4>5. AllAsAssigned(i)'
        BY <3>0, <4>3, <4>4 DEF AllAsAssigned
      <4>. QED
        BY <4>1, <4>2, <4>5 DEF Knows, LoadedIsThere, NewIsNew
    <3>7. CASE ~Sees(i, Host(i))
      <4>1. pc'[i] = "create" /\ todo'[i] = todo[i]
        BY <1>2, <3>7 DEF LookUp, GoTo, ImportsOK
      <4>2. NewIsNew(i)'
        BY <3>0, <3>7, <4>1 DEF NewIsNew, Sees, Host
      <4>. QED
        BY <3>4, <4>1, <4>2 DEF Knows, LoadedIsThere
    <3>. QED
      BY <3>5, <3>6, <3>7
  <2>. QED
    BY <2>3, <2>4, KnowsStill DEF Coherent
<1>3. ASSUME NEW i \in Imports, Create(i) PROVE Coherent'
  <2>1. \A j \in Imports \ {i} : Idle(j)
    BY <1>3 DEF Create, CreateAs, Makes, JoinGroups, NextHost, GoTo, Idle, ImportsOK
  <2>2. UNCHANGED stale /\ \A h \in Hosts : Untouched(h)
    BY <1>3 DEF Create, CreateAs, Makes, JoinGroups, NextHost, GoTo, Untouched
  <2>3. \A j \in Imports \ {i} : Passes(j)
    BY <2>1, <2>2 DEF Passes
  <2>4. Knows(i)'
    <3>0. /\ pc[i] = "create" /\ todo[i] # <<>> /\ ~Has(rows, Host(i)) /\ ~Has(own[i], Host(i))
          /\ JoinGroups(i) /\ NextHost(i)
          /\ own' = [own EXCEPT ![i] = With(@, Host(i), NewRow(i))]
          /\ UNCHANGED <<rows, file, options, stale>>
          /\ RestIsTodo(i) /\ AllAsAssigned(i) /\ Under(i)
      BY <1>3 DEF Create, CreateAs, NewRow, PhasesOK, Coherent, Knows, NewIsNew, Under
    <3>1. PICK o \in Hosts : o = Host(i)
      BY <3>0, HostIs
    <3>2. pc'[i] = "next" /\ todo'[i] = Tail(todo[i])
      BY <3>0 DEF NextHost, GoTo, ImportsOK
    <3>3. /\ Sees(i, o)' /\ Base(i, o)' = NewRow(i)
          /\ \A h \in Hosts \ {o} : (Sees(i, h)' <=> Sees(i, h)) /\ Base(i, h)' = Base(i, h)
      BY <3>0, <3>1, WrittenIs, NewRowIs
    <3>4. ASSUME o \notin stale[i]
          PROVE  \E row : /\ Seen(i, o)' = Written(i, row)
                          /\ BeforeIs(i, o, row) /\ ~Has(rows, o) /\ DealtWith(i, o) = {}
      <4>1. ~Sees(i, o) /\ Joined(i, o) = {} /\ DealtWith(i, o) = {}
        BY <3>0, <3>1, <3>4 DEF AllAsAssigned, SeenAsAssigned, Sees
      <4>2. Joined(i, o)' = options[i].groups
        BY <3>0, <3>1, <4>1, JoinedIs
      <4>3. Seen(i, o)' = [NewRow(i) EXCEPT !.groups = options[i].groups]
        BY <3>3, <4>2 DEF Seen, Base
      <4>4. Seen(i, o)' = Written(i, BlankRow)
        BY <4>3 DEF Written, Joining, NewRow, BlankRow
      <4>. QED
        BY <3>0, <3>1, <4>1, <4>4 DEF BeforeIs, Before
    <3>5. AllAsAssigned(i)' /\ RestIsTodo(i)'
      BY <3>0, <3>1, <3>2, <3>3, <3>4, DealtAsAssigned
    <3>. QED
      BY <3>2, <3>5 DEF Knows, LoadedIsThere, NewIsNew
  <2>. QED
    BY <2>3, <2>4, KnowsStill DEF Coherent
<1>4. ASSUME NEW i \in Imports, Fill(i) PROVE Coherent'
  <2>1. \A j \in Imports \ {i} : Idle(j)
    BY <1>4 DEF Fill, Makes, JoinGroups, NextHost, GoTo, Idle, ImportsOK
  <2>2. UNCHANGED stale /\ \A h \in Hosts : Untouched(h)
    BY <1>4 DEF Fill, Makes, JoinGroups, NextHost, GoTo, Untouched
  <2>3. \A j \in Imports \ {i} : Passes(j)
    BY <2>1, <2>2 DEF Passes
  <2>4. Knows(i)'
    <3>0. /\ pc[i] = "fill" /\ todo[i] # <<>>
          /\ JoinGroups(i) /\ NextHost(i)
          /\ UNCHANGED <<rows, file, options, stale>>
          /\ LoadedIsThere(i) /\ RestIsTodo(i) /\ AllAsAssigned(i) /\ Under(i)
      BY <1>4 DEF Fill, PhasesOK, Coherent, Knows, Under
    <3>1. PICK o \in Hosts : o = Host(i)
      BY <3>0, HostIs
    <3>2. pc'[i] = "next" /\ todo'[i] = Tail(todo[i])
      BY <3>0 DEF NextHost, GoTo, ImportsOK
    <3>3. /\ \A h \in Hosts \ {o} : (Sees(i, h)' <=> Sees(i, h)) /\ Base(i, h)' = Base(i, h)
          /\ Sees(i, o) => Sees(i, o)'
          /\ Base(i, o)' = Filled(i) \/ (Filled(i) = loaded[i] /\ Base(i, o)' = Base(i, o))
      <4>2. Filled(i) \in Row
        BY <3>0, FilledIs
      <4>3. CASE Filled(i) = loaded[i]
        <5>1. UNCHANGED <<own, rows>>
          BY <1>4, <4>3 DEF Fill
        <5>2. \A h : (Sees(i, h)' <=> Sees(i, h)) /\ Base(i, h)' = Base(i, h)
          BY <5>1 DEF Sees, Base
        <5>. QED
          BY <4>3, <5>2
      <4>4. CASE Filled(i) # loaded[i]
        <5>1. own' = [own EXCEPT ![i] = With(@, o, Filled(i))]
          BY <1>4, <3>1, <4>4 DEF Fill
        <5>2. PICK row \in Row : row = Filled(i)
          BY <4>2
        <5>3. own' = [own EXCEPT ![i] = With(@, o, row)]
          BY <5>1, <5>2
        <5>4. /\ Sees(i, o)' /\ Base(i, o)' = row
              /\ \A h \in Hosts \ {o} : (Sees(i, h)' <=> Sees(i, h)) /\ Base(i, h)' = Base(i, h)
          BY <3>0, <5>3, WrittenIs
        <5>. QED
          BY <5>2, <5>4
      <4>. QED
        BY <4>3, <4>4
    <3>4. ASSUME o \notin stale[i]
          PROVE  /\ Sees(i, o)' /\ options[i].update
                 /\ \E row : Seen(i, o)' = Written(i, row) /\ BeforeIs(i, o, row)
      <4>1. Sees(i, o) /\ SameRow(loaded[i], Base(i, o)) /\ options[i].update
        BY <3>0, <3>1, <3>4 DEF LoadedIsThere, SameRow
      <4>2. Joined(i, o)' = Joined(i, o) \cup options[i].groups
        BY <3>0, <3>1, JoinedIs
      <4>3. SameRow(Filled(i), Base(i, o)')
        BY <3>3, <4>1 DEF SameRow
      <4>4. /\ Seen(i, o) \in Row /\ Base(i, o) \in Row
            /\ SameRow(Seen(i, o), Base(i, o)) /\ Seen(i, o).groups = Joined(i, o)
        BY <3>1, <4>1, SeenIs DEF SameRow
      <4>5. /\ Filled(i) \in Row /\ loaded[i] \in Row /\ Base(i, o)' \in Row
            /\ Filled(i).status = loaded[i].status
            /\ Filled(i).client = IF loaded[i].client = Blank THEN ClientFor(i) ELSE loaded[i].client
            /\ Filled(i).environment = IF loaded[i].environment = Blank
                                       THEN options[i].environment ELSE loaded[i].environment
        BY <3>0, <3>3, <4>4, FilledIs DEF ImportsOK
      <4>6. Seen(i, o)' = [Base(i, o)' EXCEPT !.groups = Joined(i, o)']
        BY DEF Seen, Base
      <4>7. Seen(i, o)' = Written(i, Seen(i, o))
        <5>1. PICK a \in Row, b \in Row : a = Seen(i, o) /\ b = Base(i, o)'
          BY <4>4, <4>5
        <5>2. /\ b.status = a.status
              /\ b.client = IF a.client = Blank THEN ClientFor(i) ELSE a.client
              /\ b.environment = IF a.environment = Blank
                                 THEN options[i].environment ELSE a.environment
          BY <4>1, <4>3, <4>4, <4>5, <5>1 DEF SameRow
        <5>3. [b EXCEPT !.groups = a.groups \cup options[i].groups] = Written(i, a)
          BY <5>2 DEF Written, Joining, Row
        <5>. QED
          BY <4>2, <4>4, <4>6, <5>1, <5>3
      <4>8. BeforeIs(i, o, Seen(i, o))
        <5>1. SeenAsAssigned(i, o)
          BY <3>0, <3>4 DEF AllAsAssigned
        <5>. QED
          BY <4>1, <5>1 DEF BeforeIs, Before, SeenAsAssigned
      <4>. QED
        BY <3>3, <4>1, <4>7, <4>8
    <3>5. AllAsAssigned(i)' /\ RestIsTodo(i)'
      BY <3>0, <3>1, <3>2, <3>3, <3>4, DealtAsAssigned
    <3>. QED
      BY <3>2, <3>5 DEF Knows, LoadedIsThere, NewIsNew
  <2>. QED
    BY <2>3, <2>4, KnowsStill DEF Coherent
<1>5. ASSUME NEW i \in Imports, Commit(i) PROVE Coherent'
  <2>. DEFINE changed == DOMAIN own[i] \cup {p[1] : p \in joins[i]}
  <2>1. \A j \in Imports \ {i} : Idle(j)
    BY <1>5 DEF Commit, End, GoTo, Idle, ImportsOK
  <2>2. \A j \in Imports \ {i} : Under(j) => stale'[j] = stale[j] \cup changed
    BY <1>5 DEF Commit, Outdates, Under
  <2>3. \A h \in Hosts \ changed : Untouched(h)
    BY <1>5, CommitLeaves DEF Has
  <2>4. \A j \in Imports \ {i} : Passes(j)
    BY <2>1, <2>2, <2>3 DEF Passes
  <2>5. Knows(i)'
    BY <1>5 DEF Commit, End, GoTo, Knows, Under, ImportsOK
  <2>. QED
    BY <2>4, <2>5, KnowsStill DEF Coherent
<1>6. ASSUME NEW i \in Imports, Rollback(i) PROVE Coherent'
  <2>1. \A j \in Imports \ {i} : Idle(j) /\ stale'[j] = stale[j]
    BY <1>6 DEF Rollback, End, GoTo, Idle, ImportsOK, HistoryOK
  <2>2. \A h \in Hosts : Untouched(h)
    BY <1>6 DEF Rollback, Untouched
  <2>3. \A j \in Imports \ {i} : Passes(j)
    BY <2>1, <2>2 DEF Passes
  <2>4. Knows(i)'
    BY <1>6 DEF Rollback, End, GoTo, Knows, Under, ImportsOK
  <2>. QED
    BY <2>3, <2>4, KnowsStill DEF Coherent
<1>7. ASSUME NEW h \in Hosts, NEW row \in Row, Put(h, row) PROVE Coherent'
  <2>1. \A j \in Imports : Idle(j)
    BY <1>7 DEF Put, Meanwhile, importVars, Idle
  <2>2. \A j \in Imports :
          Under(j) => stale'[j] = stale[j] \cup {h}
    BY <1>7, NothingIsNoImport DEF Put, Meanwhile, Outdates, Under
  <2>3. \A g \in Hosts \ {h} : Untouched(g)
    <3>1. rows' = With(rows, h, row)
      BY <1>7 DEF Put
    <3>2. /\ DOMAIN With(rows, h, row) = DOMAIN rows \cup {h}
          /\ \A g \in DOMAIN rows \ {h} : With(rows, h, row)[g] = rows[g]
      BY WithRow DEF RowsOK
    <3>. QED
      BY <3>1, <3>2 DEF Untouched, Has
  <2>4. \A j \in Imports : Passes(j)
    BY <2>1, <2>2, <2>3 DEF Passes
  <2>. QED
    BY <2>4, KnowsStill DEF Coherent
<1>8. ASSUME NEW h \in Hosts, RemoveServer(h) PROVE Coherent'
  <2>1. \A j \in Imports : Idle(j)
    BY <1>8 DEF RemoveServer, Meanwhile, importVars, Idle
  <2>2. \A j \in Imports :
          Under(j) => stale'[j] = stale[j] \cup {h}
    BY <1>8, NothingIsNoImport DEF RemoveServer, Meanwhile, Outdates, Under
  <2>3. \A g \in Hosts \ {h} : Untouched(g)
    BY <1>8 DEF RemoveServer, Untouched, Has
  <2>4. \A j \in Imports : Passes(j)
    BY <2>1, <2>2, <2>3 DEF Passes
  <2>. QED
    BY <2>4, KnowsStill DEF Coherent
<1>9. ASSUME NEW x \in Records, AddRecord(x) PROVE Coherent'
  <2>1. \A j \in Imports : Idle(j)
    BY <1>9 DEF AddRecord, Meanwhile, importVars, Idle
  <2>2. \A j \in Imports :
          Under(j) => stale'[j] = stale[j] \cup {}
    BY <1>9, NothingIsNoImport DEF AddRecord, Meanwhile, Outdates, Under
  <2>3. \A h \in Hosts \ {} : Untouched(h)
    BY <1>9 DEF AddRecord, Untouched
  <2>4. \A j \in Imports : Passes(j)
    BY <2>1, <2>2, <2>3 DEF Passes
  <2>. QED
    BY <2>4, KnowsStill DEF Coherent
<1>10. ASSUME NEW x \in Records, RemoveRecord(x) PROVE Coherent'
  <2>1. \A j \in Imports : Idle(j)
    BY <1>10 DEF RemoveRecord, Meanwhile, importVars, Idle
  <2>2. \A j \in Imports :
          Under(j) => stale'[j] = stale[j] \cup {g \in DOMAIN rows : x \in Refs(rows[g])}
    BY <1>10, NothingIsNoImport DEF RemoveRecord, Meanwhile, Outdates, Under
  <2>3. \A h \in Hosts \ {g \in DOMAIN rows : x \in Refs(rows[g])} : Untouched(h)
    <3>1. /\ DOMAIN rows' = DOMAIN rows
          /\ \A h \in DOMAIN rows : rows'[h] = [rows[h] EXCEPT !.groups = @ \ {x}]
      BY <1>10 DEF RemoveRecord
    <3>2. ASSUME NEW h \in DOMAIN rows, x \notin Refs(rows[h]) PROVE rows'[h] = rows[h]
      <4>1. rows[h] \in Row /\ rows[h].groups \ {x} = rows[h].groups
        BY <3>2, TableRows DEF RowsOK, Refs
      <4>. QED
        BY <3>1, <4>1 DEF Row
    <3>. QED
      BY <3>1, <3>2 DEF Untouched, Has
  <2>4. \A j \in Imports : Passes(j)
    BY <2>1, <2>2, <2>3 DEF Passes
  <2>. QED
    BY <2>4, KnowsStill DEF Coherent
<1>11. CASE UNCHANGED vars
  <2>1. \A i \in Imports : Passes(i)
    BY <1>11 DEF vars, Passes, Idle, Untouched
  <2>. QED
    BY <2>1, KnowsStill DEF Coherent
<1>. QED
  BY <1>1, <1>2, <1>3, <1>4, <1>5, <1>6, <1>7, <1>8, <1>9, <1>10, <1>11 DEF Next, Importing

LEMMA CoherentHolds == Spec => [](Types /\ Coherent)
<1>1. Init => Coherent
  BY DEF Init, Coherent, Knows, Under
<1>2. Types /\ Coherent /\ [Next]_vars => Coherent'
  BY KnowsStep DEF Types
<1>. QED
  BY <1>1, <1>2, TypesHold, PTL DEF Spec

\* What a commit makes of a server that is not stale.
LEMMA CommitMakes ==
  ASSUME Types, Coherent, NEW i \in Imports, Commit(i), NEW h \in Hosts \ stale[i],
         NEW N, N = BlocksOf(i, h)
  PROVE  /\ Has(rows', h) <=> Has(rows, h) \/ N # {}
         /\ Has(rows', h) => rows'[h] = Expected(i, h, N)
<1>1. /\ RowsOK /\ ImportsOK /\ PhasesOK /\ Under(i) /\ RestIsTodo(i)
      /\ rows' = Merged(i) /\ todo[i] = <<>> /\ SeenAsAssigned(i, h)
  BY DEF Types, Coherent, Knows, AllAsAssigned, Commit, Under
<1>2. DealtWith(i, h) = N
  <2>1. PICK b \in Seq(HostBlock) : b = FileBlocks(i)
    BY <1>1, BlocksAre
  <2>2. Dealt(i) = Len(b) /\ DOMAIN b = 1 .. Len(b)
    BY <1>1, <2>1 DEF Dealt
  <2>3. N \subseteq DOMAIN b
    BY <2>1 DEF BlocksOf
  <2>. QED
    BY <2>2, <2>3 DEF DealtWith
<1>3. Has(rows', h) <=> Sees(i, h)
  BY <1>1, MergedIs DEF Sees, Has
<1>4. Has(rows', h) => rows'[h] = Seen(i, h)
  BY <1>1, MergedIs DEF Has
<1>. QED
  BY <1>1, <1>2, <1>3, <1>4 DEF SeenAsAssigned

\* Every host of the file is a server after the import, with what the file and the options
\* assign it, and every other server is as it was, unless it was changed meanwhile.
THEOREM HostsAreThere == Spec => HostsAreRegistered
<1>1. ASSUME Types, Coherent
      PROVE  \A i \in Imports : Commit(i) =>
                 \A h \in Hosts \ stale[i] :
                     /\ Has(rows', h) <=> Has(rows, h) \/ BlocksOf(i, h) # {}
                     /\ Has(rows', h) => rows'[h] = Expected(i, h, BlocksOf(i, h))
  BY <1>1, CommitMakes
<1>. QED
  BY <1>1, CoherentHolds, PTL DEF HostsAreRegistered

\* An import fills in blanks and changes nothing else of a server that is not stale.
THEOREM BlanksAreFilled == Spec => FillsOnlyBlanks
<1>1. ASSUME Types, Coherent, NEW i \in Imports, Commit(i), NEW h \in DOMAIN rows \ stale[i]
      PROVE  /\ Has(rows', h) /\ rows'[h].status = rows[h].status
             /\ Refs(rows[h]) \subseteq Refs(rows'[h])
  <2>1. h \in Hosts /\ rows[h] \in Row /\ Has(rows, h)
    BY <1>1, TableRows DEF Types, RowsOK, Has
  <2>2. PICK N : N = BlocksOf(i, h)
    OBVIOUS
  <2>3. Has(rows', h) /\ rows'[h] = Expected(i, h, N)
    BY <1>1, <2>1, <2>2, CommitMakes
  <2>4. rows'[h] = rows[h] \/ rows'[h] = Assigned(rows[h], options[i], FileBlocks(i), N)
    BY <2>1, <2>3 DEF Expected
  <2>5. PICK client : client = ClientGiven(options[i], FileBlocks(i), N)
    OBVIOUS
  <2>6. /\ rows'[h].status = rows[h].status /\ rows[h].groups \subseteq rows'[h].groups
        /\ rows[h].client # Blank => rows'[h].client = rows[h].client
        /\ rows[h].environment # Blank => rows'[h].environment = rows[h].environment
    BY <2>1, <2>4, <2>5 DEF Assigned, Row
  <2>. QED
    BY <2>3, <2>6 DEF Refs
<1>2. ASSUME Types, Coherent
      PROVE  \A i \in Imports : Commit(i) =>
                 \A h \in DOMAIN rows \ stale[i] :
                     /\ Has(rows', h)
                     /\ rows'[h].status = rows[h].status
                     /\ Refs(rows[h]) \subseteq Refs(rows'[h])
  BY <1>1, <1>2
<1>. QED
  BY <1>2, CoherentHolds, PTL DEF FillsOnlyBlanks

\* With --update-existing nothing a block has to give is left to be given.
LEMMA ClientIsGiven ==
  ASSUME NEW opts, opts.update, NEW blocks, NEW N, N \subseteq Nat, NEW n \in N,
         ClientGiven(opts, blocks, N) = Blank
  PROVE  ClientOf(opts, blocks[n].section) = Blank
<1>. DEFINE Given(m) == ClientOf(opts, blocks[m].section)
            T == {m \in N : Given(m) # Blank}
<1>1. ClientGiven(opts, blocks, N) = IF T = {} THEN Blank ELSE Given(FirstOf(T))
  BY DEF ClientGiven
<1>2. T # {} => FirstOf(T) \in T
  BY LeastNumber DEF FirstOf
<1>. QED
  BY <1>1, <1>2

\* What a finished import was to give a server is there.
LEMMA GivenIs ==
  ASSUME Types, Coherent, NEW i \in Imports, Commit(i),
         NEW block \in Elements(FileBlocks(i)), block.name \notin stale[i]
  PROVE  /\ Has(rows', block.name)
         /\ options[i].update =>
               /\ rows'[block.name].client = Blank =>
                     ClientOf(options[i], block.section) = Blank
               /\ rows'[block.name].environment = Blank => options[i].environment = Blank
               /\ options[i].groups \subseteq rows'[block.name].groups
<1>1. RowsOK /\ ImportsOK /\ PhasesOK /\ Under(i)
  BY DEF Types, Commit, Under
<1>2. PICK h \in Hosts : h = block.name
  BY <1>1, BlocksAre
<1>3. PICK N : N = BlocksOf(i, h)
  OBVIOUS
<1>4. PICK n \in DOMAIN FileBlocks(i) : block = FileBlocks(i)[n]
  BY DEF Elements
<1>5. n \in N /\ N \subseteq Nat
  BY <1>1, <1>2, <1>3, <1>4, BlocksAre DEF BlocksOf
<1>6. Has(rows', h) /\ rows'[h] = Expected(i, h, N)
  BY <1>2, <1>3, <1>5, CommitMakes
<1>7. ASSUME options[i].update
      PROVE  /\ rows'[h].client = Blank => ClientOf(options[i], block.section) = Blank
             /\ rows'[h].environment = Blank => options[i].environment = Blank
             /\ options[i].groups \subseteq rows'[h].groups
  <2>1. PICK was \in Row : was = IF Has(rows, h) THEN rows[h] ELSE BlankRow
    BY <1>1, BlankRowIsARow, TableRows DEF RowsOK, Has
  <2>2. rows'[h] = Assigned(was, options[i], FileBlocks(i), N)
    BY <1>5, <1>6, <1>7, <2>1 DEF Expected
  <2>3. PICK client : client = ClientGiven(options[i], FileBlocks(i), N)
    OBVIOUS
  <2>4. /\ rows'[h].client = IF was.client = Blank THEN client ELSE was.client
        /\ rows'[h].environment = IF was.environment = Blank
                                  THEN options[i].environment ELSE was.environment
        /\ rows'[h].groups = was.groups \cup options[i].groups
    BY <2>1, <2>2, <2>3 DEF Assigned, Row
  <2>5. client = Blank => ClientOf(options[i], block.section) = Blank
    BY <1>4, <1>5, <1>7, <2>3, ClientIsGiven
  <2>. QED
    BY <2>4, <2>5
<1>. QED
  BY <1>2, <1>6, <1>7

----------------------------------------------------------------------------
(* The same import again *)

Named(o) == Refs([o EXCEPT !.client = Blank])

\* To import file f with options o would change nothing.
AsImported(f, o) ==
    /\ Named(o) \subseteq records
    /\ \A b \in Elements(Importable(Parse(f))) :
          /\ Has(rows, b.name)
          /\ o.update =>
                /\ rows[b.name].client = Blank => ClientOf(o, b.section) = Blank
                /\ rows[b.name].environment = Blank => o.environment = Blank
                /\ o.groups \subseteq rows[b.name].groups

Calmness ==
    \A i \in Imports :
        /\ ~Under(i) => i \notin calm /\ stale[i] = {}
        /\ i \in calm => stale[i] = {} /\ Named(options[i]) \subseteq records \cup made[i]

LastIsImported == \A f \in Files, o \in Options : last = <<f, o>> => AsImported(f, o)

Repeats(i) ==
    /\ AsImported(file[i], options[i])
    /\ own[i] = NoRows /\ joins[i] = {} /\ made[i] = {}
    /\ Elements(todo[i]) \subseteq Elements(FileBlocks(i))
    /\ pc[i] # "create"
    /\ pc[i] = "fill" =>
          /\ options[i].update
          /\ loaded[i].client = Blank => ClientFor(i) = Blank
          /\ loaded[i].environment = Blank => options[i].environment = Blank

Repeating == \A i \in repeats : Repeats(i)

LEMMA NothingIsNone == ASSUME NEW f, NEW o PROVE Nothing # <<f, o>>
<1>1. Len(Nothing) = 1 /\ Len(<<f, o>>) = 2
  BY DEF Nothing
<1>. QED
  BY <1>1

LEMMA RepeatsStill ==
  ASSUME NEW i \in Imports, Repeats(i), Idle(i), made'[i] = made[i], UNCHANGED <<rows, records>>
  PROVE  Repeats(i)'
<1>1. AsImported(file[i], options[i])' = AsImported(file[i], options[i])
  BY DEF Idle, AsImported, Has
<1>2. ClientFor(i)' = ClientFor(i) /\ FileBlocks(i)' = FileBlocks(i)
  BY DEF Idle, ClientFor, ClientOf, FileBlocks
<1>3. Elements(todo[i])' = Elements(todo[i]) /\ Elements(FileBlocks(i))' = Elements(FileBlocks(i))
  BY <1>2 DEF Idle, Elements
<1>. QED
  BY <1>1, <1>2, <1>3 DEF Repeats, Idle

LEMMA HeadAndTail ==
  ASSUME NEW s \in Seq(HostBlock), s # <<>>
  PROVE  Head(s) \in Elements(s) /\ Elements(Tail(s)) \subseteq Elements(s)
<1>1. 1 \in DOMAIN s /\ Head(s) = s[1]
  OBVIOUS
<1>2. ASSUME NEW n \in DOMAIN Tail(s) PROVE n + 1 \in DOMAIN s /\ Tail(s)[n] = s[n + 1]
  OBVIOUS
<1>. QED
  BY <1>1, <1>2 DEF Elements

LEMMA CalmnessStep == ImportsOK /\ HistoryOK /\ Calmness /\ [Next]_vars => Calmness'
<1> SUFFICES ASSUME ImportsOK, HistoryOK, Calmness, [Next]_vars PROVE Calmness'
  OBVIOUS
<1>1. ASSUME NEW i \in Imports, NEW f \in Files, NEW opts \in Choices,
         Start(i, f, opts) PROVE Calmness'
  <2>1. /\ pc[i] = "new" /\ UNCHANGED <<records, stale>> /\ calm' = calm \cup {i}
        /\ pc'[i] = "next" /\ options'[i] = opts /\ made'[i] = made[i] \cup (Named(opts) \ records)
        /\ \A j \in Imports \ {i} : pc'[j] = pc[j] /\ options'[j] = options[j] /\ made'[j] = made[j]
    BY <1>1 DEF Start, Makes, GoTo, Named, ImportsOK
  <2>. QED
    BY <2>1 DEF Calmness, Under
<1>2. ASSUME NEW i \in Imports, LookUp(i) PROVE Calmness'
  <2>1. /\ UNCHANGED <<records, stale, calm, options>>
        /\ \A j \in Imports : (Under(j)' <=> Under(j)) /\ made[j] \subseteq made'[j]
    BY <1>2 DEF LookUp, GoTo, Under, ImportsOK
  <2>. QED
    BY <2>1 DEF Calmness
<1>3. ASSUME NEW i \in Imports, Create(i) PROVE Calmness'
  <2>1. /\ UNCHANGED <<records, stale, calm, options>>
        /\ \A j \in Imports : (Under(j)' <=> Under(j)) /\ made[j] \subseteq made'[j]
    BY <1>3 DEF Create, CreateAs, NextHost, GoTo, Makes, Under, ImportsOK
  <2>. QED
    BY <2>1 DEF Calmness
<1>4. ASSUME NEW i \in Imports, Fill(i) PROVE Calmness'
  <2>1. /\ UNCHANGED <<records, stale, calm, options>>
        /\ \A j \in Imports : (Under(j)' <=> Under(j)) /\ made[j] \subseteq made'[j]
    BY <1>4 DEF Fill, NextHost, GoTo, Makes, Under, ImportsOK
  <2>. QED
    BY <2>1 DEF Calmness
<1>5. ASSUME NEW i \in Imports, Commit(i) PROVE Calmness'
  <2>1. /\ calm' = {}
        /\ \A j \in Imports : ~Under(j)' => stale'[j] = {}
    BY <1>5 DEF Commit, End, GoTo, Outdates, Calmness, Under, ImportsOK
  <2>. QED
    BY <2>1 DEF Calmness
<1>6. ASSUME NEW i \in Imports, Rollback(i) PROVE Calmness'
  <2>1. /\ calm' = calm \ {i} /\ stale'[i] = {} /\ UNCHANGED records
        /\ \A j \in Imports \ {i} : /\ pc'[j] = pc[j] /\ options'[j] = options[j]
                                    /\ made'[j] = made[j] /\ stale'[j] = stale[j]
    BY <1>6 DEF Rollback, End, GoTo, ImportsOK, HistoryOK
  <2>. QED
    BY <2>1 DEF Calmness, Under
<1>7. ASSUME NEW h \in Hosts, NEW row \in Row, Put(h, row) PROVE Calmness'
  <2>1. /\ calm' = {}
        /\ \A j \in Imports : ~Under(j)' => stale'[j] = {}
    BY <1>7 DEF Put, Meanwhile, importVars, Outdates, Calmness, Under
  <2>. QED
    BY <2>1 DEF Calmness
<1>8. ASSUME NEW h \in Hosts, RemoveServer(h) PROVE Calmness'
  <2>1. /\ calm' = {}
        /\ \A j \in Imports : ~Under(j)' => stale'[j] = {}
    BY <1>8 DEF RemoveServer, Meanwhile, importVars, Outdates, Calmness, Under
  <2>. QED
    BY <2>1 DEF Calmness
<1>9. ASSUME NEW x \in Records, AddRecord(x) PROVE Calmness'
  <2>1. /\ calm' = {}
        /\ \A j \in Imports : ~Under(j)' => stale'[j] = {}
    BY <1>9 DEF AddRecord, Meanwhile, importVars, Outdates, Calmness, Under
  <2>. QED
    BY <2>1 DEF Calmness
<1>10. ASSUME NEW x \in Records, RemoveRecord(x) PROVE Calmness'
  <2>1. /\ calm' = {}
        /\ \A j \in Imports : ~Under(j)' => stale'[j] = {}
    BY <1>10 DEF RemoveRecord, Meanwhile, importVars, Outdates, Calmness, Under
  <2>. QED
    BY <2>1 DEF Calmness
<1>11. CASE UNCHANGED vars
  BY <1>11 DEF vars, Calmness, Under
<1>. QED
  BY <1>1, <1>2, <1>3, <1>4, <1>5, <1>6, <1>7, <1>8, <1>9, <1>10, <1>11 DEF Next, Importing

LEMMA LastStep == 
  Types /\ Coherent /\ Calmness /\ LastIsImported /\ [Next]_vars => LastIsImported'
<1> SUFFICES ASSUME Types, Coherent, Calmness, LastIsImported,
         [Next]_vars PROVE LastIsImported'
  OBVIOUS
<1>1. ASSUME NEW i \in Imports, NEW f \in Files, NEW opts \in Choices,
         Start(i, f, opts) PROVE LastIsImported'
  BY <1>1 DEF Start, LastIsImported, AsImported, Has
<1>2. ASSUME NEW i \in Imports, LookUp(i) PROVE LastIsImported'
  BY <1>2 DEF LookUp, LastIsImported, AsImported, Has
<1>3. ASSUME NEW i \in Imports, Create(i) PROVE LastIsImported'
  BY <1>3 DEF Create, CreateAs, LastIsImported, AsImported, Has
<1>4. ASSUME NEW i \in Imports, Fill(i) PROVE LastIsImported'
  BY <1>4 DEF Fill, LastIsImported, AsImported, Has
<1>5. ASSUME NEW i \in Imports, Commit(i) PROVE LastIsImported'
  <2>. SUFFICES ASSUME NEW f \in Files, NEW o \in Options, last' = <<f, o>>
                PROVE  AsImported(f, o)'
    BY DEF LastIsImported
  <2>1. i \in calm /\ f = file[i] /\ o = options[i]
    BY <1>5, NothingIsNone DEF Commit
  <2>2. Named(o) \subseteq records' /\ stale[i] = {}
    BY <1>5, <2>1 DEF Commit, Calmness
  <2>3. ASSUME NEW b \in Elements(Importable(Parse(f)))
        PROVE  /\ Has(rows', b.name)
               /\ o.update =>
                     /\ rows'[b.name].client = Blank => ClientOf(o, b.section) = Blank
                     /\ rows'[b.name].environment = Blank => o.environment = Blank
                     /\ o.groups \subseteq rows'[b.name].groups
    <3>1. b \in Elements(FileBlocks(i)) /\ b.name \notin stale[i]
      BY <2>1, <2>2 DEF FileBlocks
    <3>. QED
      BY <1>5, <2>1, <3>1, GivenIs
  <2>. QED
    BY <2>2, <2>3 DEF AsImported
<1>6. ASSUME NEW i \in Imports, Rollback(i) PROVE LastIsImported'
  BY <1>6 DEF Rollback, LastIsImported, AsImported, Has
<1>7. ASSUME NEW h \in Hosts, NEW row \in Row, Put(h, row) PROVE LastIsImported'
  BY <1>7, NothingIsNone DEF Put, Meanwhile, LastIsImported
<1>8. ASSUME NEW h \in Hosts, RemoveServer(h) PROVE LastIsImported'
  BY <1>8, NothingIsNone DEF RemoveServer, Meanwhile, LastIsImported
<1>9. ASSUME NEW x \in Records, AddRecord(x) PROVE LastIsImported'
  BY <1>9, NothingIsNone DEF AddRecord, Meanwhile, LastIsImported
<1>10. ASSUME NEW x \in Records, RemoveRecord(x) PROVE LastIsImported'
  BY <1>10, NothingIsNone DEF RemoveRecord, Meanwhile, LastIsImported
<1>11. CASE UNCHANGED vars
  BY <1>11 DEF vars, LastIsImported, AsImported, Has
<1>. QED
  BY <1>1, <1>2, <1>3, <1>4, <1>5, <1>6, <1>7, <1>8, <1>9, <1>10, <1>11 DEF Next, Importing

LEMMA RepeatingStep == 
  RowsOK /\ ImportsOK /\ PhasesOK /\ HistoryOK /\ Calmness /\ LastIsImported /\ Repeating
  /\ [Next]_vars => Repeating'
<1> SUFFICES ASSUME RowsOK, ImportsOK, PhasesOK, HistoryOK, Calmness, LastIsImported,
         Repeating, [Next]_vars PROVE Repeating'
  OBVIOUS
<1>1. ASSUME NEW i \in Imports, NEW f \in Files, NEW opts \in Choices,
         Start(i, f, opts) PROVE Repeating'
  <2>1. \A j \in Imports \ {i} : Idle(j) /\ made'[j] = made[j]
    BY <1>1 DEF Start, Makes, GoTo, Idle, ImportsOK
  <2>2. UNCHANGED <<rows, records>>
    BY <1>1 DEF Start, Makes, GoTo
  <2>3. \A j \in Imports \ {i} : Repeats(j) => Repeats(j)'
    BY <2>1, <2>2, RepeatsStill
  <2>4. CASE last = <<f, opts>>
    <3>1. AsImported(f, opts)
      BY <2>4, ChoicesAreOptions DEF LastIsImported
    <3>2. own[i] = NoRows /\ joins[i] = {} /\ made[i] = {}
      BY <1>1 DEF Start, PhasesOK
    <3>3. /\ pc'[i] = "next" /\ file'[i] = f /\ options'[i] = opts
          /\ todo'[i] = Importable(Parse(f)) /\ own'[i] = NoRows /\ joins'[i] = {}
          /\ made'[i] = made[i] \cup (Named(opts) \ records)
      BY <1>1, <3>2 DEF Start, Makes, GoTo, Named, ImportsOK
    <3>4. made'[i] = {}
      BY <3>1, <3>2, <3>3 DEF AsImported
    <3>5. AsImported(file[i], options[i])'
      BY <2>2, <3>1, <3>3 DEF AsImported, Has
    <3>6. Elements(todo[i])' = Elements(FileBlocks(i))'
      BY <3>3 DEF Elements, FileBlocks
    <3>7. Repeats(i)'
      BY <3>3, <3>4, <3>5, <3>6 DEF Repeats
    <3>. QED
      BY <1>1, <2>3, <3>7 DEF Start, Repeating, HistoryOK
  <2>5. CASE last # <<f, opts>>
    <3>1. repeats' = repeats /\ i \notin repeats
      BY <1>1, <2>5 DEF Start, Calmness, Under, HistoryOK
    <3>. QED
      BY <2>3, <3>1 DEF Repeating, HistoryOK
  <2>. QED
    BY <2>4, <2>5
<1>2. ASSUME NEW i \in Imports, LookUp(i) PROVE Repeating'
  <2>1. \A j \in Imports \ {i} : Idle(j) /\ made'[j] = made[j]
    BY <1>2 DEF LookUp, GoTo, Idle, ImportsOK
  <2>2. UNCHANGED <<rows, records>>
    BY <1>2 DEF LookUp, GoTo
  <2>3. \A j \in Imports \ {i} : Repeats(j) => Repeats(j)'
    BY <2>1, <2>2, RepeatsStill
  <2>4. ASSUME i \in repeats PROVE Repeats(i)'
    <3>0. /\ Repeats(i) /\ UNCHANGED <<file, options>> /\ todo[i] # <<>>
          /\ Elements(FileBlocks(i))' = Elements(FileBlocks(i))
      BY <1>2, <2>4 DEF LookUp, PhasesOK, Repeating, FileBlocks, Elements
    <3>1. AsImported(file[i], options[i])'
      BY <2>2, <3>0 DEF Repeats, AsImported, Has
    <3>2. /\ Head(todo[i]) \in Elements(FileBlocks(i))
          /\ Elements(Tail(todo[i])) \subseteq Elements(todo[i])
      BY <3>0, HeadAndTail DEF Repeats, ImportsOK
    <3>3. PICK b \in HostBlock : b = Head(todo[i])
      BY <3>0, HostIs
    <3>4. PICK o \in Hosts : o = Host(i) /\ o = b.name
      BY <3>0, <3>3, HostIs DEF Host
    <3>5. /\ Has(rows, o)
          /\ options[i].update =>
                /\ rows[o].client = Blank => ClientFor(i) = Blank
                /\ rows[o].environment = Blank => options[i].environment = Blank
                /\ options[i].groups \subseteq rows[o].groups
      <4>1. b \in Elements(Importable(Parse(file[i])))
        BY <3>2, <3>3 DEF FileBlocks
      <4>2. ClientOf(options[i], b.section) = ClientFor(i)
        BY <3>3 DEF ClientFor
      <4>. QED
        BY <3>0, <3>4, <4>1, <4>2 DEF Repeats, AsImported
    <3>6. /\ Sees(i, o) /\ pc[i] = "next" /\ UNCHANGED <<own, joins, made>>
      BY <1>2, <3>5 DEF LookUp, Sees
    <3>7. CASE options[i].update
      <4>1. pc'[i] = "fill" /\ todo'[i] = todo[i] /\ loaded'[i] = Seen(i, o)
        BY <1>2, <3>4, <3>6, <3>7 DEF LookUp, GoTo, ImportsOK
      <4>2. /\ loaded'[i].client = Base(i, o).client
            /\ loaded'[i].environment = Base(i, o).environment
        BY <3>6, <4>1, SeenIs
      <4>3. Base(i, o) = rows[o]
        BY <3>0, NoRowsIsATable DEF Base, Repeats, Has
      <4>4. ClientFor(i)' = ClientFor(i) /\ Elements(todo[i])' = Elements(todo[i])
        BY <3>0, <4>1 DEF ClientFor, ClientOf, Elements
      <4>. QED
        BY <3>0, <3>1, <3>5, <3>6, <3>7, <4>1, <4>2, <4>3, <4>4 DEF Repeats
    <3>8. CASE ~options[i].update
      <4>1. pc'[i] = "next" /\ todo'[i] = Tail(todo[i])
        BY <1>2, <3>4, <3>6, <3>8 DEF LookUp, ImportsOK
      <4>2. Elements(todo[i])' \subseteq Elements(FileBlocks(i))
        BY <3>0, <3>2, <4>1 DEF Repeats, Elements
      <4>. QED
        BY <3>0, <3>1, <3>6, <4>1, <4>2 DEF Repeats
    <3>. QED
      BY <3>7, <3>8
  <2>. QED
    BY <1>2, <2>3, <2>4 DEF LookUp, Repeating, HistoryOK
<1>3. ASSUME NEW i \in Imports, Create(i) PROVE Repeating'
  <2>1. \A j \in Imports \ {i} : Idle(j) /\ made'[j] = made[j]
    BY <1>3 DEF Create, CreateAs, Makes, JoinGroups, NextHost, GoTo, Idle, ImportsOK
  <2>2. UNCHANGED <<rows, records>>
    BY <1>3 DEF Create, CreateAs, Makes, JoinGroups, NextHost, GoTo
  <2>3. \A j \in Imports \ {i} : Repeats(j) => Repeats(j)'
    BY <2>1, <2>2, RepeatsStill
  <2>4. repeats' = repeats /\ i \notin repeats
    BY <1>3 DEF Create, CreateAs, Repeating, Repeats
  <2>. QED
    BY <2>3, <2>4 DEF Repeating, HistoryOK
<1>4. ASSUME NEW i \in Imports, Fill(i) PROVE Repeating'
  <2>1. \A j \in Imports \ {i} : Idle(j) /\ made'[j] = made[j]
    BY <1>4 DEF Fill, Makes, JoinGroups, NextHost, GoTo, Idle, ImportsOK
  <2>2. UNCHANGED <<rows, records>>
    BY <1>4 DEF Fill, Makes, JoinGroups, NextHost, GoTo
  <2>3. \A j \in Imports \ {i} : Repeats(j) => Repeats(j)'
    BY <2>1, <2>2, RepeatsStill
  <2>4. ASSUME i \in repeats PROVE Repeats(i)'
    <3>0. /\ Repeats(i) /\ UNCHANGED <<file, options>> /\ todo[i] # <<>>
          /\ Elements(FileBlocks(i))' = Elements(FileBlocks(i))
      BY <1>4, <2>4 DEF Fill, PhasesOK, Repeating, FileBlocks, Elements
    <3>1. AsImported(file[i], options[i])'
      BY <2>2, <3>0 DEF Repeats, AsImported, Has
    <3>2. /\ Head(todo[i]) \in Elements(FileBlocks(i))
          /\ Elements(Tail(todo[i])) \subseteq Elements(todo[i])
      BY <3>0, HeadAndTail DEF Repeats, ImportsOK
    <3>3. PICK b \in HostBlock : b = Head(todo[i])
      BY <3>0, HostIs
    <3>4. PICK o \in Hosts : o = Host(i) /\ o = b.name
      BY <3>0, <3>3, HostIs DEF Host
    <3>5. /\ Has(rows, o)
          /\ options[i].update =>
                /\ rows[o].client = Blank => ClientFor(i) = Blank
                /\ rows[o].environment = Blank => options[i].environment = Blank
                /\ options[i].groups \subseteq rows[o].groups
      <4>1. b \in Elements(Importable(Parse(file[i])))
        BY <3>2, <3>3 DEF FileBlocks
      <4>2. ClientOf(options[i], b.section) = ClientFor(i)
        BY <3>3 DEF ClientFor
      <4>. QED
        BY <3>0, <3>4, <4>1, <4>2 DEF Repeats, AsImported
    <3>6. Filled(i) = loaded[i]
      <4>1. /\ loaded[i] \in Row /\ Filled(i) \in Row
            /\ Filled(i).status = loaded[i].status /\ Filled(i).groups = loaded[i].groups
            /\ Filled(i).client = loaded[i].client
            /\ Filled(i).environment = loaded[i].environment
        BY <1>4, <3>0, FilledIs DEF Fill, Repeats, ImportsOK
      <4>. QED
        BY <4>1 DEF Row
    <3>7. UNCHANGED <<own, made>> /\ JoinGroups(i) /\ NextHost(i)
      BY <1>4, <3>6 DEF Fill
    <3>8. joins'[i] = {}
      <4>1. options[i].groups \subseteq Joined(i, o)
        BY <1>4, <3>0, <3>5 DEF Fill, Repeats, Joined
      <4>2. {<<o, g>> : g \in options[i].groups \ Joined(i, o)} = {}
        BY <4>1
      <4>3. joins'[i] = joins[i] \cup {<<o, g>> : g \in options[i].groups \ Joined(i, o)}
        BY <3>4, <3>7 DEF JoinGroups, ImportsOK
      <4>. QED
        BY <3>0, <4>2, <4>3 DEF Repeats
    <3>9. pc'[i] = "next" /\ todo'[i] = Tail(todo[i])
      BY <3>7 DEF NextHost, GoTo, ImportsOK
    <3>10. Elements(todo[i])' \subseteq Elements(FileBlocks(i))
      BY <3>0, <3>2, <3>9 DEF Repeats, Elements
    <3>. QED
      BY <3>0, <3>1, <3>7, <3>8, <3>9, <3>10 DEF Repeats
  <2>. QED
    BY <1>4, <2>3, <2>4 DEF Fill, Repeating, HistoryOK
<1>5. ASSUME NEW i \in Imports, Commit(i) PROVE Repeating'
  BY <1>5 DEF Commit, Repeating
<1>6. ASSUME NEW i \in Imports, Rollback(i) PROVE Repeating'
  <2>1. \A j \in Imports \ {i} : Idle(j) /\ made'[j] = made[j]
    BY <1>6 DEF Rollback, End, GoTo, Idle, ImportsOK
  <2>2. UNCHANGED <<rows, records>>
    BY <1>6 DEF Rollback, End, GoTo
  <2>3. \A j \in Imports \ {i} : Repeats(j) => Repeats(j)'
    BY <2>1, <2>2, RepeatsStill
  <2>. QED
    BY <1>6, <2>3 DEF Rollback, Repeating, HistoryOK
<1>7. ASSUME NEW h \in Hosts, NEW row \in Row, Put(h, row) PROVE Repeating'
  BY <1>7 DEF Put, Meanwhile, Repeating
<1>8. ASSUME NEW h \in Hosts, RemoveServer(h) PROVE Repeating'
  BY <1>8 DEF RemoveServer, Meanwhile, Repeating
<1>9. ASSUME NEW x \in Records, AddRecord(x) PROVE Repeating'
  BY <1>9 DEF AddRecord, Meanwhile, Repeating
<1>10. ASSUME NEW x \in Records, RemoveRecord(x) PROVE Repeating'
  BY <1>10 DEF RemoveRecord, Meanwhile, Repeating
<1>11. CASE UNCHANGED vars
  <2>1. \A i \in Imports : Idle(i) /\ made'[i] = made[i]
    BY <1>11 DEF vars, Idle
  <2>2. UNCHANGED <<rows, records, repeats>>
    BY <1>11 DEF vars
  <2>. QED
    BY <2>1, <2>2, RepeatsStill DEF Repeating, HistoryOK
<1>. QED
  BY <1>1, <1>2, <1>3, <1>4, <1>5, <1>6, <1>7, <1>8, <1>9, <1>10, <1>11 DEF Next, Importing

\* The same import again, when nothing has changed in between, changes nothing.
THEOREM ImportIsIdempotent == Spec => RepeatChangesNothing
<1>. DEFINE Quiet == Calmness /\ LastIsImported /\ Repeating
<1>1. Init => Quiet
  BY NothingIsNone DEF Init, Calmness, LastIsImported, Repeating
<1>2. (Types /\ Coherent) /\ Quiet /\ [Next]_vars => Quiet'
  BY CalmnessStep, LastStep, RepeatingStep DEF Types
<1>3. ASSUME Types, Quiet, NEW i \in repeats, Commit(i)
      PROVE  UNCHANGED <<rows, records>>
  <2>1. /\ RowsOK /\ ImportsOK /\ i \in Imports
        /\ own[i] = NoRows /\ joins[i] = {} /\ made[i] = {}
    BY <1>3 DEF Types, HistoryOK, Repeating, Repeats
  <2>2. rows' = Merged(i) /\ records' = records
    BY <1>3, <2>1 DEF Commit
  <2>3. \A h \in Hosts : Untouched(h)
    BY <1>3, <2>1, CommitLeaves, NoRowsIsATable DEF Has
  <2>4. rows' \in Tables /\ DOMAIN rows' = DOMAIN rows
    BY <2>1, <2>2, MergedIs, NoRowsIsATable
  <2>5. \A h \in DOMAIN rows : rows'[h] = rows[h]
    BY <2>1, <2>3, TableRows DEF Untouched, Has, RowsOK
  <2>6. rows = [h \in DOMAIN rows |-> rows[h]] /\ rows' = [h \in DOMAIN rows' |-> rows'[h]]
    BY <2>1, <2>4, TableRows DEF RowsOK
  <2>. QED
    BY <2>2, <2>4, <2>5, <2>6
<1>4. ASSUME Types, Quiet
      PROVE  \A i \in repeats : Commit(i) => UNCHANGED <<rows, records>>
  BY <1>3, <1>4
<1>. QED
  BY <1>1, <1>2, <1>4, CoherentHolds, PTL DEF Spec, RepeatChangesNothing

=================================================================================
