----------------------------- MODULE Outputs_proofs -----------------------------
(***************************************************************************)
(* Theorems of Outputs: what its functions answer, whatever they are       *)
(* asked.                                                                  *)
(*                                                                         *)
(* The functions recur over numbers: the lines of a file, the elements of  *)
(* a list, the depth of a value.  That such a recursion has a solution,    *)
(* and what the solution keeps, is shown by induction, and induction by    *)
(* taking the least number for which something does not hold.              *)
(***************************************************************************)
EXTENDS Outputs, FiniteSetTheorems, SequenceTheorems, WellFoundedInduction, TLAPS

----------------------------------------------------------------------------
(* Recursion *)

LEMMA LeastNumber ==
  ASSUME NEW T, T \subseteq Nat, T # {}
  PROVE  \E n \in T : \A m \in T : n <= m
<1> DEFINE R == OpToRel(<, Nat)
<1>1. IsWellFoundedOn(R, Nat)
  BY NatLessThanWellFounded
<1>2. \A x, y \in Nat : y < x => <<y, x>> \in R
  BY DEF OpToRel
<1> HIDE DEF R
<1>3. PICK x \in T : \A y \in T : ~(<<y, x>> \in R)
  BY <1>1, WFMin
<1>4. \A y \in T : x <= y
  <2> TAKE y \in T
  <2>1. ~(y < x)
    BY <1>2, <1>3
  <2>. QED
    BY <2>1
<1>. QED
  BY <1>4

\* Induction up to n, over the set of the numbers for which something holds.
LEMMA UpTo ==
  ASSUME NEW n \in Nat, NEW P, 0 \in P, \A i \in 1 .. n : i - 1 \in P => i \in P
  PROVE  \A i \in 0 .. n : i \in P
<1> DEFINE T == {i \in 0 .. n : i \notin P}
<1>1. T \subseteq Nat
  OBVIOUS
<1>2. ASSUME NEW m \in T, \A k \in T : m <= k PROVE FALSE
  <2>1. m \in 1 .. n /\ m \notin P
    OBVIOUS
  <2>2. m - 1 \notin T
    BY <1>1, <1>2
  <2>. QED
    BY <2>1, <2>2
<1>3. T = {}
  <2>. HIDE DEF T
  <2>. QED
    BY <1>1, <1>2, LeastNumber
<1>. QED
  BY <1>3

\* g is what the recursion that begins with a and goes on with F makes up to n.
Solves(g, n, a, F) == g[0] = a /\ \A i \in 1 .. n : g[i] = F[i][g[i - 1]]

\* A recursion over the numbers up to n that stays in A has a solution.
LEMMA Recursion ==
  ASSUME NEW n \in Nat, NEW A, NEW a \in A, NEW F \in [1 .. n -> [A -> A]]
  PROVE  \E g \in [0 .. n -> A] : Solves(g, n, a, F)
<1> DEFINE Upto(m, g) == Solves(g, m, a, F)
           P == {m \in 0 .. n : \E g \in [0 .. m -> A] : Upto(m, g)}
<1>1. 0 \in P
  <2>1. Upto(0, [i \in 0 .. 0 |-> a]) /\ [i \in 0 .. 0 |-> a] \in [0 .. 0 -> A]
    BY DEF Solves
  <2>2. \E g \in [0 .. 0 -> A] : Upto(0, g)
    BY <2>1
  <2>3. 0 \in 0 .. n
    OBVIOUS
  <2>. QED
    BY <2>2, <2>3
<1>2. ASSUME NEW m \in 1 .. n, m - 1 \in P PROVE m \in P
  <2>1. PICK g \in [0 .. m - 1 -> A] : Upto(m - 1, g)
    BY <1>2
  <2>2. m \in Nat /\ m > 0 /\ g[m - 1] \in A /\ F[m][g[m - 1]] \in A
    OBVIOUS
  <2> DEFINE h == [i \in 0 .. m |-> IF i < m THEN g[i] ELSE F[m][g[m - 1]]]
  <2>3. h \in [0 .. m -> A]
    BY <2>2
  <2>4. h[0] = a /\ h[m] = F[m][g[m - 1]] /\ \A i \in 0 .. m - 1 : h[i] = g[i]
    BY <2>1, <2>2 DEF Solves
  <2>5. \A i \in 1 .. m : h[i] = F[i][h[i - 1]]
    <3>. HIDE DEF h
    <3> TAKE i \in 1 .. m
    <3>1. CASE i < m
      <4>1. i \in 1 .. m - 1 /\ i - 1 \in 0 .. m - 1 /\ i \in 0 .. m - 1
        BY <2>2, <3>1
      <4>. QED
        BY <4>1, <2>1, <2>4 DEF Solves
    <3>2. CASE i = m
      <4>1. h[m - 1] = g[m - 1]
        BY <2>2, <2>4
      <4>. QED
        BY <3>2, <4>1, <2>4
    <3>. QED
      BY <3>1, <3>2, <2>2
  <2>6. Upto(m, h)
    BY <2>4, <2>5 DEF Solves
  <2>7. \E k \in [0 .. m -> A] : Upto(m, k)
    <3>. HIDE DEF h, Upto
    <3>. QED
      BY <2>3, <2>6
  <2>. QED
    BY <2>7, <2>2
<1>3. \A i \in 0 .. n : i \in P
  <2>. HIDE DEF P
  <2>. QED
    BY <1>1, <1>2, UpTo
<1>4. \E g \in [0 .. n -> A] : Upto(n, g)
  BY <1>3
<1>. QED
  BY <1>4

\* What a recursion keeps in A at every step stays in A.
LEMMA StaysIn ==
  ASSUME NEW n \in Nat, NEW A, NEW f, f[0] \in A, \A i \in 1 .. n : f[i - 1] \in A => f[i] \in A
  PROVE  \A i \in 0 .. n : f[i] \in A
<1> DEFINE P == {i \in 0 .. n : f[i] \in A}
<1>1. 0 \in P /\ \A i \in 1 .. n : i - 1 \in P => i \in P
  OBVIOUS
<1>2. \A i \in 0 .. n : i \in P
  <2>. HIDE DEF P
  <2>. QED
    BY <1>1, UpTo
<1>. QED
  BY <1>2

Elements(s) == {s[i] : i \in DOMAIN s}

LEMMA ElementsIs ==
  ASSUME NEW X, NEW s \in Seq(X), NEW x \in X
  PROVE  Elements(Append(s, x)) = Elements(s) \cup {x}
<1>1. /\ DOMAIN Append(s, x) = 1 .. Len(s) + 1 /\ DOMAIN s = 1 .. Len(s) /\ Len(s) \in Nat
      /\ Append(s, x)[Len(s) + 1] = x /\ \A i \in 1 .. Len(s) : Append(s, x)[i] = s[i]
  OBVIOUS
<1>2. \A i : i \in 1 .. Len(s) + 1 <=> i \in 1 .. Len(s) \/ i = Len(s) + 1
  BY <1>1
<1>3. PICK n : n = Len(s)
  OBVIOUS
<1>4. PICK t : t = Append(s, x)
  OBVIOUS
<1>5. /\ DOMAIN t = DOMAIN s \cup {n + 1} /\ t[n + 1] = x /\ \A i \in DOMAIN s : t[i] = s[i]
  BY <1>1, <1>2, <1>3, <1>4
<1>6. Elements(t) = Elements(s) \cup {x}
  BY <1>5, Zenon DEF Elements
<1>. QED
  BY <1>4, <1>6

\* What is left of s are the elements of s that are in S.
LEMMA OnlyIs ==
  ASSUME NEW X, NEW s \in Seq(X), NEW S
  PROVE  /\ Only(s, S) \in Seq(X \cap S) /\ Only(s, S) \in Seq(X)
         /\ Elements(Only(s, S)) = Elements(s) \cap S
<1> DEFINE n == Len(s)
           A == Seq(X \cap S)
           Take(k, i) == IF s[i] \in S THEN Append(k, s[i]) ELSE k
           F == [i \in 1 .. n |-> [k \in A |-> Take(k, i)]]
           Eq(k) == k = [i \in 0 .. n |-> IF i = 0 THEN <<>> ELSE Take(k[i - 1], i)]
           kept == CHOOSE k : Eq(k)
<1>0. n \in Nat /\ <<>> \in A /\ \A i \in 1 .. n : s[i] \in X
  OBVIOUS
<1>1. \A i \in 1 .. n, k \in A : Take(k, i) \in A
  BY <1>0
<1>2. F \in [1 .. n -> [A -> A]] /\ \A i \in 1 .. n : \A k \in A : F[i][k] = Take(k, i)
  <2>. HIDE DEF Take, A, n
  <2>. QED
    BY <1>1
<1>3. PICK g \in [0 .. n -> A] : Solves(g, n, <<>>, F)
  <2>1. PICK e \in A : e = <<>>
    BY <1>0
  <2>2. F \in [1 .. n -> [A -> A]]
    BY <1>2
  <2>3. \E g \in [0 .. n -> A] : Solves(g, n, e, F)
    <3>. HIDE DEF F, A, n
    <3>. QED
      BY <1>0, <2>2, Recursion
  <2>. QED
    BY <2>1, <2>3
<1>4. \A i \in 1 .. n : i - 1 \in 0 .. n /\ g[i] = Take(g[i - 1], i)
  <2>. HIDE DEF F, A, Take, n
  <2> TAKE i \in 1 .. n
  <2>1. i - 1 \in 0 .. n
    BY <1>0
  <2>2. g[i - 1] \in A
    BY <1>3, <2>1
  <2>3. g[i] = F[i][g[i - 1]]
    BY <1>3, Zenon DEF Solves
  <2>4. F[i][g[i - 1]] = Take(g[i - 1], i)
    BY <1>2, <2>2, Zenon
  <2>. QED
    BY <2>1, <2>3, <2>4, Zenon
<1>5. Eq(g)
  <2>1. g = [i \in 0 .. n |-> g[i]]
    OBVIOUS
  <2>2. \A i \in 0 .. n : g[i] = IF i = 0 THEN <<>> ELSE Take(g[i - 1], i)
    <3>. HIDE DEF A, Take
    <3>. QED
      BY <1>0, <1>3, <1>4 DEF Solves
  <2>. QED
    BY <2>1, <2>2
<1>6. Eq(kept)
  BY <1>5
<1>7. Only(s, S) = kept[n]
  BY DEF Only
<1> HIDE DEF kept
<1>8. kept[0] = <<>> /\ \A i \in 1 .. n : i - 1 \in 0 .. n /\ kept[i] = Take(kept[i - 1], i)
  <2>. HIDE DEF Take, n
  <2>. QED
    BY <1>0, <1>6
<1>9. \A i \in 0 .. n : kept[i] \in A
  <2>1. kept[0] \in A
    BY <1>0, <1>8
  <2>2. ASSUME NEW i \in 1 .. n, kept[i - 1] \in A PROVE kept[i] \in A
    <3>. HIDE DEF Take, A, n
    <3>. QED
      BY <2>2, <1>1, <1>8
  <2>. QED
    <3>. HIDE DEF A, n
    <3>. QED
      BY <2>1, <2>2, <1>0, StaysIn
<1>10. Only(s, S) \in Seq(X \cap S)
  BY <1>7, <1>9, <1>0
<1>11. Elements(Only(s, S)) = Elements(s) \cap S
  <2> DEFINE Upto(i) == {s[k] : k \in 1 .. i} \cap S
             P == {i \in 0 .. n : Elements(kept[i]) = Upto(i)}
  <2>1. 0 \in P
    <3>1. Elements(<<>>) = {} /\ Upto(0) = {}
      BY DEF Elements
    <3>2. Elements(kept[0]) = Upto(0)
      <4>. HIDE DEF Upto
      <4>. QED
        BY <1>8, <3>1
    <3>. QED
      BY <1>0, <3>2
  <2>2. ASSUME NEW i \in 1 .. n, i - 1 \in P PROVE i \in P
    <3>0. Elements(kept[i - 1]) = Upto(i - 1) /\ i - 1 \in 0 .. n /\ kept[i] = Take(kept[i - 1], i)
      BY <2>2, <1>8
    <3>1. PICK k \in A : k = kept[i - 1]
      BY <1>9, <3>0
    <3>2. \A j : j \in 1 .. i <=> j \in 1 .. i - 1 \/ j = i
      BY <1>0
    <3>3. {s[j] : j \in 1 .. i} = {s[j] : j \in 1 .. i - 1} \cup {s[i]}
      BY <3>2, Zenon
    <3>4. CASE s[i] \in S
      <4>1. s[i] \in X \cap S
        BY <1>0, <3>4
      <4>2. kept[i] = Append(k, s[i])
        BY <3>0, <3>1, <3>4
      <4>3. Elements(Append(k, s[i])) = Elements(k) \cup {s[i]}
        BY <4>1, ElementsIs
      <4>4. Upto(i) = Upto(i - 1) \cup {s[i]}
        BY <3>3, <3>4, Zenon
      <4>5. Elements(kept[i]) = Upto(i)
        <5>. HIDE DEF Upto
        <5>. QED
          BY <3>0, <3>1, <4>2, <4>3, <4>4
      <4>. QED
        BY <4>5
    <3>5. CASE s[i] \notin S
      <4>1. kept[i] = kept[i - 1]
        BY <3>0, <3>5
      <4>2. Upto(i) = Upto(i - 1)
        BY <3>3, <3>5, Zenon
      <4>3. Elements(kept[i]) = Upto(i)
        <5>. HIDE DEF Upto
        <5>. QED
          BY <3>0, <4>1, <4>2
      <4>. QED
        BY <4>3
    <3>. QED
      BY <3>4, <3>5
  <2>3. n \in P
    <3>1. \A i \in 0 .. n : i \in P
      <4>. HIDE DEF P, n
      <4>. QED
        BY <1>0, <2>1, <2>2, UpTo
    <3>2. n \in 0 .. n
      BY <1>0
    <3>. QED
      BY <3>1, <3>2, Zenon
  <2>4. Elements(s) = {s[k] : k \in 1 .. n}
    BY DEF Elements
  <2>. QED
    BY <1>7, <2>3, <2>4
<1>. QED
  BY <1>10, <1>11

----------------------------------------------------------------------------
(* Reading a file *)

Reads == [blocks : Seq(HostBlock), section : Titles \cup {Unset}]

LEMMA LineIs ==
  ASSUME NEW line \in Line
  PROVE  /\ line.is = "host" => 
              /\ line.says[1] \in Hosts /\ line.says[2] \in SUBSET Hosts
              /\ <<line.says[1], line.says[2]>> = line.says
         /\ line.is = "directive" /\ line.says[1] \in Keywords =>
              line.says[2] \in Values \cup {Unset}
         /\ line.is \in {"comment", "marked"} => line.says \in Titles
<1>1. line.is = "host" => line.says \in Hosts \X SUBSET Hosts
  BY LinesSaySomething DEF Line
<1>2. line.is = "directive" => line.says \in Directives \cup {<<Other, Unset>>}
  BY DEF Line
<1>3. line.is = "directive" /\ line.says[1] \in Keywords =>
        line.says \in Keywords \X (Values \cup {Unset})
  BY <1>2, LinesSaySomething, OtherIsIgnored
<1>4. line.is \in {"comment", "marked"} => line.says \in Titles
  BY DEF Line
<1>. QED
  BY <1>1, <1>3, <1>4

LEMMA ReadLineIs ==
  ASSUME NEW lines \in Seq(Line), NEW i \in 1 .. Len(lines), NEW read \in Reads
  PROVE  ReadLine(read, lines, i) \in Reads
<1> DEFINE line == lines[i]
           top == Len(read.blocks)
<1>1. line \in Line /\ top \in Nat /\ read.blocks \in Seq(HostBlock)
  BY DEF Reads
<1>2. CASE line.is = "host"
  <2>1. Block(line.says, read.section) \in HostBlock
    BY <1>1, <1>2, LineIs DEF Block, HostBlock, Reads
  <2>2. Append(read.blocks, Block(line.says, read.section)) \in Seq(HostBlock)
    BY <1>1, <2>1
  <2>3. ReadLine(read, lines, i) =
          [read EXCEPT !.blocks = Append(@, Block(line.says, read.section))]
    BY <1>2 DEF ReadLine, IsBanner
  <2>. QED
    BY <2>2, <2>3 DEF Reads
<1>3. CASE line.is = "directive" /\ line.says[1] \in Keywords /\ top > 0
  <2>1. top \in 1 .. Len(read.blocks) /\ read.blocks[top] \in HostBlock
    BY <1>1, <1>3
  <2>2. line.says[2] \in Values \cup {Unset}
    BY <1>1, <1>3, LineIs
  <2>3. [read.blocks[top] EXCEPT !.set[line.says[1]] = line.says[2]] \in HostBlock
    BY <2>1, <2>2, <1>3 DEF HostBlock
  <2>4. ReadLine(read, lines, i) =
          [read EXCEPT !.blocks[top].set[line.says[1]] = line.says[2]]
    BY <1>3 DEF ReadLine, IsBanner
  <2>5. ReadLine(read, lines, i) = [read EXCEPT !.blocks = [read.blocks EXCEPT ![top] =
          [read.blocks[top] EXCEPT !.set[line.says[1]] = line.says[2]]]]
    BY <2>4
  <2>6. [read.blocks EXCEPT ![top] =
          [read.blocks[top] EXCEPT !.set[line.says[1]] = line.says[2]]] \in Seq(HostBlock)
    BY <2>1, <2>3, <1>1
  <2>. QED
    BY <2>5, <2>6 DEF Reads
<1>4. CASE ~(line.is = "host") /\ ~(line.is = "directive" /\ line.says[1] \in Keywords /\ top > 0)
  <2>1. ReadLine(read, lines, i) =
          IF IsBanner(lines, i) THEN [read EXCEPT !.section = line.says] ELSE read
    BY <1>4 DEF ReadLine
  <2>2. IsBanner(lines, i) => line.says \in Titles
    BY <1>1, LineIs DEF IsBanner
  <2>. QED
    BY <2>1, <2>2 DEF Reads
<1>. QED
  BY <1>2, <1>3, <1>4

\* The recursion of parse has a solution, and reads one line after the other.
LEMMA ReadingIs ==
  ASSUME NEW lines \in Seq(Line)
  PROVE  /\ Reading(lines)[0] = [blocks |-> <<>>, section |-> Unset]
         /\ \A i \in 1 .. Len(lines) :
               Reading(lines)[i] = ReadLine(Reading(lines)[i - 1], lines, i)
         /\ \A i \in 0 .. Len(lines) : Reading(lines)[i] \in Reads
<1> DEFINE n == Len(lines)
           a == [blocks |-> <<>>, section |-> Unset]
           F == [i \in 1 .. n |-> [r \in Reads |-> ReadLine(r, lines, i)]]
           Eq(r) == r = [i \in 0 .. n |-> IF i = 0 THEN a ELSE ReadLine(r[i - 1], lines, i)]
           read == CHOOSE r : Eq(r)
<1>1. n \in Nat /\ a \in Reads
  BY DEF Reads
<1>2. F \in [1 .. n -> [Reads -> Reads]]
  BY ReadLineIs
<1>3. \A i \in 1 .. n : \A r \in Reads : F[i][r] = ReadLine(r, lines, i)
  OBVIOUS
<1>4. PICK g \in [0 .. n -> Reads] : Solves(g, n, a, F)
  <2>. HIDE DEF F, n, a
  <2>. QED
    BY <1>1, <1>2, Recursion
<1>5. \A i \in 1 .. n : i - 1 \in 0 .. n /\ g[i] = ReadLine(g[i - 1], lines, i)
  <2>. HIDE DEF F, a
  <2>. QED
    BY <1>1, <1>3, <1>4 DEF Solves
<1>6. Eq(g)
  <2>1. g = [i \in 0 .. n |-> g[i]]
    OBVIOUS
  <2>2. \A i \in 0 .. n : g[i] = IF i = 0 THEN a ELSE ReadLine(g[i - 1], lines, i)
    <3>. HIDE DEF a, F
    <3>. QED
      BY <1>1, <1>4, <1>5 DEF Solves
  <2>. QED
    BY <2>1, <2>2
<1>7. Eq(read)
  BY <1>6
<1>8. Reading(lines) = read
  BY DEF Reading
<1> HIDE DEF read
<1>9. read[0] = a /\ \A i \in 1 .. n : read[i] = ReadLine(read[i - 1], lines, i)
  <2>. HIDE DEF n, a
  <2>. QED
    BY <1>1, <1>7
<1>10. \A i \in 0 .. n : read[i] \in Reads
  <2>1. \A i \in 1 .. n : read[i - 1] \in Reads => read[i] \in Reads
    BY <1>9, ReadLineIs
  <2>. QED
    <3>. HIDE DEF n, a
    <3>. QED
      BY <1>1, <1>9, <2>1, StaysIn
<1>. QED
  BY <1>8, <1>9, <1>10

\* What is read of a file are Host blocks.
LEMMA FilesAreParsed ==
  ASSUME NEW lines \in Seq(Line)
  PROVE  Parse(lines) \in Seq(HostBlock)
<1>1. Len(lines) \in 0 .. Len(lines)
  OBVIOUS
<1>. QED
  BY <1>1, ReadingIs DEF Parse, Reads

----------------------------------------------------------------------------
(* What the file says.  After each line, what has been read is what the      *)
(* lines up to there say.                                                    *)

LEMMA LastIs ==
  ASSUME NEW S, S \subseteq Nat, NEW i \in S, \A j \in S : j <= i
  PROVE  LastOf(S) = i
<1>1. \A x \in S : (\A j \in S : j <= x) => x = i
  OBVIOUS
<1>. QED
  BY <1>1 DEF LastOf

\* Every Host line counts, and no other line does.
LEMMA CountIs ==
  ASSUME NEW lines \in Seq(Line)
  PROVE  /\ \A i \in 0 .. Len(lines) : HostsUpTo(lines, i) \in Nat
         /\ HostsUpTo(lines, 0) = 0
         /\ \A i \in 1 .. Len(lines) : HostsUpTo(lines, i) =
               HostsUpTo(lines, i - 1) + (IF lines[i].is = "host" THEN 1 ELSE 0)
<1> DEFINE H(i) == {k \in HostLines(lines) : k <= i}
<1>0. Len(lines) \in Nat
  OBVIOUS
<1>1. \A i \in 0 .. Len(lines) : IsFiniteSet(H(i)) /\ Cardinality(H(i)) \in Nat
  <2> TAKE i \in 0 .. Len(lines)
  <2>1. IsFiniteSet(1 .. Len(lines)) /\ H(i) \subseteq 1 .. Len(lines)
    BY <1>0, FS_Interval DEF HostLines
  <2>. QED
    BY <2>1, FS_Subset, FS_CardinalityType
<1>2. HostsUpTo(lines, 0) = 0
  <2>1. H(0) = {}
    BY DEF HostLines
  <2>. QED
    BY <2>1, FS_EmptySet DEF HostsUpTo
<1>3. ASSUME NEW i \in 1 .. Len(lines)
      PROVE  HostsUpTo(lines, i) =
               HostsUpTo(lines, i - 1) + (IF lines[i].is = "host" THEN 1 ELSE 0)
  <2>0. i - 1 \in 0 .. Len(lines) /\ i \in Nat
    BY <1>0
  <2>1. CASE lines[i].is = "host"
    <3>1. H(i) = H(i - 1) \cup {i} /\ i \notin H(i - 1)
      BY <2>0, <2>1 DEF HostLines
    <3>2. Cardinality(H(i - 1) \cup {i}) = Cardinality(H(i - 1)) + 1
      <4>. HIDE DEF H
      <4>. QED
        BY <3>1, <1>1, <2>0, FS_AddElement
    <3>. QED
      BY <2>1, <3>1, <3>2 DEF HostsUpTo
  <2>2. CASE lines[i].is # "host"
    <3>1. H(i) = H(i - 1)
      BY <2>0, <2>2 DEF HostLines
    <3>2. Cardinality(H(i)) = Cardinality(H(i - 1)) /\ Cardinality(H(i - 1)) \in Nat
      <4>. HIDE DEF H
      <4>. QED
        BY <3>1, <2>0, <1>1
    <3>3. HostsUpTo(lines, i) = Cardinality(H(i))
      BY DEF HostsUpTo
    <3>4. HostsUpTo(lines, i - 1) = Cardinality(H(i - 1))
      BY DEF HostsUpTo
    <3>. QED
      <4>. HIDE DEF H
      <4>. QED
        BY <2>2, <3>2, <3>3, <3>4
  <2>. QED
    BY <2>1, <2>2
<1>. QED
  BY <1>1, <1>2, <1>3 DEF HostsUpTo

\* The count grows exactly where there is a Host line.
LEMMA CountGrows ==
  ASSUME NEW lines \in Seq(Line), NEW i \in 0 .. Len(lines), NEW j \in 0 .. Len(lines), i <= j
  PROVE  /\ HostsUpTo(lines, i) <= HostsUpTo(lines, j)
         /\ HostsUpTo(lines, i) = HostsUpTo(lines, j) <=>
               ~\E k \in HostLines(lines) : i < k /\ k <= j
<1> DEFINE H(k) == {h \in HostLines(lines) : h <= k}
<1>1. IsFiniteSet(H(j)) /\ Cardinality(H(j)) \in Nat
  <2>1. IsFiniteSet(1 .. Len(lines)) /\ H(j) \subseteq 1 .. Len(lines)
    BY FS_Interval DEF HostLines
  <2>. QED
    BY <2>1, FS_Subset, FS_CardinalityType
<1>2. H(i) \subseteq H(j)
  BY DEF HostLines
<1>3. /\ Cardinality(H(i)) <= Cardinality(H(j))
      /\ Cardinality(H(i)) = Cardinality(H(j)) => H(i) = H(j)
  <2>. HIDE DEF H
  <2>. QED
    BY <1>1, <1>2, FS_Subset
<1>4. H(i) = H(j) <=> ~\E k \in HostLines(lines) : i < k /\ k <= j
  BY DEF HostLines
<1>. QED
  BY <1>3, <1>4 DEF HostsUpTo

\* The directives of a block among the lines up to line i.
SaidBelow(lines, k, keyword, i) ==
    {j \in k + 1 .. i : /\ lines[j].is = "directive" /\ lines[j].says[1] = keyword
                        /\ ~\E h \in HostLines(lines) : k < h /\ h < j}
SaidBy(lines, k, keyword, i) ==
    IF SaidBelow(lines, k, keyword, i) = {} THEN Unset
    ELSE lines[LastOf(SaidBelow(lines, k, keyword, i))].says[2]

Tells(lines, i, block, k) ==
    /\ <<block.name, block.others>> = lines[k].says
    /\ block.section = TitleOver(lines, k)
    /\ \A keyword \in Keywords : block.set[keyword] = SaidBy(lines, k, keyword, i)

Told(lines, i, read) ==
    /\ Len(read.blocks) = HostsUpTo(lines, i)
    /\ read.section = TitleOver(lines, i + 1)
    /\ \A k \in HostLines(lines) :
          k <= i => Tells(lines, i, read.blocks[HostsUpTo(lines, k)], k)

\* A line that is no banner changes no title.
LEMMA TitleIs ==
  ASSUME NEW lines \in Seq(Line), NEW i \in 1 .. Len(lines)
  PROVE  TitleOver(lines, i + 1) =
           IF IsBanner(lines, i) THEN lines[i].says ELSE TitleOver(lines, i)
<1> DEFINE B(k) == {j \in 1 .. k - 1 : IsBanner(lines, j)}
<1>1. CASE IsBanner(lines, i)
  <2>1. i \in B(i + 1) /\ \A j \in B(i + 1) : j <= i
    BY <1>1
  <2>2. LastOf(B(i + 1)) = i
    <3>1. B(i + 1) \subseteq Nat
      OBVIOUS
    <3>. HIDE DEF B
    <3>. QED
      BY <2>1, <3>1, LastIs
  <2>3. TitleOver(lines, i + 1) =
          IF B(i + 1) = {} THEN Unset ELSE lines[LastOf(B(i + 1))].says
    BY DEF TitleOver
  <2>. QED
    <3>. HIDE DEF B
    <3>. QED
      BY <1>1, <2>1, <2>2, <2>3
<1>2. CASE ~IsBanner(lines, i)
  <2>1. B(i + 1) = B(i)
    <3>1. \A j \in 1 .. (i + 1) - 1 : j \in 1 .. i - 1 \/ j = i
      OBVIOUS
    <3>2. \A j \in 1 .. i - 1 : j \in 1 .. (i + 1) - 1
      OBVIOUS
    <3>. QED
      BY <1>2, <3>1, <3>2
  <2>. QED
    BY <1>2, <2>1 DEF TitleOver
<1>. QED
  BY <1>1, <1>2

\* One more line is a directive of the block it is below, the last of its keyword, or
\* none of the block.
LEMMA SaidIs ==
  ASSUME NEW lines \in Seq(Line), NEW i \in 1 .. Len(lines), NEW k \in HostLines(lines),
         k < i, NEW keyword
  PROVE  SaidBy(lines, k, keyword, i) =
           IF /\ lines[i].is = "directive" /\ lines[i].says[1] = keyword
              /\ ~\E h \in HostLines(lines) : k < h /\ h < i
           THEN lines[i].says[2] ELSE SaidBy(lines, k, keyword, i - 1)
<1> DEFINE B(j) == SaidBelow(lines, k, keyword, j)
           New == /\ lines[i].is = "directive" /\ lines[i].says[1] = keyword
                  /\ ~\E h \in HostLines(lines) : k < h /\ h < i
<1>0. k \in Nat /\ i \in Nat
  BY DEF HostLines
<1>1. CASE New
  <2>1. i \in B(i) /\ (\A j \in B(i) : j <= i) /\ B(i) \subseteq Nat
    BY <1>0, <1>1 DEF SaidBelow
  <2>2. LastOf(B(i)) = i
    <3>. HIDE DEF B
    <3>. QED
      BY <2>1, LastIs
  <2>3. SaidBy(lines, k, keyword, i) =
          IF B(i) = {} THEN Unset ELSE lines[LastOf(B(i))].says[2]
    BY DEF SaidBy
  <2>. QED
    <3>. HIDE DEF B
    <3>. QED
      BY <1>1, <2>1, <2>2, <2>3
<1>2. CASE ~New
  <2>1. B(i) = B(i - 1)
    <3>1. \A j \in k + 1 .. i : j \in k + 1 .. i - 1 \/ j = i
      BY <1>0
    <3>2. \A j \in k + 1 .. i - 1 : j \in k + 1 .. i
      BY <1>0
    <3>. QED
      BY <1>2, <3>1, <3>2 DEF SaidBelow
  <2>2. SaidBy(lines, k, keyword, i) = SaidBy(lines, k, keyword, i - 1)
    BY <2>1 DEF SaidBy
  <2>. QED
    BY <1>2, <2>2
<1>. QED
  BY <1>1, <1>2

\* A Host line is the last counted up to it, and none before it is.
LEMMA HostIs ==
  ASSUME NEW lines \in Seq(Line), NEW i \in 1 .. Len(lines), NEW k \in HostLines(lines), k <= i
  PROVE  /\ HostsUpTo(lines, k) \in 1 .. HostsUpTo(lines, i)
         /\ k < i => HostsUpTo(lines, k) \in 1 .. HostsUpTo(lines, i - 1)
<1>1. k \in 1 .. Len(lines) /\ lines[k].is = "host" /\ Len(lines) \in Nat
  BY DEF HostLines
<1>2. k - 1 \in 0 .. Len(lines) /\ k \in 0 .. Len(lines) /\ i \in 0 .. Len(lines) /\ i - 1 \in 0 .. Len(lines)
  BY <1>1
<1>3. HostsUpTo(lines, k) \in Nat /\ HostsUpTo(lines, k) >= 1
  BY <1>1, <1>2, CountIs
<1>4. HostsUpTo(lines, k) <= HostsUpTo(lines, i) /\ HostsUpTo(lines, i) \in Nat
  BY <1>2, CountGrows, CountIs
<1>5. k < i => HostsUpTo(lines, k) <= HostsUpTo(lines, i - 1) /\ HostsUpTo(lines, i - 1) \in Nat
  BY <1>2, CountGrows, CountIs
<1>. QED
  BY <1>3, <1>4, <1>5

LEMMA ToldStep ==
  ASSUME NEW lines \in Seq(Line), NEW i \in 1 .. Len(lines), NEW read \in Reads,
         Told(lines, i - 1, read)
  PROVE  Told(lines, i, ReadLine(read, lines, i))
<1> DEFINE line == lines[i]
           top == Len(read.blocks)
           next == ReadLine(read, lines, i)
<1>1. line \in Line /\ top \in Nat /\ read.blocks \in Seq(HostBlock) /\ i \in Nat
  BY DEF Reads
<1>2. top = HostsUpTo(lines, i - 1) /\ read.section = TitleOver(lines, i)
  BY <1>1 DEF Told
<1>3. HostsUpTo(lines, i) = top + (IF line.is = "host" THEN 1 ELSE 0)
  BY <1>2, CountIs
<1>4. ASSUME NEW k \in HostLines(lines), k < i
      PROVE  /\ HostsUpTo(lines, k) \in 1 .. top
             /\ Tells(lines, i - 1, read.blocks[HostsUpTo(lines, k)], k)
             /\ read.blocks[HostsUpTo(lines, k)] \in HostBlock
  <2>1. k <= i /\ k <= i - 1
    BY <1>1, <1>4 DEF HostLines
  <2>2. HostsUpTo(lines, k) \in 1 .. HostsUpTo(lines, i - 1)
    BY <1>4, <2>1, HostIs
  <2>3. HostsUpTo(lines, k) \in 1 .. top
    BY <1>2, <2>2
  <2>. QED
    BY <2>1, <2>3, <1>1 DEF Told
<1>5. CASE line.is = "host"
  <2> DEFINE block == Block(line.says, read.section)
  <2>1. next = [read EXCEPT !.blocks = Append(@, block)]
    BY <1>5 DEF ReadLine, IsBanner
  <2>2. next.blocks = Append(read.blocks, block) /\ next.section = read.section
    BY <2>1 DEF Reads
  <2>3. block \in HostBlock
    BY <1>1, <1>5, LineIs DEF Block, HostBlock, Reads
  <2>4. Len(next.blocks) = HostsUpTo(lines, i)
    BY <1>1, <1>3, <1>5, <2>2, <2>3
  <2>5. next.section = TitleOver(lines, i + 1)
    BY <1>2, <1>5, <2>2, TitleIs DEF IsBanner
  <2>6. ASSUME NEW k \in HostLines(lines), k <= i
        PROVE  Tells(lines, i, next.blocks[HostsUpTo(lines, k)], k)
    <3>1. CASE k < i
      <4>1. next.blocks[HostsUpTo(lines, k)] = read.blocks[HostsUpTo(lines, k)]
        BY <1>1, <1>4, <2>2, <2>3, <3>1
      <4>2. \A keyword : SaidBy(lines, k, keyword, i) = SaidBy(lines, k, keyword, i - 1)
        BY <1>5, <3>1, SaidIs
      <4>. QED
        BY <1>4, <3>1, <4>1, <4>2 DEF Tells
    <3>2. CASE k = i
      <4>1. next.blocks[HostsUpTo(lines, k)] = block
        BY <1>1, <1>3, <1>5, <2>2, <2>3, <3>2
      <4>2. \A keyword : SaidBelow(lines, i, keyword, i) = {}
        BY <1>1 DEF SaidBelow
      <4>3. \A keyword : SaidBy(lines, i, keyword, i) = Unset
        BY <4>2 DEF SaidBy
      <4>4. <<block.name, block.others>> = line.says
        BY <1>1, <1>5, LineIs DEF Block
      <4>. QED
        BY <1>2, <3>2, <4>1, <4>3, <4>4 DEF Tells, Block
    <3>. QED
      BY <3>1, <3>2, <2>6, <1>1 DEF HostLines
  <2>. QED
    BY <2>4, <2>5, <2>6 DEF Told
<1>6. CASE line.is = "directive" /\ line.says[1] \in Keywords /\ top > 0
  <2> DEFINE said == line.says[1]
             value == line.says[2]
             b == read.blocks[top]
             c == [b EXCEPT !.set[said] = value]
  <2>1. next = [read EXCEPT !.blocks[top].set[said] = value]
    BY <1>6 DEF ReadLine, IsBanner
  <2>2. next = [read EXCEPT !.blocks = [read.blocks EXCEPT ![top] = c]]
    BY <2>1
  <2>3. b \in HostBlock
    BY <1>1, <1>6
  <2>4. /\ c.name = b.name /\ c.others = b.others /\ c.section = b.section
        /\ \A keyword \in Keywords :
              c.set[keyword] = IF keyword = said THEN value ELSE b.set[keyword]
    BY <2>3, <1>6 DEF HostBlock
  <2>5. next.blocks = [read.blocks EXCEPT ![top] = c] /\ next.section = read.section
    BY <2>2 DEF Reads
  <2>6. /\ Len(next.blocks) = top
        /\ next.blocks[top] = c
        /\ \A n \in 1 .. top : n # top => next.blocks[n] = read.blocks[n]
    <3>. HIDE DEF c
    <3>. QED
      BY <1>1, <1>6, <2>5
  <2>7. next.section = TitleOver(lines, i + 1)
    BY <1>2, <1>6, <2>5, TitleIs DEF IsBanner
  <2>8. ASSUME NEW k \in HostLines(lines), k <= i
        PROVE  Tells(lines, i, next.blocks[HostsUpTo(lines, k)], k)
    <3>0. k < i /\ k \in 0 .. Len(lines) /\ i - 1 \in 0 .. Len(lines) /\ k <= i - 1
      BY <1>6, <2>8, <1>1 DEF HostLines
    <3>1. HostsUpTo(lines, k) = top <=> ~\E h \in HostLines(lines) : k < h /\ h < i
      <4>1. HostsUpTo(lines, k) = top <=> ~\E h \in HostLines(lines) : k < h /\ h <= i - 1
        BY <3>0, <1>2, CountGrows
      <4>2. \A h \in HostLines(lines) : h <= i - 1 <=> h < i
        BY <1>1 DEF HostLines
      <4>. QED
        BY <4>1, <4>2
    <3>2. \A keyword : SaidBy(lines, k, keyword, i) =
             IF said = keyword /\ HostsUpTo(lines, k) = top
             THEN value ELSE SaidBy(lines, k, keyword, i - 1)
      BY <1>6, <3>0, <3>1, SaidIs
    <3>3. CASE HostsUpTo(lines, k) = top
      <4>1. Tells(lines, i - 1, b, k)
        BY <1>4, <3>0, <3>3
      <4>2. \A keyword \in Keywords : c.set[keyword] = SaidBy(lines, k, keyword, i)
        <5>. HIDE DEF c, b, said, value
        <5>. QED
          BY <2>4, <3>2, <3>3, <4>1 DEF Tells
      <4>3. Tells(lines, i, c, k)
        <5>. HIDE DEF c, b
        <5>. QED
          BY <2>4, <4>1, <4>2 DEF Tells
      <4>. QED
        <5>. HIDE DEF c, next
        <5>. QED
          BY <2>6, <3>3, <4>3
    <3>4. CASE HostsUpTo(lines, k) # top
      <4>1. next.blocks[HostsUpTo(lines, k)] = read.blocks[HostsUpTo(lines, k)]
        <5>. HIDE DEF c, next
        <5>. QED
          BY <1>4, <2>6, <3>0, <3>4
      <4>2. \A keyword : SaidBy(lines, k, keyword, i) = SaidBy(lines, k, keyword, i - 1)
        BY <3>2, <3>4
      <4>. QED
        BY <1>4, <3>0, <4>1, <4>2 DEF Tells
    <3>. QED
      BY <3>3, <3>4
  <2>. QED
    BY <1>1, <1>3, <1>6, <2>6, <2>7, <2>8 DEF Told
<1>7. CASE ~(line.is = "host") /\ ~(line.is = "directive" /\ line.says[1] \in Keywords /\ top > 0)
  <2>1. next = IF IsBanner(lines, i) THEN [read EXCEPT !.section = line.says] ELSE read
    BY <1>7 DEF ReadLine
  <2>2. next.blocks = read.blocks
        /\ next.section = IF IsBanner(lines, i) THEN line.says ELSE read.section
    BY <2>1 DEF Reads
  <2>3. next.section = TitleOver(lines, i + 1)
    BY <1>2, <2>2, TitleIs
  <2>4. ASSUME NEW k \in HostLines(lines), k <= i
        PROVE  Tells(lines, i, next.blocks[HostsUpTo(lines, k)], k)
    <3>1. k < i
      BY <1>7, <2>4, <1>1 DEF HostLines
    <3>2. top > 0
      BY <1>1, <1>4, <3>1
    <3>3. \A keyword \in Keywords : SaidBy(lines, k, keyword, i) = SaidBy(lines, k, keyword, i - 1)
      BY <1>7, <3>1, <3>2, SaidIs
    <3>. QED
      BY <1>4, <2>2, <3>1, <3>3 DEF Tells
  <2>. QED
    BY <1>1, <1>3, <1>7, <2>2, <2>3, <2>4 DEF Told
<1>. QED
  BY <1>5, <1>6, <1>7

\* Parsing tells what every file says.
LEMMA FilesAreDescribed ==
  ASSUME NEW lines \in Seq(Line)
  PROVE  DescribedBy(lines, Parse(lines))
<1> DEFINE n == Len(lines)
           f == Reading(lines)
           P == {i \in 0 .. n : Told(lines, i, f[i])}
<1>0. n \in Nat
  OBVIOUS
<1>1. 0 \in P
  <2>1. f[0] = [blocks |-> <<>>, section |-> Unset]
    BY ReadingIs
  <2>2. HostsUpTo(lines, 0) = 0
    BY CountIs
  <2>3. TitleOver(lines, 0 + 1) = Unset
    BY DEF TitleOver
  <2>4. \A k \in HostLines(lines) : ~(k <= 0)
    BY DEF HostLines
  <2>5. Told(lines, 0, f[0])
    <3>. HIDE DEF f
    <3>. QED
      BY <2>1, <2>2, <2>3, <2>4 DEF Told
  <2>. QED
    BY <2>5, <1>0
<1>2. ASSUME NEW i \in 1 .. n, i - 1 \in P PROVE i \in P
  <2>1. f[i - 1] \in Reads /\ f[i] = ReadLine(f[i - 1], lines, i) /\ i \in 0 .. n
    BY <1>0, ReadingIs
  <2>2. Told(lines, i - 1, f[i - 1])
    BY <1>2
  <2>3. Told(lines, i, f[i])
    <3>. HIDE DEF f
    <3>. QED
      BY <2>1, <2>2, ToldStep
  <2>. QED
    BY <2>1, <2>3
<1>3. n \in P
  <2>1. \A i \in 0 .. n : i \in P
    <3>. HIDE DEF P, n
    <3>. QED
      BY <1>0, <1>1, <1>2, UpTo
  <2>. QED
    BY <1>0, <2>1
<1>4. Told(lines, n, f[n]) /\ Parse(lines) = f[n].blocks
  BY <1>3 DEF Parse
<1>5. \A k \in HostLines(lines) : k <= n /\ Tells(lines, n, Parse(lines)[HostsUpTo(lines, k)], k)
  <2>1. \A k \in HostLines(lines) : k <= n
    BY <1>0 DEF HostLines
  <2>. HIDE DEF f, n
  <2>. QED
    BY <1>4, <2>1 DEF Told
<1>6. \A k \in HostLines(lines) : \A keyword : Said(lines, k, keyword) = SaidBy(lines, k, keyword, n)
  BY DEF Said, SaidBy, SaidBelow
<1>7. Len(Parse(lines)) = HostsUpTo(lines, n)
  <2>. HIDE DEF f, n
  <2>. QED
    BY <1>4 DEF Told
<1>. QED
  <2>. HIDE DEF f, n
  <2>1. n = Len(lines)
    BY DEF n
  <2>. QED
    BY <2>1, <1>5, <1>6, <1>7 DEF DescribedBy, Tells

\* Every block is that of a Host line.
LEMMA BlocksAreOfLines ==
  ASSUME NEW lines \in Seq(Line), NEW m \in Nat, m > 0, m <= HostsUpTo(lines, Len(lines))
  PROVE  \E i \in HostLines(lines) : HostsUpTo(lines, i) = m
<1>0. /\ Len(lines) \in Nat
      /\ HostsUpTo(lines, 0) = 0 /\ \A i \in 0 .. Len(lines) : HostsUpTo(lines, i) \in Nat
      /\ \A i \in 1 .. Len(lines) : HostsUpTo(lines, i) =
            HostsUpTo(lines, i - 1) + (IF lines[i].is = "host" THEN 1 ELSE 0)
  <2>1. Len(lines) \in Nat
    OBVIOUS
  <2>. QED
    BY <2>1, CountIs, Zenon
<1> DEFINE n == Len(lines)
           H(i) == HostsUpTo(lines, i)
           T == {i \in 0 .. n : m <= H(i)}
<1>1. /\ n \in Nat /\ H(0) = 0 /\ \A i \in 0 .. n : H(i) \in Nat
      /\ \A i \in 1 .. n : H(i) = H(i - 1) + (IF lines[i].is = "host" THEN 1 ELSE 0)
  BY <1>0, Zenon
<1>2. T \subseteq Nat /\ n \in T
  BY <1>1
<1>3. PICK i \in T : \A j \in T : i <= j
  <2>. HIDE DEF T
  <2>. QED
    BY <1>2, LeastNumber
<1>4. i \in 0 .. n /\ m <= H(i)
  BY <1>3
<1>5. i \in 1 .. n /\ i - 1 \in 0 .. n /\ i - 1 \notin T
  <2>1. i # 0
    BY <1>1, <1>4
  <2>2. i \in 1 .. n /\ i - 1 \in 0 .. n /\ i - 1 \in Nat
    BY <1>1, <1>4, <2>1
  <2>3. ~(i <= i - 1)
    BY <1>1, <1>4
  <2>. QED
    BY <1>3, <2>2, <2>3
<1>6. H(i - 1) < m
  BY <1>1, <1>5
<1>7. lines[i].is = "host" /\ H(i) = m
  <2>1. PICK a \in Nat, b \in Nat : a = H(i - 1) /\ b = H(i)
    BY <1>1, <1>4, <1>5
  <2>2. b = a + (IF lines[i].is = "host" THEN 1 ELSE 0)
    BY <1>1, <1>5, <2>1
  <2>3. a < m /\ m <= b
    BY <1>4, <1>6, <2>1
  <2>4. lines[i].is = "host" /\ b = m
    BY <2>2, <2>3
  <2>. QED
    BY <2>1, <2>4
<1>8. i \in HostLines(lines)
  BY <1>5, <1>7 DEF HostLines
<1>. QED
  BY <1>7, <1>8

\* What is imported are the blocks of the lines that are wanted.
LEMMA ImportedIs ==
  ASSUME NEW lines \in Seq(Line), NEW blocks \in Seq(HostBlock), DescribedBy(lines, blocks)
  PROVE  Elements(Importable(blocks)) =
            {blocks[HostsUpTo(lines, i)] : i \in {k \in HostLines(lines) : IsWanted(lines, k)}}
<1> DEFINE S == {b \in HostBlock :
                    /\ ~is_wildcard(b)
                    /\ ({b.name, b.set[HostName]} \cup b.others) \cap Skipped = {}}
           H(i) == HostsUpTo(lines, i)
<1>1. Elements(Importable(blocks)) = Elements(blocks) \cap S
  <2>1. Importable(blocks) = Only(blocks, S)
    BY DEF Importable
  <2>. HIDE DEF S
  <2>. QED
    BY <2>1, OnlyIs
<1>2. Len(blocks) = H(Len(lines)) /\ DOMAIN blocks = 1 .. Len(blocks) /\ Len(blocks) \in Nat
  BY DEF DescribedBy
<1>3. ASSUME NEW i \in HostLines(lines)
      PROVE  /\ H(i) \in DOMAIN blocks /\ blocks[H(i)] \in HostBlock
             /\ blocks[H(i)] \in S <=> IsWanted(lines, i)
  <2>1. i \in 1 .. Len(lines) /\ i <= Len(lines) /\ Len(lines) \in Nat
    BY DEF HostLines
  <2>2. H(i) \in 1 .. H(Len(lines))
    <3>1. Len(lines) \in 1 .. Len(lines)
      BY <2>1
    <3>. QED
      BY <2>1, <3>1, HostIs
  <2>3. H(i) \in DOMAIN blocks
    BY <1>2, <2>2
  <2>4. PICK b \in HostBlock : b = blocks[H(i)]
    BY <2>3
  <2>5. <<b.name, b.others>> = lines[i].says /\ b.set[HostName] = Said(lines, i, HostName)
    BY <2>4, OtherIsIgnored DEF DescribedBy
  <2>6. lines[i].says[1] = b.name /\ lines[i].says[2] = b.others
    BY <2>5
  <2>7. b \in S <=> /\ ({b.name} \cup b.others) \cap Wildcards = {}
                    /\ ({b.name, b.set[HostName]} \cup b.others) \cap Skipped = {}
    BY DEF is_wildcard
  <2>8. IsWanted(lines, i) <=> /\ ({b.name} \cup b.others) \cap (Wildcards \cup Skipped) = {}
                              /\ b.set[HostName] \notin Skipped
    BY <2>5, <2>6 DEF IsWanted
  <2>9. b \in S <=> IsWanted(lines, i)
    <3>. HIDE DEF S
    <3>. QED
      BY <2>7, <2>8
  <2>. QED
    <3>. HIDE DEF S
    <3>. QED
      BY <2>3, <2>4, <2>9
<1>4. ASSUME NEW m \in DOMAIN blocks PROVE \E i \in HostLines(lines) : H(i) = m
  BY <1>2, BlocksAreOfLines
<1>. HIDE DEF S, H
<1>5. Elements(blocks) \cap S = {blocks[H(i)] : i \in {k \in HostLines(lines) : IsWanted(lines, k)}}
  BY <1>3, <1>4, Zenon DEF Elements
<1>. QED
  BY <1>1, <1>5 DEF H

----------------------------------------------------------------------------
(* Names *)

\* A nonempty set of numbers up to n has a greatest.
LEMMA GreatestNumber ==
  ASSUME NEW n \in Nat, NEW T, T \subseteq 1 .. n, T # {}
  PROVE  \E m \in T : \A j \in T : j <= m
<1> DEFINE R == {n - j : j \in T}
<1>1. R \subseteq Nat /\ R # {} /\ \A j \in T : n - j \in R
  <2>1. \A j \in T : n - j \in Nat
    OBVIOUS
  <2>2. \E j : j \in T
    OBVIOUS
  <2>. QED
    BY <2>1, <2>2
<1>2. PICK r \in R : \A k \in R : r <= k
  <2>. HIDE DEF R
  <2>. QED
    BY <1>1, LeastNumber
<1>3. PICK m \in T : r = n - m
  OBVIOUS
<1>4. ASSUME NEW j \in T PROVE j <= m
  <2>1. n - m <= n - j
    <3>. HIDE DEF R
    <3>. QED
      BY <1>1, <1>2, <1>3
  <2>. QED
    BY <2>1
<1>. QED
  BY <1>4

\* What is stripped begins and ends with nothing that is stripped off; and what does
\* already stays as it is.
LEMMA StripIs ==
  ASSUME NEW X, NEW s \in Seq(X), NEW C
  PROVE  LET left == Strip(s, C)
         IN  /\ left \in Seq(X)
             /\ left # <<>> => left[1] \notin C /\ left[Len(left)] \notin C
             /\ s # <<>> /\ s[1] \notin C /\ s[Len(s)] \notin C => left = s
<1> DEFINE kept == {i \in DOMAIN s : s[i] \notin C}
           Least(i) == i \in kept /\ \A j \in kept : i <= j
           Greatest(i) == i \in kept /\ \A j \in kept : j <= i
           f == CHOOSE i \in kept : \A j \in kept : i <= j
           l == CHOOSE i \in kept : \A j \in kept : j <= i
           left == Strip(s, C)
<1>0. Len(s) \in Nat /\ kept \subseteq 1 .. Len(s) /\ kept \subseteq Nat
  OBVIOUS
<1>1. left = IF kept = {} THEN <<>> ELSE SubSeq(s, f, l)
  BY DEF Strip
<1>2. CASE kept = {}
  <2>1. left = <<>>
    BY <1>1, <1>2
  <2>2. s # <<>> => s[1] \in C
    BY <1>2
  <2>. QED
    BY <2>1, <2>2
<1>3. CASE kept # {}
  <2>1. \E i \in kept : \A j \in kept : i <= j
    <3>. HIDE DEF kept
    <3>. QED
      BY <1>0, <1>3, LeastNumber
  <2>2. \E i \in kept : \A j \in kept : j <= i
    <3>. HIDE DEF kept
    <3>. QED
      BY <1>0, <1>3, GreatestNumber
  <2>3. f \in kept /\ \A j \in kept : f <= j
    <3>. HIDE DEF kept
    <3>. QED
      BY <2>1
  <2>4. l \in kept /\ \A j \in kept : j <= l
    <3>. HIDE DEF kept
    <3>. QED
      BY <2>2
  <2>5. f \in 1 .. Len(s) /\ l \in 1 .. Len(s) /\ f <= l /\ s[f] \notin C /\ s[l] \notin C
    <3>1. f <= l
      <4>. HIDE DEF kept, f, l
      <4>. QED
        BY <2>3, <2>4
    <3>. HIDE DEF f, l
    <3>. QED
      BY <3>1, <2>3, <2>4, <1>0
  <2>. HIDE DEF f, l
  <2>6. left = SubSeq(s, f, l)
    <3>. HIDE DEF kept, left
    <3>. QED
      BY <1>1, <1>3
  <2>7. \A i \in f .. l : s[i] \in X
    BY <2>5, <1>0
  <2>8. /\ SubSeq(s, f, l) \in Seq(X) /\ Len(SubSeq(s, f, l)) = l - f + 1
        /\ \A i \in 1 .. l - f + 1 : SubSeq(s, f, l)[i] = s[f + i - 1]
    <3>1. f \in Int /\ l \in Int /\ f <= l
      BY <2>5
    <3>. QED
      BY <2>7, <3>1, SubSeqProperties
  <2>. HIDE DEF left
  <2>9. left[1] \notin C /\ left[Len(left)] \notin C
    <3>1. left[1] = s[f]
      BY <2>5, <2>6, <2>8
    <3>2. left[l - f + 1] = s[l]
      BY <2>5, <2>6, <2>8
    <3>. QED
      BY <2>5, <2>6, <2>8, <3>1, <3>2
  <2>10. ASSUME s # <<>>, s[1] \notin C, s[Len(s)] \notin C PROVE left = s
    <3>1. 1 \in kept /\ Len(s) \in kept
      BY <2>10
    <3>2. f = 1 /\ l = Len(s)
      <4>. HIDE DEF kept
      <4>. QED
        BY <2>3, <2>4, <2>5, <3>1, <1>0
    <3>. QED
      BY <2>6, <3>2, SubSeqFull
  <2>. QED
    BY <2>6, <2>8, <2>9, <2>10 DEF left
<1>. QED
  BY <1>2, <1>3

\* The characters are apart.
LEMMA Apart ==
  /\ {"_", "-", " "} \cap (Letters \cup Digits) = {}
  /\ \A c \in Letters : c \notin Digits /\ c # "_" /\ c # "-" /\ c # " "
  /\ \A c \in Digits : c # "_" /\ c # "-" /\ c # " "
  /\ "g" \in Letters
<1>1. {"_", "-", " "} \cap (Letters \cup Digits) = {}
  BY CharactersAreApart
<1>2. \A c \in {"_", "-", " "} : c \notin Letters \cup Digits
  BY <1>1
<1>3. "_" \notin Letters \cup Digits /\ "-" \notin Letters \cup Digits /\ " " \notin Letters \cup Digits
  BY <1>2
<1>4. "g" \in Letters /\ Letters \cap Digits = {}
  BY CharactersAreApart
<1>. QED
  BY <1>1, <1>3, <1>4

LEMMA SlugIs ==
  ASSUME NEW name \in Seq(Characters)
  PROVE  /\ Slug(name) \in Seq(SlugCharacters)
         /\ Slug(name) # <<>> =>
              Slug(name)[1] \notin {"-", "_"} /\ Slug(name)[Len(Slug(name))] \notin {"-", "_"}
<1> DEFINE words == Only(name, Characters \ Signs)
           hyphened == [i \in DOMAIN words |-> IF words[i] = " " THEN "-" ELSE words[i]]
           pairs == [i \in DOMAIN hyphened |->
                       <<hyphened[i], i > 1 /\ hyphened[i] = "-" /\ hyphened[i - 1] = "-">>]
           once == Only(pairs, Characters \X {FALSE})
           single == [i \in DOMAIN once |-> once[i][1]]
<1>1. words \in Seq(Characters \ Signs)
  <2>1. words \in Seq(Characters \cap (Characters \ Signs))
    BY OnlyIs
  <2>2. Characters \cap (Characters \ Signs) = Characters \ Signs
    OBVIOUS
  <2>. QED
    BY <2>1, <2>2
<1>2. hyphened \in Seq(SlugCharacters)
  <2>. HIDE DEF words
  <2>1. DOMAIN words = 1 .. Len(words) /\ Len(words) \in Nat
    BY <1>1
  <2>2. \A i \in 1 .. Len(words) : words[i] \in Characters \ Signs
    BY <1>1
  <2>3. \A i \in 1 .. Len(words) : (IF words[i] = " " THEN "-" ELSE words[i]) \in SlugCharacters
    BY <2>2 DEF Characters, SlugCharacters
  <2>4. hyphened = [i \in 1 .. Len(words) |-> IF words[i] = " " THEN "-" ELSE words[i]]
    BY <2>1
  <2>5. hyphened \in [1 .. Len(words) -> SlugCharacters]
    BY <2>3, <2>4
  <2>. HIDE DEF hyphened
  <2>. QED
    BY <2>1, <2>5
<1>3. pairs \in Seq(SlugCharacters \X BOOLEAN)
  <2>. HIDE DEF hyphened
  <2>1. DOMAIN hyphened = 1 .. Len(hyphened) /\ Len(hyphened) \in Nat
    BY <1>2
  <2>2. \A i \in 1 .. Len(hyphened) :
           <<hyphened[i], i > 1 /\ hyphened[i] = "-" /\ hyphened[i - 1] = "-">>
             \in SlugCharacters \X BOOLEAN
    <3> TAKE i \in 1 .. Len(hyphened)
    <3> DEFINE again == i > 1 /\ hyphened[i] = "-" /\ hyphened[i - 1] = "-"
    <3>1. hyphened[i] \in SlugCharacters
      BY <1>2
    <3>2. again \in BOOLEAN
      BY Zenon
    <3>. HIDE DEF again
    <3>3. <<hyphened[i], again>> \in SlugCharacters \X BOOLEAN
      BY <3>1, <3>2
    <3>. QED
      BY <3>3 DEF again
  <2>3. pairs \in [1 .. Len(hyphened) -> SlugCharacters \X BOOLEAN]
    BY <2>1, <2>2
  <2>. HIDE DEF pairs
  <2>. QED
    BY <2>1, <2>3
<1>4. once \in Seq(SlugCharacters \X BOOLEAN)
  <2>. HIDE DEF pairs
  <2>. QED
    BY <1>3, OnlyIs
<1>5. single \in Seq(SlugCharacters)
  <2>. HIDE DEF once
  <2>1. DOMAIN once = 1 .. Len(once) /\ Len(once) \in Nat
    BY <1>4
  <2>2. \A i \in 1 .. Len(once) : once[i][1] \in SlugCharacters
    BY <1>4
  <2>. QED
    BY <2>1, <2>2
<1>6. Slug(name) = Strip(single, {"-", "_"})
  BY DEF Slug, Each
<1>. QED
  <2>. HIDE DEF single
  <2>1. PICK C : C = {"-", "_"}
    OBVIOUS
  <2>2. /\ Strip(single, C) \in Seq(SlugCharacters)
        /\ Strip(single, C) # <<>> =>
             Strip(single, C)[1] \notin C /\ Strip(single, C)[Len(Strip(single, C))] \notin C
    BY <1>5, StripIs
  <2>. QED
    BY <1>6, <2>1, <2>2

\* What Ansible accepts in a name.
Accepted == Letters \cup Digits \cup {"_"}

LEMMA UnderscoredIs ==
  ASSUME NEW X, NEW s \in Seq(X)
  PROVE  /\ Each(s, Underscored) \in Seq(Accepted)
         /\ Len(Each(s, Underscored)) = Len(s)
         /\ \A i \in 1 .. Len(s) : Each(s, Underscored)[i] = Underscored(s[i])
<1>1. \A c : Underscored(c) \in Accepted
  BY DEF Underscored, Accepted
<1>2. Each(s, Underscored) = [i \in 1 .. Len(s) |-> Underscored(s[i])]
  BY DEF Each
<1>. QED
  BY <1>1, <1>2

\* The name of a group is accepted, whatever its value is.
LEMMA GroupNameIs ==
  ASSUME NEW X, NEW value \in Seq(X)
  PROVE  LET group == ansible_group_name(value)
         IN  group \in Seq(Accepted) /\ group # <<>> /\ group[1] \notin Digits
<1> DEFINE bare == Strip(value, {" "})
           under == Each(bare, Underscored)
           name == Strip(under, {"_"})
<1>1. bare \in Seq(X)
  BY StripIs
<1>2. under \in Seq(Accepted)
  <2>. HIDE DEF bare
  <2>. QED
    BY <1>1, UnderscoredIs
<1>3. name \in Seq(Accepted)
  <2>. HIDE DEF under
  <2>. QED
    BY <1>2, StripIs
<1>4. ansible_group_name(value) = IF name = <<>> \/ name[1] \in Digits THEN <<"g", "_">> \o name ELSE name
  BY DEF ansible_group_name
<1>. HIDE DEF name
<1>5. "g" \in Accepted /\ "_" \in Accepted /\ "g" \notin Digits
  BY Apart DEF Accepted
<1>6. PICK pre : pre = <<"g", "_">>
  OBVIOUS
<1>7. pre \in Seq(Accepted) /\ Len(pre) = 2 /\ pre[1] = "g"
  <2>1. pre[1] = "g" /\ Len(pre) = 2
    BY <1>6
  <2>2. \A c, d \in Accepted : <<c, d>> \in Seq(Accepted)
    <3>. HIDE DEF Accepted
    <3>. QED
      OBVIOUS
  <2>. QED
    BY <1>5, <1>6, <2>1, <2>2
<1>8. pre \o name \in Seq(Accepted) /\ (pre \o name)[1] = "g" /\ Len(pre \o name) = 2 + Len(name)
  <2>1. Len(name) \in Nat
    BY <1>3
  <2>2. /\ pre \o name \in Seq(Accepted) /\ Len(pre \o name) = Len(pre) + Len(name)
        /\ \A i \in 1 .. Len(pre) + Len(name) :
              (pre \o name)[i] = IF i <= Len(pre) THEN pre[i] ELSE name[i - Len(pre)]
    <3>. HIDE DEF Accepted
    <3>. QED
      BY <1>3, <1>7, ConcatProperties
  <2>3. 1 \in 1 .. Len(pre) + Len(name)
    BY <1>7, <2>1
  <2>. QED
    BY <1>7, <2>1, <2>2, <2>3
<1>9. pre \o name # <<>>
  BY <1>3, <1>8
<1>. QED
  BY <1>3, <1>4, <1>5, <1>6, <1>8, <1>9

\* An ordinary slug keeps its length, and each of its characters but the hyphens.
LEMMA OrdinaryNameIs ==
  ASSUME NEW slug \in Seq(SlugCharacters), Ordinary(slug)
  PROVE  /\ Len(ansible_group_name(slug)) = Len(slug)
         /\ \A i \in 1 .. Len(slug) :
              ansible_group_name(slug)[i] = IF slug[i] = "-" THEN "_" ELSE slug[i]
<1>0. /\ slug # <<>> /\ slug[1] \in Letters /\ slug[Len(slug)] # "-"
      /\ Len(slug) \in Nat /\ Len(slug) > 0
      /\ \A i \in 1 .. Len(slug) : slug[i] \in Letters \cup Digits \cup {"-"}
  <2>1. slug # <<>> /\ slug[1] \in Letters /\ slug[Len(slug)] # "-"
    BY DEF Ordinary
  <2>2. Len(slug) \in Nat /\ DOMAIN slug = 1 .. Len(slug)
    OBVIOUS
  <2>3. \A i \in 1 .. Len(slug) : slug[i] # "_"
    BY <2>2 DEF Ordinary
  <2>4. \A i \in 1 .. Len(slug) : slug[i] \in SlugCharacters
    OBVIOUS
  <2>5. Len(slug) > 0
    <3>. HIDE DEF SlugCharacters
    <3>. QED
      BY <2>1, <2>2
  <2>. QED
    BY <2>1, <2>2, <2>3, <2>4, <2>5 DEF SlugCharacters
<1>1. Strip(slug, {" "}) = slug
  <2>1. slug[1] # " " /\ slug[Len(slug)] # " "
    <3>1. Len(slug) \in 1 .. Len(slug)
      BY <1>0
    <3>2. slug[Len(slug)] \in Letters \cup Digits \cup {"-"}
      BY <1>0, <3>1
    <3>. QED
      BY <1>0, <3>2, Apart
  <2>2. PICK C : C = {" "}
    OBVIOUS
  <2>. QED
    BY <1>0, <2>1, <2>2, StripIs
<1> DEFINE under == Each(slug, Underscored)
<1>2. /\ under \in Seq(Accepted) /\ Len(under) = Len(slug)
      /\ \A i \in 1 .. Len(slug) : under[i] = IF slug[i] = "-" THEN "_" ELSE slug[i]
  <2>1. \A i \in 1 .. Len(slug) : Underscored(slug[i]) = IF slug[i] = "-" THEN "_" ELSE slug[i]
    BY <1>0, Apart DEF Underscored
  <2>. QED
    BY <2>1, UnderscoredIs
<1>. HIDE DEF under
<1>3. under # <<>> /\ under[1] \in Letters /\ under[1] # "_" /\ under[Len(under)] # "_"
  <2>1. slug[1] # "-" /\ slug[1] # "_"
    BY <1>0, Apart
  <2>2. slug[Len(slug)] # "_" /\ 1 \in 1 .. Len(slug) /\ Len(slug) \in 1 .. Len(slug)
    <3>1. Len(slug) \in 1 .. Len(slug) /\ 1 \in 1 .. Len(slug)
      BY <1>0
    <3>2. slug[Len(slug)] \in Letters \cup Digits \cup {"-"}
      BY <1>0, <3>1
    <3>. QED
      BY <3>1, <3>2, Apart
  <2>3. under[1] = slug[1] /\ under[Len(under)] = slug[Len(slug)]
    BY <1>0, <1>2, <2>1, <2>2
  <2>4. under # <<>>
    <3>1. Len(under) # 0
      <4>1. Len(under) = Len(slug)
        BY <1>2
      <4>2. Len(slug) \in Nat /\ Len(slug) > 0
        BY <1>0
      <4>. QED
        BY <4>1, <4>2
    <3>2. Len(<<>>) = 0
      OBVIOUS
    <3>. QED
      BY <3>1, <3>2
  <2>. QED
    BY <1>0, <2>1, <2>2, <2>3, <2>4
<1>4. Strip(under, {"_"}) = under
  <2>1. PICK C : C = {"_"}
    OBVIOUS
  <2>. QED
    BY <1>2, <1>3, <2>1, StripIs
<1>5. under[1] \notin Digits
  BY <1>3, Apart
<1>6. ansible_group_name(slug) = under
  BY <1>1, <1>3, <1>4, <1>5 DEF ansible_group_name, under
<1>. QED
  BY <1>2, <1>6

\* Ordinary slugs of one name are one slug.
LEMMA OrdinaryApart ==
  ASSUME NEW slug \in Seq(SlugCharacters), NEW other \in Seq(SlugCharacters),
         Ordinary(slug), Ordinary(other),
         ansible_group_name(slug) = ansible_group_name(other)
  PROVE  slug = other
<1>1. Len(slug) = Len(other) /\ Len(slug) \in Nat
  <2>1. Len(ansible_group_name(slug)) = Len(slug)
    BY OrdinaryNameIs
  <2>2. Len(ansible_group_name(other)) = Len(other)
    BY OrdinaryNameIs
  <2>. QED
    BY <2>1, <2>2
<1>2. ASSUME NEW i \in 1 .. Len(slug) PROVE slug[i] = other[i]
  <2>1. slug[i] # "_" /\ other[i] # "_"
    <3>1. i \in DOMAIN slug /\ i \in DOMAIN other
      BY <1>1
    <3>. QED
      BY <3>1 DEF Ordinary
  <2>2. (IF slug[i] = "-" THEN "_" ELSE slug[i]) = (IF other[i] = "-" THEN "_" ELSE other[i])
    BY <1>1, OrdinaryNameIs
  <2>. QED
    BY <2>1, <2>2
<1>. QED
  BY <1>1, <1>2

----------------------------------------------------------------------------
(* Inventories *)

\* A prefix of two characters stands before a name that stays as it is.
LEMMA PrefixIs ==
  ASSUME NEW c \in Accepted, NEW d \in Accepted, NEW name \in Seq(Accepted)
  PROVE  LET group == <<c, d>> \o name
         IN  /\ group \in Seq(Accepted) /\ Len(group) = 2 + Len(name)
             /\ group[1] = c /\ group[2] = d
             /\ \A i \in 1 .. Len(name) : group[i + 2] = name[i]
<1>. HIDE DEF Accepted
<1>1. PICK pre : pre = <<c, d>>
  OBVIOUS
<1>2. pre \in Seq(Accepted) /\ Len(pre) = 2 /\ pre[1] = c /\ pre[2] = d
  BY <1>1
<1>3. /\ pre \o name \in Seq(Accepted) /\ Len(pre \o name) = Len(pre) + Len(name)
      /\ \A i \in 1 .. Len(pre) + Len(name) :
            (pre \o name)[i] = IF i <= Len(pre) THEN pre[i] ELSE name[i - Len(pre)]
  BY <1>2, ConcatProperties
<1>4. Len(name) \in Nat
  OBVIOUS
<1>5. 1 \in 1 .. 2 + Len(name) /\ 2 \in 1 .. 2 + Len(name)
  BY <1>4
<1>6. (pre \o name)[1] = c /\ (pre \o name)[2] = d
  BY <1>2, <1>3, <1>5
<1>7. ASSUME NEW i \in 1 .. Len(name) PROVE (pre \o name)[i + 2] = name[i]
  <2>1. i + 2 \in 1 .. Len(pre) + Len(name) /\ ~(i + 2 <= Len(pre)) /\ i + 2 - Len(pre) = i
    BY <1>2, <1>4
  <2>. QED
    BY <1>3, <2>1
<1>. QED
  BY <1>1, <1>2, <1>3, <1>6, <1>7

\* Names that are the same with the same prefix are the same.
LEMMA SamePrefix ==
  ASSUME NEW c \in Accepted, NEW d \in Accepted, NEW a \in Seq(Accepted), NEW b \in Seq(Accepted),
         <<c, d>> \o a = <<c, d>> \o b
  PROVE  a = b
<1>. HIDE DEF Accepted
<1>1. PICK s, t : s = <<c, d>> \o a /\ t = <<c, d>> \o b
  OBVIOUS
<1>2. Len(s) = 2 + Len(a) /\ \A i \in 1 .. Len(a) : s[i + 2] = a[i]
  BY <1>1, PrefixIs
<1>3. Len(t) = 2 + Len(b) /\ \A i \in 1 .. Len(b) : t[i + 2] = b[i]
  BY <1>1, PrefixIs
<1>4. s = t
  BY <1>1
<1>5. Len(a) = Len(b) /\ Len(a) \in Nat /\ Len(b) \in Nat
  BY <1>2, <1>3, <1>4
<1>6. \A i \in 1 .. Len(a) : a[i] = b[i]
  BY <1>2, <1>3, <1>4, <1>5
<1>. QED
  BY <1>5, <1>6

\* An environment is told from a client, and both are told from groups, by the prefix.
LEMMA PrefixesAre ==
  ASSUME NEW slug \in Seq(SlugCharacters)
  PROVE  /\ EnvironmentGroup(slug)[1] = "env" /\ Prefixed(EnvironmentGroup(slug))
         /\ ClientGroup(slug)[1] = "client" /\ Prefixed(ClientGroup(slug))
<1>1. "env" \in Accepted /\ "client" \in Accepted /\ "_" \in Accepted
  BY CharactersAreApart DEF Accepted
<1>2. PICK name \in Seq(Accepted) : name = ansible_group_name(slug)
  BY GroupNameIs
<1>3. \A c, d \in Accepted :
        /\ (<<c, d>> \o name)[1] = c /\ (<<c, d>> \o name)[2] = d
        /\ Len(<<c, d>> \o name) = 2 + Len(name)
  <2>. HIDE DEF Accepted
  <2>. QED
    BY PrefixIs
<1>4. PICK e, c, u \in Accepted : e = "env" /\ c = "client" /\ u = "_"
  BY <1>1
<1>5. \A d \in Accepted : Len(<<d, u>> \o name) > 1
  <2>1. Len(name) \in Nat
    BY <1>2
  <2>2. \A d \in Accepted : Len(<<d, u>> \o name) = 2 + Len(name)
    BY <1>3, Zenon
  <2>. HIDE DEF Accepted
  <2>. QED
    BY <2>1, <2>2
<1>6. EnvironmentGroup(slug) = <<e, u>> \o name /\ ClientGroup(slug) = <<c, u>> \o name
  BY <1>2, <1>4 DEF EnvironmentGroup, ClientGroup
<1>7. PICK group, other : group = EnvironmentGroup(slug) /\ other = ClientGroup(slug)
  OBVIOUS
<1>8. group = <<e, u>> \o name /\ other = <<c, u>> \o name
  BY <1>6, <1>7, Zenon
<1>9. /\ group[1] = "env" /\ group[2] = "_" /\ Len(group) > 1
      /\ other[1] = "client" /\ other[2] = "_" /\ Len(other) > 1
  BY <1>3, <1>4, <1>5, <1>8, Zenon
<1>10. Prefixed(group) /\ Prefixed(other)
  BY <1>9, Zenon DEF Prefixed
<1>. QED
  BY <1>7, <1>9, <1>10, Zenon

\* Environments of ordinary slugs are told from each other, and so are clients.
LEMMA SlugsApart ==
  ASSUME NEW slug \in Seq(SlugCharacters), NEW other \in Seq(SlugCharacters),
         Ordinary(slug), Ordinary(other),
         \/ EnvironmentGroup(slug) = EnvironmentGroup(other)
         \/ ClientGroup(slug) = ClientGroup(other)
  PROVE  slug = other
<1>1. PICK a \in Seq(Accepted) : a = ansible_group_name(slug)
  BY GroupNameIs
<1>2. PICK b \in Seq(Accepted) : b = ansible_group_name(other)
  BY GroupNameIs
<1>3. "env" \in Accepted /\ "client" \in Accepted /\ "_" \in Accepted
  BY CharactersAreApart DEF Accepted
<1>4. PICK e, c, u \in Accepted : e = "env" /\ c = "client" /\ u = "_"
  BY <1>3
<1>5. /\ EnvironmentGroup(slug) = <<e, u>> \o a /\ EnvironmentGroup(other) = <<e, u>> \o b
      /\ ClientGroup(slug) = <<c, u>> \o a /\ ClientGroup(other) = <<c, u>> \o b
  BY <1>1, <1>2, <1>4 DEF EnvironmentGroup, ClientGroup
<1>6. <<e, u>> \o a = <<e, u>> \o b \/ <<c, u>> \o a = <<c, u>> \o b
  BY <1>5, Zenon
<1>7. a = b
  <2>. HIDE DEF Accepted
  <2>. QED
    BY <1>6, SamePrefix
<1>. QED
  BY <1>1, <1>2, <1>7, OrdinaryApart

\* The graph shows who is selected, each under its groups.
LEMMA GraphIs ==
  ASSUME NEW fleet, NEW selected
  PROVE  LET shown == graph(build(fleet, selected))
         IN  /\ shown.ungrouped = {s \in selected : GroupsOf(fleet[s]) = {}}
             /\ DOMAIN shown.groups = UNION {GroupsOf(fleet[s]) : s \in selected}
             /\ \A g \in DOMAIN shown.groups :
                   shown.groups[g] = {t \in selected : g \in GroupsOf(fleet[t])}
<1> DEFINE G == UNION {GroupsOf(fleet[s]) : s \in selected}
           members == [g \in G |-> {s \in selected : g \in GroupsOf(fleet[s])}]
           loose == selected \ UNION {members[g] : g \in DOMAIN members}
<1>1. graph(build(fleet, selected)) = [groups |-> members, ungrouped |-> loose]
  BY DEF graph, build
<1>2. DOMAIN members = G /\ \A g \in G : members[g] = {t \in selected : g \in GroupsOf(fleet[t])}
  OBVIOUS
<1>3. \A s \in selected : \A g \in GroupsOf(fleet[s]) : g \in G /\ s \in members[g]
  OBVIOUS
<1>4. \A s \in loose : s \in selected /\ GroupsOf(fleet[s]) = {}
  BY <1>3
<1>5. \A s \in selected : GroupsOf(fleet[s]) = {} => s \in loose
  BY <1>2
<1>6. loose = {s \in selected : GroupsOf(fleet[s]) = {}}
  <2>. HIDE DEF loose
  <2>. QED
    BY <1>4, <1>5
<1>. QED
  <2>. HIDE DEF members, loose
  <2>. QED
    BY <1>1, <1>2, <1>6

\* Of servers apart, the group of an environment is that of the servers in it, and the
\* group of a client that of the client's.
LEMMA MembersAre ==
  ASSUME NEW server \in Server, NEW slug \in Seq(SlugCharacters), Ordinary(slug),
         \A g \in server.groups : ~Prefixed(GroupOf(g)),
         \A s \in server.environment \cup server.client : Ordinary(s)
  PROVE  /\ EnvironmentGroup(slug) \in GroupsOf(server) <=> server.environment = {slug}
         /\ ClientGroup(slug) \in GroupsOf(server) <=> server.client = {slug}
<1>1. /\ server.environment \subseteq Seq(SlugCharacters) /\ server.client \subseteq Seq(SlugCharacters)
      /\ \A a, b \in server.environment : a = b
      /\ \A a, b \in server.client : a = b
  BY DEF Server, OneOrNone
<1>2. PICK E, C, F : /\ E = {EnvironmentGroup(e) : e \in server.environment}
                    /\ C = {ClientGroup(c) : c \in server.client}
                    /\ F = {GroupOf(g) : g \in server.groups}
  OBVIOUS
<1>3. GroupsOf(server) = F \cup E \cup C
  BY <1>2, Zenon DEF GroupsOf
<1>4. EnvironmentGroup(slug) \notin F /\ ClientGroup(slug) \notin F
  <2>1. Prefixed(EnvironmentGroup(slug)) /\ Prefixed(ClientGroup(slug))
    BY PrefixesAre, Zenon
  <2>. QED
    BY <1>2, <2>1, Zenon
<1>5. \A s, o \in Seq(SlugCharacters) : EnvironmentGroup(s) # ClientGroup(o)
  <2>. SUFFICES ASSUME NEW s \in Seq(SlugCharacters), NEW o \in Seq(SlugCharacters)
                PROVE  EnvironmentGroup(s) # ClientGroup(o)
    OBVIOUS
  <2>1. EnvironmentGroup(s)[1] = "env" /\ ClientGroup(o)[1] = "client"
    BY PrefixesAre, Zenon
  <2>. QED
    BY <2>1
<1>6. EnvironmentGroup(slug) \notin C /\ ClientGroup(slug) \notin E
  BY <1>1, <1>2, <1>5, Zenon
<1>7. EnvironmentGroup(slug) \in E <=> slug \in server.environment
  BY <1>1, <1>2, SlugsApart, Zenon
<1>8. ClientGroup(slug) \in C <=> slug \in server.client
  BY <1>1, <1>2, SlugsApart, Zenon
<1>9. /\ slug \in server.environment <=> server.environment = {slug}
      /\ slug \in server.client <=> server.client = {slug}
  BY <1>1
<1>. QED
  BY <1>3, <1>4, <1>6, <1>7, <1>8, <1>9, Zenon

----------------------------------------------------------------------------
(* What is left of a value *)

\* Induction from n downwards.
LEMMA DownFrom ==
  ASSUME NEW n \in Nat, NEW P, n \in P, \A i \in 0 .. n : i < n /\ i + 1 \in P => i \in P
  PROVE  \A i \in 0 .. n : i \in P
<1> DEFINE T == {k \in 0 .. n : n - k \in P}
<1>1. 0 \in T
  OBVIOUS
<1>2. ASSUME NEW k \in 1 .. n, k - 1 \in T PROVE k \in T
  <2>1. n - k \in 0 .. n /\ n - k < n /\ (n - k) + 1 = n - (k - 1)
    OBVIOUS
  <2>2. n - (k - 1) \in P
    BY <1>2
  <2>. QED
    BY <2>1, <2>2
<1>3. \A k \in 0 .. n : k \in T
  <2>. HIDE DEF T
  <2>. QED
    BY <1>1, <1>2, UpTo
<1>4. ASSUME NEW i \in 0 .. n PROVE i \in P
  <2>1. n - i \in 0 .. n /\ n - (n - i) = i
    OBVIOUS
  <2>2. n - (n - i) \in P
    BY <1>3, <2>1
  <2>. QED
    BY <2>1, <2>2
<1>. QED
  BY <1>4

Scalars == {Scalar, REDACTED}
Nested(values, hidden) == Scalars \cup (Mappings(values, hidden) \cup Lists(values))

Nests(of, hidden, m) ==
    of = [depth \in 0 .. m |->
             Scalars \cup (IF depth = 0 THEN {}
                           ELSE Mappings(of[depth - 1], hidden) \cup Lists(of[depth - 1]))]

\* The values of one nesting are built from those of the one before.
LEMMA ValuesAre ==
  ASSUME NEW hidden
  PROVE  /\ ValuesOf(hidden)[0] = Scalars
         /\ \A m \in 1 .. MaxDepth : ValuesOf(hidden)[m] = Nested(ValuesOf(hidden)[m - 1], hidden)
<1> DEFINE P == {m \in 0 .. MaxDepth : \E of : Nests(of, hidden, m)}
           From(values, depth) ==
               Scalars \cup (IF depth = 0 THEN {}
                             ELSE Mappings(values, hidden) \cup Lists(values))
<1>0. MaxDepth \in Nat
  BY DepthsAreNumbers
<1>1. 0 \in P
  <2> DEFINE one == [depth \in 0 .. 0 |-> Scalars]
  <2>1. one = [depth \in 0 .. 0 |-> From(one[depth - 1], depth)]
    <3>1. \A depth \in 0 .. 0 : From(one[depth - 1], depth) = Scalars
      OBVIOUS
    <3>. HIDE DEF From
    <3>. QED
      BY <3>1
  <2>2. Nests(one, hidden, 0)
    <3>. HIDE DEF one
    <3>. QED
      BY <2>1 DEF Nests
  <2>. QED
    BY <2>2, <1>0
<1>2. ASSUME NEW m \in 1 .. MaxDepth, m - 1 \in P PROVE m \in P
  <2>0. m \in Nat /\ m > 0
    BY <1>0
  <2>1. PICK of : Nests(of, hidden, m - 1)
    BY <1>2
  <2>2. of = [depth \in 0 .. m - 1 |-> From(of[depth - 1], depth)]
    BY <2>1 DEF Nests
  <2> DEFINE more == [depth \in 0 .. m |-> IF depth < m THEN of[depth] ELSE From(of[m - 1], m)]
  <2>. HIDE DEF From
  <2>3. \A depth \in 0 .. m - 1 : more[depth] = of[depth]
    BY <2>0
  <2>4. more[m] = From(of[m - 1], m)
    BY <2>0
  <2>5. more = [depth \in 0 .. m |-> more[depth]]
    OBVIOUS
  <2>6. ASSUME NEW depth \in 0 .. m PROVE more[depth] = From(more[depth - 1], depth)
    <3>. HIDE DEF more
    <3>1. CASE depth = m
      <4>1. m - 1 \in 0 .. m - 1
        BY <2>0
      <4>. QED
        BY <3>1, <4>1, <2>3, <2>4
    <3>2. CASE depth < m /\ depth > 0
      <4>1. depth \in 0 .. m - 1 /\ depth - 1 \in 0 .. m - 1
        BY <2>0, <3>2
      <4>2. of[depth] = From(of[depth - 1], depth)
        BY <4>1, <2>2
      <4>. QED
        BY <4>1, <4>2, <2>3
    <3>3. CASE depth = 0
      <4>1. 0 \in 0 .. m - 1
        BY <2>0
      <4>2. of[0] = From(of[0 - 1], 0)
        BY <4>1, <2>2
      <4>3. From(of[0 - 1], 0) = From(more[0 - 1], 0)
        BY DEF From
      <4>. QED
        BY <4>1, <4>2, <4>3, <3>3, <2>3
    <3>. QED
      BY <3>1, <3>2, <3>3, <2>0
  <2>7. more = [depth \in 0 .. m |-> From(more[depth - 1], depth)]
    <3>. HIDE DEF more
    <3>. QED
      BY <2>5, <2>6
  <2>8. Nests(more, hidden, m)
    <3>. HIDE DEF more
    <3>. QED
      BY <2>7 DEF Nests, From
  <2>9. \E g : Nests(g, hidden, m)
    BY <2>8
  <2>. QED
    BY <2>9
<1>3. MaxDepth \in P
  <2>1. \A m \in 0 .. MaxDepth : m \in P
    <3>. HIDE DEF P
    <3>. QED
      BY <1>0, <1>1, <1>2, UpTo
  <2>. QED
    BY <2>1, <1>0
<1>4. PICK g : Nests(g, hidden, MaxDepth)
  BY <1>3
<1>5. PICK of : of = ValuesOf(hidden) /\ Nests(of, hidden, MaxDepth)
  <2>1. ValuesOf(hidden) = CHOOSE of : Nests(of, hidden, MaxDepth)
    BY DEF ValuesOf, Nests, Scalars
  <2>. QED
    BY <2>1, <1>4
<1>6. \A m \in 0 .. MaxDepth : of[m] = From(of[m - 1], m)
  BY <1>5 DEF Nests
<1>7. of[0] = Scalars
  <2>1. From(of[0 - 1], 0) = Scalars
    OBVIOUS
  <2>2. 0 \in 0 .. MaxDepth
    BY <1>0
  <2>. HIDE DEF From
  <2>. QED
    BY <1>6, <2>1, <2>2
<1>8. \A m \in 1 .. MaxDepth : of[m] = Nested(of[m - 1], hidden)
  <2> TAKE m \in 1 .. MaxDepth
  <2>1. m \in 0 .. MaxDepth /\ m # 0
    BY <1>0
  <2>2. From(of[m - 1], m) = Nested(of[m - 1], hidden)
    BY <2>1 DEF Nested
  <2>. HIDE DEF From
  <2>. QED
    BY <2>1, <2>2, <1>6
<1>. QED
  BY <1>5, <1>7, <1>8

\* A mapping or a sequence is what its entries make it.
LEMMA MappingIs ==
  ASSUME NEW hidden, NEW values, NEW K \in SUBSET Keys, NEW m \in [K -> values],
         \A key \in K \cap hidden : m[key] = REDACTED
  PROVE  [is |-> "mapping", at |-> m] \in Mappings(values, hidden)
BY DEF Mappings

LEMMA ListIs ==
  ASSUME NEW values, NEW n \in 0 .. MaxItems, NEW m \in [1 .. n -> values]
  PROVE  [is |-> "sequence", at |-> m] \in Lists(values)
BY DEF Lists

LEMMA IsMapping ==
  ASSUME NEW hidden, NEW values, NEW v \in Mappings(values, hidden)
  PROVE  /\ v.is = "mapping" /\ v = [is |-> "mapping", at |-> v.at]
         /\ DOMAIN v.at \in SUBSET Keys /\ v.at \in [DOMAIN v.at -> values]
         /\ \A key \in DOMAIN v.at \cap hidden : v.at[key] = REDACTED
BY DEF Mappings

LEMMA IsList ==
  ASSUME NEW values, NEW v \in Lists(values)
  PROVE  /\ v.is = "sequence" /\ v = [is |-> "sequence", at |-> v.at]
         /\ \E n \in 0 .. MaxItems : v.at \in [1 .. n -> values]
BY DEF Lists

\* More values make more values.
LEMMA NestedGrows ==
  ASSUME NEW hidden, NEW values, NEW more, values \subseteq more
  PROVE  Nested(values, hidden) \subseteq Nested(more, hidden)
<1>1. ASSUME NEW v \in Mappings(values, hidden) PROVE v \in Mappings(more, hidden)
  <2>1. PICK m, K : m = v.at /\ K = DOMAIN m
    OBVIOUS
  <2>2. /\ v = [is |-> "mapping", at |-> m] /\ K \in SUBSET Keys /\ m \in [K -> values]
        /\ \A key \in K \cap hidden : m[key] = REDACTED
    BY <2>1, IsMapping
  <2>3. m \in [K -> more]
    BY <2>2
  <2>4. [is |-> "mapping", at |-> m] \in Mappings(more, hidden)
    BY <2>2, <2>3, MappingIs
  <2>. QED
    BY <2>2, <2>4
<1>2. ASSUME NEW v \in Lists(values) PROVE v \in Lists(more)
  <2>1. PICK n \in 0 .. MaxItems : v.at \in [1 .. n -> values]
    BY IsList
  <2>2. v.at \in [1 .. n -> more]
    BY <2>1
  <2>3. [is |-> "sequence", at |-> v.at] \in Lists(more)
    BY <2>2, ListIs
  <2>. QED
    BY <2>3, IsList
<1>. QED
  BY <1>1, <1>2 DEF Nested

LEMMA ValuesGrow ==
  ASSUME NEW hidden, NEW m \in 0 .. MaxDepth
  PROVE  ValuesOf(hidden)[m] \subseteq ValuesOf(hidden)[MaxDepth]
<1> DEFINE of == ValuesOf(hidden)
           P == {k \in 0 .. MaxDepth : k = 0 \/ of[k - 1] \subseteq of[k]}
           Q == {k \in 0 .. MaxDepth : of[k] \subseteq of[MaxDepth]}
<1>0. MaxDepth \in Nat
  BY DepthsAreNumbers
<1>1. 0 \in P
  BY <1>0
<1>2. ASSUME NEW k \in 1 .. MaxDepth, k - 1 \in P PROVE k \in P
  <2>1. of[k] = Nested(of[k - 1], hidden)
    BY ValuesAre
  <2>2. CASE k = 1
    <3>1. of[0] \subseteq of[1]
      BY <2>1, <2>2, ValuesAre DEF Nested
    <3>. QED
      BY <3>1, <2>2, <1>0
  <2>3. CASE k # 1
    <3>1. k - 1 \in 1 .. MaxDepth /\ (k - 1) - 1 = k - 2 /\ k - 1 # 0
      BY <1>0, <2>3
    <3>2. of[k - 2] \subseteq of[k - 1]
      BY <3>1, <1>2
    <3>3. of[k - 1] = Nested(of[k - 2], hidden)
      BY <3>1, ValuesAre
    <3>4. Nested(of[k - 2], hidden) \subseteq Nested(of[k - 1], hidden)
      <4>. HIDE DEF of
      <4>. QED
        BY <3>2, NestedGrows
    <3>5. of[k - 1] \subseteq of[k]
      <4>. HIDE DEF of
      <4>. QED
        BY <3>3, <3>4, <2>1
    <3>. QED
      BY <3>5, <1>0
  <2>. QED
    BY <2>2, <2>3
<1>3. \A k \in 0 .. MaxDepth : k \in P
  <2>. HIDE DEF P
  <2>. QED
    BY <1>0, <1>1, <1>2, UpTo
<1>4. MaxDepth \in Q
  BY <1>0
<1>5. ASSUME NEW k \in 0 .. MaxDepth, k < MaxDepth, k + 1 \in Q PROVE k \in Q
  <2>1. k + 1 \in 0 .. MaxDepth /\ k + 1 # 0 /\ (k + 1) - 1 = k
    BY <1>0, <1>5
  <2>2. of[k] \subseteq of[k + 1]
    <3>1. k + 1 \in P
      <4>. HIDE DEF P
      <4>. QED
        BY <2>1, <1>3
    <3>. HIDE DEF of
    <3>. QED
      BY <3>1, <2>1
  <2>. HIDE DEF of
  <2>. QED
    BY <2>2, <1>5
<1>6. \A k \in 0 .. MaxDepth : k \in Q
  <2>. HIDE DEF Q
  <2>. QED
    BY <1>0, <1>4, <1>5, DownFrom
<1>. QED
  BY <1>6

\* What one call of sanitize makes of a value, when f is what the calls below it make.
Cleaned(f, depth, v) ==
    IF depth > MAX_DEPTH THEN REDACTED
    ELSE IF v.is = "mapping"
    THEN [is |-> v.is, at |-> [key \in DOMAIN v.at |->
             IF key \in Sensitive THEN REDACTED ELSE f[v.at[key]]]]
    ELSE IF v.is = "sequence"
    THEN [is |-> v.is, at |-> [i \in DOMAIN v.at |-> f[v.at[i]]]]
    ELSE v

Cleans(clean) ==
    clean = [depth \in 0 .. MAX_DEPTH + 1 |-> [v \in Value |-> Cleaned(clean[depth + 1], depth, v)]]

LEMMA ScalarsAreValues ==
  ASSUME NEW hidden, NEW m \in 0 .. MaxDepth
  PROVE  Scalars \subseteq ValuesOf(hidden)[m]
<1>1. CASE m = 0
  BY <1>1, ValuesAre
<1>2. CASE m # 0
  <2>1. m \in 1 .. MaxDepth
    BY <1>2, DepthsAreNumbers
  <2>. QED
    BY <2>1, ValuesAre DEF Nested
<1>. QED
  BY <1>1, <1>2

\* A value of some nesting is a scalar, or a mapping or a sequence of lesser ones.
LEMMA ValueIs ==
  ASSUME NEW m \in 0 .. MaxDepth, NEW v \in ValuesOf({})[m]
  PROVE  /\ v \in Value
         /\ \/ v \in Scalars
            \/ m \in 1 .. MaxDepth /\ v \in Mappings(ValuesOf({})[m - 1], {})
            \/ m \in 1 .. MaxDepth /\ v \in Lists(ValuesOf({})[m - 1])
<1>1. v \in Value
  BY ValuesGrow DEF Value
<1>2. CASE m = 0
  BY <1>1, <1>2, ValuesAre
<1>3. CASE m # 0
  <2>1. m \in 1 .. MaxDepth
    BY <1>3, DepthsAreNumbers
  <2>. QED
    BY <1>1, <2>1, ValuesAre DEF Nested
<1>. QED
  BY <1>2, <1>3

\* What is left of a value is a value of the same nesting, without what is hidden.
LEMMA CleanedIs ==
  ASSUME NEW hidden, hidden \subseteq Sensitive,
         NEW m \in 0 .. MaxDepth, NEW v \in ValuesOf({})[m], NEW f, NEW depth,
         m > 0 => \A u \in ValuesOf({})[m - 1] : f[u] \in ValuesOf(hidden)[m - 1]
  PROVE  Cleaned(f, depth, v) \in ValuesOf(hidden)[m]
<1>0. Scalars \subseteq ValuesOf(hidden)[m] /\ REDACTED \in ValuesOf(hidden)[m]
  BY ScalarsAreValues DEF Scalars
<1>1. CASE depth > MAX_DEPTH
  BY <1>0, <1>1 DEF Cleaned
<1>2. CASE ~(depth > MAX_DEPTH) /\ v \in Scalars
  <2>1. v.is # "mapping" /\ v.is # "sequence"
    BY <1>2 DEF Scalars, Scalar, REDACTED
  <2>. QED
    BY <1>0, <1>2, <2>1 DEF Cleaned
<1>3. CASE ~(depth > MAX_DEPTH) /\ m \in 1 .. MaxDepth /\ v \in Mappings(ValuesOf({})[m - 1], {})
  <2>1. PICK below, at, K : /\ below = ValuesOf({})[m - 1] /\ at = v.at /\ K = DOMAIN at
    OBVIOUS
  <2>2. PICK left : left = ValuesOf(hidden)[m - 1]
    OBVIOUS
  <2>3. v.is = "mapping" /\ K \in SUBSET Keys /\ at \in [K -> below]
    BY <1>3, <2>1, IsMapping
  <2>4. REDACTED \in left
    <3>1. m - 1 \in 0 .. MaxDepth
      BY <1>3, DepthsAreNumbers
    <3>. QED
      BY <2>2, <3>1, ScalarsAreValues DEF Scalars
  <2>5. \A u \in below : f[u] \in left
    BY <1>3, <2>1, <2>2
  <2>6. PICK new : new = [key \in K |-> IF key \in Sensitive THEN REDACTED ELSE f[at[key]]]
    OBVIOUS
  <2>7. new \in [K -> left] /\ \A key \in K \cap hidden : new[key] = REDACTED
    BY <2>3, <2>4, <2>5, <2>6
  <2>8. [is |-> "mapping", at |-> new] \in Mappings(left, hidden)
    BY <2>3, <2>7, MappingIs
  <2>9. Cleaned(f, depth, v) = [is |-> "mapping", at |-> new]
    BY <1>3, <2>1, <2>3, <2>6 DEF Cleaned
  <2>10. ValuesOf(hidden)[m] = Nested(left, hidden)
    BY <1>3, <2>2, ValuesAre
  <2>. QED
    BY <2>8, <2>9, <2>10 DEF Nested
<1>4. CASE ~(depth > MAX_DEPTH) /\ m \in 1 .. MaxDepth /\ v \in Lists(ValuesOf({})[m - 1])
  <2>1. PICK below, at : below = ValuesOf({})[m - 1] /\ at = v.at
    OBVIOUS
  <2>2. PICK left : left = ValuesOf(hidden)[m - 1]
    OBVIOUS
  <2>3. v.is = "sequence" /\ \E n \in 0 .. MaxItems : at \in [1 .. n -> below]
    BY <1>4, <2>1, IsList
  <2>4. PICK n \in 0 .. MaxItems : at \in [1 .. n -> below]
    BY <2>3
  <2>5. \A u \in below : f[u] \in left
    BY <1>4, <2>1, <2>2
  <2>6. PICK new : new = [i \in DOMAIN at |-> f[at[i]]]
    OBVIOUS
  <2>7. new \in [1 .. n -> left]
    BY <2>4, <2>5, <2>6
  <2>8. [is |-> "sequence", at |-> new] \in Lists(left)
    BY <2>7, ListIs
  <2>9. Cleaned(f, depth, v) = [is |-> "sequence", at |-> new]
    BY <1>4, <2>1, <2>3, <2>6 DEF Cleaned
  <2>10. ValuesOf(hidden)[m] = Nested(left, hidden)
    BY <1>4, <2>2, ValuesAre
  <2>. QED
    BY <2>8, <2>9, <2>10 DEF Nested
<1>. QED
  BY <1>1, <1>2, <1>3, <1>4, ValueIs

\* The recursion of sanitize has a solution.
LEMMA SanitizeIs ==
  \E clean : Cleans(clean) /\ \A v : sanitize(v, 0) = clean[0][v]
<1> DEFINE n == MAX_DEPTH + 1
           Within(f) == \A m \in 0 .. MaxDepth : \A v \in ValuesOf({})[m] : f[v] \in ValuesOf({})[m]
           A == {f \in [Value -> Value] : Within(f)}
           a == [v \in Value |-> REDACTED]
           G(f, i) == [v \in Value |-> Cleaned(f, n - i, v)]
           F == [i \in 1 .. n |-> [f \in A |-> G(f, i)]]
<1>0. n \in Nat /\ MAX_DEPTH \in Nat /\ MaxDepth \in Nat
  BY DepthsAreNumbers
<1>1. ASSUME NEW m \in 0 .. MaxDepth PROVE REDACTED \in ValuesOf({})[m]
  BY ScalarsAreValues DEF Scalars
<1>2. \A m \in 0 .. MaxDepth : \A v \in ValuesOf({})[m] : v \in Value
  BY ValueIs
<1>3. \A v \in Value : v \in ValuesOf({})[MaxDepth]
  BY DEF Value
<1>4. a \in A
  <2>1. REDACTED \in Value
    BY <1>0, <1>1, <1>2
  <2>2. a \in [Value -> Value]
    BY <2>1
  <2>3. Within(a)
    BY <1>1, <1>2
  <2>. QED
    BY <2>2, <2>3
<1>5. ASSUME NEW f \in A, NEW i \in 1 .. n PROVE G(f, i) \in A
  <2>1. ASSUME NEW m \in 0 .. MaxDepth, NEW v \in ValuesOf({})[m]
        PROVE  Cleaned(f, n - i, v) \in ValuesOf({})[m]
    <3>1. m > 0 => m - 1 \in 0 .. MaxDepth
      BY <1>0
    <3>2. m > 0 => \A u \in ValuesOf({})[m - 1] : f[u] \in ValuesOf({})[m - 1]
      BY <3>1
    <3>3. {} \subseteq Sensitive
      OBVIOUS
    <3>. QED
      BY <3>2, <3>3, CleanedIs
  <2>2. \A v \in Value : Cleaned(f, n - i, v) \in Value
    BY <1>0, <1>2, <1>3, <2>1
  <2>3. G(f, i) \in [Value -> Value]
    BY <2>2
  <2>4. Within(G(f, i))
    BY <1>2, <2>1
  <2>. QED
    BY <2>3, <2>4
<1>6. F \in [1 .. n -> [A -> A]]
  <2>. HIDE DEF G, A, n
  <2>. QED
    BY <1>5
<1>7. PICK g \in [0 .. n -> A] : Solves(g, n, a, F)
  <2>. HIDE DEF F, A, n, a
  <2>. QED
    BY <1>0, <1>4, <1>6, Recursion
<1>8. g[0] = a /\ \A i \in 1 .. n : i - 1 \in 0 .. n /\ g[i] = G(g[i - 1], i)
  <2>. HIDE DEF G, A, n, a
  <2>1. \A i \in 1 .. n : \A f \in A : F[i][f] = G(f, i)
    OBVIOUS
  <2>. HIDE DEF F
  <2>. QED
    BY <1>0, <1>7, <2>1 DEF Solves
<1> DEFINE h == [depth \in 0 .. n |-> g[n - depth]]
           E(depth) == [v \in Value |-> Cleaned(h[depth + 1], depth, v)]
<1>9. ASSUME NEW depth \in 0 .. n PROVE h[depth] = E(depth)
  <2>1. CASE depth = n
    <3>1. h[depth] = a
      BY <1>0, <1>8, <2>1
    <3>2. \A v \in Value : Cleaned(h[depth + 1], depth, v) = REDACTED
      BY <1>0, <2>1 DEF Cleaned
    <3>. HIDE DEF h
    <3>. QED
      BY <3>1, <3>2
  <2>2. CASE depth < n
    <3>1. n - depth \in 1 .. n /\ depth + 1 \in 0 .. n /\ n - (n - depth) = depth
          /\ (n - depth) - 1 = n - (depth + 1)
      BY <1>0, <2>2
    <3>2. h[depth] = g[n - depth] /\ h[depth + 1] = g[(n - depth) - 1]
      BY <3>1
    <3>3. g[n - depth] = G(g[(n - depth) - 1], n - depth)
      <4>. HIDE DEF G, n
      <4>. QED
        BY <3>1, <1>8
    <3>. HIDE DEF h, n
    <3>. QED
      BY <3>1, <3>2, <3>3
  <2>. QED
    BY <2>1, <2>2, <1>0
<1>10. h = [depth \in 0 .. n |-> E(depth)]
  <2>1. h = [depth \in 0 .. n |-> h[depth]]
    OBVIOUS
  <2>. HIDE DEF h, E
  <2>. QED
    BY <1>9, <2>1
<1>11. Cleans(h)
  <2>. HIDE DEF h
  <2>. QED
    BY <1>10 DEF Cleans
<1>12. PICK clean : clean = CHOOSE k : Cleans(k)
  OBVIOUS
<1>13. Cleans(clean)
  <2>. HIDE DEF h
  <2>. QED
    BY <1>11, <1>12
<1>14. \A v : sanitize(v, 0) = (CHOOSE k : Cleans(k))[0][v]
  BY DEF sanitize, Cleans, Cleaned
<1>. QED
  BY <1>12, <1>13, <1>14

\* One call of sanitize after the other.
LEMMA CallIs ==
  ASSUME NEW clean, Cleans(clean), NEW depth \in 0 .. MAX_DEPTH + 1, NEW v \in Value
  PROVE  clean[depth][v] = Cleaned(clean[depth + 1], depth, v)
<1> DEFINE E(d) == [u \in Value |-> Cleaned(clean[d + 1], d, u)]
<1>1. clean = [d \in 0 .. MAX_DEPTH + 1 |-> E(d)]
  BY DEF Cleans
<1>2. clean[depth] = E(depth)
  <2>. HIDE DEF E
  <2>. QED
    BY <1>1
<1>3. E(depth)[v] = Cleaned(clean[depth + 1], depth, v)
  OBVIOUS
<1>. QED
  <2>. HIDE DEF E
  <2>. QED
    BY <1>2, <1>3

\* Of a value of some nesting is left one of that nesting, and a harmless one.
LEMMA LeftIs ==
  ASSUME NEW hidden, hidden \subseteq Sensitive, NEW clean, Cleans(clean),
         NEW m \in 0 .. MaxDepth, NEW v \in ValuesOf({})[m], NEW depth \in 0 .. MAX_DEPTH + 1
  PROVE  clean[depth][v] \in ValuesOf(hidden)[m]
<1> DEFINE n == MAX_DEPTH + 1
           Keeps(d) == \A k \in 0 .. MaxDepth : \A u \in ValuesOf({})[k] :
                          clean[d][u] \in ValuesOf(hidden)[k]
           P == {d \in 0 .. n : Keeps(d)}
<1>0. n \in Nat /\ MAX_DEPTH \in Nat /\ MaxDepth \in Nat
  BY DepthsAreNumbers
<1>1. \A d \in 0 .. n : \A u \in Value : clean[d][u] = Cleaned(clean[d + 1], d, u)
  BY CallIs
<1>2. n \in P
  <2>1. ASSUME NEW k \in 0 .. MaxDepth, NEW u \in ValuesOf({})[k]
        PROVE  clean[n][u] \in ValuesOf(hidden)[k]
    <3>1. clean[n][u] = REDACTED
      <4>1. u \in Value /\ n \in 0 .. n /\ n > MAX_DEPTH
        BY <1>0, ValueIs
      <4>. QED
        BY <1>1, <4>1 DEF Cleaned
    <3>. QED
      BY <3>1, ScalarsAreValues DEF Scalars
  <2>. QED
    BY <2>1, <1>0
<1>3. ASSUME NEW d \in 0 .. n, d < n, d + 1 \in P PROVE d \in P
  <2>1. ASSUME NEW k \in 0 .. MaxDepth, NEW u \in ValuesOf({})[k]
        PROVE  clean[d][u] \in ValuesOf(hidden)[k]
    <3>1. k > 0 => k - 1 \in 0 .. MaxDepth
      BY <1>0
    <3>2. k > 0 => \A w \in ValuesOf({})[k - 1] : clean[d + 1][w] \in ValuesOf(hidden)[k - 1]
      BY <1>3, <3>1
    <3>3. Cleaned(clean[d + 1], d, u) \in ValuesOf(hidden)[k]
      BY <3>2, CleanedIs
    <3>. QED
      BY <1>1, <3>3, ValueIs
  <2>. QED
    BY <2>1
<1>4. \A d \in 0 .. n : d \in P
  <2>. HIDE DEF P, n
  <2>. QED
    BY <1>0, <1>2, <1>3, DownFrom
<1>. QED
  BY <1>4

\* The entries of a value are values.
LEMMA EntriesAre ==
  ASSUME NEW v \in Value
  PROVE  /\ v \in Scalars \/ v.is \in {"mapping", "sequence"}
         /\ v.is \in {"mapping", "sequence"} =>
              v = [is |-> v.is, at |-> v.at] /\ \A key \in DOMAIN v.at : v.at[key] \in Value
<1>0. MaxDepth \in Nat /\ MaxDepth \in 0 .. MaxDepth
  BY DepthsAreNumbers
<1>1. \/ v \in Scalars
      \/ MaxDepth \in 1 .. MaxDepth /\ v \in Mappings(ValuesOf({})[MaxDepth - 1], {})
      \/ MaxDepth \in 1 .. MaxDepth /\ v \in Lists(ValuesOf({})[MaxDepth - 1])
  BY <1>0, ValueIs DEF Value
<1>2. PICK below : below = ValuesOf({})[MaxDepth - 1]
  OBVIOUS
<1>3. MaxDepth \in 1 .. MaxDepth => below \subseteq Value
  <2>1. MaxDepth \in 1 .. MaxDepth => MaxDepth - 1 \in 0 .. MaxDepth
    BY <1>0
  <2>. QED
    BY <1>2, <2>1, ValuesGrow DEF Value
<1>4. CASE v \in Scalars
  BY <1>4 DEF Scalars, Scalar, REDACTED
<1>5. CASE MaxDepth \in 1 .. MaxDepth /\ v \in Mappings(below, {})
  <2>1. /\ v.is = "mapping" /\ v = [is |-> "mapping", at |-> v.at]
        /\ v.at \in [DOMAIN v.at -> below]
    BY <1>5, IsMapping
  <2>. QED
    BY <2>1, <1>3, <1>5
<1>6. CASE MaxDepth \in 1 .. MaxDepth /\ v \in Lists(below)
  <2>1. /\ v.is = "sequence" /\ v = [is |-> "sequence", at |-> v.at]
        /\ \E n \in 0 .. MaxItems : v.at \in [1 .. n -> below]
    BY <1>6, IsList
  <2>2. \A key \in DOMAIN v.at : v.at[key] \in below
    BY <2>1
  <2>. QED
    BY <2>1, <2>2, <1>3, <1>6
<1>. QED
  BY <1>1, <1>2, <1>4, <1>5, <1>6

\* What is left is a value; and of what is left, all is left.
LEMMA LeftStays ==
  ASSUME NEW clean, Cleans(clean), NEW v \in Value, NEW depth \in 0 .. MAX_DEPTH + 1
  PROVE  clean[depth][v] \in Value /\ clean[depth][clean[depth][v]] = clean[depth][v]
<1> DEFINE n == MAX_DEPTH + 1
           P == {d \in 0 .. n : \A u \in Value : clean[d][clean[d][u]] = clean[d][u]}
<1>0. n \in Nat /\ MAX_DEPTH \in Nat /\ MaxDepth \in Nat
  BY DepthsAreNumbers
<1>1. \A d \in 0 .. n : \A u \in Value : clean[d][u] = Cleaned(clean[d + 1], d, u)
  BY CallIs
<1>2. ASSUME NEW d \in 0 .. n, NEW u \in Value PROVE clean[d][u] \in Value
  <2>1. {} \subseteq Sensitive /\ MaxDepth \in 0 .. MaxDepth /\ u \in ValuesOf({})[MaxDepth]
    BY <1>0 DEF Value
  <2>2. clean[d][u] \in ValuesOf({})[MaxDepth]
    BY <2>1, LeftIs
  <2>. QED
    BY <2>2 DEF Value
<1>3. n \in P
  <2>1. \A u \in Value : clean[n][u] = REDACTED
    <3>1. n \in 0 .. n /\ n > MAX_DEPTH
      BY <1>0
    <3>. HIDE DEF n
    <3>. QED
      BY <1>1, <3>1 DEF Cleaned
  <2>. QED
    BY <2>1, <1>2, <1>0
<1>4. ASSUME NEW d \in 0 .. n, d < n, d + 1 \in P PROVE d \in P
  <2> DEFINE f == clean[d + 1]
  <2>0. ~(d > MAX_DEPTH) /\ d + 1 \in 0 .. n
    BY <1>0, <1>4
  <2>1. \A u \in Value : f[f[u]] = f[u]
    BY <1>4
  <2>2. ASSUME NEW u \in Value PROVE clean[d][clean[d][u]] = clean[d][u]
    <3> DEFINE w == clean[d][u]
    <3>1. w = Cleaned(f, d, u) /\ clean[d][w] = Cleaned(f, d, w)
      BY <1>1, <1>2
    <3>2. CASE u.is = "mapping"
      <4> DEFINE old == u.at
                 new == [key \in DOMAIN old |-> IF key \in Sensitive THEN REDACTED ELSE f[old[key]]]
                 again == [key \in DOMAIN new |-> IF key \in Sensitive THEN REDACTED ELSE f[new[key]]]
      <4>1. w = [is |-> "mapping", at |-> new]
        BY <2>0, <3>1, <3>2 DEF Cleaned
      <4>2. clean[d][w] = [is |-> "mapping", at |-> again]
        <5>1. w.is = "mapping" /\ w.at = new
          BY <4>1
        <5>. HIDE DEF w, new, f
        <5>. QED
          BY <2>0, <3>1, <5>1 DEF Cleaned
      <4>3. \A key \in DOMAIN old : old[key] \in Value
        BY <3>2, EntriesAre
      <4>4. again = new
        <5>. HIDE DEF f, old
        <5>. QED
          BY <2>1, <4>3
      <4>. HIDE DEF w, new, again
      <4>. QED
        BY <4>1, <4>2, <4>4 DEF w
    <3>3. CASE u.is = "sequence"
      <4> DEFINE old == u.at
                 new == [i \in DOMAIN old |-> f[old[i]]]
                 again == [i \in DOMAIN new |-> f[new[i]]]
      <4>1. w = [is |-> "sequence", at |-> new]
        BY <2>0, <3>1, <3>3 DEF Cleaned
      <4>2. clean[d][w] = [is |-> "sequence", at |-> again]
        <5>1. w.is = "sequence" /\ w.at = new
          BY <4>1
        <5>. HIDE DEF w, new, f
        <5>. QED
          BY <2>0, <3>1, <5>1 DEF Cleaned
      <4>3. \A i \in DOMAIN old : old[i] \in Value
        BY <3>3, EntriesAre
      <4>4. again = new
        <5>. HIDE DEF f, old
        <5>. QED
          BY <2>1, <4>3
      <4>. HIDE DEF w, new, again
      <4>. QED
        BY <4>1, <4>2, <4>4 DEF w
    <3>4. CASE u.is # "mapping" /\ u.is # "sequence"
      BY <2>0, <3>1, <3>4 DEF Cleaned
    <3>. QED
      BY <3>2, <3>3, <3>4
  <2>. QED
    BY <2>2
<1>5. \A d \in 0 .. n : d \in P
  <2>. HIDE DEF P, n
  <2>. QED
    BY <1>0, <1>3, <1>4, DownFrom
<1>. QED
  BY <1>2, <1>5

\* Sensitive entries apart, and values too deep, what is left is what was there.
LEMMA LeftIsAlike ==
  ASSUME NEW clean, Cleans(clean), NEW v \in Value
  PROVE  OnlyRedacted(v, clean[0][v])
<1> DEFINE n == MAX_DEPTH + 1
           A == SUBSET (Value \X Value)
           a == Value \X {REDACTED}
           G(S) == {p \in Value \X Value : Alike(p[1], p[2], S)}
           F == [i \in 1 .. n |-> [S \in A |-> G(S)]]
           Eq(r) == r = [levels \in 0 .. n |-> IF levels = 0 THEN a ELSE G(r[levels - 1])]
           of == CHOOSE r : Eq(r)
<1>0. n \in Nat /\ MAX_DEPTH \in Nat /\ MaxDepth \in Nat
  BY DepthsAreNumbers
<1>1. REDACTED \in Value
  <2>1. MaxDepth \in 0 .. MaxDepth
    BY <1>0
  <2>. QED
    BY <2>1, ScalarsAreValues DEF Scalars, Value
<1>2. a \in A /\ \A S \in A : G(S) \in A
  BY <1>1
<1>3. F \in [1 .. n -> [A -> A]]
  <2>. HIDE DEF A, G, n
  <2>. QED
    BY <1>2
<1>4. PICK g \in [0 .. n -> A] : Solves(g, n, a, F)
  <2>. HIDE DEF F, A, n, a
  <2>. QED
    BY <1>0, <1>2, <1>3, Recursion
<1>5. g[0] = a /\ \A i \in 1 .. n : i - 1 \in 0 .. n /\ g[i] = G(g[i - 1])
  <2>. HIDE DEF G, A, n, a
  <2>1. \A i \in 1 .. n : \A S \in A : F[i][S] = G(S)
    OBVIOUS
  <2>. HIDE DEF F
  <2>. QED
    BY <1>0, <1>4, <2>1 DEF Solves
<1>6. Eq(g)
  <2>1. g = [i \in 0 .. n |-> g[i]]
    OBVIOUS
  <2>2. \A i \in 0 .. n : g[i] = IF i = 0 THEN a ELSE G(g[i - 1])
    <3>. HIDE DEF G, A, a
    <3>. QED
      BY <1>0, <1>5
  <2>. QED
    BY <2>1, <2>2
<1>7. Eq(of)
  BY <1>6
<1>8. \A u, w : OnlyRedacted(u, w) <=> <<u, w>> \in of[n]
  BY DEF OnlyRedacted
<1>. HIDE DEF of
<1>9. of[0] = a /\ \A i \in 1 .. n : of[i] = G(of[i - 1])
  <2>. HIDE DEF G, a, n
  <2>. QED
    BY <1>0, <1>7
<1>10. \A d \in 0 .. n : \A u \in Value : clean[d][u] = Cleaned(clean[d + 1], d, u)
  BY CallIs
<1> DEFINE P == {d \in 0 .. n : \A u \in Value : <<u, clean[d][u]>> \in of[n - d]}
<1>11. n \in P
  <2>1. \A u \in Value : clean[n][u] = REDACTED
    <3>1. n \in 0 .. n /\ n > MAX_DEPTH
      BY <1>0
    <3>. HIDE DEF n
    <3>. QED
      BY <1>10, <3>1 DEF Cleaned
  <2>2. \A u \in Value : <<u, clean[n][u]>> \in a
    BY <2>1
  <2>3. n - n = 0 /\ n \in 0 .. n
    BY <1>0
  <2>. QED
    BY <2>2, <2>3, <1>9
<1>12. ASSUME NEW d \in 0 .. n, d < n, d + 1 \in P PROVE d \in P
  <2> DEFINE f == clean[d + 1]
             S == of[n - (d + 1)]
  <2>0. /\ ~(d > MAX_DEPTH) /\ d + 1 \in 0 .. n /\ n - d \in 1 .. n
        /\ (n - d) - 1 = n - (d + 1)
    BY <1>0, <1>12
  <2>1. \A u \in Value : <<u, f[u]>> \in S
    BY <1>12
  <2>2. ASSUME NEW u \in Value PROVE Alike(u, clean[d][u], S)
    <3>1. clean[d][u] = Cleaned(f, d, u)
      BY <1>10
    <3>2. CASE u.is = "mapping"
      <4>1. PICK old, new : /\ old = u.at
                            /\ new = [key \in DOMAIN old |->
                                         IF key \in Sensitive THEN REDACTED ELSE f[old[key]]]
        OBVIOUS
      <4>2. clean[d][u] = [is |-> "mapping", at |-> new]
        BY <2>0, <3>1, <3>2, <4>1 DEF Cleaned
      <4>3. \A key \in DOMAIN old : old[key] \in Value
        BY <3>2, <4>1, EntriesAre
      <4>4. DOMAIN new = DOMAIN old
            /\ \A key \in DOMAIN old : key \in Sensitive \/ <<old[key], new[key]>> \in S
        <5>. HIDE DEF f, S
        <5>. QED
          BY <2>1, <4>1, <4>3
      <4>5. clean[d][u].is = "mapping" /\ clean[d][u].at = new
        BY <4>2
      <4>. HIDE DEF S
      <4>. QED
        BY <3>2, <4>1, <4>4, <4>5 DEF Alike
    <3>3. CASE u.is = "sequence"
      <4>1. PICK old, new : old = u.at /\ new = [i \in DOMAIN old |-> f[old[i]]]
        OBVIOUS
      <4>2. clean[d][u] = [is |-> "sequence", at |-> new]
        BY <2>0, <3>1, <3>3, <4>1 DEF Cleaned
      <4>3. \A i \in DOMAIN old : old[i] \in Value
        BY <3>3, <4>1, EntriesAre
      <4>4. DOMAIN new = DOMAIN old /\ \A i \in DOMAIN old : <<old[i], new[i]>> \in S
        <5>. HIDE DEF f, S
        <5>. QED
          BY <2>1, <4>1, <4>3
      <4>5. clean[d][u].is = "sequence" /\ clean[d][u].at = new
        BY <4>2
      <4>. HIDE DEF S
      <4>. QED
        BY <3>3, <4>1, <4>4, <4>5 DEF Alike
    <3>4. CASE u.is # "mapping" /\ u.is # "sequence"
      <4>1. clean[d][u] = u
        BY <2>0, <3>1, <3>4 DEF Cleaned
      <4>. HIDE DEF S
      <4>. QED
        BY <3>4, <4>1 DEF Alike
    <3>. QED
      BY <3>2, <3>3, <3>4
  <2>3. \A u \in Value : <<u, clean[d][u]>> \in G(S)
    <3>1. \A u \in Value : clean[d][u] \in Value
      BY LeftStays
    <3>. HIDE DEF S
    <3>. QED
      BY <2>2, <3>1
  <2>4. of[n - d] = G(S)
    <3>. HIDE DEF G
    <3>. QED
      BY <1>9, <2>0
  <2>. HIDE DEF G, S
  <2>. QED
    BY <2>3, <2>4
<1>13. 0 \in P
  <2>1. \A d \in 0 .. n : d \in P
    <3>. HIDE DEF P, n
    <3>. QED
      BY <1>0, <1>11, <1>12, DownFrom
  <2>. QED
    BY <2>1, <1>0
<1>14. <<v, clean[0][v]>> \in of[n - 0]
  BY <1>13
<1>15. n - 0 = n
  BY <1>0
<1>. QED
  BY <1>8, <1>14, <1>15

----------------------------------------------------------------------------
(* Questions and answers *)

OrdinarySlugs == {s \in {Slug(name) : name \in Names} : Ordinary(s)}

Asked ==
    /\ question[1] = "group" => Of \in Names
    /\ question[1] = "groups" => Of[1] \in OrdinarySlugs /\ Of[2] \in OrdinarySlugs
    /\ question[1] = "inventory" =>
          /\ Of[1] \in Fleets /\ Of[4] \in BOOLEAN
          /\ Of[2] \in OneOrNone /\ Of[3] \in OneOrNone
    /\ question[1] = "event" => Of \in Value
    /\ question[1] = "file" => Of \in Seq(Line)

Given ==
    answer # <<>> =>
        /\ question[1] = "group" => answer[1] = GroupOf(Of)
        /\ question[1] = "groups" =>
              answer[1] = <<ansible_group_name(Of[1]), ansible_group_name(Of[2])>>
        /\ question[1] = "inventory" =>
              answer[1] = build(Of[1], servers_for(Of[1], Of[2], Of[3], Of[4]))
        /\ question[1] = "event" => answer[1] = sanitize(Of, 0)
        /\ question[1] = "file" => answer[1] = Parse(Of)

LEMMA QuestionIs ==
  ASSUME NEW what, NEW of, Ask(what, of)
  PROVE  question[1] = what /\ Of = of
BY DEF Ask, Of

LEMMA AnswerIs ==
  ASSUME NEW what, NEW result, Say(what, result)
  PROVE  question[1] = what /\ question' = question /\ answer'[1] = result
BY DEF Say

\* Only what can be asked is asked, and the answer given is that of the function asked.
THEOREM AnswersAreGiven == Spec => [](Asked /\ Given)
<1>1. Init => Asked /\ Given
  <2>. SUFFICES ASSUME Init PROVE Asked /\ Given
    OBVIOUS
  <2>1. Given
    BY DEF Init, Given
  <2>2. ASSUME NEW name \in Names, Ask("group", name) PROVE Asked
    <3>1. question[1] = "group" /\ Of = name
      BY <2>2, QuestionIs
    <3>. QED
      BY <3>1 DEF Asked
  <2>3. ASSUME NEW slug \in OrdinarySlugs, NEW other \in OrdinarySlugs,
               Ask("groups", <<slug, other>>)
        PROVE  Asked
    <3>1. question[1] = "groups" /\ Of = <<slug, other>>
      BY <2>3, QuestionIs
    <3>2. Of[1] = slug /\ Of[2] = other
      BY <3>1
    <3>. QED
      BY <3>1, <3>2 DEF Asked
  <2>4. ASSUME NEW fleet \in Fleets,
               NEW environment \in {{}} \cup {fleet[s].environment : s \in DOMAIN fleet},
               NEW client \in {{}} \cup {fleet[s].client : s \in DOMAIN fleet},
               NEW include_inactive \in BOOLEAN,
               Ask("inventory", <<fleet, environment, client, include_inactive>>)
        PROVE  Asked
    <3>1. question[1] = "inventory" /\ Of = <<fleet, environment, client, include_inactive>>
      BY <2>4, QuestionIs
    <3>2. {} \in OneOrNone /\ \A s \in DOMAIN fleet : /\ fleet[s].environment \in OneOrNone
                                                     /\ fleet[s].client \in OneOrNone
      BY FleetsAreServers DEF Server, OneOrNone
    <3>3. environment \in OneOrNone /\ client \in OneOrNone
      BY <3>2
    <3>4. Of[1] = fleet /\ Of[2] = environment /\ Of[3] = client /\ Of[4] = include_inactive
      BY <3>1
    <3>. QED
      BY <3>1, <3>3, <3>4 DEF Asked
  <2>5. ASSUME NEW value \in Value, Ask("event", value) PROVE Asked
    <3>1. question[1] = "event" /\ Of = value
      BY <2>5, QuestionIs
    <3>. QED
      BY <3>1 DEF Asked
  <2>6. ASSUME NEW n \in 0 .. MaxLines, NEW lines \in [1 .. n -> Line], Ask("file", lines)
        PROVE  Asked
    <3>1. question[1] = "file" /\ Of = lines
      BY <2>6, QuestionIs
    <3>2. n \in Nat
      BY LinesAreCounted
    <3>3. lines \in Seq(Line)
      BY <3>2
    <3>. QED
      BY <3>1, <3>3 DEF Asked
  <2>. QED
    BY <2>1, <2>2, <2>3, <2>4, <2>5, <2>6, Zenon DEF Init, OrdinarySlugs
<1>2. Asked /\ Given /\ [Answer]_vars => Asked' /\ Given'
  <2>. SUFFICES ASSUME Asked, Given, [Answer]_vars PROVE Asked' /\ Given'
    OBVIOUS
  <2>1. question' = question
    BY DEF Answer, Say, vars
  <2>2. Asked'
    BY <2>1 DEF Asked, Of
  <2>3. CASE Say("group", GroupOf(Of))
    <3>1. question'[1] = "group" /\ Of' = Of /\ answer'[1] = GroupOf(Of)
      BY <2>1, <2>3, AnswerIs DEF Of
    <3>. QED
      BY <2>2, <3>1 DEF Given
  <2>4. CASE Say("groups", <<ansible_group_name(Of[1]), ansible_group_name(Of[2])>>)
    <3>1. /\ question'[1] = "groups" /\ Of' = Of
          /\ answer'[1] = <<ansible_group_name(Of[1]), ansible_group_name(Of[2])>>
      BY <2>1, <2>4, AnswerIs DEF Of
    <3>. QED
      BY <2>2, <3>1 DEF Given
  <2>5. CASE Say("inventory", build(Of[1], servers_for(Of[1], Of[2], Of[3], Of[4])))
    <3>1. /\ question'[1] = "inventory" /\ Of' = Of
          /\ answer'[1] = build(Of[1], servers_for(Of[1], Of[2], Of[3], Of[4]))
      BY <2>1, <2>5, AnswerIs DEF Of
    <3>. QED
      BY <2>2, <3>1 DEF Given
  <2>6. CASE Say("event", sanitize(Of, 0))
    <3>1. question'[1] = "event" /\ Of' = Of /\ answer'[1] = sanitize(Of, 0)
      BY <2>1, <2>6, AnswerIs DEF Of
    <3>. QED
      BY <2>2, <3>1 DEF Given
  <2>7. CASE Say("file", Parse(Of))
    <3>1. question'[1] = "file" /\ Of' = Of /\ answer'[1] = Parse(Of)
      BY <2>1, <2>7, AnswerIs DEF Of
    <3>. QED
      BY <2>2, <3>1 DEF Given
  <2>8. CASE UNCHANGED vars
    <3>1. answer' = answer
      BY <2>8 DEF vars
    <3>. QED
      BY <2>1, <2>2, <3>1 DEF Given, Of
  <2>. QED
    BY <2>3, <2>4, <2>5, <2>6, <2>7, <2>8 DEF Answer
<1>. QED
  BY <1>1, <1>2, PTL DEF Spec

LEMMA NamesAreSequences ==
  ASSUME NEW name \in Names
  PROVE  name \in Seq(Characters)
<1>1. PICK n \in 0 .. MaxLength : name \in [1 .. n -> Characters]
  BY DEF Names
<1>2. MaxLength \in Nat
  BY CharactersAreApart
<1>3. n \in Nat
  BY <1>2
<1>. QED
  <2>. HIDE DEF Characters
  <2>. QED
    BY <1>1, <1>3

\* Whatever people call a group, the inventory gives it a name Ansible accepts.
THEOREM NamesAreAlwaysAccepted == Spec => []NamesAreAccepted
<1>1. ASSUME Asked, Given PROVE NamesAreAccepted
  <2>. SUFFICES ASSUME Answered("group")
                PROVE  LET group == answer[1]
                       IN  /\ group # <<>> /\ group[1] \notin Digits
                           /\ \A i \in DOMAIN group : group[i] \in Letters \cup Digits \cup {"_"}
    BY DEF NamesAreAccepted
  <2>1. Of \in Names /\ answer[1] = GroupOf(Of)
    BY <1>1 DEF Asked, Given, Answered
  <2>2. Of \in Seq(Characters)
    BY <2>1, NamesAreSequences
  <2>3. PICK group : group = GroupOf(Of)
    OBVIOUS
  <2>4. group \in Seq(Accepted) /\ group # <<>> /\ group[1] \notin Digits
    <3>1. CASE Slug(Of) # <<>>
      <4>1. group = ansible_group_name(Slug(Of))
        BY <2>3, <3>1 DEF GroupOf
      <4>2. Slug(Of) \in Seq(SlugCharacters)
        BY <2>2, SlugIs
      <4>. QED
        BY <4>1, <4>2, GroupNameIs
    <3>2. CASE Slug(Of) = <<>>
      <4>1. group = ansible_group_name(Of)
        BY <2>3, <3>2 DEF GroupOf
      <4>. QED
        BY <4>1, <2>2, GroupNameIs
    <3>. QED
      BY <3>1, <3>2
  <2>5. \A i \in DOMAIN group : group[i] \in Accepted
    <3>. HIDE DEF Accepted
    <3>. QED
      BY <2>4
  <2>. QED
    BY <2>1, <2>3, <2>4, <2>5 DEF Accepted
<1>. QED
  BY <1>1, AnswersAreGiven, PTL

\* Different ordinary slugs make different groups.
THEOREM SlugsAlwaysStayApart == Spec => []SlugsStayApart
<1>1. ASSUME Asked, Given PROVE SlugsStayApart
  <2>. SUFFICES ASSUME Answered("groups"), answer[1][1] = answer[1][2] PROVE Of[1] = Of[2]
    BY DEF SlugsStayApart
  <2>1. /\ Of[1] \in OrdinarySlugs /\ Of[2] \in OrdinarySlugs
        /\ answer[1] = <<ansible_group_name(Of[1]), ansible_group_name(Of[2])>>
    BY <1>1 DEF Asked, Given, Answered
  <2>2. \A s \in OrdinarySlugs : Ordinary(s) /\ s \in Seq(SlugCharacters)
    BY NamesAreSequences, SlugIs DEF OrdinarySlugs
  <2>3. ansible_group_name(Of[1]) = ansible_group_name(Of[2])
    BY <2>1
  <2>. QED
    BY <2>1, <2>2, <2>3, OrdinaryApart
<1>. QED
  BY <1>1, AnswersAreGiven, PTL

\* The graph shows the servers that were asked for, each under its groups, its environment
\* and its client; and the group of an environment is the environment, and of a client the
\* client, when no group is called like one and slugs are ordinary.
THEOREM InventoryIsAlwaysThePlan == Spec => []InventoryIsThePlan
<1>1. ASSUME Asked, Given PROVE InventoryIsThePlan
  <2>. SUFFICES ASSUME Answered("inventory") PROVE InventoryIsThePlan
    BY DEF InventoryIsThePlan
  <2>1. PICK fleet \in Fleets, environment \in OneOrNone, client \in OneOrNone, all \in BOOLEAN :
           fleet = Of[1] /\ environment = Of[2] /\ client = Of[3] /\ all = Of[4]
    BY <1>1 DEF Asked, Answered
  <2> DEFINE asked == {s \in DOMAIN fleet : /\ ~fleet[s].active => Of[4]
                                            /\ Of[2] # {} => fleet[s].environment = Of[2]
                                            /\ Of[3] # {} => fleet[s].client = Of[3]}
             shown == graph(answer[1])
             Under(g) == IF g \in DOMAIN shown.groups THEN shown.groups[g] ELSE {}
             apart == \A s \in asked :
                         /\ \A g \in fleet[s].groups : ~Prefixed(GroupOf(g))
                         /\ \A slug \in fleet[s].environment \cup fleet[s].client : Ordinary(slug)
  <2>0. \A s \in DOMAIN fleet :
           /\ fleet[s] \in Server /\ fleet[s].active \in BOOLEAN
           /\ fleet[s].environment \in OneOrNone /\ fleet[s].client \in OneOrNone
    BY FleetsAreServers DEF Server
  <2>2. servers_for(fleet, environment, client, all) = asked
    <3>1. ASSUME NEW filter \in OneOrNone, NEW has \in OneOrNone
          PROVE  filter \subseteq has <=> (filter # {} => has = filter)
      BY DEF OneOrNone
    <3>2. ASSUME NEW s \in DOMAIN fleet
          PROVE  s \in servers_for(fleet, environment, client, all) <=> s \in asked
      <4>1. /\ environment \subseteq fleet[s].environment <=>
                  (environment # {} => fleet[s].environment = environment)
            /\ client \subseteq fleet[s].client <=> (client # {} => fleet[s].client = client)
        BY <2>0, <3>1
      <4>2. s \in servers_for(fleet, environment, client, all) <=>
               /\ fleet[s].active \/ all
               /\ environment \subseteq fleet[s].environment /\ client \subseteq fleet[s].client
        BY DEF servers_for
      <4>. QED
        BY <2>0, <2>1, <4>1, <4>2
    <3>. QED
      BY <3>2 DEF servers_for
  <2>3. shown = graph(build(fleet, asked))
    BY <1>1, <2>1, <2>2 DEF Given, Answered
  <2>4. \A s \in asked : fleet[s] \in Server
    BY <2>0
  <2>. HIDE DEF asked
  <2>5. /\ shown.ungrouped = {s \in asked : GroupsOf(fleet[s]) = {}}
        /\ DOMAIN shown.groups = UNION {GroupsOf(fleet[s]) : s \in asked}
        /\ \A g \in DOMAIN shown.groups :
              shown.groups[g] = {t \in asked : g \in GroupsOf(fleet[t])}
    <3>. HIDE DEF shown
    <3>. QED
      BY <2>3, GraphIs
  <2>. HIDE DEF shown
  <2>6. \A g \in DOMAIN shown.groups : shown.groups[g] \subseteq asked
    BY <2>5
  <2>7. ASSUME NEW s \in asked
        PROVE  {g \in DOMAIN shown.groups : s \in shown.groups[g]} =
                  {GroupOf(g) : g \in fleet[s].groups}
                      \cup {EnvironmentGroup(e) : e \in fleet[s].environment}
                      \cup {ClientGroup(c) : c \in fleet[s].client}
    <3>1. {g \in DOMAIN shown.groups : s \in shown.groups[g]} = GroupsOf(fleet[s])
      BY <2>5
    <3>. QED
      BY <3>1, Zenon DEF GroupsOf
  <2>8. shown.ungrouped = {s \in asked : fleet[s].groups \cup fleet[s].environment
                                            \cup fleet[s].client = {}}
    <3>1. ASSUME NEW s \in asked
          PROVE  GroupsOf(fleet[s]) = {} <=>
                    fleet[s].groups \cup fleet[s].environment \cup fleet[s].client = {}
      <4>1. PICK F, E, C : /\ F = fleet[s].groups /\ E = fleet[s].environment
                          /\ C = fleet[s].client
        OBVIOUS
      <4>2. GroupsOf(fleet[s]) = {GroupOf(g) : g \in F} \cup {EnvironmentGroup(e) : e \in E}
                                    \cup {ClientGroup(c) : c \in C}
        BY <4>1, Zenon DEF GroupsOf
      <4>3. GroupsOf(fleet[s]) = {} <=> F \cup E \cup C = {}
        BY <4>2
      <4>. QED
        BY <4>1, <4>3
    <3>. QED
      BY <2>5, <3>1
  <2>9. ASSUME apart, NEW s \in asked
        PROVE  /\ \A e \in fleet[s].environment :
                     Under(EnvironmentGroup(e)) = {t \in asked : fleet[t].environment = {e}}
               /\ \A c \in fleet[s].client :
                     Under(ClientGroup(c)) = {t \in asked : fleet[t].client = {c}}
    <3>1. ASSUME NEW g, \E t \in asked : g \in GroupsOf(fleet[t])
          PROVE  Under(g) = {t \in asked : g \in GroupsOf(fleet[t])}
      BY <2>5, <3>1
    <3>2. ASSUME NEW slug \in fleet[s].environment \cup fleet[s].client, NEW t \in asked
          PROVE  /\ EnvironmentGroup(slug) \in GroupsOf(fleet[t]) <=> fleet[t].environment = {slug}
                 /\ ClientGroup(slug) \in GroupsOf(fleet[t]) <=> fleet[t].client = {slug}
      <4>1. slug \in Seq(SlugCharacters) /\ Ordinary(slug)
        BY <2>4, <2>9 DEF Server, OneOrNone
      <4>2. /\ fleet[t] \in Server /\ \A g \in fleet[t].groups : ~Prefixed(GroupOf(g))
            /\ \A x \in fleet[t].environment \cup fleet[t].client : Ordinary(x)
        BY <2>4, <2>9
      <4>. QED
        BY <4>1, <4>2, MembersAre
    <3>3. ASSUME NEW e \in fleet[s].environment
          PROVE  Under(EnvironmentGroup(e)) = {t \in asked : fleet[t].environment = {e}}
      <4>1. EnvironmentGroup(e) \in GroupsOf(fleet[s])
        BY Zenon DEF GroupsOf
      <4>. HIDE DEF Under
      <4>. QED
        BY <3>1, <3>2, <4>1
    <3>4. ASSUME NEW c \in fleet[s].client
          PROVE  Under(ClientGroup(c)) = {t \in asked : fleet[t].client = {c}}
      <4>1. ClientGroup(c) \in GroupsOf(fleet[s])
        BY Zenon DEF GroupsOf
      <4>. HIDE DEF Under
      <4>. QED
        BY <3>1, <3>2, <4>1
    <3>. QED
      BY <3>3, <3>4
  <2>. QED
    BY <2>1, <2>6, <2>7, <2>8, <2>9 DEF InventoryIsThePlan, asked, shown
<1>. QED
  BY <1>1, AnswersAreGiven, PTL

\* Whatever an event says, what is saved of it is harmless, and stays as it is; and only
\* what a sensitive key names, or what is too deep, is lost.
THEOREM EventsAreAlwaysHarmless == Spec => []EventsAreHarmless
<1>1. ASSUME Asked, Given PROVE EventsAreHarmless
  <2>. SUFFICES ASSUME Answered("event")
                PROVE  /\ Harmless(answer[1])
                       /\ sanitize(answer[1], 0) = answer[1]
                       /\ OnlyRedacted(Of, answer[1])
    BY DEF EventsAreHarmless
  <2>1. PICK v \in Value : v = Of
    BY <1>1 DEF Asked, Answered
  <2>2. answer[1] = sanitize(v, 0)
    BY <1>1, <2>1 DEF Given, Answered
  <2>3. PICK clean : Cleans(clean) /\ \A u : sanitize(u, 0) = clean[0][u]
    BY SanitizeIs
  <2>4. answer[1] = clean[0][v] /\ sanitize(answer[1], 0) = clean[0][clean[0][v]]
    BY <2>2, <2>3
  <2>5. 0 \in 0 .. MAX_DEPTH + 1 /\ MaxDepth \in 0 .. MaxDepth
    BY DepthsAreNumbers
  <2>6. Harmless(clean[0][v])
    <3>1. Sensitive \subseteq Sensitive /\ v \in ValuesOf({})[MaxDepth]
      BY DEF Value
    <3>2. clean[0][v] \in ValuesOf(Sensitive)[MaxDepth]
      BY <2>3, <2>5, <3>1, LeftIs
    <3>. QED
      BY <3>2 DEF Harmless
  <2>7. clean[0][clean[0][v]] = clean[0][v]
    BY <2>3, <2>5, LeftStays
  <2>8. OnlyRedacted(v, clean[0][v])
    BY <2>3, LeftIsAlike
  <2>. QED
    BY <2>1, <2>4, <2>6, <2>7, <2>8
<1>. QED
  BY <1>1, AnswersAreGiven, PTL

\* Of every file, every Host line gives its block, with its directives and the title it
\* is under, and the blocks that are imported are those of the lines that are wanted.
THEOREM FilesAreAlwaysUnderstood == Spec => []FilesAreUnderstood
<1>1. ASSUME Asked, Given PROVE FilesAreUnderstood
  <2>. SUFFICES ASSUME Answered("file")
                PROVE  LET imported == Importable(answer[1])
                       IN  /\ DescribedBy(Of, answer[1])
                           /\ {imported[n] : n \in DOMAIN imported} =
                                 {answer[1][HostsUpTo(Of, i)] :
                                     i \in {k \in HostLines(Of) : IsWanted(Of, k)}}
    BY DEF FilesAreUnderstood
  <2>1. PICK lines \in Seq(Line) : lines = Of
    BY <1>1 DEF Asked, Answered
  <2>2. PICK blocks \in Seq(HostBlock) : blocks = Parse(lines)
    BY FilesAreParsed
  <2>3. answer[1] = blocks
    BY <1>1, <2>1, <2>2 DEF Given, Answered
  <2>4. DescribedBy(lines, blocks)
    BY <2>2, FilesAreDescribed
  <2>5. Elements(Importable(blocks)) =
            {blocks[HostsUpTo(lines, i)] : i \in {k \in HostLines(lines) : IsWanted(lines, k)}}
    BY <2>4, ImportedIs
  <2>. QED
    BY <2>1, <2>3, <2>4, <2>5 DEF Elements
<1>. QED
  BY <1>1, AnswersAreGiven, PTL
=============================================================================
