------------------------------- MODULE SshConfig -------------------------------
(***************************************************************************)
(* What is read from an OpenSSH client configuration: its Host blocks,     *)
(* each with the directives below it and the banner it stands under.       *)
(*                                                                         *)
(* A file is a sequence of lines, and a line is what kind of line it is    *)
(* and what it says.  A comment is a rule of nothing but rule characters,  *)
(* a title marked on a rule, or any other, which may be a title between    *)
(* two rules.  A title stands for the name of a client it becomes, and a   *)
(* directive that has no number where one is needed for one that is not    *)
(* understood.  Whether a pattern occurs in an alias or an address is all  *)
(* that is kept of them; a pattern that spans several is left out.         *)
(***************************************************************************)
EXTENDS Subsequence, FiniteSets

CONSTANTS
    Hosts,      \* aliases
    Wildcards,  \* those with a * or a ?
    Skipped,    \* aliases and addresses in which a pattern of --skip or DEFAULT_SKIP occurs
    Titles,     \* what banners say
    Keywords,   \* _INTERESTING, the directives that are understood
    HostName,   \* the one that says the address
    Other,      \* any other directive
    Values,     \* what directives say
    Unset,      \* no title, no value
    Aliases,    \* Host lines there may be: a first alias, and the others
    Directives  \* directives there may be that are understood; "HostName =" says Unset

ASSUME WildcardsAreHosts == Wildcards \subseteq Hosts /\ Skipped \subseteq Hosts \cup Values
ASSUME OtherIsIgnored    == Other \notin Keywords /\ HostName \in Keywords
ASSUME UnsetIsNothing    == Unset \notin Titles \cup Values \cup Hosts
ASSUME LinesSaySomething ==
    /\ Aliases \subseteq Hosts \X SUBSET Hosts
    /\ Directives \subseteq Keywords \X (Values \cup {Unset})

Line ==
    [is : {"blank", "rule"}, says : {Unset}]
        \cup [is : {"comment", "marked"}, says : Titles]
        \cup [is : {"host"}, says : Aliases]
        \cup [is : {"directive"}, says : Directives \cup {<<Other, Unset>>}]

\* The line next to line i that is not empty, in the direction of step.
Above(lines, i) == {j \in 1 .. i - 1 : lines[j].is # "blank"}
Below(lines, i) == {j \in i + 1 .. Len(lines) : lines[j].is # "blank"}

RuleAbove(lines, i) ==
    \E j \in Above(lines, i) : lines[j].is = "rule" /\ \A k \in Above(lines, i) : k <= j
RuleBelow(lines, i) ==
    \E j \in Below(lines, i) : lines[j].is = "rule" /\ \A k \in Below(lines, i) : j <= k

\* _banner_title
IsBanner(lines, i) ==
    \/ lines[i].is = "marked"
    \/ lines[i].is = "comment" /\ RuleAbove(lines, i) /\ RuleBelow(lines, i)

HostBlock == [name : Hosts, others : SUBSET Hosts, section : Titles \cup {Unset},
              set : [Keywords -> Values \cup {Unset}]]

Block(aliases, title) ==
    [name |-> aliases[1], others |-> aliases[2], section |-> title,
     set |-> [k \in Keywords |-> Unset]]

\* Mutant: a directive is taken once, as ssh does.
ReadLineOnce(read, lines, i) ==
    LET line == lines[i]
        last == Len(read.blocks)
    IN  CASE line.is = "host" ->
                [read EXCEPT !.blocks = Append(@, Block(line.says, read.section))]
          [] line.is = "directive" /\ line.says[1] \in Keywords /\ last > 0 ->
                [read EXCEPT !.blocks[last].set[line.says[1]] =
                    IF @ = Unset THEN line.says[2] ELSE @]
          [] IsBanner(lines, i) -> [read EXCEPT !.section = line.says]
          [] OTHER -> read

\* One line after what has been read: the blocks so far, and the title they are under.
ReadLine(read, lines, i) ==
    LET line == lines[i]
        last == Len(read.blocks)
    IN  CASE line.is = "host" ->
                [read EXCEPT !.blocks = Append(@, Block(line.says, read.section))]
          [] line.is = "directive" /\ line.says[1] \in Keywords /\ last > 0 ->
                [read EXCEPT !.blocks[last].set[line.says[1]] = line.says[2]]
          [] IsBanner(lines, i) -> [read EXCEPT !.section = line.says]
          [] OTHER -> read

\* What has been read after each line.
Reading(lines) ==
    LET read[i \in 0 .. Len(lines)] ==
            IF i = 0 THEN [blocks |-> <<>>, section |-> Unset]
            ELSE ReadLine(read[i - 1], lines, i)
    IN  read

\* parse
Parse(lines) == Reading(lines)[Len(lines)].blocks

is_wildcard(block) == ({block.name} \cup block.others) \cap Wildcards # {}

\* importable.  Every block reaches a host: its name will do.
Importable(blocks) ==
    Only(blocks, {b \in HostBlock :
                     /\ ~is_wildcard(b)
                     /\ ({b.name, b.set[HostName]} \cup b.others) \cap Skipped = {}})

----------------------------------------------------------------------------
(* What the file says, without reading it in order *)

FirstOf(S) == CHOOSE i \in S : \A j \in S : i <= j
LastOf(S)  == CHOOSE i \in S : \A j \in S : j <= i

HostLines(lines) == {i \in 1 .. Len(lines) : lines[i].is = "host"}
HostsUpTo(lines, i) == Cardinality({k \in HostLines(lines) : k <= i})

\* The title a line stands under is the one of the last banner above it.
TitleOver(lines, i) ==
    LET banners == {j \in 1 .. i - 1 : IsBanner(lines, j)}
    IN  IF banners = {} THEN Unset ELSE lines[LastOf(banners)].says

\* The directives of a block are those between its Host line and the next.
Said(lines, i, keyword) ==
    LET below == {j \in i + 1 .. Len(lines) :
                     /\ lines[j].is = "directive" /\ lines[j].says[1] = keyword
                     /\ ~\E k \in HostLines(lines) : i < k /\ k < j}
    IN  IF below = {} THEN Unset ELSE lines[LastOf(below)].says[2]

\* Every Host line gives one block, in the order of the file, with its title and its
\* directives.
DescribedBy(lines, blocks) ==
    /\ Len(blocks) = HostsUpTo(lines, Len(lines))
    /\ \A i \in HostLines(lines) :
          LET block == blocks[HostsUpTo(lines, i)]
          IN  /\ <<block.name, block.others>> = lines[i].says
              /\ block.section = TitleOver(lines, i)
              /\ \A k \in Keywords : block.set[k] = Said(lines, i, k)

\* A Host line that names no pattern and nothing that is skipped, and with an address
\* that is not skipped.
IsWanted(lines, i) ==
    /\ ({lines[i].says[1]} \cup lines[i].says[2]) \cap (Wildcards \cup Skipped) = {}
    /\ Said(lines, i, HostName) \notin Skipped
=============================================================================
