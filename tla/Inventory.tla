------------------------------- MODULE Inventory -------------------------------
(***************************************************************************)
(* The inventory as it is shown and downloaded: the names groups get in    *)
(* Ansible, and who is in them.                                            *)
(*                                                                         *)
(* A name is a sequence of characters.  The prefixes env_ and client_ are  *)
(* each a letter and an underscore here: a person may type them as well.   *)
(* A server is what the inventory asks of it: whether it is active, the    *)
(* slugs of its environment and its client, each a set of one or none, and *)
(* what its groups are called.  A slug may be empty: it is, when nothing   *)
(* is left of the name it is made of.                                      *)
(***************************************************************************)
EXTENDS Subsequence

CONSTANTS
    Letters,      \* among them "env" and "client", which stand for the prefixes
    Digits,
    Signs,        \* all other characters but underscore, hyphen and space
    MaxLength     \* bound on the names that are looked at

ASSUME CharactersAreApart ==
    /\ {"env", "client"} \subseteq Letters /\ "g" \in Letters
    /\ Letters \cap Digits = {} /\ (Letters \cup Digits) \cap Signs = {}
    /\ {"_", "-", " "} \cap (Letters \cup Digits \cup Signs) = {}
    /\ MaxLength \in Nat

Characters == Letters \cup Digits \cup Signs \cup {"_", "-", " "}
Names      == UNION {[1 .. n -> Characters] : n \in 0 .. MaxLength}

\* What a SlugField accepts.
SlugCharacters == Letters \cup Digits \cup {"_", "-"}

OneOrNone      == {slugs \in SUBSET Seq(SlugCharacters) : \A a, b \in slugs : a = b}

Server == [active : BOOLEAN, environment : OneOrNone, client : OneOrNone,
           groups : SUBSET Seq(Characters)]

\* str.strip(characters)
Strip(s, characters) ==
    LET kept == {i \in DOMAIN s : s[i] \notin characters}
        First == CHOOSE i \in kept : \A j \in kept : i <= j
        Last  == CHOOSE i \in kept : \A j \in kept : j <= i
    IN  IF kept = {} THEN <<>> ELSE SubSeq(s, First, Last)

Each(s, Becomes(_)) == [i \in DOMAIN s |-> Becomes(s[i])]

\* slugify: letters, digits and underscores stay, a run of spaces and hyphens becomes
\* one hyphen, and neither hyphens nor underscores are left at the ends.
Slug(name) ==
    LET words    == Only(name, Characters \ Signs)
        hyphened == Each(words, LAMBDA c : IF c = " " THEN "-" ELSE c)
        pairs    == [i \in DOMAIN hyphened |->
                        <<hyphened[i], i > 1 /\ hyphened[i] = "-" /\ hyphened[i - 1] = "-">>]
        single   == Each(Only(pairs, Characters \X {FALSE}), LAMBDA p : p[1])
    IN  Strip(single, {"-", "_"})

Underscored(c) == IF c \in Letters \cup Digits \cup {"_"} THEN c ELSE "_"

\* Mutant: a digit may come first.
UnprefixedName(value) == Strip(Each(Strip(value, {" "}), Underscored), {"_"})

\* Mutant: what is not accepted is left out.
CondensedName(value) ==
    LET name == Only(value, Letters \cup Digits \cup {"_"})
    IN  IF name = <<>> \/ name[1] \in Digits THEN <<"g", "_">> \o name ELSE name

ansible_group_name(value) ==
    LET name == Strip(Each(Strip(value, {" "}), Underscored), {"_"})
    IN  IF name = <<>> \/ name[1] \in Digits THEN <<"g", "_">> \o name ELSE name

EnvironmentGroup(slug) == <<"env", "_">> \o ansible_group_name(slug)
ClientGroup(slug)      == <<"client", "_">> \o ansible_group_name(slug)

\* A group whose name leaves nothing of a slug goes by its name.
GroupOf(name) == ansible_group_name(IF Slug(name) # <<>> THEN Slug(name) ELSE name)

\* Mutant: a server of an environment is not shown under its client.
GroupsOrClient(server) ==
    {GroupOf(g) : g \in server.groups}
        \cup (IF server.environment # {} THEN {EnvironmentGroup(e) : e \in server.environment}
                                         ELSE {ClientGroup(c) : c \in server.client})

\* The groups of the inventory a server is in.
GroupsOf(server) ==
    {GroupOf(g) : g \in server.groups}
        \cup {EnvironmentGroup(e) : e \in server.environment}
        \cup {ClientGroup(c) : c \in server.client}

\* servers_for: a filter is a slug, or {}, which filters nothing.
servers_for(fleet, environment, client, include_inactive) ==
    {s \in DOMAIN fleet :
        /\ fleet[s].active \/ include_inactive
        /\ environment \subseteq fleet[s].environment
        /\ client \subseteq fleet[s].client}

build(fleet, selected) ==
    [hosts    |-> selected,
     children |-> [g \in UNION {GroupsOf(fleet[s]) : s \in selected} |->
                      {s \in selected : g \in GroupsOf(fleet[s])}]]

\* graph: who is shown under which group, and who under @ungrouped.
graph(inventory) ==
    [groups    |-> inventory.children,
     ungrouped |-> inventory.hosts
                       \ UNION {inventory.children[g] : g \in DOMAIN inventory.children}]

Prefixed(name) == Len(name) > 1 /\ name[1] \in {"env", "client"} /\ name[2] = "_"

\* Slugs are unique in the database; they make different groups as long as they begin
\* with a letter, have no underscore and end with no hyphen.  "1a" and "g-1a" do not, nor
\* do "a-b" and "a_b", nor "a" and an "a-" somebody typed.
Ordinary(slug) ==
    /\ slug # <<>> /\ slug[1] \in Letters /\ slug[Len(slug)] # "-"
    /\ \A i \in DOMAIN slug : slug[i] # "_"
=============================================================================
