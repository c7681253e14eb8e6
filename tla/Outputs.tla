-------------------------------- MODULE Outputs --------------------------------
(***************************************************************************)
(* The functions of the platform, asked for one answer: what a group is    *)
(* called, who is in an inventory, what an event keeps, what a file says.  *)
(* Each question is an initial state, and the answer is the one step.      *)
(***************************************************************************)
EXTENDS Inventory, Sanitizer, SshConfig

CONSTANTS
    Fleets,     \* the fleets asked about
    MaxLines    \* bound on the files

ASSUME FleetsAreServers ==
    \A fleet \in Fleets : \A s \in DOMAIN fleet : fleet[s] \in Server
ASSUME LinesAreCounted == MaxLines \in Nat

VARIABLES
    question,   \* what is asked, and of what
    answer      \* <<>> until it is given

vars == <<question, answer>>

Ask(what, of) == question = <<what, of>>

Init ==
    /\ answer = <<>>
    /\ \/ \E name \in Names : Ask("group", name)
       \/ \E slug, other \in {s \in {Slug(name) : name \in Names} : Ordinary(s)} :
              Ask("groups", <<slug, other>>)
       \/ \E fleet \in Fleets :
          \E environment \in {{}} \cup {fleet[s].environment : s \in DOMAIN fleet},
             client \in {{}} \cup {fleet[s].client : s \in DOMAIN fleet},
             include_inactive \in BOOLEAN :
              Ask("inventory", <<fleet, environment, client, include_inactive>>)
       \/ \E value \in Value : Ask("event", value)
       \/ \E n \in 0 .. MaxLines : \E lines \in [1 .. n -> Line] : Ask("file", lines)

Of == question[2]

Say(what, result) ==
    question[1] = what /\ answer = <<>> /\ answer' = <<result>> /\ UNCHANGED question

Answer ==
    \/ Say("group", GroupOf(Of))
    \/ Say("groups", <<ansible_group_name(Of[1]), ansible_group_name(Of[2])>>)
    \/ Say("inventory", build(Of[1], servers_for(Of[1], Of[2], Of[3], Of[4])))
    \/ Say("event", sanitize(Of, 0))
    \/ Say("file", Parse(Of))

Spec == Init /\ [][Answer]_vars

----------------------------------------------------------------------------
(* Properties *)

Answered(what) == question[1] = what /\ answer # <<>>

\* Whatever people call a group, the inventory gives it a name Ansible accepts: not
\* empty, of letters, digits and underscores, and no digit first.
NamesAreAccepted ==
    Answered("group") =>
        LET group == answer[1]
        IN  /\ group # <<>> /\ group[1] \notin Digits
            /\ \A i \in DOMAIN group : group[i] \in Letters \cup Digits \cup {"_"}

\* Different slugs make different groups, ordinary ones, that is.
SlugsStayApart == Answered("groups") => (answer[1][1] = answer[1][2] => Of[1] = Of[2])

\* The graph shows the servers that were asked for and nobody else: each under its groups,
\* its environment and its client and under nothing more, and as ungrouped when it has none
\* of them.  And "`env_production` always means the environment", as `client_` does the
\* client: so they do when no group is called like one and slugs are ordinary.
InventoryIsThePlan ==
    Answered("inventory") =>
        LET fleet    == Of[1]
            asked    == {s \in DOMAIN fleet :
                            /\ ~fleet[s].active => Of[4]
                            /\ Of[2] # {} => fleet[s].environment = Of[2]
                            /\ Of[3] # {} => fleet[s].client = Of[3]}
            shown    == graph(answer[1])
            Under(g) == IF g \in DOMAIN shown.groups THEN shown.groups[g] ELSE {}
            apart    == \A s \in asked :
                            /\ \A g \in fleet[s].groups : ~Prefixed(GroupOf(g))
                            /\ \A slug \in fleet[s].environment \cup fleet[s].client : Ordinary(slug)
        IN  /\ \A g \in DOMAIN shown.groups : shown.groups[g] \subseteq asked
            /\ \A s \in asked : {g \in DOMAIN shown.groups : s \in shown.groups[g]} =
                  {GroupOf(g) : g \in fleet[s].groups}
                      \cup {EnvironmentGroup(e) : e \in fleet[s].environment}
                      \cup {ClientGroup(c) : c \in fleet[s].client}
            /\ shown.ungrouped = {s \in asked : fleet[s].groups \cup fleet[s].environment
                                                    \cup fleet[s].client = {}}
            /\ apart => \A s \in asked :
                  /\ \A e \in fleet[s].environment :
                        Under(EnvironmentGroup(e)) = {t \in asked : fleet[t].environment = {e}}
                  /\ \A c \in fleet[s].client :
                        Under(ClientGroup(c)) = {t \in asked : fleet[t].client = {c}}

\* Of every value, what an event keeps has nothing left of what a key with one of the
\* listed parts names; saving the event again changes nothing; and nothing else is lost.
EventsAreHarmless ==
    Answered("event") =>
        /\ Harmless(answer[1])
        /\ sanitize(answer[1], 0) = answer[1]
        /\ OnlyRedacted(Of, answer[1])

\* Every Host line gives its block, with its directives and the title it is under; and
\* the blocks that are imported are those of the lines that name no pattern and no host
\* that is skipped, by alias or by address, and no others.
FilesAreUnderstood ==
    Answered("file") =>
        LET imported == Importable(answer[1])
        IN  /\ DescribedBy(Of, answer[1])
            /\ {imported[n] : n \in DOMAIN imported} =
                  {answer[1][HostsUpTo(Of, i)] : i \in {k \in HostLines(Of) : IsWanted(Of, k)}}
=============================================================================
