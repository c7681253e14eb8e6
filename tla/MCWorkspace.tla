------------------------------ MODULE MCWorkspace ------------------------------
(***************************************************************************)
(* Instances of Workspace small enough for TLC.                            *)
(***************************************************************************)
EXTENDS Workspace, TLC

playbooks == <<"playbooks">>
roles     == <<"roles">>
file      == "x.yml"

\* Two folders of the layout, a file name that may be in either or at the top, and
\* room to move one folder into the other, or into itself.
MCPaths == {playbooks, roles, Append(playbooks, file), Append(roles, file),
            Append(playbooks, "roles"), playbooks \o roles \o <<file>>}
MCLayout == {playbooks, roles}

RequestSymmetry == Permutations(Requests)
=============================================================================
