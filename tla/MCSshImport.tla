----------------------------- MODULE MCSshImport -----------------------------
(***************************************************************************)
(* Instances of SshImport small enough for TLC.                            *)
(***************************************************************************)
EXTENDS SshImport, TLC

CONSTANTS host, forge, title, forced, environment, group

\* A host under a banner, and its name again for a git forge; and one that is in the
\* file twice, the second time under the banner.
Rule     == [is |-> "rule", says |-> Unset]
Banner   == <<Rule, [is |-> "comment", says |-> title], Rule>>
HostIs   == <<[is |-> "host", says |-> <<host, {}>>]>>
AtForge  == <<[is |-> "directive", says |-> <<HostName, forge>>]>>
MCFiles  == {Banner \o HostIs \o HostIs \o AtForge, HostIs \o Banner \o HostIs}

MCAliases    == {<<host, {}>>}
MCDirectives == {<<HostName, forge>>}

\* What may be asked: everything the file and the options say, for servers there are
\* too; a client for all; nothing but new servers; and what any of it would do.
Full == [client |-> Blank, environment |-> environment, groups |-> {group},
         sections |-> TRUE, update |-> TRUE, dry |-> FALSE]
MCChoices == {Full, [Full EXCEPT !.client = forced], [Full EXCEPT !.update = FALSE],
              [NoOptions EXCEPT !.sections = FALSE, !.dry = TRUE]}

ImportSymmetry == Permutations(Imports)
=============================================================================
